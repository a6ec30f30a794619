\* Widths count modulo 8: size 4 fits, 8 is cut off to no width at all and 9 to 1.
SPECIFICATION Spec
CONSTANTS
  Threads = {t1, t2, t3}
  Addrs = {a1, a2, a3, a4}
  Handles = {h1, h2, h3, h4}
  NoHandle = NoHandle
  NoAddr = NoAddr
  Sizes = {4, 8, 9}
  WidthMod = 8
SYMMETRY KernelSymmetry
INVARIANTS
  TypeOK
  OwnedBacked
  AtRest
  LongEnoughUnlessCut
PROPERTIES
  OwnedStable
