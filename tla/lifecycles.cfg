\* Pools on two nodes and two rings, every allocation may fail, and five addresses:
\* as many as the pools need.  A MiB is 2 pages and the bytes of 5 pages wrap: pools
\* of 1 MiB fit, pools of 3 MiB get 1 page.  ring->size counts modulo 4 and the
\* bytes of an array modulo 8 elements: a ring of 1 fits, one of 5 has 1 slot in
\* arrays of 5, one of 12 has no slot in arrays of 4.
SPECIFICATION Spec
CONSTANTS
  PoolCount = 2
  PoolSizes = {1, 3}
  MiB = 2
  PageMod = 5
  Rings = {r1, r2}
  RingSizes = {1, 5, 12}
  SizeMod = 4
  LongMod = 8
  Addrs = {a1, a2, a3, a4, a5}
  Null = Null
  Faults = {"pools", "buf", "blocks", "tasks", "data"}
SYMMETRY Symmetry
INVARIANTS
  TypeOK
  ReadyIsBacked
  OnlyTooLargeLeaks
  FreesLive
