SPECIFICATION Spec
CONSTANTS
  Threads = {t1, t2}
  NumNodes = 1
  NumBlocks = 3
  PageSize = 2
  SizeMod = 8
  Sizes = {2, 3, 7}
SYMMETRY ThreadSymmetry
INVARIANTS
  TypeOK
  Ownership
PROPERTIES
  PagesStayLost
  LossesAccounted
  KeepsPromise
