SPECIFICATION Spec
CONSTANTS
  Threads = {t1}
  NumNodes = 1
  NumBlocks = 5
  PageSize = 2
  SizeMod = 16
  Sizes = {0, 2, 3, 6, 15}
INVARIANTS
  FirstFit
  CountsBracketed
