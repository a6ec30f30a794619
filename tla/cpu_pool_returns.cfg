SPECIFICATION FairSpec
CONSTANTS
  Threads = {t1, t2}
  NumNodes = 1
  NumBlocks = 2
  PageSize = 2
  SizeMod = 8
  Sizes = {0, 2, 3}
PROPERTIES
  CallsReturn
