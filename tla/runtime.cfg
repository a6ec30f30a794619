\* Images up to two work groups wide and high; size_t counts modulo 8, so that
\* sizes 6 and 7 wrap when the extra page is added.
SPECIFICATION RuntimeSpec
CONSTANTS
  NumNodes = 1
  NumBlocks = 3
  GroupSize = 2
  Objects = {o1, o2, o3, o4, o5}
  None = None
  Garbage = Garbage
  Zeroed = TRUE
  MaxDevices = 2
  SourcePages = {1, 2}
  Sides = {1, 2, 3, 4}
  DeinitAlways = FALSE
  PageSize = 2
  SizeMod = 8
  SpacePages = 3
SYMMETRY HandleSymmetry
INVARIANTS
  RuntimeTypeOK
  PicksBest
  NothingDangles
  ConvertsLikeManual
  ConvertsEachOnce
  ReadsInPlanes
  DestroysInsideOut
  AllOrNothing
  BackedUnlessWrapped
  MappedIsOwned
PROPERTIES
  LeavesNothing
