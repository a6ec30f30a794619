SPECIFICATION Spec
CONSTANTS
  Size = 3
  Items = {a, b, c}
  Blank = Blank
  ProgramOrder = TRUE
INVARIANTS
  TypeOK
  SlotExclusive
  PopsWhole
PROPERTIES
  IsFifo
