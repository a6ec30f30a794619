SPECIFICATION Spec
CONSTANTS
  Size = 3
  Items = {a, b, c}
  Blank = Blank
  ProgramOrder = FALSE
INVARIANTS
  PopsWhole
