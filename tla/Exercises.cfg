SPECIFICATION SpecE
CONSTANTS
  Filosofos = 3
  Chairs = 2
  Size = 2
  Each = 2
  MaxCell = 4
  Personas = 2
INVARIANTS WithinBounds Exclusion NobodyIsLost OnlyTheseStop
PROPERTIES WorkGoesOn
CHECK_DEADLOCK FALSE
