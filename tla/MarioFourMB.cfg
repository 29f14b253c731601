SPECIFICATION SpecX
CONSTANTS
  Sizes = {1, 2, 3, 4, 5}
  Shared = {TRUE}
  MaxChunk = 2
  SizeField = 8
  IndexField = 4
  Whole = 2
  Limit = 3
INVARIANT WholeUpToTheLimit
CHECK_DEADLOCK FALSE
