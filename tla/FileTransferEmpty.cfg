SPECIFICATION FairSpec
CONSTANTS
  Sizes = {0}
  Shared = {TRUE}
  MaxChunk = 2
  SizeField = 8
  IndexField = 4
PROPERTY DownloadEnds
CHECK_DEADLOCK FALSE
