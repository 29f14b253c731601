SPECIFICATION FairSpec
CONSTANTS
  n1 = n1
  n2 = n2
  a = a
  b = b
  NoId = NoId
  Nodes = {n1, n2}
  Ids = {a, b}
  MaxMailbox = 2
  Networks <- HarshAndGentle
INVARIANTS TypeOK UniqueIdsWithCare RefusalIsJustified KnownNamesAreOwned AnswerIsComing
PROPERTY RequestsAreFinished
