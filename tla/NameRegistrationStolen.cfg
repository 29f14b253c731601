SPECIFICATION Spec
CONSTANTS
  n1 = n1
  n2 = n2
  a = a
  b = b
  NoId = NoId
  Nodes = {n1, n2}
  Ids = {a, b}
  MaxMailbox = 2
  Networks <- Talkative
PROPERTY KnownNameIsRefused
