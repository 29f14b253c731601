SPECIFICATION SpecO
CONSTANTS
  n1 = n1
  n2 = n2
  n3 = n3
  a = a
  b = b
  NoName = NoName
  Peers = {n1, n2, n3}
  Names = {a, b}
  Witnesses = {n1}
  MaxInbox = 1
  MaxRefusals = 2
  NotNamed = NotNamed
  MNodes = {n1, n2}
  MNames = {a, b}
  MaxMail = 2
  Others = {n1, n2}
  HelloEvery = 2
  CleanEvery = 5
  MaxAge = 5
  MaxLosses = 3
  p1 = p1
  p2 = p2
  p3 = p3
  Pids = {p1, p2, p3}
  NoPid = NoPid
  Keys = {n1, n2, n3}
  Own = n3
  MaxQueue = 3
INVARIANT ConfirmedNameWasNotRefused
CHECK_DEADLOCK FALSE
