SPECIFICATION SpecC
CONSTANTS
  Sizes = {0, 1, 2, 3, 4, 5, 6, 8, 9}
  Shared = {TRUE, FALSE}
  MaxChunk = 2
  SizeField = 8
  IndexField = 4
  Whole = 2
  Limit = 3
  a = a
  b = b
  p = p
  NoAddr = NoAddr
  Ids = {a, b}
  Addrs = {p}
  MaxCalls = 2
  MaxCommands = 3
  c1 = c1
  c2 = c2
  Clients = {c1, c2}
  MaxRequests = 2
  u1 = u1
  u2 = u2
  Users = {u1, u2}
  t1 = t1
  t2 = t2
  Servers = {t1, t2}
  k1 = k1
  k2 = k2
  Keys = {k1, k2}
  MaxLines = 3
  n1 = n1
  n2 = n2
  Nodes = {n1, n2}
  MaxMatches = 2
  MaxSearches = 2
INVARIANTS WhatIsSaved NoNumberTwice FindsWhatIsStored SearchShowsWhatIsShared
PROPERTIES EveryDownloadEnds EveryTimeoutDelaysAnswers HeardIsListedAgain EveryRequestIsAnswered
CHECK_DEADLOCK FALSE
