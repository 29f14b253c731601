SPECIFICATION SpecY
CONSTANTS
  r1 = r1
  r2 = r2
  w1 = w1
  w2 = w2
  Readers = {r1, r2}
  Writers = {w1, w2}
  t1 = t1
  t2 = t2
  t3 = t3
  Nobody = Nobody
  Parties = {t1, t2, t3}
  Rounds = 3
  s1 = s1
  s2 = s2
  s3 = s3
  reader1 = reader1
  reader2 = reader2
  reader3 = reader3
  Senders = {s1, s2, s3}
  Receivers = {reader1, reader2, reader3}
  MaxWrites = 5
INVARIANTS EntersInOrder NobodyLeavesEarly ReadsFollowWrites
PROPERTIES ImplementsRWLock EveryoneGetsIn ReleaseEndsEmpty ImplementsBarrier AllRoundsEnd WritesAreRead
CHECK_DEADLOCK FALSE
