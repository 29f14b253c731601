-------------------------- MODULE RWLockWriteProofs --------------------------
(* rw_lock_write.c is a readers-writer lock and loses no wakeup, for any       *)
(* finite number of lectores and escritores.                                   *)
EXTENDS RWLockWrite, Lemmas

\* A writer that writes is alone inside.
Alone == \A t \in Writers : pc[t] = "writing" =>
  \A u \in Threads : u # t => pc[u] \notin {"reading", "writing"}

LockInv == TypeOK /\ CountersAreExact /\ Alone

-----------------------------------------------------------------------------
\* The counters again, in the words of Lemmas.
LEMMA Counters ==
  /\ CountersAreExact <=>
       /\ active_readers = Count(Readers, pc, "reading")
       /\ waiting_writers = Count(Writers, pc, "waiting")
       /\ is_writing = 1 <=> \E t \in Writers : pc[t] = "writing"
  /\ CountersAreExact' <=>
       /\ active_readers' = Count(Readers, pc', "reading")
       /\ waiting_writers' = Count(Writers, pc', "waiting")
       /\ is_writing' = 1 <=> \E t \in Writers : pc'[t] = "writing"
BY DEF CountersAreExact, Count

LEMMA InitLockInv == Init => LockInv
<1> SUFFICES ASSUME Init PROVE LockInv
  OBVIOUS
<1>1. \A t \in Threads : pc[t] = "out"
  BY DEF Init
<1>2. Count(Readers, pc, "reading") = 0 /\ Count(Writers, pc, "waiting") = 0
  BY <1>1, CountIsNat, ThreadsAssumption DEF Threads
<1>3. TypeOK
  BY DEF Init, TypeOK, Threads
<1>4. CountersAreExact
  BY <1>1, <1>2, Counters DEF Init, Threads
<1>5. Alone
  BY <1>1 DEF Alone, Threads
<1> QED BY <1>3, <1>4, <1>5 DEF LockInv

LEMMA RdLockKeepsLockInv ==
  ASSUME LockInv, NEW t \in Readers, RdLock(t)
  PROVE  LockInv'
<1> USE ThreadsAssumption
<1>1. /\ pc \in [Threads -> {"out", "waiting", "reading", "writing"}]
      /\ t \in Threads /\ t \notin Writers
      /\ pc[t] \in {"out", "waiting"}
      /\ active_readers \in Nat
  BY DEF LockInv, TypeOK, Threads, RdLock, Running
<1>2. /\ \A u \in Threads : u # t => pc'[u] = pc[u]
      /\ \/ pc'[t] = "waiting" /\ active_readers' = active_readers
         \/ pc'[t] = "reading" /\ active_readers' = active_readers + 1 /\ ~ReaderMustWait
  BY <1>1 DEF RdLock, Sleep, Enter
<1>3. TypeOK'
  BY <1>1 DEF LockInv, TypeOK, RdLock, Sleep, Enter, Threads
<1>4. Count(Writers, pc', "waiting") = Count(Writers, pc, "waiting")
  BY <1>1, <1>2, CountWithoutMove DEF Threads
<1>5. Count(Readers, pc', "reading")
        = Count(Readers, pc, "reading") + One(pc'[t] = "reading") - One(pc[t] = "reading")
  <2>1. OnlyMoves(t, Readers, pc, pc')
    BY <1>2 DEF OnlyMoves, Threads
  <2> QED BY <2>1, CountAfterMove
<1>6. Count(Readers, pc', "reading") = active_readers'
  <2>1. active_readers = Count(Readers, pc, "reading")
    BY Counters DEF LockInv
  <2> QED BY <1>1, <1>2, <1>5, <2>1 DEF One
<1>7. CountersAreExact'
  <2>1. \A u \in Writers : pc'[u] = "writing" <=> pc[u] = "writing"
    BY <1>1, <1>2 DEF Threads
  <2>2. is_writing' = is_writing /\ waiting_writers' = waiting_writers
    BY DEF RdLock
  <2> QED BY <1>4, <1>6, <2>1, <2>2, Counters DEF LockInv
<1>8. ~ReaderMustWait => \A u \in Writers : pc[u] # "writing"
  BY Counters DEF LockInv, TypeOK, ReaderMustWait
<1>9. Alone'
  BY <1>1, <1>2, <1>8 DEF LockInv, Alone, Threads
<1> QED BY <1>3, <1>7, <1>9 DEF LockInv

LEMMA WrLockKeepsLockInv ==
  ASSUME LockInv, NEW t \in Writers, WrLock(t)
  PROVE  LockInv'
<1> USE ThreadsAssumption
<1>1. /\ pc \in [Threads -> {"out", "waiting", "reading", "writing"}]
      /\ t \in Threads /\ t \notin Readers
      /\ pc[t] \in {"out", "waiting"}
      /\ waiting_writers \in Nat
  BY DEF LockInv, TypeOK, Threads, WrLock, Running
<1>2. /\ \A u \in Threads : u # t => pc'[u] = pc[u]
      /\ pc'[t] \in {"waiting", "writing"}
      /\ pc' \in [Threads -> {"out", "waiting", "reading", "writing"}]
      /\ asleep' \subseteq asleep \cup {t}
      /\ t \in asleep' => pc'[t] = "waiting"
  BY <1>1 DEF WrLock, Sleep, Enter
<1>3. /\ pc'[t] = "waiting" => is_writing' = is_writing
      /\ pc'[t] = "writing" => is_writing' = 1 /\ ~WriterMustWait
      /\ active_readers' = active_readers
      /\ waiting_writers' = (IF pc[t] = "out" THEN waiting_writers ELSE waiting_writers - 1)
                              + (IF pc'[t] = "waiting" THEN 1 ELSE 0)
  BY <1>1 DEF WrLock, Sleep, Enter
<1>4. Count(Readers, pc', "reading") = Count(Readers, pc, "reading")
  BY <1>1, <1>2, CountWithoutMove DEF Threads
<1>5. Count(Writers, pc', "waiting")
        = Count(Writers, pc, "waiting") + One(pc'[t] = "waiting") - One(pc[t] = "waiting")
  <2>1. OnlyMoves(t, Writers, pc, pc')
    BY <1>2 DEF OnlyMoves, Threads
  <2> QED BY <2>1, CountAfterMove
<1>6. Count(Writers, pc, "waiting") = waiting_writers
  BY Counters DEF LockInv
<1>7. Count(Writers, pc', "waiting") = waiting_writers'
  BY <1>1, <1>3, <1>5, <1>6 DEF One
<1>8. waiting_writers' \in Nat
  BY <1>7, CountIsNat
<1>9. ~WriterMustWait => \A u \in Threads : pc[u] \notin {"reading", "writing"}
  <2> SUFFICES ASSUME ~WriterMustWait PROVE \A u \in Threads : pc[u] \notin {"reading", "writing"}
    OBVIOUS
  <2>1. active_readers = 0 /\ is_writing = 0
    BY DEF LockInv, TypeOK, WriterMustWait
  <2>2. \A u \in Readers : pc[u] # "reading"
    BY <2>1, Counters, CountIsNat DEF LockInv
  <2>3. \A u \in Writers : pc[u] # "writing"
    BY <2>1, Counters DEF LockInv
  <2> QED BY <2>2, <2>3 DEF LockInv, TypeOK, Threads
<1>10. TypeOK'
  BY <1>1, <1>2, <1>3, <1>8 DEF LockInv, TypeOK, Threads
<1>11. is_writing' = 1 <=> \E u \in Writers : pc'[u] = "writing"
  <2>1. CASE pc'[t] = "waiting"
    BY <2>1, <1>1, <1>2, <1>3, Counters DEF LockInv, Threads
  <2>2. CASE pc'[t] = "writing"
    BY <2>2, <1>3
  <2> QED BY <1>2, <2>1, <2>2
<1>12. active_readers' = Count(Readers, pc', "reading")
  BY <1>3, <1>4, Counters DEF LockInv
<1>13. CountersAreExact'
  BY <1>7, <1>11, <1>12, Counters
<1>14. Alone'
  BY <1>1, <1>2, <1>3, <1>9 DEF LockInv, Alone, Threads
<1> QED BY <1>10, <1>13, <1>14 DEF LockInv

LEMMA UnlockKeepsLockInv ==
  ASSUME LockInv, NEW t \in Threads, Unlock(t)
  PROVE  LockInv'
<1> USE ThreadsAssumption
<1>1. /\ pc \in [Threads -> {"out", "waiting", "reading", "writing"}]
      /\ pc[t] \in {"reading", "writing"}
      /\ active_readers \in Nat /\ is_writing \in {0, 1}
      /\ pc' = [pc EXCEPT ![t] = "out"]
      /\ waiting_writers' = waiting_writers
  BY DEF LockInv, TypeOK, Unlock
<1>2. /\ \A u \in Threads : u # t => pc'[u] = pc[u]
      /\ pc'[t] = "out"
      /\ asleep' \subseteq asleep
  BY <1>1 DEF Unlock
<1>3. /\ active_readers = Count(Readers, pc, "reading")
      /\ waiting_writers = Count(Writers, pc, "waiting")
      /\ is_writing = 1 <=> \E u \in Writers : pc[u] = "writing"
  BY Counters DEF LockInv
<1>4. Alone'
  BY <1>1, <1>2 DEF LockInv, Alone, Threads
<1>5. Count(Writers, pc', "waiting") = Count(Writers, pc, "waiting")
  <2>1. CASE t \in Writers
    <3>1. Count(Writers, pc', "waiting")
            = Count(Writers, pc, "waiting") + One(pc'[t] = "waiting") - One(pc[t] = "waiting")
      <4>1. OnlyMoves(t, Writers, pc, pc')
        BY <1>2 DEF OnlyMoves, Threads
      <4> QED BY <2>1, <4>1, CountAfterMove
    <3>2. Count(Writers, pc, "waiting") \in Nat
      BY CountIsNat
    <3> QED BY <3>1, <3>2, <1>1, <1>2 DEF One
  <2>2. CASE t \notin Writers
    BY <2>2, <1>2, CountWithoutMove DEF Threads
  <2> QED BY <2>1, <2>2
<1>6. CASE pc[t] = "reading"
  <2>1. t \in Readers
    BY <1>6 DEF LockInv, TypeOK, Threads
  <2>2. Count(Readers, pc', "reading")
          = Count(Readers, pc, "reading") + One(pc'[t] = "reading") - One(pc[t] = "reading")
    <3>1. OnlyMoves(t, Readers, pc, pc')
      BY <1>2 DEF OnlyMoves, Threads
    <3> QED BY <2>1, <3>1, CountAfterMove
  <2>3. Count(Readers, pc', "reading") = active_readers - 1
    BY <1>1, <1>2, <1>3, <1>6, <2>2 DEF One
  <2>4. Count(Readers, pc', "reading") \in Nat
    BY CountIsNat
  <2>5. active_readers > 0
    BY <1>1, <2>3, <2>4
  <2>6. active_readers' = active_readers - 1 /\ is_writing' = is_writing
    BY <2>5 DEF Unlock
  <2>7. TypeOK'
    BY <1>1, <1>2, <2>3, <2>4, <2>6 DEF LockInv, TypeOK, Threads
  <2>8. \A u \in Writers : pc'[u] = "writing" <=> pc[u] = "writing"
    BY <1>2, <2>1 DEF Threads
  <2>9. CountersAreExact'
    BY <1>1, <1>3, <1>5, <2>3, <2>6, <2>8, Counters
  <2> QED BY <1>4, <2>7, <2>9 DEF LockInv
<1>7. CASE pc[t] = "writing"
  <2>1. t \in Writers
    BY <1>7 DEF LockInv, TypeOK, Threads
  <2>2. \A u \in Threads : u # t => pc[u] \notin {"reading", "writing"}
    BY <1>7, <2>1 DEF LockInv, Alone
  <2>3. \A u \in Readers : pc[u] # "reading" /\ pc'[u] # "reading"
    BY <1>2, <2>1, <2>2 DEF Threads
  <2>4. Count(Readers, pc, "reading") = 0 /\ Count(Readers, pc', "reading") = 0
    BY <2>3, CountIsNat
  <2>5. active_readers' = 0 /\ is_writing' = 0
    BY <1>3, <2>4 DEF Unlock
  <2>6. \A u \in Writers : pc'[u] # "writing"
    BY <1>2, <2>2 DEF Threads
  <2>7. TypeOK'
    BY <1>1, <1>2, <2>5 DEF LockInv, TypeOK, Threads
  <2>8. CountersAreExact'
    BY <1>1, <1>3, <1>5, <2>4, <2>5, <2>6, Counters
  <2> QED BY <1>4, <2>7, <2>8 DEF LockInv
<1> QED BY <1>1, <1>6, <1>7

LEMMA StepKeepsLockInv == LockInv /\ [Next]_vars => LockInv'
<1> SUFFICES ASSUME LockInv, [Next]_vars PROVE LockInv'
  OBVIOUS
<1>1. ASSUME NEW t \in Readers, RdLock(t) PROVE LockInv'
  BY <1>1, RdLockKeepsLockInv
<1>2. ASSUME NEW t \in Writers, WrLock(t) PROVE LockInv'
  BY <1>2, WrLockKeepsLockInv
<1>3. ASSUME NEW t \in Threads, Unlock(t) PROVE LockInv'
  BY <1>3, UnlockKeepsLockInv
<1>4. ASSUME NEW t \in Threads, SpuriousWakeup(t) PROVE LockInv'
  BY <1>4 DEF SpuriousWakeup, LockInv, TypeOK, CountersAreExact, Alone
<1>5. CASE UNCHANGED vars
  BY <1>5 DEF vars, LockInv, TypeOK, CountersAreExact, Alone
<1> QED BY <1>1, <1>2, <1>3, <1>4, <1>5 DEF Next

LEMMA LockInvariant == Spec => []LockInv
BY InitLockInv, StepKeepsLockInv, PTL DEF Spec

\* The variables of rw_lock_write.c keep their types: no unsigned counter is
\* decremented at zero.
THEOREM Typing == Spec => []TypeOK
<1>1. LockInv => TypeOK
  BY DEF LockInv
<1> QED BY <1>1, LockInvariant, PTL

\* The counters are the numbers of threads they stand for.
THEOREM ExactCounters == Spec => []CountersAreExact
<1>1. LockInv => CountersAreExact
  BY DEF LockInv
<1> QED BY <1>1, LockInvariant, PTL

-----------------------------------------------------------------------------
LEMMA StepKeepsSleepers ==
  LockInv /\ SleepersMustWait /\ [Next]_vars => SleepersMustWait'
<1> SUFFICES ASSUME LockInv, SleepersMustWait, [Next]_vars PROVE SleepersMustWait'
  OBVIOUS
<1> USE ThreadsAssumption
<1>0. /\ waiting_writers \in Nat /\ active_readers \in Nat /\ is_writing \in {0, 1}
      /\ asleep \subseteq Threads
  BY DEF LockInv, TypeOK
<1>1. ASSUME NEW t \in Readers, RdLock(t) PROVE SleepersMustWait'
  BY <1>0, <1>1
  DEF RdLock, Sleep, Enter, SleepersMustWait, ReaderMustWait, WriterMustWait, Threads
<1>2. ASSUME NEW t \in Writers, WrLock(t) PROVE SleepersMustWait'
  <2>1. pc[t] = "waiting" => waiting_writers > 0
    <3>1. waiting_writers = Count(Writers, pc, "waiting")
      BY Counters DEF LockInv
    <3> QED BY <3>1, <1>0, CountIsNat
  <2>2. CASE WriterMustWait
    <3>1. /\ asleep' = asleep \cup {t} /\ waiting_writers' > 0
          /\ active_readers' = active_readers /\ is_writing' = is_writing
      BY <1>0, <1>2, <2>1, <2>2 DEF WrLock, Sleep, Running
    <3> QED BY <1>0, <1>2, <2>2, <3>1 DEF SleepersMustWait, ReaderMustWait, WriterMustWait
  <2>3. CASE ~WriterMustWait
    BY <1>2, <2>3 DEF WrLock, Enter, SleepersMustWait, ReaderMustWait, WriterMustWait
  <2> QED BY <2>2, <2>3
<1>3. ASSUME NEW t \in Threads, Unlock(t) PROVE SleepersMustWait'
  BY <1>0, <1>3 DEF Unlock, SleepersMustWait, ReaderMustWait, WriterMustWait
<1>4. ASSUME NEW t \in Threads, SpuriousWakeup(t) PROVE SleepersMustWait'
  BY <1>4 DEF SpuriousWakeup, SleepersMustWait, ReaderMustWait, WriterMustWait
<1>5. CASE UNCHANGED vars
  BY <1>5 DEF vars, SleepersMustWait, ReaderMustWait, WriterMustWait
<1> QED BY <1>1, <1>2, <1>3, <1>4, <1>5 DEF Next

\* No wakeup is lost: a thread sleeps only while its condition keeps it out.
THEOREM NoLostWakeup == Spec => []SleepersMustWait
<1>1. Init => SleepersMustWait
  BY DEF Init, SleepersMustWait
<1> QED BY <1>1, StepKeepsSleepers, LockInvariant, PTL DEF Spec

-----------------------------------------------------------------------------
\* Every step of a lock function is a step of the abstract lock, or invisible.
LEMMA StepRefines == LockInv /\ LockInv' /\ [Next]_vars => [RW!Next]_Mode
<1> SUFFICES ASSUME LockInv, LockInv', [Next]_vars PROVE RW!Next \/ UNCHANGED Mode
  OBVIOUS
<1> USE ThreadsAssumption
<1>0. /\ pc \in [Threads -> {"out", "waiting", "reading", "writing"}]
      /\ pc' \in [Threads -> {"out", "waiting", "reading", "writing"}]
  BY DEF LockInv, TypeOK
<1>1. ASSUME NEW t \in Readers, RdLock(t) PROVE RW!Next \/ UNCHANGED Mode
  <2>1. pc[t] \in {"out", "waiting"} /\ t \in Threads
    BY <1>1 DEF RdLock, Running, Threads
  <2>2. CASE ReaderMustWait
    BY <1>0, <1>1, <2>1, <2>2 DEF RdLock, Sleep, Mode
  <2>3. CASE ~ReaderMustWait
    <3>1. \A u \in Threads : pc[u] # "writing"
      BY <2>3, Counters DEF LockInv, TypeOK, ReaderMustWait, Threads
    <3>2. Mode' = [Mode EXCEPT ![t] = "reading"] /\ Mode[t] = "out"
      BY <1>0, <1>1, <2>1, <2>3 DEF RdLock, Enter, Mode
    <3>3. \A u \in Threads : Mode[u] # "writing"
      BY <3>1 DEF Mode
    <3> QED BY <2>1, <3>2, <3>3 DEF RW!Next, RW!BeginRead
  <2> QED BY <2>2, <2>3
<1>2. ASSUME NEW t \in Writers, WrLock(t) PROVE RW!Next \/ UNCHANGED Mode
  <2>1. pc[t] \in {"out", "waiting"} /\ t \in Threads
    BY <1>2 DEF WrLock, Running, Threads
  <2>2. CASE WriterMustWait
    BY <1>0, <1>2, <2>1, <2>2 DEF WrLock, Sleep, Mode
  <2>3. CASE ~WriterMustWait
    <3>1. pc' = [pc EXCEPT ![t] = "writing"]
      BY <1>2, <2>3 DEF WrLock, Enter
    <3>2. \A u \in Threads : u # t => pc[u] \notin {"reading", "writing"}
      BY <1>0, <1>2, <2>1, <3>1 DEF LockInv, Alone
    <3>3. \A u \in Threads : Mode[u] = "out"
      BY <1>0, <2>1, <3>2 DEF Mode
    <3>4. Mode' = [Mode EXCEPT ![t] = "writing"]
      BY <1>0, <2>1, <3>1 DEF Mode
    <3> QED BY <2>1, <3>3, <3>4 DEF RW!Next, RW!BeginWrite
  <2> QED BY <2>2, <2>3
<1>3. ASSUME NEW t \in Threads, Unlock(t) PROVE RW!Next \/ UNCHANGED Mode
  <2>1. Mode' = [Mode EXCEPT ![t] = "out"] /\ Mode[t] # "out"
    BY <1>0, <1>3 DEF Unlock, Mode
  <2> QED BY <2>1, <1>3 DEF RW!Next, RW!End
<1>4. ASSUME NEW t \in Threads, SpuriousWakeup(t) PROVE RW!Next \/ UNCHANGED Mode
  BY <1>4 DEF SpuriousWakeup, Mode
<1>5. CASE UNCHANGED vars
  BY <1>5 DEF vars, Mode
<1> QED BY <1>1, <1>2, <1>3, <1>4, <1>5 DEF Next

\* rw_lock_write.c implements the readers-writer lock.
THEOREM Refinement == Spec => ImplementsRWLock
<1>1. Init => RW!Init
  BY DEF Init, RW!Init, Mode
<1> QED BY <1>1, StepRefines, LockInvariant, PTL DEF Spec, ImplementsRWLock, RW!Spec

=============================================================================
