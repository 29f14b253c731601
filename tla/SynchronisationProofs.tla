------------------------- MODULE SynchronisationProofs -------------------------
(* The queue lock, the barriers and the channel for any number of threads.     *)
EXTENDS Synchronisation, Lemmas

\* The instances count alike.
LEMMA SameCardinality == \A S : /\ Fair!Cardinality(S) = Cardinality(S)
                               /\ Spin!Cardinality(S) = Cardinality(S)
                               /\ Cond!Cardinality(S) = Cardinality(S)
                               /\ Channel!Cardinality(S) = Cardinality(S)
BY Zenon DEF Cardinality, Fair!Cardinality, Spin!Cardinality, Cond!Cardinality,
             Channel!Cardinality

-----------------------------------------------------------------------------
(* rw_lock_justo.c: the queue.                                                 *)

LockThreads == Readers \cup Writers
LockStates == {"out", "queued", "waiting", "entering", "inside"}

FairTyped == /\ pc \in [LockThreads -> LockStates]
             /\ queue \in Seq(LockThreads)
             /\ is_writing \in {0, 1}
             /\ active_readers \in Nat

\* The queue is made of those that wait, once each, and whoever has the lock
\* and is still in it is its first.
Queued == \A t \in LockThreads : t \in ToSet(queue) <=> pc[t] \notin {"out", "inside"}
FirstEnters == \A t \in LockThreads : pc[t] = "entering" => Head(queue) = t

QueueInv == FairTyped /\ Queued /\ IsInjective(queue) /\ FirstEnters

LEMMA QueueInit == Fair!Init => QueueInv
<1> SUFFICES ASSUME Fair!Init PROVE QueueInv
  OBVIOUS
<1>1. queue = <<>> /\ ToSet(queue) = {} /\ queue \in Seq(LockThreads)
  BY ToSetOfEmpty DEF Fair!Init
<1>2. FairTyped /\ Queued /\ FirstEnters
  BY <1>1 DEF Fair!Init, Fair!Threads, FairTyped, Queued, FirstEnters, LockThreads, LockStates
<1>3. IsInjective(queue)
  BY <1>1 DEF IsInjective
<1> QED BY <1>2, <1>3 DEF QueueInv

\* A thread that runs through rwlock_rdlock or rwlock_wrlock is in the queue,
\* and enters only as its first.
LEMMA QueueStays ==
  ASSUME QueueInv, NEW t \in LockThreads, pc[t] \in {"queued", "waiting"},
         FairTyped', queue' = queue,
         \/ pc' = [pc EXCEPT ![t] = "waiting"]
         \/ pc' = [pc EXCEPT ![t] = "entering"] /\ t = Head(queue)
  PROVE  QueueInv'
<1>1. \A u \in LockThreads : u # t => pc'[u] = pc[u]
  BY DEF QueueInv, FairTyped
<1>2. pc'[t] \in {"waiting", "entering"} /\ (pc'[t] = "entering" => Head(queue) = t)
  BY DEF QueueInv, FairTyped
<1>3. Queued' /\ FirstEnters'
  BY <1>1, <1>2 DEF QueueInv, Queued, FirstEnters
<1> QED BY <1>3 DEF QueueInv

LEMMA QueueNext == QueueInv /\ [Fair!Next]_fair => QueueInv'
<1> SUFFICES ASSUME QueueInv, [Fair!Next]_fair PROVE QueueInv'
  OBVIOUS
<1>0. FairTyped /\ Queued /\ IsInjective(queue) /\ FirstEnters
  BY DEF QueueInv
<1>1. ASSUME NEW t \in LockThreads, Fair!Push(t) PROVE QueueInv'
  <2>1. /\ pc[t] = "out" /\ pc' = [pc EXCEPT ![t] = "queued"]
        /\ queue' = Append(queue, t)
        /\ is_writing' = is_writing /\ active_readers' = active_readers
    BY <1>1 DEF Fair!Push
  <2>2. t \notin ToSet(queue)
    BY <1>0, <2>1 DEF Queued
  <2>3. queue' \in Seq(LockThreads) /\ ToSet(queue') = ToSet(queue) \cup {t}
    BY <1>0, <2>1, ToSetOfAppend DEF FairTyped
  <2>4. IsInjective(queue')
    BY <1>0, <2>1, <2>2, InjectiveAppend DEF FairTyped
  <2>5. FairTyped' /\ Queued'
    BY <1>0, <2>1, <2>3 DEF FairTyped, Queued, LockStates
  <2>6. ASSUME NEW u \in LockThreads, pc'[u] = "entering" PROVE Head(queue') = u
    <3>1. pc[u] = "entering" /\ Head(queue) = u
      BY <1>0, <2>1, <2>6 DEF FairTyped, FirstEnters
    <3>2. queue # <<>>
      BY <1>0, <3>1, ToSetOfEmpty DEF Queued
    <3>3. Head(queue') = Head(queue)
      BY <1>0, <2>1, <3>2 DEF FairTyped
    <3> QED BY <3>1, <3>3
  <2> QED BY <2>4, <2>5, <2>6 DEF QueueInv, FirstEnters
<1>2. ASSUME NEW t \in Readers, Fair!RdLock(t) PROVE QueueInv'
  <2>1. t \in LockThreads /\ pc[t] \in {"queued", "waiting"} /\ queue' = queue
    BY <1>2 DEF Fair!RdLock, Fair!Running, LockThreads
  <2>2. \/ pc' = [pc EXCEPT ![t] = "waiting"] /\ active_readers' = active_readers
        \/ /\ pc' = [pc EXCEPT ![t] = "entering"] /\ t = Head(queue)
           /\ active_readers' = active_readers + 1
    BY <1>2 DEF Fair!RdLock, Fair!Sleep, Fair!Enter, Fair!ReaderMustWait
  <2>3. FairTyped'
    BY <1>0, <1>2, <2>1, <2>2 DEF FairTyped, LockStates, Fair!RdLock
  <2> QED BY <2>1, <2>2, <2>3, QueueStays
<1>3. ASSUME NEW t \in Writers, Fair!WrLock(t) PROVE QueueInv'
  <2>1. t \in LockThreads /\ pc[t] \in {"queued", "waiting"} /\ queue' = queue
    BY <1>3 DEF Fair!WrLock, Fair!Running, LockThreads
  <2>2. \/ pc' = [pc EXCEPT ![t] = "waiting"] /\ is_writing' = is_writing
        \/ pc' = [pc EXCEPT ![t] = "entering"] /\ t = Head(queue) /\ is_writing' = 1
    BY <1>3 DEF Fair!WrLock, Fair!Sleep, Fair!Enter, Fair!WriterMustWait
  <2>3. FairTyped'
    BY <1>0, <1>3, <2>1, <2>2 DEF FairTyped, LockStates, Fair!WrLock
  <2> QED BY <2>1, <2>2, <2>3, QueueStays
<1>4. ASSUME NEW t \in LockThreads, Fair!Pop(t) PROVE QueueInv'
  <2>1. /\ pc[t] = "entering" /\ pc' = [pc EXCEPT ![t] = "inside"]
        /\ queue' = Tail(queue)
        /\ is_writing' = is_writing /\ active_readers' = active_readers
    BY <1>4 DEF Fair!Pop
  <2>2. queue # <<>> /\ Head(queue) = t
    BY <1>0, <2>1, ToSetOfEmpty DEF Queued, FirstEnters
  <2>3. /\ queue' \in Seq(LockThreads) /\ IsInjective(queue')
        /\ ToSet(queue') = ToSet(queue) \ {t}
    BY <1>0, <2>1, <2>2, InjectiveTail, ToSetOfTail DEF FairTyped
  <2>4. FairTyped' /\ Queued'
    BY <1>0, <2>1, <2>3 DEF FairTyped, Queued, LockStates
  <2>5. ASSUME NEW u \in LockThreads PROVE pc'[u] # "entering"
    BY <1>0, <2>1, <2>2 DEF FairTyped, FirstEnters
  <2> QED BY <2>3, <2>4, <2>5 DEF QueueInv, FirstEnters
<1>5. ASSUME NEW t \in LockThreads, Fair!Unlock(t) PROVE QueueInv'
  <2>1. /\ pc[t] = "inside" /\ pc' = [pc EXCEPT ![t] = "out"]
        /\ queue' = queue
        /\ is_writing' \in {0, is_writing}
        /\ \/ active_readers' = active_readers
           \/ active_readers > 0 /\ active_readers' = active_readers - 1
    BY <1>5 DEF Fair!Unlock
  <2>2. FairTyped' /\ Queued' /\ FirstEnters'
    BY <1>0, <2>1 DEF FairTyped, Queued, FirstEnters, LockStates
  <2> QED BY <1>0, <2>1, <2>2 DEF QueueInv
<1>6. ASSUME NEW t \in LockThreads, Fair!SpuriousWakeup(t) PROVE QueueInv'
  BY <1>6 DEF Fair!SpuriousWakeup, QueueInv, FairTyped, Queued, FirstEnters
<1>7. CASE UNCHANGED fair
  BY <1>7 DEF fair, QueueInv, FairTyped, Queued, FirstEnters
<1> QED BY <1>1, <1>2, <1>3, <1>4, <1>5, <1>6, <1>7 DEF Fair!Next, Fair!Threads, LockThreads

LEMMA InOrder == QueueInv => EntersInOrder
<1> SUFFICES ASSUME QueueInv PROVE Fair!EntersInOrder
  BY DEF EntersInOrder
<1> DEFINE Times(t) == Cardinality({k \in DOMAIN queue : queue[k] = t})
<1>1. ASSUME NEW t \in LockThreads, pc[t] = "entering" PROVE queue # <<>> /\ Head(queue) = t
  BY <1>1, ToSetOfEmpty DEF QueueInv, Queued, FirstEnters
<1>2. ASSUME NEW t \in LockThreads
      PROVE  Times(t) = IF pc[t] \in {"out", "inside"} THEN 0 ELSE 1
  <2>1. Times(t) = IF t \in ToSet(queue) THEN 1 ELSE 0
    BY InjectiveOccurrences DEF QueueInv, FairTyped
  <2> HIDE DEF Times
  <2> QED BY <2>1 DEF QueueInv, Queued
<1>3. Fair!EntersInOrder <=>
        /\ \A t \in LockThreads : pc[t] = "entering" => queue # <<>> /\ Head(queue) = t
        /\ \A t \in LockThreads : Times(t) = IF pc[t] \in {"out", "inside"} THEN 0 ELSE 1
  BY SameCardinality, Zenon DEF Fair!EntersInOrder, Fair!Threads, LockThreads
<1> HIDE DEF Times
<1> QED BY <1>1, <1>2, <1>3

-----------------------------------------------------------------------------
(* rw_lock_justo.c: the lock.                                                  *)

\* Who holds the lock, in the words of RWLock.
Places == Fair!Mode

\* The counters are the numbers they stand for, and a writer is alone.
Counted == /\ active_readers = Count(Readers, Places, "reading")
           /\ is_writing = 1 <=> \E t \in Writers : Places[t] = "writing"
WriterAlone == \A t, u \in LockThreads :
  Places[t] = "writing" /\ t # u => Places[u] = "out"

FairInv == QueueInv /\ Counted /\ WriterAlone

LEMMA PlacesAre ==
  ASSUME FairTyped
  PROVE  /\ Places \in [LockThreads -> {"out", "reading", "writing"}]
         /\ \A t \in LockThreads : /\ Places[t] = "reading" => t \in Readers
                                   /\ Places[t] = "writing" => t \in Writers
                                   /\ Places[t] = "out" <=> pc[t] \notin {"entering", "inside"}
BY LockAssumption DEF Places, Fair!Mode, Fair!Threads, FairTyped, LockThreads, LockStates

LEMMA PlacesMove ==
  ASSUME FairTyped, NEW t \in LockThreads, NEW x \in LockStates, pc' = [pc EXCEPT ![t] = x]
  PROVE  Places' = [Places EXCEPT ![t] =
           IF x \notin {"entering", "inside"} THEN "out"
           ELSE IF t \in Readers THEN "reading" ELSE "writing"]
BY DEF Places, Fair!Mode, Fair!Threads, FairTyped, LockThreads

\* What a step does to the lock: nothing, or a thread comes in or goes out.
Nothing == Places' = Places /\ UNCHANGED <<active_readers, is_writing>>
ReaderIn(t) == /\ Places[t] = "out" /\ is_writing = 0
               /\ Places' = [Places EXCEPT ![t] = "reading"]
               /\ active_readers' = active_readers + 1 /\ is_writing' = is_writing
WriterIn(t) == /\ Places[t] = "out" /\ active_readers = 0 /\ is_writing = 0
               /\ Places' = [Places EXCEPT ![t] = "writing"]
               /\ active_readers' = active_readers /\ is_writing' = 1
ReaderOut(t) == /\ Places[t] = "reading" /\ Places' = [Places EXCEPT ![t] = "out"]
                /\ active_readers' = active_readers - 1 /\ is_writing' = is_writing
WriterOut(t) == /\ Places[t] = "writing" /\ Places' = [Places EXCEPT ![t] = "out"]
                /\ active_readers' = active_readers /\ is_writing' = 0

LEMMA LockSteps ==
  FairInv /\ [Fair!Next]_fair =>
    \/ Nothing
    \/ \E t \in Readers : ReaderIn(t) \/ ReaderOut(t)
    \/ \E t \in Writers : WriterIn(t) \/ WriterOut(t)
<1> SUFFICES ASSUME FairInv, [Fair!Next]_fair
             PROVE  \/ Nothing
                    \/ \E t \in Readers : ReaderIn(t) \/ ReaderOut(t)
                    \/ \E t \in Writers : WriterIn(t) \/ WriterOut(t)
  OBVIOUS
<1>0. FairTyped /\ Counted /\ WriterAlone /\ Readers \cap Writers = {}
  BY LockAssumption DEF FairInv, QueueInv
<1>1. ASSUME NEW t \in LockThreads, Fair!Push(t) PROVE Nothing
  <2>1. Places[t] = "out" /\ Places' = [Places EXCEPT ![t] = "out"]
    BY <1>0, <1>1, PlacesMove, PlacesAre DEF Fair!Push, LockStates
  <2> QED BY <1>0, <1>1, <2>1, PlacesAre DEF Fair!Push, Nothing
<1>2. ASSUME NEW t \in Readers, Fair!RdLock(t) PROVE Nothing \/ ReaderIn(t)
  <2>1. t \in LockThreads /\ pc[t] \in {"queued", "waiting"} /\ Places[t] = "out"
    BY <1>0, <1>2, PlacesAre DEF Fair!RdLock, Fair!Running, LockThreads
  <2>2. CASE Fair!ReaderMustWait(t)
    BY <1>0, <1>2, <2>1, <2>2, PlacesMove, PlacesAre
    DEF Fair!RdLock, Fair!Sleep, Nothing, LockStates
  <2>3. CASE ~Fair!ReaderMustWait(t)
    BY <1>0, <1>2, <2>1, <2>3, PlacesMove
    DEF Fair!RdLock, Fair!Enter, Fair!ReaderMustWait, ReaderIn, LockStates
  <2> QED BY <2>2, <2>3
<1>3. ASSUME NEW t \in Writers, Fair!WrLock(t) PROVE Nothing \/ WriterIn(t)
  <2>1. t \in LockThreads /\ pc[t] \in {"queued", "waiting"} /\ Places[t] = "out"
    BY <1>0, <1>3, PlacesAre DEF Fair!WrLock, Fair!Running, LockThreads
  <2>2. CASE Fair!WriterMustWait(t)
    BY <1>0, <1>3, <2>1, <2>2, PlacesMove, PlacesAre
    DEF Fair!WrLock, Fair!Sleep, Nothing, LockStates
  <2>3. CASE ~Fair!WriterMustWait(t)
    <3>1. active_readers = 0 /\ is_writing = 0
      BY <1>0, <2>3 DEF Fair!WriterMustWait, FairTyped
    <3>2. pc' = [pc EXCEPT ![t] = "entering"] /\ is_writing' = 1 /\ active_readers' = active_readers
      BY <1>3, <2>3 DEF Fair!WrLock, Fair!Enter
    <3> QED BY <1>0, <2>1, <3>1, <3>2, PlacesMove DEF WriterIn, LockStates
  <2> QED BY <2>2, <2>3
<1>4. ASSUME NEW t \in LockThreads, Fair!Pop(t) PROVE Nothing
  <2>1. Places[t] = IF t \in Readers THEN "reading" ELSE "writing"
    BY <1>0, <1>4 DEF Fair!Pop, Places, Fair!Mode, Fair!Threads, LockThreads
  <2>2. Places' = [Places EXCEPT ![t] = Places[t]]
    BY <1>0, <1>4, <2>1, PlacesMove DEF Fair!Pop, LockStates
  <2> QED BY <1>0, <1>4, <2>2, PlacesAre DEF Fair!Pop, Nothing
<1>5. ASSUME NEW t \in LockThreads, Fair!Unlock(t)
      PROVE  \/ t \in Readers /\ ReaderOut(t)
             \/ t \in Writers /\ WriterOut(t)
  <2>1. /\ pc[t] = "inside" /\ Places' = [Places EXCEPT ![t] = "out"]
        /\ active_readers \in Nat
    BY <1>0, <1>5, PlacesMove DEF Fair!Unlock, LockStates, FairTyped
  <2>2. Places[t] = IF t \in Readers THEN "reading" ELSE "writing"
    BY <2>1 DEF Places, Fair!Mode, Fair!Threads, LockThreads
  <2>3. IsFiniteSet(Readers)
    BY LockAssumption, FS_Subset
  <2>4. CASE t \in Readers
    <3>1. active_readers > 0
      BY <1>0, <2>1, <2>2, <2>3, <2>4, CountIsNat DEF Counted
    <3> QED BY <1>5, <2>1, <2>2, <2>4, <3>1 DEF Fair!Unlock, ReaderOut
  <2>5. CASE t \notin Readers
    <3>1. \A u \in Readers : Places[u] # "reading"
      BY <1>0, <2>2, <2>5 DEF WriterAlone, LockThreads
    <3>2. active_readers = 0
      BY <1>0, <2>3, <3>1, CountIsNat DEF Counted
    <3> QED BY <1>5, <2>1, <2>2, <2>5, <3>2 DEF Fair!Unlock, WriterOut, LockThreads
  <2> QED BY <2>4, <2>5
<1>6. ASSUME NEW t \in LockThreads, Fair!SpuriousWakeup(t) PROVE Nothing
  BY <1>6 DEF Fair!SpuriousWakeup, Nothing, Places, Fair!Mode
<1>7. CASE UNCHANGED fair
  BY <1>7 DEF fair, Nothing, Places, Fair!Mode
<1> QED BY <1>1, <1>2, <1>3, <1>4, <1>5, <1>6, <1>7 DEF Fair!Next, Fair!Threads, LockThreads

LEMMA FairInit == Fair!Init => FairInv
<1> SUFFICES ASSUME Fair!Init PROVE FairInv
  OBVIOUS
<1>1. \A t \in LockThreads : Places[t] = "out"
  BY DEF Fair!Init, Places, Fair!Mode, Fair!Threads, LockThreads
<1>2. IsFiniteSet(Readers)
  BY LockAssumption, FS_Subset
<1>3. Counted
  BY <1>1, <1>2, CountIsNat DEF Fair!Init, Counted, LockThreads
<1> QED BY <1>1, <1>3, QueueInit DEF FairInv, WriterAlone

LEMMA FairNext == FairInv /\ [Fair!Next]_fair => FairInv'
<1> SUFFICES ASSUME FairInv, [Fair!Next]_fair PROVE FairInv'
  OBVIOUS
<1>0. /\ FairTyped /\ Counted /\ WriterAlone
      /\ Readers \cap Writers = {} /\ IsFiniteSet(Readers)
      /\ Readers \subseteq LockThreads /\ Writers \subseteq LockThreads
  BY LockAssumption, FS_Subset DEF FairInv, QueueInv, LockThreads
<1>1. QueueInv'
  BY QueueNext DEF FairInv
<1>2. ASSUME NEW t \in LockThreads, NEW place, Places' = [Places EXCEPT ![t] = place]
      PROVE  /\ Places'[t] = place /\ \A u \in LockThreads : u # t => Places'[u] = Places[u]
             /\ t \in Readers => Count(Readers, Places', "reading")
                  = Count(Readers, Places, "reading")
                      + One(place = "reading") - One(Places[t] = "reading")
             /\ t \in Writers => Count(Readers, Places', "reading") = Count(Readers, Places, "reading")
  <2>1. Places'[t] = place /\ \A u \in LockThreads : u # t => Places'[u] = Places[u]
    BY <1>0, <1>2, PlacesAre
  <2>2. t \in Writers => \A u \in Readers : Places'[u] = Places[u]
    BY <1>0, <2>1
  <2>3. OnlyMoves(t, Readers, Places, Places')
    BY <1>0, <2>1 DEF OnlyMoves
  <2> QED BY <1>0, <2>1, <2>2, <2>3, CountAfterMove, CountWithoutMove
<1>3. ASSUME Nothing PROVE Counted' /\ WriterAlone'
  BY <1>0, <1>3 DEF Nothing, Counted, WriterAlone
<1>4. ASSUME NEW t \in Readers, ReaderIn(t) PROVE Counted' /\ WriterAlone'
  <2>1. \A u \in LockThreads : Places[u] # "writing"
    BY <1>0, <1>4, PlacesAre DEF ReaderIn, Counted
  <2>2. Count(Readers, Places', "reading") = active_readers'
    <3>1. Count(Readers, Places', "reading")
            = Count(Readers, Places, "reading") + One("reading" = "reading") - One("out" = "reading")
      BY <1>0, <1>2, <1>4 DEF ReaderIn
    <3> QED BY <1>0, <1>4, <3>1 DEF ReaderIn, Counted, One, FairTyped
  <2> QED BY <1>0, <1>2, <1>4, <2>1, <2>2 DEF ReaderIn, Counted, WriterAlone
<1>5. ASSUME NEW t \in Readers, ReaderOut(t) PROVE Counted' /\ WriterAlone'
  <2>1. Count(Readers, Places', "reading") = active_readers'
    <3>1. Count(Readers, Places', "reading")
            = Count(Readers, Places, "reading") + One("out" = "reading") - One("reading" = "reading")
      BY <1>0, <1>2, <1>5 DEF ReaderOut
    <3> QED BY <1>0, <1>5, <3>1 DEF ReaderOut, Counted, One, FairTyped
  <2>2. \A u \in LockThreads : Places'[u] = "writing" <=> Places[u] = "writing"
    BY <1>0, <1>2, <1>5 DEF ReaderOut
  <2> QED BY <1>0, <1>2, <1>5, <2>1, <2>2 DEF ReaderOut, Counted, WriterAlone
<1>6. ASSUME NEW t \in Writers, WriterIn(t) PROVE Counted' /\ WriterAlone'
  <2>1. \A u \in LockThreads : Places[u] = "out"
    BY <1>0, <1>6, PlacesAre, CountIsNat DEF WriterIn, Counted
  <2>2. Count(Readers, Places', "reading") = active_readers'
    BY <1>0, <1>2, <1>6 DEF WriterIn, Counted
  <2> QED BY <1>0, <1>2, <1>6, <2>1, <2>2 DEF WriterIn, Counted, WriterAlone
<1>7. ASSUME NEW t \in Writers, WriterOut(t) PROVE Counted' /\ WriterAlone'
  <2>1. \A u \in LockThreads : Places'[u] = "out"
    BY <1>0, <1>2, <1>7 DEF WriterOut, WriterAlone
  <2>2. Count(Readers, Places', "reading") = active_readers'
    BY <1>0, <1>2, <1>7 DEF WriterOut, Counted
  <2> QED BY <1>0, <1>7, <2>1, <2>2 DEF WriterOut, Counted, WriterAlone
<1> QED BY <1>1, <1>3, <1>4, <1>5, <1>6, <1>7, LockSteps DEF FairInv

\* A step of the lock is a step of the abstract one, or invisible.
LEMMA FairRefines == FairInv /\ [Fair!Next]_fair => [Fair!RW!Next]_Places
<1> SUFFICES ASSUME FairInv, [Fair!Next]_fair PROVE Fair!RW!Next \/ UNCHANGED Places
  OBVIOUS
<1>0. /\ FairTyped /\ Counted /\ WriterAlone /\ IsFiniteSet(Readers)
      /\ Fair!Threads = LockThreads
      /\ Readers \subseteq LockThreads /\ Writers \subseteq LockThreads
  BY LockAssumption, FS_Subset DEF FairInv, QueueInv, LockThreads, Fair!Threads
<1>1. ASSUME NEW t \in Readers, ReaderIn(t) PROVE Fair!RW!BeginRead(t)
  BY <1>0, <1>1, PlacesAre DEF ReaderIn, Counted, Fair!RW!BeginRead, Places
<1>2. ASSUME NEW t \in Writers, WriterIn(t) PROVE Fair!RW!BeginWrite(t)
  <2>1. \A u \in LockThreads : Places[u] = "out"
    BY <1>0, <1>2, PlacesAre, CountIsNat DEF WriterIn, Counted
  <2> QED BY <1>0, <1>2, <2>1 DEF WriterIn, Fair!RW!BeginWrite, Places
<1>3. ASSUME NEW t \in LockThreads, ReaderOut(t) \/ WriterOut(t) PROVE Fair!RW!End(t)
  BY <1>0, <1>3 DEF ReaderOut, WriterOut, Fair!RW!End, Places
<1> QED BY <1>0, <1>1, <1>2, <1>3, LockSteps DEF Fair!RW!Next, Nothing

-----------------------------------------------------------------------------
(* The barrier of Ejercicio 9.                                                 *)

\* While no wake-up is spurious, k rounds are over, the sleepers have come for
\* the next one, and everybody else has come for k.
Round(k) ==
  /\ came \in [Parties -> Nat] /\ went \in [Parties -> Nat]
  /\ sleeping \subseteq inside /\ inside \subseteq Parties
  /\ esperando = Cardinality(sleeping)
  /\ \A t \in Parties :
       /\ came[t] = IF t \in sleeping THEN k + 1 ELSE k
       /\ IF t \in inside THEN went[t] + 1 = came[t]
                          ELSE went[t] \in {came[t], came[t] - 1}

CondInv == ~woken => \E k \in Nat : Round(k)

LEMMA CondInit == Cond!Init => CondInv
<1> SUFFICES ASSUME Cond!Init PROVE Round(0)
  BY DEF CondInv
<1> QED BY FS_EmptySet DEF Cond!Init, Round

LEMMA CondNext == CondInv /\ [Cond!Next]_conds => CondInv'
<1> SUFFICES ASSUME CondInv, [Cond!Next]_conds, ~woken' PROVE \E k \in Nat : Round(k)'
  BY DEF CondInv
<1>1. ~woken
  BY DEF conds, Cond!Next, Cond!ArriveEarly, Cond!ArriveLast, Cond!LeaveLast, Cond!LeaveEarly,
         Cond!SpuriousWakeup
<1>2. PICK k \in Nat : Round(k)
  BY <1>1 DEF CondInv
<1>3. Cond!n = Cardinality(Parties) /\ IsFiniteSet(Parties) /\ Cardinality(Parties) \in Nat
  BY BarrierAssumption, SameCardinality, FS_CardinalityType DEF Cond!n
<1>4. IsFiniteSet(sleeping) /\ Cardinality(sleeping) \in Nat
  BY <1>2, <1>3, FS_Subset, FS_CardinalityType DEF Round
<1>5. ASSUME NEW t \in Parties, Cond!ArriveEarly(t) PROVE Round(k)'
  <2>1. t \notin sleeping
    BY <1>2, <1>5 DEF Round, Cond!ArriveEarly
  <2>2. Cardinality(sleeping') = esperando'
    BY <1>2, <1>4, <1>5, <2>1, FS_AddElement DEF Round, Cond!ArriveEarly
  <2> QED BY <1>2, <1>5, <2>1, <2>2 DEF Round, Cond!ArriveEarly
<1>6. ASSUME NEW t \in Parties, Cond!ArriveLast(t) PROVE Round(k + 1)'
  <2>1. t \notin sleeping /\ sleeping \subseteq Parties \ {t}
    BY <1>2, <1>6 DEF Round, Cond!ArriveLast
  <2>2. Cardinality(sleeping) = Cardinality(Parties) - 1
    BY <1>2, <1>3, <1>6 DEF Round, Cond!ArriveLast
  <2>3. sleeping = Parties \ {t}
    <3>1. IsFiniteSet(Parties \ {t}) /\ Cardinality(Parties \ {t}) = Cardinality(Parties) - 1
      BY <1>3, FS_RemoveElement
    <3> QED BY <2>1, <2>2, <3>1, FS_Subset
  <2>4. sleeping' = {} /\ esperando' = Cardinality(sleeping')
    BY <1>6, FS_EmptySet DEF Cond!ArriveLast
  <2> QED BY <1>2, <1>6, <2>3, <2>4 DEF Round, Cond!ArriveLast
<1>7. ASSUME NEW t \in Parties, Cond!LeaveLast(t) PROVE Round(k)'
  BY <1>2, <1>7 DEF Round, Cond!LeaveLast
<1>8. ASSUME NEW t \in Parties, Cond!LeaveEarly(t) PROVE Round(k)'
  BY <1>2, <1>8 DEF Round, Cond!LeaveEarly
<1>9. ASSUME NEW t \in Parties, Cond!SpuriousWakeup(t) PROVE FALSE
  BY <1>9 DEF Cond!SpuriousWakeup
<1>10. CASE UNCHANGED conds
  BY <1>2, <1>10 DEF conds, Round
<1> QED BY <1>5, <1>6, <1>7, <1>8, <1>9, <1>10 DEF Cond!Next

LEMMA NobodyEarly == CondInv => NobodyLeavesEarly
<1> SUFFICES ASSUME NEW k \in Nat, Round(k), NEW t \in Parties, NEW u \in Parties
             PROVE  went[t] <= came[u]
  BY DEF CondInv, NobodyLeavesEarly, Cond!NobodyLeavesEarly
<1>1. came[t] \in Nat /\ went[t] \in Nat /\ came[u] \in Nat /\ went[t] <= k /\ k <= came[u]
  BY DEF Round
<1> QED BY <1>1

-----------------------------------------------------------------------------
(* The barrier of Ejercicio 10.                                                *)

SpinStates == {"out", "called", "passed", "master", "other", "master_in", "other_in",
               "release", "locked", "decrement", "check", "stop"}

\* Who is between its increment of the counter and its decrement, and who has
\* the lock.
Counting == {"master_in", "other_in", "release", "locked", "decrement"}
Holding == {"master", "master_in", "release", "locked"}
Between == [t \in Parties |-> IF spin[t] \in Counting THEN "yes" ELSE "no"]

SpinTyped == /\ spin \in [Parties -> SpinStates]
             /\ master \in Parties \cup {Nobody}
             /\ liberando \in {0, 1}
             /\ waiting_processes = Count(Parties, Between, "yes")
             /\ \A t \in Parties : master = t <=> spin[t] \in Holding

\* The barrier gathers the threads, is about to release them all, or does so,
\* and then nobody comes in.
Gathers == /\ liberando = 0
           /\ \A t \in Parties : /\ spin[t] \notin {"release", "locked", "decrement"}
                                 /\ spin[t] \in {"other", "other_in"} => master # Nobody
Gathered == /\ liberando = 0
            /\ \E m \in Parties : /\ spin[m] = "release"
                                  /\ \A t \in Parties \ {m} : spin[t] = "other_in"
Releases == /\ liberando = 1
            /\ \A t \in Parties :
                 /\ spin[t] \notin {"passed", "master", "other", "master_in", "release"}
                 /\ spin[t] = "stop" => waiting_processes = 0

SpinInv == SpinTyped /\ (Gathers \/ Gathered \/ Releases)

LEMMA SpinInit == Spin!Init => SpinInv
<1> SUFFICES ASSUME Spin!Init PROVE SpinInv
  OBVIOUS
<1>1. spin = [t \in Parties |-> "out"] /\ master = Nobody /\ liberando = 0 /\ waiting_processes = 0
  BY DEF Spin!Init
<1>2. Count(Parties, Between, "yes") = 0
  BY <1>1, BarrierAssumption, CountIsNat DEF Between, Counting
<1>3. SpinTyped
  BY <1>1, <1>2, BarrierAssumption DEF SpinTyped, SpinStates, Holding
<1> QED BY <1>1, <1>3 DEF SpinInv, Gathers

\* One thread goes from a place to another.
LEMMA SpinMove ==
  ASSUME SpinTyped, NEW t \in Parties, NEW from \in SpinStates, NEW to \in SpinStates,
         Spin!Go(t, from, to)
  PROVE  /\ spin[t] = from /\ spin'[t] = to /\ spin' \in [Parties -> SpinStates]
         /\ \A u \in Parties \ {t} : spin'[u] = spin[u]
         /\ waiting_processes \in Nat
         /\ from \in Counting => waiting_processes # 0
         /\ Count(Parties, Between', "yes")
              = waiting_processes + One(to \in Counting) - One(from \in Counting)
<1>1. /\ spin[t] = from /\ spin'[t] = to /\ spin' \in [Parties -> SpinStates]
      /\ \A u \in Parties \ {t} : spin'[u] = spin[u]
  BY DEF Spin!Go, SpinTyped
<1>2. OnlyMoves(t, Parties, Between, Between')
  BY <1>1 DEF OnlyMoves, Between
<1>3. /\ Between[t] = "yes" <=> from \in Counting
      /\ Between'[t] = "yes" <=> to \in Counting
  BY <1>1 DEF Between
<1>4. waiting_processes = Count(Parties, Between, "yes")
  BY DEF SpinTyped
<1>5. waiting_processes \in Nat /\ (from \in Counting => waiting_processes # 0)
  BY <1>3, <1>4, BarrierAssumption, CountIsNat
<1>6. Count(Parties, Between', "yes")
        = waiting_processes + One(to \in Counting) - One(from \in Counting)
  <2>1. Count(Parties, Between', "yes")
          = waiting_processes + One(Between'[t] = "yes") - One(Between[t] = "yes")
    BY <1>2, <1>4, BarrierAssumption, CountAfterMove
  <2> QED BY <1>3, <2>1 DEF One
<1> QED BY <1>1, <1>5, <1>6

LEMMA SpinTypedMove ==
  ASSUME SpinTyped, NEW t \in Parties, NEW from \in SpinStates, NEW to \in SpinStates,
         Spin!Go(t, from, to), liberando' \in {0, 1},
         waiting_processes' = waiting_processes + One(to \in Counting) - One(from \in Counting),
         \/ master' = master /\ (from \in Holding <=> to \in Holding)
         \/ master = Nobody /\ master' = t /\ to \in Holding
         \/ from \in Holding /\ to \notin Holding /\ master' = Nobody
  PROVE  SpinTyped'
<1>1. /\ spin[t] = from /\ spin'[t] = to /\ spin' \in [Parties -> SpinStates]
      /\ \A u \in Parties \ {t} : spin'[u] = spin[u]
  BY SpinMove
<1>2. waiting_processes' = Count(Parties, Between', "yes")
  BY SpinMove
<1>3. master' \in Parties \cup {Nobody} /\ \A u \in Parties : master' = u <=> spin'[u] \in Holding
  BY <1>1, BarrierAssumption DEF SpinTyped
<1> QED BY <1>1, <1>2, <1>3 DEF SpinTyped

\* Steps in a phase: what they are and where they lead.
LEMMA SpinNext == SpinInv /\ [Spin!Next]_spins => SpinInv'
<1> SUFFICES ASSUME SpinInv, [Spin!Next]_spins PROVE SpinInv'
  OBVIOUS
<1> DEFINE Phase == Gathers \/ Gathered \/ Releases
<1> USE DEF SpinStates, Counting, Holding, One
<1>0. SpinTyped /\ (Gathers \/ Gathered \/ Releases) /\ liberando \in {0, 1}
  BY DEF SpinInv, SpinTyped
<1>1. ASSUME NEW t \in Parties, Spin!Call(t) PROVE SpinInv'
  <2>1. /\ Spin!Go(t, "out", "called")
        /\ master' = master /\ liberando' = liberando /\ waiting_processes' = waiting_processes
    BY <1>1 DEF Spin!Call
  <2>2. SpinTyped'
    BY <1>0, <2>1, SpinMove, SpinTypedMove
  <2>3. Phase'
    BY <1>0, <2>1, SpinMove DEF Gathers, Gathered, Releases
  <2> QED BY <2>2, <2>3 DEF SpinInv
<1>2. ASSUME NEW t \in Parties, Spin!Pass(t) PROVE SpinInv'
  <2>1. /\ Spin!Go(t, "called", "passed") /\ liberando = 0
        /\ master' = master /\ liberando' = liberando /\ waiting_processes' = waiting_processes
    BY <1>2 DEF Spin!Pass
  <2>2. SpinTyped'
    BY <1>0, <2>1, SpinMove, SpinTypedMove
  <2>3. Phase'
    BY <1>0, <2>1, SpinMove DEF Gathers, Gathered, Releases
  <2> QED BY <2>2, <2>3 DEF SpinInv
<1>3. ASSUME NEW t \in Parties, Spin!TryMaster(t) PROVE SpinInv'
  <2>1. /\ \/ Spin!Go(t, "passed", "master") /\ master = Nobody /\ master' = t
           \/ Spin!Go(t, "passed", "other") /\ master # Nobody /\ master' = master
        /\ liberando' = liberando /\ waiting_processes' = waiting_processes
    BY <1>3 DEF Spin!TryMaster
  <2>2. SpinTyped'
    BY <1>0, <2>1, SpinMove, SpinTypedMove
  <2>3. Phase'
    BY <1>0, <2>1, BarrierAssumption, SpinMove DEF Gathers, Gathered, Releases
  <2> QED BY <2>2, <2>3 DEF SpinInv
<1>4. ASSUME NEW t \in Parties, Spin!Increment(t) PROVE SpinInv'
  <2>1. /\ Spin!Go(t, "master", "master_in") \/ Spin!Go(t, "other", "other_in")
        /\ master' = master /\ liberando' = liberando
        /\ waiting_processes' = waiting_processes + 1
    BY <1>4 DEF Spin!Increment
  <2>2. SpinTyped'
    BY <1>0, <2>1, SpinMove, SpinTypedMove
  <2>3. Phase'
    BY <1>0, <2>1, SpinMove DEF Gathers, Gathered, Releases
  <2> QED BY <2>2, <2>3 DEF SpinInv
<1>5. ASSUME NEW t \in Parties, Spin!CanRelease(t) PROVE SpinInv'
  <2>1. /\ Spin!Go(t, "master_in", "release")
        /\ waiting_processes = Cardinality(Parties)
        /\ master' = master /\ liberando' = liberando /\ waiting_processes' = waiting_processes
    BY <1>5, SameCardinality DEF Spin!CanRelease, Spin!n
  <2>2. SpinTyped'
    BY <1>0, <2>1, SpinMove, SpinTypedMove
  <2>3. Gathers
    BY <1>0, <2>1, SpinMove DEF Gathered, Releases
  <2>4. \A u \in Parties : spin[u] \in Counting
    BY <1>0, <2>1, BarrierAssumption, CountIsAll DEF SpinTyped, Between
  <2>5. \A u \in Parties \ {t} : spin[u] = "other_in"
    BY <1>0, <2>1, <2>3, <2>4, SpinMove DEF SpinTyped, Gathers
  <2>6. Gathered'
    BY <1>0, <2>1, <2>3, <2>5, SpinMove DEF Gathers, Gathered
  <2> QED BY <2>2, <2>6 DEF SpinInv
<1>6. ASSUME NEW t \in Parties, Spin!Activate(t) PROVE SpinInv'
  <2>1. /\ Spin!Go(t, "release", "locked") /\ liberando' = 1
        /\ master' = master /\ waiting_processes' = waiting_processes
    BY <1>6 DEF Spin!Activate
  <2>2. SpinTyped'
    BY <1>0, <2>1, SpinMove, SpinTypedMove
  <2>3. Gathered
    BY <1>0, <2>1, SpinMove DEF Gathers, Releases
  <2>4. Releases'
    BY <1>0, <2>1, <2>3, SpinMove DEF Gathered, Releases
  <2> QED BY <2>2, <2>4 DEF SpinInv
<1>7. ASSUME NEW t \in Parties, Spin!Lock(t) PROVE SpinInv'
  <2>1. /\ Spin!Go(t, "other_in", "locked") /\ master = Nobody /\ master' = t
        /\ liberando' = liberando /\ waiting_processes' = waiting_processes
    BY <1>7 DEF Spin!Lock
  <2>2. SpinTyped'
    BY <1>0, <2>1, SpinMove, SpinTypedMove
  <2>3. Releases
    BY <1>0, <2>1, BarrierAssumption, SpinMove DEF Gathers, Gathered, SpinTyped
  <2>4. Releases'
    BY <1>0, <2>1, <2>3, SpinMove DEF Releases
  <2> QED BY <2>2, <2>4 DEF SpinInv
<1>8. ASSUME NEW t \in Parties, Spin!Unlock(t) PROVE SpinInv'
  <2>1. /\ Spin!Go(t, "locked", "decrement") /\ master' = Nobody
        /\ liberando' = liberando /\ waiting_processes' = waiting_processes
    BY <1>8 DEF Spin!Unlock
  <2>2. SpinTyped'
    BY <1>0, <2>1, SpinMove, SpinTypedMove
  <2>3. Releases
    BY <1>0, <2>1, SpinMove DEF Gathers, Gathered
  <2>4. Releases'
    BY <1>0, <2>1, <2>3, SpinMove DEF Releases
  <2> QED BY <2>2, <2>4 DEF SpinInv
<1>9. ASSUME NEW t \in Parties, Spin!Decrement(t) PROVE SpinInv'
  <2>1. /\ Spin!Go(t, "decrement", "check") /\ master' = master /\ liberando' = liberando
        /\ waiting_processes' = waiting_processes - 1
    BY <1>9 DEF Spin!Decrement
  <2>2. SpinTyped'
    BY <1>0, <2>1, SpinMove, SpinTypedMove
  <2>3. Releases
    BY <1>0, <2>1, SpinMove DEF Gathers, Gathered
  <2>4. Releases'
    BY <1>0, <2>1, <2>3, SpinMove DEF Releases
  <2> QED BY <2>2, <2>4 DEF SpinInv
<1>10. ASSUME NEW t \in Parties, Spin!CanStop(t) PROVE SpinInv'
  <2>1. /\ \/ Spin!Go(t, "check", "stop") /\ waiting_processes = 0
           \/ Spin!Go(t, "check", "out")
        /\ master' = master /\ liberando' = liberando /\ waiting_processes' = waiting_processes
    BY <1>10 DEF Spin!CanStop
  <2>2. SpinTyped'
    BY <1>0, <2>1, SpinMove, SpinTypedMove
  <2>3. Phase'
    BY <1>0, <2>1, SpinMove DEF Gathers, Gathered, Releases
  <2> QED BY <2>2, <2>3 DEF SpinInv
<1>11. ASSUME NEW t \in Parties, Spin!Deactivate(t) PROVE SpinInv'
  <2>1. /\ Spin!Go(t, "stop", "out") /\ liberando' = 0
        /\ master' = master /\ waiting_processes' = waiting_processes
    BY <1>11 DEF Spin!Deactivate
  <2>2. SpinTyped'
    BY <1>0, <2>1, SpinMove, SpinTypedMove
  <2>3. Gathers \/ Releases
    BY <1>0, <2>1, SpinMove DEF Gathered
  <2>4. CASE Gathers
    <3>1. Gathers'
      BY <1>0, <2>1, <2>4, SpinMove DEF Gathers
    <3> QED BY <2>2, <3>1 DEF SpinInv
  <2>5. CASE Releases
    <3>1. Count(Parties, Between, "yes") = 0
      BY <1>0, <2>1, <2>5, SpinMove DEF SpinTyped, Releases
    <3>2. \A u \in Parties : Between[u] # "yes"
      BY <3>1, BarrierAssumption, CountIsNat
    <3>3. \A u \in Parties : spin[u] \notin Counting
      BY <3>2 DEF Between
    <3>4. Gathers'
      BY <1>0, <2>1, <2>5, <3>3, SpinMove DEF Gathers, Releases
    <3> QED BY <2>2, <3>4 DEF SpinInv
  <2> QED BY <2>2, <2>3, <2>4, <2>5 DEF SpinInv
<1>12. CASE UNCHANGED spins
  BY <1>0, <1>12 DEF spins, SpinInv, SpinTyped, Gathers, Gathered, Releases, Between
<1> QED BY <1>1, <1>2, <1>3, <1>4, <1>5, <1>6, <1>7, <1>8, <1>9, <1>10, <1>11, <1>12
        DEF Spin!Next, Spin!Wait

\* A release ends when nobody is between increment and decrement.
LEMMA EndsEmpty ==
  SpinInv /\ [Spin!Next]_spins => (liberando = 1 /\ liberando' = 0 => waiting_processes = 0)
<1> SUFFICES ASSUME SpinInv, [Spin!Next]_spins, liberando = 1, liberando' = 0
             PROVE  waiting_processes = 0
  OBVIOUS
<1>1. PICK t \in Parties : spin[t] = "stop"
  BY DEF spins, Spin!Next, Spin!Wait, Spin!Call, Spin!Pass, Spin!TryMaster, Spin!Increment,
         Spin!CanRelease, Spin!Activate, Spin!Lock, Spin!Unlock, Spin!Decrement, Spin!CanStop,
         Spin!Deactivate, Spin!Go
<1> QED BY <1>1 DEF SpinInv, Gathers, Gathered, Releases

\* k rounds are over, or are when those that are late have left.
Late(t) == \/ spin[t] \in {"release", "locked", "decrement", "check", "stop"}
           \/ spin[t] = "other_in" /\ ~Gathers
SpinRound(k) ==
  /\ arrived \in [Parties -> Nat] /\ left \in [Parties -> Nat]
  /\ \A t \in Parties :
       /\ arrived[t] = IF Late(t) \/ spin[t] = "out" THEN k ELSE k + 1
       /\ left[t] = IF Late(t) THEN k - 1 ELSE k

SpinRounds == \E k \in Nat : SpinRound(k)

\* A step that neither calls nor leaves, and after which t, and nobody else, may
\* be elsewhere, but no later than before.
LEMMA RoundStays ==
  ASSUME NEW k \in Nat, SpinRound(k), UNCHANGED <<arrived, left>>,
         \A u \in Parties : (Late(u)' <=> Late(u)) /\ (spin'[u] = "out" <=> spin[u] = "out")
  PROVE  SpinRound(k)'
BY DEF SpinRound

LEMMA LateSame ==
  ASSUME Gathers' <=> Gathers, NEW u, spin'[u] = spin[u]
  PROVE  Late(u)' <=> Late(u)
BY DEF Late

LEMMA RoundsNext ==
  ASSUME SpinInv, SpinInv', SpinRounds, [Spin!Next]_spins
  PROVE  SpinRounds' /\ [Spin!B!Next]_<<arrived, left>>
<1> USE DEF SpinStates, Counting, Holding
<1>0. SpinTyped /\ (Gathers \/ Gathered \/ Releases) /\ (Gathers \/ Gathered \/ Releases)'
  BY DEF SpinInv
<1>k. PICK k \in Nat : SpinRound(k)
  BY DEF SpinRounds
<1> DEFINE Goal == (\E l \in Nat : SpinRound(l)') /\ [Spin!B!Next]_<<arrived, left>>
<1>1. ASSUME NEW t \in Parties, Spin!Call(t) PROVE Goal
  <2>1. /\ Spin!Go(t, "out", "called") /\ arrived' = [arrived EXCEPT ![t] = @ + 1]
        /\ master' = master /\ liberando' = liberando /\ left' = left
    BY <1>1 DEF Spin!Call
  <2>2. Gathers' <=> Gathers
    BY <1>0, <2>1, SpinMove DEF Gathers
  <2>3. \A u \in Parties : Late(u)' <=> Late(u)
    BY <1>0, <2>1, <2>2, SpinMove DEF Late
  <2>4. SpinRound(k)'
    BY <1>0, <1>k, <2>1, <2>3, SpinMove DEF SpinRound, Late
  <2>5. arrived[t] = left[t]
    BY <1>0, <1>k, <2>1, SpinMove DEF SpinRound, Late
  <2>6. Spin!B!Next
    BY <2>1, <2>5 DEF Spin!B!Next, Spin!B!Arrive
  <2> QED BY <2>4, <2>6
<1>2. ASSUME NEW t \in Parties, Spin!Pass(t) PROVE Goal
  <2>1. /\ Spin!Go(t, "called", "passed") /\ liberando = 0
        /\ master' = master /\ liberando' = liberando
        /\ arrived' = arrived /\ left' = left
    BY <1>2 DEF Spin!Pass
  <2>2. Gathers' <=> Gathers
    BY <1>0, <2>1, BarrierAssumption, SpinMove DEF Gathers, Gathered, Releases, SpinTyped
  <2>3. \A u \in Parties : (Late(u)' <=> Late(u)) /\ (spin'[u] = "out" <=> spin[u] = "out")
    BY <1>0, <2>1, <2>2, SpinMove DEF Late
  <2>4. SpinRound(k)'
    BY <1>k, <2>1, <2>3, RoundStays
  <2> QED BY <2>1, <2>4
<1>3. ASSUME NEW t \in Parties, Spin!TryMaster(t) PROVE Goal
  <2>1. /\ \/ Spin!Go(t, "passed", "master") /\ master = Nobody /\ master' = t
           \/ Spin!Go(t, "passed", "other") /\ master # Nobody /\ master' = master
        /\ liberando' = liberando
        /\ arrived' = arrived /\ left' = left
    BY <1>3 DEF Spin!TryMaster
  <2>2. Gathers /\ Gathers'
    BY <1>0, <2>1, BarrierAssumption, SpinMove DEF Gathers, Gathered, Releases, SpinTyped
  <2>3. \A u \in Parties : (Late(u)' <=> Late(u)) /\ (spin'[u] = "out" <=> spin[u] = "out")
    BY <1>0, <2>1, <2>2, SpinMove DEF Late
  <2>4. SpinRound(k)'
    BY <1>k, <2>1, <2>3, RoundStays
  <2> QED BY <2>1, <2>4
<1>4. ASSUME NEW t \in Parties, Spin!Increment(t) PROVE Goal
  <2>1. /\ Spin!Go(t, "master", "master_in") \/ Spin!Go(t, "other", "other_in")
        /\ master' = master /\ liberando' = liberando
        /\ arrived' = arrived /\ left' = left
    BY <1>4 DEF Spin!Increment
  <2>2. Gathers /\ Gathers'
    BY <1>0, <2>1, BarrierAssumption, SpinMove DEF Gathers, Gathered, Releases, SpinTyped
  <2>3. \A u \in Parties : (Late(u)' <=> Late(u)) /\ (spin'[u] = "out" <=> spin[u] = "out")
    BY <1>0, <2>1, <2>2, SpinMove DEF Late
  <2>4. SpinRound(k)'
    BY <1>k, <2>1, <2>3, RoundStays
  <2> QED BY <2>1, <2>4
<1>5. ASSUME NEW t \in Parties, Spin!CanRelease(t) PROVE Goal
  <2>1. /\ Spin!Go(t, "master_in", "release")
        /\ waiting_processes = Cardinality(Parties)
        /\ arrived' = arrived /\ left' = left
    BY <1>5, SameCardinality DEF Spin!CanRelease, Spin!n
  <2>2. Gathers
    BY <1>0, <2>1, SpinMove DEF Gathered, Releases
  <2>3. \A u \in Parties : spin[u] \in {"master_in", "other_in"}
    <3>1. \A u \in Parties : Between[u] = "yes"
      BY <1>0, <2>1, BarrierAssumption, CountIsAll DEF SpinTyped
    <3> QED BY <2>2, <3>1 DEF Between, Gathers
  <2>4. \A u \in Parties : ~Late(u) /\ spin[u] # "out"
    BY <2>2, <2>3 DEF Late
  <2>5. Gathered'
    BY <1>0, <2>1, SpinMove DEF Gathers, Releases
  <2>6. ~Gathers'
    BY <2>5 DEF Gathers, Gathered
  <2>7. \A u \in Parties : Late(u)'
    BY <2>5, <2>6 DEF Late, Gathered
  <2>8. SpinRound(k + 1)'
    BY <1>k, <2>1, <2>4, <2>7 DEF SpinRound
  <2> QED BY <2>1, <2>8
<1>6. ASSUME NEW t \in Parties, Spin!Activate(t) PROVE Goal
  <2>1. /\ Spin!Go(t, "release", "locked") /\ liberando' = 1
        /\ arrived' = arrived /\ left' = left
    BY <1>6 DEF Spin!Activate
  <2>2. ~Gathers /\ ~Gathers'
    BY <1>0, <2>1, BarrierAssumption, SpinMove DEF Gathers, Gathered, Releases, SpinTyped
  <2>3. \A u \in Parties : (Late(u)' <=> Late(u)) /\ (spin'[u] = "out" <=> spin[u] = "out")
    BY <1>0, <2>1, <2>2, SpinMove DEF Late
  <2>4. SpinRound(k)'
    BY <1>k, <2>1, <2>3, RoundStays
  <2> QED BY <2>1, <2>4
<1>7. ASSUME NEW t \in Parties, Spin!Lock(t) PROVE Goal
  <2>1. /\ Spin!Go(t, "other_in", "locked") /\ master = Nobody
        /\ arrived' = arrived /\ left' = left
    BY <1>7 DEF Spin!Lock
  <2>2. ~Gathers /\ ~Gathers'
    BY <1>0, <2>1, BarrierAssumption, SpinMove DEF Gathers, Gathered, Releases, SpinTyped
  <2>3. \A u \in Parties : (Late(u)' <=> Late(u)) /\ (spin'[u] = "out" <=> spin[u] = "out")
    BY <1>0, <2>1, <2>2, SpinMove DEF Late
  <2>4. SpinRound(k)'
    BY <1>k, <2>1, <2>3, RoundStays
  <2> QED BY <2>1, <2>4
<1>8. ASSUME NEW t \in Parties, Spin!Unlock(t) PROVE Goal
  <2>1. /\ Spin!Go(t, "locked", "decrement") /\ liberando' = liberando
        /\ arrived' = arrived /\ left' = left
    BY <1>8 DEF Spin!Unlock
  <2>2. ~Gathers /\ ~Gathers'
    BY <1>0, <2>1, BarrierAssumption, SpinMove DEF Gathers, Gathered, Releases, SpinTyped
  <2>3. \A u \in Parties : (Late(u)' <=> Late(u)) /\ (spin'[u] = "out" <=> spin[u] = "out")
    BY <1>0, <2>1, <2>2, SpinMove DEF Late
  <2>4. SpinRound(k)'
    BY <1>k, <2>1, <2>3, RoundStays
  <2> QED BY <2>1, <2>4
<1>9. ASSUME NEW t \in Parties, Spin!Decrement(t) PROVE Goal
  <2>1. /\ Spin!Go(t, "decrement", "check") /\ liberando' = liberando
        /\ arrived' = arrived /\ left' = left
    BY <1>9 DEF Spin!Decrement
  <2>2. ~Gathers /\ ~Gathers'
    BY <1>0, <2>1, BarrierAssumption, SpinMove DEF Gathers, Gathered, Releases, SpinTyped
  <2>3. \A u \in Parties : (Late(u)' <=> Late(u)) /\ (spin'[u] = "out" <=> spin[u] = "out")
    BY <1>0, <2>1, <2>2, SpinMove DEF Late
  <2>4. SpinRound(k)'
    BY <1>k, <2>1, <2>3, RoundStays
  <2> QED BY <2>1, <2>4
<1>10. ASSUME NEW t \in Parties, NEW at \in {"check", "stop"}, Spin!Go(t, at, "out"),
              left' = [left EXCEPT ![t] = @ + 1], arrived' = arrived,
              \A u \in Parties \ {t} : Late(u)' <=> Late(u)
       PROVE  Goal
  <2>1. Late(t) /\ ~Late(t)' /\ spin'[t] = "out" /\ \A u \in Parties \ {t} : spin'[u] = spin[u]
    BY <1>0, <1>10, SpinMove DEF Late
  <2>2. SpinRound(k)'
    BY <1>k, <1>10, <2>1 DEF SpinRound
  <2>3. left[t] < k /\ \A u \in Parties : arrived[u] \in Nat /\ k <= arrived[u]
    BY <1>k, <2>1 DEF SpinRound
  <2>4. \A u \in Parties : left[t] < arrived[u]
    BY <1>k, <2>3 DEF SpinRound
  <2>5. Spin!B!Next
    BY <1>10, <2>4 DEF Spin!B!Next, Spin!B!Leave
  <2> QED BY <2>2, <2>5
<1>11. ASSUME NEW t \in Parties, Spin!CanStop(t) PROVE Goal
  <2>1. /\ arrived' = arrived /\ master' = master /\ liberando' = liberando
        /\ \/ Spin!Go(t, "check", "stop") /\ left' = left
           \/ Spin!Go(t, "check", "out") /\ left' = [left EXCEPT ![t] = @ + 1]
    BY <1>11 DEF Spin!CanStop
  <2>2. Gathers' <=> Gathers
    BY <1>0, <2>1, SpinMove DEF Gathers
  <2>3. \A u \in Parties \ {t} : Late(u)' <=> Late(u)
    BY <1>0, <2>1, <2>2, SpinMove DEF Late
  <2>4. CASE Spin!Go(t, "check", "stop") /\ left' = left
    <3>1. \A u \in Parties : (Late(u)' <=> Late(u)) /\ (spin'[u] = "out" <=> spin[u] = "out")
      BY <1>0, <2>2, <2>4, SpinMove DEF Late
    <3>2. SpinRound(k)'
      BY <1>k, <2>1, <2>4, <3>1, RoundStays
    <3> QED BY <2>1, <2>4, <3>2
  <2> QED BY <1>10, <2>1, <2>3, <2>4
<1>12. ASSUME NEW t \in Parties, Spin!Deactivate(t) PROVE Goal
  <2>1. /\ Spin!Go(t, "stop", "out") /\ liberando' = 0
        /\ arrived' = arrived /\ master' = master /\ left' = [left EXCEPT ![t] = @ + 1]
    BY <1>12 DEF Spin!Deactivate
  <2>2. ASSUME NEW u \in Parties \ {t} PROVE Late(u)' <=> Late(u)
    <3>1. spin'[u] = spin[u]
      BY <1>0, <2>1, SpinMove
    <3>2. CASE Gathers
      BY <1>0, <2>1, <3>1, <3>2, SpinMove DEF Gathers, Late
    <3>3. CASE Releases
      <4>1. Count(Parties, Between, "yes") = 0
        BY <1>0, <2>1, <3>3, SpinMove DEF SpinTyped, Releases
      <4>2. Between[u] # "yes"
        BY <4>1, BarrierAssumption, CountIsNat
      <4>3. spin[u] # "other_in"
        BY <4>2 DEF Between
      <4> QED BY <3>1, <4>3 DEF Late
    <3>4. ~Gathered
      BY <1>0, <2>1, SpinMove DEF Gathered
    <3> QED BY <1>0, <3>2, <3>3, <3>4
  <2> QED BY <1>10, <2>1, <2>2
<1>13. CASE UNCHANGED spins
  <2>1. SpinRound(k)' /\ UNCHANGED <<arrived, left>>
    BY <1>k, <1>13 DEF spins, SpinRound, Late, Gathers
  <2> QED BY <2>1 DEF SpinRounds
<1>14. Goal
  BY <1>1, <1>2, <1>3, <1>4, <1>5, <1>6, <1>7, <1>8, <1>9, <1>11, <1>12, <1>13
  DEF Spin!Next, Spin!Wait, SpinRounds
<1> QED BY <1>14 DEF SpinRounds

-----------------------------------------------------------------------------
(* The channel, for any number of readers and writers.                         *)

ChannelTyped == /\ call \in [Senders \cup Receivers ->
                               {"out", "store", "stored", "asked", "load"}]
                /\ \A t \in Senders : call[t] \in {"out", "store", "stored"}
                /\ \A t \in Receivers : call[t] \in {"out", "asked", "load"}
                /\ v \in Nat /\ read \in Nat /\ write \in Nat /\ taken \in Seq(Nat)

Storing == Count(Senders, call, "store")
Telling == Count(Senders, call, "stored")
Asking == Count(Receivers, call, "asked")
Loading == Count(Receivers, call, "load")

\* A value that has been stored is still to be announced, announced, about to be
\* loaded or taken; whoever has asked is about to get or has got a value, and is
\* as yet unseen, or has admitted one writer.
Announced == v = Telling + write + Loading + Len(taken)
Admitted == Len(taken) + Loading + Asking = read + Storing + v

ChannelInv == /\ ChannelTyped /\ Announced /\ Admitted
              /\ \A k \in DOMAIN taken :
                   k <= taken[k] /\ taken[k] <= k + Cardinality(Receivers) - 1

LEMMA CallsAreNat ==
  /\ Storing \in Nat /\ Telling \in Nat /\ Asking \in Nat /\ Loading \in Nat
  /\ \A t \in Receivers : call[t] = "load" => Loading > 0
BY CountIsNat, ChannelAssumption DEF Storing, Telling, Asking, Loading

\* Each reader waits for one value at a time.
LEMMA OneValueEach == Asking + Loading <= Cardinality(Receivers)
<1> DEFINE A == {t \in Receivers : call[t] = "asked"}
           L == {t \in Receivers : call[t] = "load"}
<1>1. IsFiniteSet(A) /\ IsFiniteSet(L) /\ IsFiniteSet(A \cup L)
  BY ChannelAssumption, FS_Subset
<1>2. Cardinality(A \cup L) <= Cardinality(Receivers)
  BY ChannelAssumption, FS_Subset
<1>3. A \cap L = {}
  OBVIOUS
<1> HIDE DEF A, L
<1>4. Cardinality(A \cup L) = Cardinality(A) + Cardinality(L) - Cardinality({})
  BY <1>1, <1>3, FS_Union
<1>5. Cardinality({}) = 0 /\ Cardinality(A) \in Nat /\ Cardinality(L) \in Nat
  BY <1>1, FS_EmptySet, FS_CardinalityType
<1>6. Asking = Cardinality(A) /\ Loading = Cardinality(L)
  BY DEF Asking, Loading, Count, A, L
<1> QED BY <1>2, <1>4, <1>5, <1>6

\* How the numbers change when one thread moves.
LEMMA SenderMoves ==
  ASSUME ChannelTyped, NEW t \in Senders, NEW from, NEW to, Channel!Go(t, from, to)
  PROVE  /\ Storing' = Storing + One(to = "store") - One(from = "store")
         /\ Telling' = Telling + One(to = "stored") - One(from = "stored")
         /\ Asking' = Asking /\ Loading' = Loading
<1>1. /\ OnlyMoves(t, Senders, call, call') /\ call'[t] = to /\ call[t] = from
      /\ \A r \in Receivers : call'[r] = call[r]
  BY ChannelAssumption DEF OnlyMoves, ChannelTyped, Channel!Go
<1>2. \A p : Count(Senders, call', p) = Count(Senders, call, p) + One(call'[t] = p) - One(call[t] = p)
  BY <1>1, ChannelAssumption, CountAfterMove
<1>3. \A p : Count(Receivers, call', p) = Count(Receivers, call, p)
  BY <1>1, CountWithoutMove
<1>4. /\ Storing' = Count(Senders, call', "store") /\ Telling' = Count(Senders, call', "stored")
      /\ Asking' = Count(Receivers, call', "asked") /\ Loading' = Count(Receivers, call', "load")
  BY DEF Storing, Telling, Asking, Loading, Count
<1> QED BY <1>1, <1>2, <1>3, <1>4 DEF Storing, Telling, Asking, Loading

LEMMA ReceiverMoves ==
  ASSUME ChannelTyped, NEW t \in Receivers, NEW from, NEW to, Channel!Go(t, from, to)
  PROVE  /\ Asking' = Asking + One(to = "asked") - One(from = "asked")
         /\ Loading' = Loading + One(to = "load") - One(from = "load")
         /\ Storing' = Storing /\ Telling' = Telling
<1>1. /\ OnlyMoves(t, Receivers, call, call') /\ call'[t] = to /\ call[t] = from
      /\ \A s \in Senders : call'[s] = call[s]
  BY ChannelAssumption DEF OnlyMoves, ChannelTyped, Channel!Go
<1>2. \A p : Count(Receivers, call', p) = Count(Receivers, call, p) + One(call'[t] = p) - One(call[t] = p)
  BY <1>1, ChannelAssumption, CountAfterMove
<1>3. \A p : Count(Senders, call', p) = Count(Senders, call, p)
  BY <1>1, CountWithoutMove
<1>4. /\ Storing' = Count(Senders, call', "store") /\ Telling' = Count(Senders, call', "stored")
      /\ Asking' = Count(Receivers, call', "asked") /\ Loading' = Count(Receivers, call', "load")
  BY DEF Storing, Telling, Asking, Loading, Count
<1> QED BY <1>1, <1>2, <1>3, <1>4 DEF Storing, Telling, Asking, Loading

LEMMA ChannelInit == Channel!Init => ChannelInv
<1> SUFFICES ASSUME Channel!Init PROVE ChannelInv
  OBVIOUS
<1>1. ChannelTyped /\ DOMAIN taken = {} /\ Len(taken) = 0
  BY DEF Channel!Init, ChannelTyped
<1>2. \A t \in Senders \cup Receivers : call[t] = "out"
  BY DEF Channel!Init
<1>3. Storing = 0 /\ Telling = 0 /\ Asking = 0 /\ Loading = 0
  BY <1>2, CountIsNat, ChannelAssumption DEF Storing, Telling, Asking, Loading
<1> QED BY <1>1, <1>3 DEF Channel!Init, ChannelInv, Announced, Admitted

\* The steps of a writer, and those of a reader that take no value.
LEMMA ChannelMoves ==
  ASSUME ChannelInv,
         \/ \E t \in Senders :
              Channel!AwaitReader(t) \/ Channel!Store(t) \/ Channel!TellReader(t)
         \/ \E t \in Receivers : Channel!Ask(t) \/ Channel!AwaitWriter(t)
  PROVE  ChannelInv'
<1>0. ChannelTyped /\ Announced /\ Admitted
  BY DEF ChannelInv
<1>n. Storing \in Nat /\ Telling \in Nat /\ Asking \in Nat /\ Loading \in Nat /\ Len(taken) \in Nat
  BY <1>0, CallsAreNat DEF ChannelTyped
<1>1. ASSUME NEW t \in Senders, Channel!AwaitReader(t)
      PROVE  ChannelTyped' /\ Announced' /\ Admitted' /\ taken' = taken
  <2>1. Channel!Go(t, "out", "store") /\ read > 0 /\ read' = read - 1 /\ UNCHANGED <<write, v, taken>>
    BY <1>1 DEF Channel!AwaitReader
  <2>2. /\ Storing' = Storing + 1 /\ Telling' = Telling /\ Asking' = Asking /\ Loading' = Loading
    BY <1>0, <1>n, <2>1, SenderMoves DEF One
  <2>3. ChannelTyped'
    BY <1>0, <2>1, ChannelAssumption DEF ChannelTyped, Channel!Go
  <2> QED BY <1>0, <1>n, <2>1, <2>2, <2>3 DEF Announced, Admitted, ChannelTyped
<1>2. ASSUME NEW t \in Senders, Channel!Store(t)
      PROVE  ChannelTyped' /\ Announced' /\ Admitted' /\ taken' = taken
  <2>1. Channel!Go(t, "store", "stored") /\ v' = v + 1 /\ UNCHANGED <<read, write, taken>>
    BY <1>2 DEF Channel!Store
  <2>2. /\ Storing' = Storing - 1 /\ Telling' = Telling + 1 /\ Asking' = Asking /\ Loading' = Loading
    BY <1>0, <1>n, <2>1, SenderMoves DEF One
  <2>3. ChannelTyped'
    BY <1>0, <2>1, ChannelAssumption DEF ChannelTyped, Channel!Go
  <2> QED BY <1>0, <1>n, <2>1, <2>2, <2>3 DEF Announced, Admitted, ChannelTyped
<1>3. ASSUME NEW t \in Senders, Channel!TellReader(t)
      PROVE  ChannelTyped' /\ Announced' /\ Admitted' /\ taken' = taken
  <2>1. Channel!Go(t, "stored", "out") /\ write' = write + 1 /\ UNCHANGED <<read, v, taken>>
    BY <1>3 DEF Channel!TellReader
  <2>2. /\ Storing' = Storing /\ Telling' = Telling - 1 /\ Asking' = Asking /\ Loading' = Loading
    BY <1>0, <1>n, <2>1, SenderMoves DEF One
  <2>3. ChannelTyped'
    BY <1>0, <2>1, ChannelAssumption DEF ChannelTyped, Channel!Go
  <2> QED BY <1>0, <1>n, <2>1, <2>2, <2>3 DEF Announced, Admitted, ChannelTyped
<1>4. ASSUME NEW t \in Receivers, Channel!Ask(t)
      PROVE  ChannelTyped' /\ Announced' /\ Admitted' /\ taken' = taken
  <2>1. Channel!Go(t, "out", "asked") /\ read' = read + 1 /\ UNCHANGED <<write, v, taken>>
    BY <1>4 DEF Channel!Ask
  <2>2. /\ Asking' = Asking + 1 /\ Loading' = Loading /\ Storing' = Storing /\ Telling' = Telling
    BY <1>0, <1>n, <2>1, ReceiverMoves DEF One
  <2>3. ChannelTyped'
    BY <1>0, <2>1, ChannelAssumption DEF ChannelTyped, Channel!Go
  <2> QED BY <1>0, <1>n, <2>1, <2>2, <2>3 DEF Announced, Admitted, ChannelTyped
<1>5. ASSUME NEW t \in Receivers, Channel!AwaitWriter(t)
      PROVE  ChannelTyped' /\ Announced' /\ Admitted' /\ taken' = taken
  <2>1. /\ Channel!Go(t, "asked", "load") /\ write > 0 /\ write' = write - 1
        /\ UNCHANGED <<read, v, taken>>
    BY <1>5 DEF Channel!AwaitWriter
  <2>2. /\ Asking' = Asking - 1 /\ Loading' = Loading + 1 /\ Storing' = Storing /\ Telling' = Telling
    BY <1>0, <1>n, <2>1, ReceiverMoves DEF One
  <2>3. ChannelTyped'
    BY <1>0, <2>1, ChannelAssumption DEF ChannelTyped, Channel!Go
  <2> QED BY <1>0, <1>n, <2>1, <2>2, <2>3 DEF Announced, Admitted, ChannelTyped
<1> QED BY <1>1, <1>2, <1>3, <1>4, <1>5 DEF ChannelInv

\* A reader that loads: at least as many values are stored as readers have got
\* that far, and no more than readers have asked for.
LEMMA ChannelLoads ==
  ASSUME ChannelInv, NEW t \in Receivers, Channel!Load(t)
  PROVE  ChannelInv'
<1>0. ChannelTyped /\ Announced /\ Admitted
  BY DEF ChannelInv
<1>n. Storing \in Nat /\ Telling \in Nat /\ Asking \in Nat /\ Loading \in Nat /\ Len(taken) \in Nat
  BY <1>0, CallsAreNat DEF ChannelTyped
<1>1. /\ Channel!Go(t, "load", "out") /\ taken' = Append(taken, v)
      /\ UNCHANGED <<read, write, v>>
  BY DEF Channel!Load
<1>2. Loading > 0
  BY <1>1, CallsAreNat DEF Channel!Go
<1>3. /\ Loading' = Loading - 1 /\ Asking' = Asking /\ Storing' = Storing /\ Telling' = Telling
  BY <1>0, <1>n, <1>1, ReceiverMoves DEF One
<1>4. ChannelTyped' /\ Len(taken') = Len(taken) + 1
  BY <1>0, <1>1, ChannelAssumption DEF ChannelTyped, Channel!Go
<1>5. Announced' /\ Admitted'
  <2>1. v \in Nat /\ read \in Nat /\ write \in Nat
    BY <1>0 DEF ChannelTyped
  <2>2. v' = v /\ read' = read /\ write' = write /\ Len(taken') = Len(taken) + 1
    BY <1>1, <1>4
  <2> QED BY <1>0, <1>n, <1>3, <2>1, <2>2 DEF Announced, Admitted
<1>6. Cardinality(Receivers) \in Nat
  BY ChannelAssumption, FS_CardinalityType
<1>7. Len(taken) + 1 <= v /\ v <= Len(taken) + Cardinality(Receivers)
  BY <1>0, <1>n, <1>2, <1>6, OneValueEach DEF Announced, Admitted, ChannelTyped
<1>8. ASSUME NEW k \in DOMAIN taken'
      PROVE  k <= taken'[k] /\ taken'[k] <= k + Cardinality(Receivers) - 1
  <2>1. CASE k \in DOMAIN taken
    <3>1. taken'[k] = taken[k]
      BY <1>0, <1>1, <2>1 DEF ChannelTyped
    <3> QED BY <2>1, <3>1 DEF ChannelInv
  <2>2. CASE k \notin DOMAIN taken
    <3>1. k = Len(taken) + 1 /\ taken'[k] = v
      BY <1>0, <1>1, <2>2 DEF ChannelTyped
    <3> QED BY <1>n, <1>6, <1>7, <3>1
  <2> QED BY <2>1, <2>2
<1> QED BY <1>4, <1>5, <1>8 DEF ChannelInv

LEMMA ChannelNext == ChannelInv /\ [Channel!Next]_channel => ChannelInv'
<1>1. ASSUME ChannelInv, UNCHANGED channel PROVE ChannelInv'
  BY <1>1 DEF channel, ChannelInv, ChannelTyped, Announced, Admitted, Storing, Telling, Asking,
              Loading, Count
<1> QED BY <1>1, ChannelMoves, ChannelLoads DEF Channel!Next

LEMMA ReadsAreBounded == ChannelInv => ReadsFollowWrites
<1> SUFFICES ASSUME ChannelInv, NEW k \in DOMAIN taken
             PROVE  taken[k] \in k..(k + Cardinality(Receivers) - 1)
  BY SameCardinality DEF ReadsFollowWrites, Channel!ReadsFollowWrites
<1>1. k \in Nat /\ taken[k] \in Nat /\ Cardinality(Receivers) \in Nat
  BY ChannelAssumption, FS_CardinalityType DEF ChannelInv, ChannelTyped
<1> QED BY <1>1 DEF ChannelInv

-----------------------------------------------------------------------------
(* Side by side.                                                               *)

InvY == FairInv /\ CondInv /\ SpinInv /\ SpinRounds /\ ChannelInv

LEMMA StepsApart ==
  [NextY]_varsY =>
    [Fair!Next]_fair /\ [Spin!Next]_spins /\ [Cond!Next]_conds /\ [Channel!Next]_channel
BY DEF NextY, varsY

LEMMA InvYInit == InitY => InvY
<1> SUFFICES ASSUME InitY PROVE InvY
  OBVIOUS
<1>1. SpinRound(0)
  BY DEF InitY, Spin!Init, SpinRound, Late
<1> QED BY <1>1, FairInit, CondInit, SpinInit, ChannelInit DEF InitY, InvY, SpinRounds

LEMMA InvYNext == InvY /\ [NextY]_varsY => InvY'
BY StepsApart, FairNext, CondNext, SpinNext, RoundsNext, ChannelNext DEF InvY

LEMMA InvariantY == SpecY => []InvY
BY InvYInit, InvYNext, PTL DEF SpecY

\* rw_lock_justo.c: threads go in in their order of arrival, and the pop of a
\* thread takes out that thread.
THEOREM InOrderOfArrival == SpecY => []EntersInOrder
<1>1. InvY => EntersInOrder
  BY InOrder DEF InvY, FairInv
<1> QED BY <1>1, InvariantY, PTL

\* rw_lock_justo.c implements the abstract readers-writer lock.
THEOREM QueueLockRefines == SpecY => ImplementsRWLock
<1>1. InitY => Fair!RW!Init
  BY DEF InitY, Fair!Init, Fair!RW!Init, Fair!Mode, Fair!Threads
<1>2. InvY /\ [NextY]_varsY => [Fair!RW!Next]_Places
  BY StepsApart, FairRefines DEF InvY
<1> QED BY <1>1, <1>2, InvariantY, PTL
        DEF SpecY, ImplementsRWLock, Fair!ImplementsRWLock, Fair!RW!Spec, Places

\* Ejercicio 10: the release is closed on nobody, old answers or not.
THEOREM ReleaseIsClean == SpecY => ReleaseEndsEmpty
<1> DEFINE Empty == liberando = 1 /\ liberando' = 0 => waiting_processes = 0
<1>1. InvY /\ [NextY]_varsY => [Empty]_spins
  BY StepsApart, EndsEmpty DEF InvY
<1> HIDE DEF Empty
<1>2. SpecY => [][Empty]_spins
  BY <1>1, InvariantY, PTL DEF SpecY
<1> QED BY <1>2 DEF Empty, ReleaseEndsEmpty, Spin!ReleaseEndsEmpty, Spin!vars, spins

\* Ejercicio 10 implements the abstract barrier: nobody comes out of a round
\* that somebody has not reached.
THEOREM SpinBarrierRefines == SpecY => ImplementsBarrier
<1>1. InitY => Spin!B!Init
  BY DEF InitY, Spin!Init, Spin!B!Init
<1>2. InvY /\ InvY' /\ [NextY]_varsY => [Spin!B!Next]_<<arrived, left>>
  BY StepsApart, RoundsNext DEF InvY
<1> QED BY <1>1, <1>2, InvariantY, PTL
        DEF SpecY, ImplementsBarrier, Spin!ImplementsBarrier, Spin!B!Spec

\* Ejercicio 9: the same, while no wake-up is spurious.
THEOREM CondBarrierHolds == SpecY => []NobodyLeavesEarly
<1>1. InvY => NobodyLeavesEarly
  BY NobodyEarly DEF InvY
<1> QED BY <1>1, InvariantY, PTL

\* Ejercicio 11, with any number of readers and writers: a reader gets no value
\* before its turn has been written, and none that is further ahead than there
\* are other readers; one reader gets every value, once and in order.
THEOREM ReadsAreInTurn == SpecY => []ReadsFollowWrites
<1>1. InvY => ReadsFollowWrites
  BY ReadsAreBounded DEF InvY
<1> QED BY <1>1, InvariantY, PTL
=============================================================================
