----------------------------- MODULE RWLockWrite -----------------------------
(***************************************************************************)
(* rw_lock_write.c of Ejercicio 5: a readers-writer lock over one mutex    *)
(* and one condition variable that lets no reader in while a writer waits. *)
(* Every function holds the mutex from its first to its last line, except  *)
(* in pthread_cond_wait, so what it does between two of these points is    *)
(* one step.  A thread leaves pthread_cond_wait after a broadcast, or for  *)
(* no reason at all, and looks at its condition again.                     *)
(***************************************************************************)
EXTENDS Naturals, FiniteSets

CONSTANTS
  Readers,   \* the lectores
  Writers    \* the escritores

Threads == Readers \cup Writers

ASSUME ThreadsAssumption ==
  /\ IsFiniteSet(Readers) /\ IsFiniteSet(Writers)
  /\ Readers \cap Writers = {}

VARIABLES
  pc,               \* "out", "waiting" in the loop of a lock function, "reading" or "writing"
  asleep,           \* the threads inside pthread_cond_wait
  waiting_writers,
  is_writing,
  active_readers

vars == <<pc, asleep, waiting_writers, is_writing, active_readers>>

-----------------------------------------------------------------------------
\* rwlock_init
Init ==
  /\ pc = [t \in Threads |-> "out"]
  /\ asleep = {}
  /\ waiting_writers = 0 /\ is_writing = 0 /\ active_readers = 0

\* The conditions of the two loops, for a number of waiting writers.
ReaderMustWait == waiting_writers > 0 \/ is_writing # 0
WriterMustWait == active_readers > 0 \/ is_writing # 0

Sleep(t) ==
  /\ pc' = [pc EXCEPT ![t] = "waiting"]
  /\ asleep' = asleep \cup {t}

Enter(t, mode) ==
  /\ pc' = [pc EXCEPT ![t] = mode]
  /\ asleep' = asleep \ {t}

\* A thread that can go on holding the mutex: it calls the lock function, or it
\* is out of pthread_cond_wait.
Running(t) == t \notin asleep /\ pc[t] \in {"out", "waiting"}

\* Mutant: readers do not make way for the writers that wait.
RdLockGreedy(t) ==
  /\ Running(t)
  /\ IF is_writing # 0
       THEN Sleep(t) /\ UNCHANGED active_readers
       ELSE Enter(t, "reading") /\ active_readers' = active_readers + 1
  /\ UNCHANGED <<waiting_writers, is_writing>>

\* rwlock_rdlock
RdLock(t) ==
  /\ Running(t)
  /\ IF ReaderMustWait
       THEN Sleep(t) /\ UNCHANGED active_readers
       ELSE Enter(t, "reading") /\ active_readers' = active_readers + 1
  /\ UNCHANGED <<waiting_writers, is_writing>>

\* Mutant: a writer counts itself again each time it is woken.
WrLockRecount(t) ==
  /\ Running(t)
  /\ IF WriterMustWait
       THEN /\ Sleep(t)
            /\ waiting_writers' = waiting_writers + 1
            /\ UNCHANGED is_writing
       ELSE /\ Enter(t, "writing")
            /\ waiting_writers' = IF pc[t] = "out" THEN waiting_writers ELSE waiting_writers - 1
            /\ is_writing' = 1
  /\ UNCHANGED active_readers

\* Mutant: a writer looks at its condition once, with "if".
WrLockOnce(t) ==
  /\ Running(t)
  /\ IF WriterMustWait /\ pc[t] = "out"
       THEN /\ Sleep(t)
            /\ waiting_writers' = waiting_writers + 1
            /\ UNCHANGED is_writing
       ELSE /\ Enter(t, "writing")
            /\ waiting_writers' = IF pc[t] = "out" THEN waiting_writers ELSE waiting_writers - 1
            /\ is_writing' = 1
  /\ UNCHANGED active_readers

\* rwlock_wrlock: a writer counts itself as waiting on the way in only, and no
\* longer once it writes.
WrLock(t) ==
  LET others == IF pc[t] = "out" THEN waiting_writers ELSE waiting_writers - 1 IN
  /\ Running(t)
  /\ IF WriterMustWait
       THEN Sleep(t) /\ waiting_writers' = others + 1 /\ UNCHANGED is_writing
       ELSE Enter(t, "writing") /\ waiting_writers' = others /\ is_writing' = 1
  /\ UNCHANGED active_readers

\* Mutant: the caller is always taken for a reader.
UnlockReader(t) ==
  /\ pc[t] \in {"reading", "writing"}
  /\ active_readers' = active_readers - 1
  /\ asleep' = IF active_readers' = 0 THEN {} ELSE asleep
  /\ pc' = [pc EXCEPT ![t] = "out"]
  /\ UNCHANGED <<waiting_writers, is_writing>>

\* Mutant: the last reader wakes nobody.
UnlockSilent(t) ==
  /\ pc[t] \in {"reading", "writing"}
  /\ IF active_readers > 0
       THEN /\ active_readers' = active_readers - 1
            /\ UNCHANGED <<is_writing, asleep>>
       ELSE /\ is_writing' = 0
            /\ asleep' = {}
            /\ UNCHANGED active_readers
  /\ pc' = [pc EXCEPT ![t] = "out"]
  /\ UNCHANGED waiting_writers

\* rwlock_unlock: the caller is taken for a reader if there is one.
Unlock(t) ==
  /\ pc[t] \in {"reading", "writing"}
  /\ IF active_readers > 0
       THEN /\ active_readers' = active_readers - 1
            /\ asleep' = IF active_readers' = 0 THEN {} ELSE asleep
            /\ UNCHANGED is_writing
       ELSE /\ is_writing' = 0
            /\ asleep' = {}
            /\ UNCHANGED active_readers
  /\ pc' = [pc EXCEPT ![t] = "out"]
  /\ UNCHANGED waiting_writers

\* pthread_cond_wait may return without a broadcast.
SpuriousWakeup(t) ==
  /\ t \in asleep
  /\ asleep' = asleep \ {t}
  /\ UNCHANGED <<pc, waiting_writers, is_writing, active_readers>>

Next ==
  \/ \E t \in Readers : RdLock(t)
  \/ \E t \in Writers : WrLock(t)
  \/ \E t \in Threads : Unlock(t)
  \/ \E t \in Threads : SpuriousWakeup(t)

Spec == Init /\ [][Next]_vars

\* A thread that asked for the lock runs on, and every lector and escritor
\* gives the lock back; none has to come back for it.
FairSpec ==
  /\ Spec
  /\ \A t \in Readers : WF_vars(pc[t] = "waiting" /\ RdLock(t))
  /\ \A t \in Writers : WF_vars(pc[t] = "waiting" /\ WrLock(t))
  /\ \A t \in Threads : WF_vars(Unlock(t))

-----------------------------------------------------------------------------
TypeOK ==
  /\ pc \in [Threads -> {"out", "waiting", "reading", "writing"}]
  /\ \A t \in Readers : pc[t] # "writing"
  /\ \A t \in Writers : pc[t] # "reading"
  /\ asleep \subseteq {t \in Threads : pc[t] = "waiting"}
  /\ waiting_writers \in Nat /\ active_readers \in Nat
  /\ is_writing \in {0, 1}

\* The three counters say exactly who is where, so that rwlock_unlock is right
\* to tell a reader from a writer by active_readers alone, and the unsigned
\* counters never go below zero.
CountersAreExact ==
  /\ active_readers = Cardinality({t \in Readers : pc[t] = "reading"})
  /\ waiting_writers = Cardinality({t \in Writers : pc[t] = "waiting"})
  /\ is_writing = 1 <=> \E t \in Writers : pc[t] = "writing"

\* Nobody sleeps through its turn: a thread inside pthread_cond_wait still has
\* the condition it waits for before it, although broadcasts are sent only by
\* the last reader and by writers.
SleepersMustWait == \A t \in asleep :
  IF t \in Readers THEN ReaderMustWait ELSE WriterMustWait

\* The lock keeps what a readers-writer lock promises, with "waiting" hidden.
Mode == [t \in Threads |-> IF pc[t] = "waiting" THEN "out" ELSE pc[t]]
RW == INSTANCE RWLock WITH mode <- Mode
ImplementsRWLock == RW!Spec

\* The writers come first: readers that keep coming cannot keep all of them
\* out.
WritersProgress ==
  (\E t \in Writers : pc[t] = "waiting") ~> (\E t \in Writers : pc[t] = "writing")

=============================================================================
