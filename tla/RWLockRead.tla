------------------------------ MODULE RWLockRead ------------------------------
(***************************************************************************)
(* rw_lock_read.c of Ejercicio 5: a readers-writer lock made of three      *)
(* semaphores, whose rwlock_unlock is the same for both kinds of thread.   *)
(* Each semaphore call is a step of its own.                               *)
(***************************************************************************)
EXTENDS Naturals

CONSTANTS
  Readers,   \* the lectores
  Writers,   \* the escritores
  MaxValue   \* bound: value of a semaphore

Threads == Readers \cup Writers

VARIABLES
  pc,        \* the call each thread makes next: its label below
  reading, writing, readers   \* values of the semaphores

vars == <<pc, reading, writing, readers>>

-----------------------------------------------------------------------------
\* rwlock_init
Init ==
  /\ pc = [t \in Threads |-> "out"]
  /\ reading = 1 /\ writing = 1 /\ readers = 0

Go(t, from, to) == pc[t] = from /\ pc' = [pc EXCEPT ![t] = to]

\* sem_wait, sem_trywait and sem_post, on the value of a semaphore and the next.
Wait(sem, sem2) == sem > 0 /\ sem2 = sem - 1
TryWait(sem, sem2) == sem2 = IF sem > 0 THEN sem - 1 ELSE 0
Post(sem, sem2) == sem < MaxValue /\ sem2 = sem + 1

\* rwlock_rdlock
RdEnter(t) == Go(t, "out", "count") /\ Wait(reading, reading') /\ UNCHANGED <<writing, readers>>
RdCount(t) == Go(t, "count", "first") /\ Post(readers, readers') /\ UNCHANGED <<reading, writing>>

\* sem_getvalue on readers decides whether the reader waits for the writers.
RdFirst(t) ==
  /\ Go(t, "first", IF readers = 1 THEN "block" ELSE "pass")
  /\ UNCHANGED <<reading, writing, readers>>
RdBlock(t) == Go(t, "block", "pass") /\ Wait(writing, writing') /\ UNCHANGED <<reading, readers>>
RdPass(t) == Go(t, "pass", "reading") /\ Post(reading, reading') /\ UNCHANGED <<writing, readers>>

\* rwlock_wrlock
WrLock(t) == Go(t, "out", "writing") /\ Wait(writing, writing') /\ UNCHANGED <<reading, readers>>

\* rwlock_unlock
UnTryReading(t) ==
  /\ pc[t] \in {"reading", "writing"}
  /\ pc' = [pc EXCEPT ![t] = "un_writing"]
  /\ TryWait(reading, reading') /\ UNCHANGED <<writing, readers>>
UnTryWriting(t) ==
  Go(t, "un_writing", "un_readers") /\ TryWait(writing, writing') /\ UNCHANGED <<reading, readers>>
UnTryReaders(t) ==
  Go(t, "un_readers", "post_reading") /\ TryWait(readers, readers') /\ UNCHANGED <<reading, writing>>
UnPostReading(t) ==
  Go(t, "post_reading", "post_writing") /\ Post(reading, reading') /\ UNCHANGED <<writing, readers>>

UnPostWriting(t) ==
  Go(t, "post_writing", "out") /\ Post(writing, writing') /\ UNCHANGED <<reading, readers>>

Next ==
  \/ \E t \in Readers : RdEnter(t) \/ RdCount(t) \/ RdFirst(t) \/ RdBlock(t) \/ RdPass(t)
  \/ \E t \in Writers : WrLock(t)
  \/ \E t \in Threads : UnTryReading(t) \/ UnTryWriting(t) \/ UnTryReaders(t)
                          \/ UnPostReading(t) \/ UnPostWriting(t)

Spec == Init /\ [][Next]_vars

-----------------------------------------------------------------------------
\* Lines 29-31, "tengo que esperar a que se termine de escribir y luego evitar
\* que entren escritores": no lector reads beside an escritor, and no two
\* escritores write, so that no lector prints "error de lectura".
Mode == [t \in Threads |-> IF pc[t] \in {"reading", "writing"} THEN pc[t] ELSE "out"]
RW == INSTANCE RWLock WITH mode <- Mode
Exclusion == RW!Exclusion

=============================================================================
