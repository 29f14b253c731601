------------------------------ MODULE RWLockFair ------------------------------
(***************************************************************************)
(* rw_lock_justo.c of Ejercicio 5: a readers-writer lock whose threads     *)
(* first put themselves in a queue, "los threads van ingresando en orden   *)
(* de llegada" (line 6).  A thread joins the queue before it takes the     *)
(* lock's mutex and leaves it after it has released the mutex, so the      *)
(* queue moves while others are between looking at it and sleeping.        *)
(***************************************************************************)
EXTENDS Naturals, FiniteSets, Sequences

CONSTANTS
  Readers,   \* the lectores
  Writers    \* the escritores

Threads == Readers \cup Writers

VARIABLES
  pc,               \* "out", "queued", "waiting" in the loop, "entering" until it leaves the queue, "inside"
  queue,            \* the threads in order of arrival
  asleep,           \* the threads inside pthread_cond_wait
  waiting_writers,
  is_writing,
  active_readers

vars == <<pc, queue, asleep, waiting_writers, is_writing, active_readers>>

-----------------------------------------------------------------------------
\* rwlock_init
Init ==
  /\ pc = [t \in Threads |-> "out"]
  /\ queue = <<>>
  /\ asleep = {}
  /\ waiting_writers = 0 /\ is_writing = 0 /\ active_readers = 0

\* _rw_thread_queue_push
Push(t) ==
  /\ pc[t] = "out"
  /\ queue' = Append(queue, t)
  /\ pc' = [pc EXCEPT ![t] = "queued"]
  /\ UNCHANGED <<asleep, waiting_writers, is_writing, active_readers>>

\* Mutant: a reader may join the readers that are inside before its turn.
ReaderMustWaitForWriters(t) == is_writing # 0 \/ (active_readers = 0 /\ t # Head(queue))

ReaderMustWait(t) == t # Head(queue) \/ is_writing # 0

\* Mutant: a writer does not wait for the readers before it.
WriterMustWaitForWriter(t) == t # Head(queue) \/ is_writing # 0

WriterMustWait(t) == t # Head(queue) \/ active_readers > 0 \/ is_writing # 0

Running(t) == t \notin asleep /\ pc[t] \in {"queued", "waiting"}

Sleep(t) ==
  /\ pc' = [pc EXCEPT ![t] = "waiting"]
  /\ asleep' = asleep \cup {t}

Enter(t) ==
  /\ pc' = [pc EXCEPT ![t] = "entering"]
  /\ UNCHANGED asleep

\* rwlock_rdlock, what it does under the mutex.
RdLock(t) ==
  /\ Running(t)
  /\ IF ReaderMustWait(t)
       THEN Sleep(t) /\ UNCHANGED active_readers
       ELSE Enter(t) /\ active_readers' = active_readers + 1
  /\ UNCHANGED <<queue, waiting_writers, is_writing>>

\* rwlock_wrlock, what it does under the mutex.
WrLock(t) ==
  LET others == IF pc[t] = "queued" THEN waiting_writers ELSE waiting_writers - 1 IN
  /\ Running(t)
  /\ IF WriterMustWait(t)
       THEN Sleep(t) /\ waiting_writers' = others + 1 /\ UNCHANGED is_writing
       ELSE Enter(t) /\ waiting_writers' = others /\ is_writing' = 1
  /\ UNCHANGED <<queue, active_readers>>

\* _rw_thread_queue_pop, after the mutex was released: nobody is woken, and the
\* first thread of the queue goes, whoever it is.
Pop(t) ==
  /\ pc[t] = "entering"
  /\ queue' = Tail(queue)
  /\ pc' = [pc EXCEPT ![t] = "inside"]
  /\ UNCHANGED <<asleep, waiting_writers, is_writing, active_readers>>

\* Mutant: pthread_cond_signal in place of the broadcasts.
UnlockSignal(t) ==
  /\ pc[t] = "inside"
  /\ IF active_readers > 0
       THEN active_readers' = active_readers - 1 /\ UNCHANGED is_writing
       ELSE is_writing' = 0 /\ UNCHANGED active_readers
  /\ IF active_readers > 1 \/ asleep = {} THEN UNCHANGED asleep
     ELSE \E u \in asleep : asleep' = asleep \ {u}
  /\ pc' = [pc EXCEPT ![t] = "out"]
  /\ UNCHANGED <<queue, waiting_writers>>

\* rwlock_unlock
Unlock(t) ==
  /\ pc[t] = "inside"
  /\ IF active_readers > 0
       THEN /\ active_readers' = active_readers - 1
            /\ asleep' = IF active_readers' = 0 THEN {} ELSE asleep
            /\ UNCHANGED is_writing
       ELSE /\ is_writing' = 0
            /\ asleep' = {}
            /\ UNCHANGED active_readers
  /\ pc' = [pc EXCEPT ![t] = "out"]
  /\ UNCHANGED <<queue, waiting_writers>>

\* pthread_cond_wait may return without a broadcast.
SpuriousWakeup(t) ==
  /\ t \in asleep
  /\ asleep' = asleep \ {t}
  /\ UNCHANGED <<pc, queue, waiting_writers, is_writing, active_readers>>

Next ==
  \/ \E t \in Threads : Push(t)
  \/ \E t \in Readers : RdLock(t)
  \/ \E t \in Writers : WrLock(t)
  \/ \E t \in Threads : Pop(t)
  \/ \E t \in Threads : Unlock(t)
  \/ \E t \in Threads : SpuriousWakeup(t)

Spec == Init /\ [][Next]_vars

-----------------------------------------------------------------------------
\* Threads go in in their order of arrival, line 6: whoever has the lock and is
\* still in the queue is its first, so that the blind pop takes out its caller,
\* and the queue is made of those that wait, once each.
EntersInOrder ==
  /\ \A t \in Threads : pc[t] = "entering" => queue # <<>> /\ Head(queue) = t
  /\ \A t \in Threads : Cardinality({k \in DOMAIN queue : queue[k] = t})
                          = IF pc[t] \in {"out", "inside"} THEN 0 ELSE 1

\* The lock keeps what a readers-writer lock promises.
Mode == [t \in Threads |->
  IF pc[t] \notin {"entering", "inside"} THEN "out"
  ELSE IF t \in Readers THEN "reading" ELSE "writing"]
RW == INSTANCE RWLock WITH mode <- Mode
ImplementsRWLock == RW!Spec

\* "Justo": every thread that joins the queue gets the lock.
EveryoneGetsIn == \A t \in Threads : pc[t] = "queued" ~> pc[t] = "inside"

=============================================================================
