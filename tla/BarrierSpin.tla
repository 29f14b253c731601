------------------------------ MODULE BarrierSpin ------------------------------
(***************************************************************************)
(* barrier.h of Ejercicio 10: a barrier of spinlocks.  The first thread to *)
(* arrive takes the lock "master" and opens it when all have arrived; the  *)
(* others pass through it one by one, and whoever finds nobody left behind *)
(* it closes the release.  Every access to the counter and to "liberando"  *)
(* is a step, made under counter_lock.                                     *)
(***************************************************************************)
EXTENDS Naturals, FiniteSets

CONSTANTS
  Threads,    \* the W threads of main, for which barrier_init is called
  Nobody,     \* the holder of a free lock
  Rounds      \* bound: ITERS, calls of barrier_wait by each thread

n == Cardinality(Threads)

VARIABLES
  pc,                  \* what each thread does next
  master,              \* who holds the lock "master"
  liberando,
  waiting_processes,
  arrived,             \* calls of barrier_wait each thread has begun
  left                 \* calls it has come out of

vars == <<pc, master, liberando, waiting_processes, arrived, left>>

-----------------------------------------------------------------------------
\* barrier_init
Init ==
  /\ pc = [t \in Threads |-> "out"]
  /\ master = Nobody
  /\ liberando = 0 /\ waiting_processes = 0
  /\ arrived = [t \in Threads |-> 0] /\ left = [t \in Threads |-> 0]

Go(t, from, to) == pc[t] = from /\ pc' = [pc EXCEPT ![t] = to]

Call(t) ==
  /\ Go(t, "out", "called")
  /\ arrived[t] < Rounds
  /\ arrived' = [arrived EXCEPT ![t] = @ + 1]
  /\ UNCHANGED <<master, liberando, waiting_processes, left>>

\* Mutant: a thread does not wait for the end of the last release.
PassAnyway(t) ==
  /\ Go(t, "called", "passed")
  /\ UNCHANGED <<master, liberando, waiting_processes, arrived, left>>

\* The loop on barrier_releasing.
Pass(t) ==
  /\ Go(t, "called", "passed")
  /\ liberando = 0
  /\ UNCHANGED <<master, liberando, waiting_processes, arrived, left>>

\* pthread_spin_trylock(&b->master)
TryMaster(t) ==
  /\ Go(t, "passed", IF master = Nobody THEN "master" ELSE "other")
  /\ master' = IF master = Nobody THEN t ELSE master
  /\ UNCHANGED <<liberando, waiting_processes, arrived, left>>

\* barrier_increment_processes
Increment(t) ==
  /\ \/ Go(t, "master", "master_in")
     \/ Go(t, "other", "other_in")
  /\ waiting_processes' = waiting_processes + 1
  /\ UNCHANGED <<master, liberando, arrived, left>>

\* Mutant: one thread too few is waited for.
CanReleaseEarly(t) ==
  /\ Go(t, "master_in", "release")
  /\ waiting_processes >= n - 1
  /\ UNCHANGED <<master, liberando, waiting_processes, arrived, left>>

\* The loop on barrier_can_release.
CanRelease(t) ==
  /\ Go(t, "master_in", "release")
  /\ waiting_processes = n
  /\ UNCHANGED <<master, liberando, waiting_processes, arrived, left>>

\* barrier_activate_releasing
Activate(t) ==
  /\ Go(t, "release", "locked")
  /\ liberando' = 1
  /\ UNCHANGED <<master, waiting_processes, arrived, left>>

\* The others take the lock once it is open...
Lock(t) ==
  /\ Go(t, "other_in", "locked")
  /\ master = Nobody
  /\ master' = t
  /\ UNCHANGED <<liberando, waiting_processes, arrived, left>>

\* ...and give it back, like the master.
Unlock(t) ==
  /\ Go(t, "locked", "decrement")
  /\ master' = Nobody
  /\ UNCHANGED <<liberando, waiting_processes, arrived, left>>

\* barrier_decrement_processes
Decrement(t) ==
  /\ Go(t, "decrement", "check")
  /\ waiting_processes' = waiting_processes - 1
  /\ UNCHANGED <<master, liberando, arrived, left>>

\* Mutant: any thread ends the release.
CanStopAlways(t) ==
  /\ Go(t, "check", "stop")
  /\ UNCHANGED <<left, master, liberando, waiting_processes, arrived>>

\* barrier_can_stop_release: what it saw may be old when it is acted on.
CanStop(t) ==
  /\ Go(t, "check", IF waiting_processes = 0 THEN "stop" ELSE "out")
  /\ left' = IF waiting_processes = 0 THEN left ELSE [left EXCEPT ![t] = @ + 1]
  /\ UNCHANGED <<master, liberando, waiting_processes, arrived>>

\* barrier_deactivate_releasing
Deactivate(t) ==
  /\ Go(t, "stop", "out")
  /\ liberando' = 0
  /\ left' = [left EXCEPT ![t] = @ + 1]
  /\ UNCHANGED <<master, waiting_processes, arrived>>

Wait(t) ==
  \/ Pass(t) \/ TryMaster(t) \/ Increment(t) \/ CanRelease(t) \/ Activate(t)
  \/ Lock(t) \/ Unlock(t) \/ Decrement(t) \/ CanStop(t) \/ Deactivate(t)

Next == \E t \in Threads : Call(t) \/ Wait(t)

Spec == Init /\ [][Next]_vars

-----------------------------------------------------------------------------
\* A release ends when nobody is left in it: barrier_can_stop_release is asked
\* in one critical section and acted upon in another, but a stale answer never
\* closes the release on threads that are still to pass, nor the next one.
ReleaseEndsEmpty ==
  [][liberando = 1 /\ liberando' = 0 => waiting_processes = 0]_vars

\* Nobody comes out of a round that somebody has not reached.
B == INSTANCE Barrier
ImplementsBarrier == B!Spec

\* Nobody is left spinning: every thread gets through all its rounds.
AllRoundsEnd == \A t \in Threads : <>(left[t] = Rounds)

=============================================================================
