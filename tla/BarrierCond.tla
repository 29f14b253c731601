------------------------------ MODULE BarrierCond ------------------------------
(***************************************************************************)
(* barrier.h of Ejercicio 9: a barrier of a mutex, a counter and one       *)
(* pthread_cond_wait that is not in a loop, so that it holds only as long  *)
(* as no wake-up is spurious.                                              *)
(***************************************************************************)
EXTENDS Naturals, FiniteSets

CONSTANTS
  Threads,    \* the W threads of main, for which barrier_init is called
  Rounds      \* bound: ITERS, calls of barrier_wait by each thread

\* Mutant: barrier_init is told one thread too few.
nTooFew == Cardinality(Threads) - 1

n == Cardinality(Threads)

VARIABLES
  inside,              \* the threads in pthread_cond_wait, or on their way out of it
  asleep,              \* those that nothing has woken
  waiting_processes,
  arrived,             \* calls of barrier_wait each thread has begun
  left,                \* calls it has come out of
  woken                \* history: some wake-up was spurious

vars == <<inside, asleep, waiting_processes, arrived, left, woken>>

-----------------------------------------------------------------------------
\* barrier_init
Init ==
  /\ inside = {} /\ asleep = {}
  /\ waiting_processes = 0
  /\ arrived = [t \in Threads |-> 0] /\ left = [t \in Threads |-> 0]
  /\ woken = FALSE

\* barrier_wait up to pthread_cond_wait, of a thread that is not the last.
ArriveEarly(t) ==
  /\ t \notin inside /\ arrived[t] = left[t] /\ arrived[t] < Rounds
  /\ waiting_processes # n - 1
  /\ waiting_processes' = waiting_processes + 1
  /\ inside' = inside \cup {t} /\ asleep' = asleep \cup {t}
  /\ arrived' = [arrived EXCEPT ![t] = @ + 1]
  /\ UNCHANGED <<left, woken>>

\* barrier_wait of the n-th thread, up to the unlock.
ArriveLast(t) ==
  /\ t \notin inside /\ arrived[t] = left[t] /\ arrived[t] < Rounds
  /\ waiting_processes = n - 1
  /\ waiting_processes' = 0
  /\ asleep' = {}
  /\ arrived' = [arrived EXCEPT ![t] = @ + 1]
  /\ UNCHANGED <<inside, left, woken>>

\* The n-th thread returns; it never slept.
LeaveLast(t) ==
  /\ t \notin inside /\ left[t] < arrived[t]
  /\ left' = [left EXCEPT ![t] = @ + 1]
  /\ UNCHANGED <<inside, asleep, waiting_processes, arrived, woken>>

\* A woken thread gets the mutex back and returns.
LeaveEarly(t) ==
  /\ t \in inside \ asleep
  /\ inside' = inside \ {t}
  /\ left' = [left EXCEPT ![t] = @ + 1]
  /\ UNCHANGED <<asleep, waiting_processes, arrived, woken>>

\* pthread_cond_wait returns without a broadcast, as POSIX lets it.
SpuriousWakeup(t) ==
  /\ t \in asleep
  /\ asleep' = asleep \ {t}
  /\ woken' = TRUE
  /\ UNCHANGED <<inside, waiting_processes, arrived, left>>

Run(t) == ArriveEarly(t) \/ ArriveLast(t) \/ LeaveLast(t) \/ LeaveEarly(t)
Next == \E t \in Threads :
  ArriveEarly(t) \/ ArriveLast(t) \/ LeaveLast(t) \/ LeaveEarly(t) \/ SpuriousWakeup(t)

Spec == Init /\ [][Next]_vars

-----------------------------------------------------------------------------
\* "Llegue a la barrera antes, espero al siguiente ... Me pongo a esperar a que
\* lleguen los demas hilos" (lines 30-32): while no wake-up has been spurious,
\* nobody comes out of a round that somebody has not reached.
NobodyLeavesEarly == ~woken => \A t, u \in Threads : left[t] <= arrived[u]

\* Every thread gets through all its rounds, again unless a spurious wake-up
\* has put the threads out of step for good.
AllRoundsEnd == \A t \in Threads : <>(left[t] = Rounds \/ woken)

=============================================================================
