-------------------------------- MODULE Barrier --------------------------------
(***************************************************************************)
(* What barrier_wait promises in Ejercicios 9 and 10: a thread comes out   *)
(* of its k-th call only when every thread has made its k-th call, so that *)
(* nobody reads an array that another thread is still writing.             *)
(***************************************************************************)
EXTENDS Naturals

CONSTANT Threads

VARIABLES
  arrived,   \* calls of barrier_wait each thread has begun
  left       \* calls it has come out of

Init ==
  /\ arrived = [t \in Threads |-> 0]
  /\ left = [t \in Threads |-> 0]

Arrive(t) ==
  /\ arrived[t] = left[t]
  /\ arrived' = [arrived EXCEPT ![t] = @ + 1]
  /\ UNCHANGED left

Leave(t) ==
  /\ left[t] < arrived[t]
  /\ \A u \in Threads : left[t] < arrived[u]
  /\ left' = [left EXCEPT ![t] = @ + 1]
  /\ UNCHANGED arrived

Next == \E t \in Threads : Arrive(t) \/ Leave(t)

Spec == Init /\ [][Next]_<<arrived, left>>

=============================================================================
