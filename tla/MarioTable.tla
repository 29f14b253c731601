------------------------------ MODULE MarioTable ------------------------------
(***************************************************************************)
(* The table of nodes of SO1_TP2025-MARIO as one node sees it.  Each HELLO *)
(* of another node (hello_loop, every UDP_INTERVALO_HELLO) sets the time   *)
(* of its entry; borrar_nodos_viejos, in a process of its own, takes a     *)
(* copy of the table every UDP_BORRAR_NODO_ESPERA and then deletes one by  *)
(* one the entries that were too old in the copy.  Time goes on only when  *)
(* nothing is due.                                                         *)
(***************************************************************************)
EXTENDS Naturals, FiniteSets

CONSTANTS
  Others,      \* the other nodes
  HelloEvery,  \* UDP_INTERVALO_HELLO (17 s)
  CleanEvery,  \* UDP_BORRAR_NODO_ESPERA (40 s)
  MaxAge,      \* UDP_BORRAR_NODO_DIFERENCIA (40 s)
  MaxLosses    \* bound: HELLOs of one node lost one after the other

ASSUME TimesAssumption == {HelloEvery, CleanEvery, MaxAge} \subseteq Nat \ {0}
ASSUME LifeAssumption == 2 * HelloEvery <= MaxAge  \* config.hrl: 34 s and 40 s

VARIABLES
  running,   \* the nodes that have not left
  age,       \* seconds since an entry's time; Absent when there is no entry
  helloIn,   \* time to the next HELLO of each node
  cleanIn,   \* time to the next copy
  doomed,    \* the entries of the copy still to be deleted
  lost       \* history: HELLOs lost since the last one heard

varsT == <<running, age, helloIn, cleanIn, doomed, lost>>

Oldest == MaxAge + CleanEvery + 1  \* ages beyond this are not told apart
Absent == Oldest + 1
Present == {i \in Others : age[i] # Absent}

InitT ==
  /\ running = Others
  /\ age = [i \in Others |-> Absent]
  /\ helloIn \in [Others -> 0..(HelloEvery - 1)]
  /\ cleanIn = 0
  /\ doomed = {}
  /\ lost = [i \in Others |-> 0]

\* Mutant: a HELLO of a node that is in the table does not renew its entry.
HelloKeepsFirst(i) ==
  /\ i \in running /\ helloIn[i] = 0
  /\ helloIn' = [helloIn EXCEPT ![i] = HelloEvery]
  /\ age' = [age EXCEPT ![i] = IF @ = Absent THEN 0 ELSE @]
  /\ UNCHANGED <<running, cleanIn, doomed, lost>>

\* One turn of hello_loop of node i; the datagram arrives or is lost.
HelloT(i) ==
  /\ i \in running /\ helloIn[i] = 0
  /\ helloIn' = [helloIn EXCEPT ![i] = HelloEvery]
  /\ \/ /\ age' = [age EXCEPT ![i] = 0]
        /\ lost' = [lost EXCEPT ![i] = 0]
     \/ /\ lost[i] < MaxLosses
        /\ lost' = [lost EXCEPT ![i] = @ + 1]
        /\ UNCHANGED age
  /\ UNCHANGED <<running, cleanIn, doomed>>

\* Mutant: the age is compared for equality.
CopyExact ==
  /\ cleanIn = 0 /\ doomed = {}
  /\ doomed' = {i \in Present : age[i] = MaxAge}
  /\ cleanIn' = CleanEvery
  /\ UNCHANGED <<running, age, helloIn, lost>>

\* ets:tab2list and the comparison of every entry with TimeNow.
Copy ==
  /\ cleanIn = 0 /\ doomed = {}
  /\ doomed' = {i \in Present : age[i] > MaxAge}
  /\ cleanIn' = CleanEvery
  /\ UNCHANGED <<running, age, helloIn, lost>>

\* ets:delete, whatever the table says by now.
Delete(i) ==
  /\ i \in doomed
  /\ doomed' = doomed \ {i}
  /\ age' = [age EXCEPT ![i] = Absent]
  /\ UNCHANGED <<running, helloIn, cleanIn, lost>>

\* The node leaves; nothing in the protocol says so.
LeaveT(i) ==
  /\ i \in running
  /\ running' = running \ {i}
  /\ UNCHANGED <<age, helloIn, cleanIn, doomed, lost>>

Down(x) == IF x = 0 THEN 0 ELSE x - 1

TickT ==
  /\ doomed = {} /\ cleanIn > 0
  /\ \A i \in running : helloIn[i] > 0
  /\ age' = [i \in Others |-> IF age[i] >= Oldest THEN age[i] ELSE age[i] + 1]
  /\ helloIn' = [i \in Others |-> Down(helloIn[i])]
  /\ cleanIn' = cleanIn - 1
  /\ UNCHANGED <<running, doomed, lost>>

NextT ==
  \/ \E i \in Others : HelloT(i) \/ Delete(i) \/ LeaveT(i)
  \/ Copy \/ TickT

-----------------------------------------------------------------------------
\* The two intervals of config.hrl leave room for one HELLO to be lost: an
\* entry that the cleaner has picked has missed two, even if by the time it
\* is deleted another HELLO has renewed it.
OneLossIsSurvived == [][\A i \in Others :
  i \notin doomed /\ i \in doomed' /\ i \in running => lost[i] >= 2]_varsT

=============================================================================
