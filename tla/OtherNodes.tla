------------------------------ MODULE OtherNodes ------------------------------
(* The nodes of the other three projects side by side: a behaviour is that *)
(* of one of them, and the variables of the rest keep their first values.  *)
EXTENDS Resolucion3, MarioNames, MarioTable, Resolucion1Table

VARIABLE project  \* which of them

varsO == <<project, vars3, varsN, varsT, varsR>>

InitO ==
  /\ project \in {"Resolucion3", "MarioNames", "MarioTable", "Resolucion1"}
  /\ Init3 /\ (project # "Resolucion3" => ~prompt /\ first = {})
  /\ InitN /\ (project # "MarioNames" => ~onTime)
  /\ InitT /\ (project # "MarioTable" => helloIn = [i \in Others |-> 0])
  /\ InitR

NextO ==
  \/ project = "Resolucion3" /\ Next3 /\ UNCHANGED <<project, varsN, varsT, varsR>>
  \/ project = "MarioNames" /\ NextN /\ UNCHANGED <<project, vars3, varsT, varsR>>
  \/ project = "MarioTable" /\ NextT /\ UNCHANGED <<project, vars3, varsN, varsR>>
  \/ project = "Resolucion1" /\ NextR /\ UNCHANGED <<project, vars3, varsN, varsT>>

\* Timers expire and processes run, in the project the behaviour is of.
FairO ==
  /\ WF_varsT(project = "MarioTable" /\ (Copy \/ TickT))
  /\ \A i \in Others : /\ WF_varsT(project = "MarioTable" /\ Delete(i))
                       /\ WF_varsT(project = "MarioTable" /\ HelloT(i))
  /\ WF_varsR(project = "Resolucion1" /\ ReceiveUDP)
  /\ \A p \in Pids : WF_varsR(project = "Resolucion1" /\ (Renew(p) \/ Expire(p)))

SpecO == InitO /\ [][NextO]_varsO /\ FairO

\* The cleaner of MARIO's table may delete an entry that a HELLO has renewed
\* since the copy (OneLossIsSurvived), but the node comes back; and one that
\* has left is forgotten for good.
TableFollowsTheNodes == project = "MarioTable" => \A i \in Others :
  /\ i \in running ~> (i \in Present \/ i \notin running)
  /\ i \notin running ~> [](i \notin Present)

=============================================================================
