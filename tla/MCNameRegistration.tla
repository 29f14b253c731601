------------------------- MODULE MCNameRegistration -------------------------
(* Small networks for TLC: nodes are interchangeable, and so are names. *)
EXTENDS NameRegistration

Harsh == [lossy |-> TRUE, oneAtATime |-> FALSE, prompt |-> FALSE, calm |-> FALSE]
Gentle == [lossy |-> FALSE, oneAtATime |-> TRUE, prompt |-> TRUE, calm |-> TRUE]

\* Everything may go wrong in the one, nothing in the other.
HarshAndGentle == {Harsh, Gentle}

\* Gentle, but nodes start whenever they like.
Concurrent == {[Gentle EXCEPT !.oneAtATime = FALSE]}

\* Gentle, but HELLOs go out whenever their period ends.
Talkative == {[Gentle EXCEPT !.calm = FALSE]}

Symmetry == Permutations(Nodes) \cup Permutations(Ids)

=============================================================================
