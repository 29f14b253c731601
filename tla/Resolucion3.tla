------------------------------ MODULE Resolucion3 ------------------------------
(***************************************************************************)
(* How a node of NodoP2P-Resolucion3 takes its name and learns of others.  *)
(* init_srv:confirm_ID asks over a socket of its own; once the name is     *)
(* accepted, discovery:loop_recv listens.  A listener defends its own name *)
(* and every name it has heard somebody ask for, but keeps no list of the  *)
(* names of others for that purpose.  Each node runs on a host of its own. *)
(***************************************************************************)
EXTENDS Naturals, FiniteSets, SequencesExt

CONSTANTS
  Peers,       \* the nodes
  Names,       \* the ids get_random_id can draw
  NoName,      \* before it has drawn any
  Witnesses,   \* the nodes that may be up, with a name, before the others start
  MaxInbox,    \* bound: no broadcast while a listener holds this many datagrams
  MaxRefusals  \* bound: no new request while this many refusals are unread

ASSUME WitnessAssumption == Witnesses \subseteq Peers /\ NoName \notin Names
ASSUME PeersAssumption == IsFiniteSet(Peers)

VARIABLES
  step,        \* "check": about to ask; "asking"; "accepted"; "up"; "crashed"
  name,        \* the id asked for, then owned
  refusals,    \* the ids of the INVALID_NAMEs in confirm_ID's mailbox
  inbox,       \* the datagrams in loop_recv's mailbox
  known,       \* the keys of NodeMap
  requested,   \* Requested
  prompt,      \* does every listener answer before ID_WAIT, and nothing get lost?
  first        \* the nodes that were up before the others started

setting == <<prompt, first>>
vars3 == <<step, name, refusals, inbox, known, requested, setting>>

Request(i, n) == [kind |-> "NAME_REQUEST", id |-> i, from |-> n]
Hello(i, n) == [kind |-> "HELLO", id |-> i, from |-> n]
Up == {n \in Peers : step[n] = "up"}
Named(n) == step[n] \in {"accepted", "up"}
Pending(n) == \E m \in Peers : \E k \in DOMAIN inbox[m] :
  inbox[m][k].from = n /\ inbox[m][k].kind = "NAME_REQUEST"

Init3 ==
  /\ prompt \in BOOLEAN
  /\ first \in SUBSET Witnesses
  /\ step = [n \in Peers |-> IF n \in first THEN "up" ELSE "check"]
  /\ \E i \in [first -> Names] :
       /\ IsInjective(i)
       /\ name = [n \in Peers |-> IF n \in first THEN i[n] ELSE NoName]
  /\ refusals = [n \in Peers |-> <<>>]
  /\ inbox = [n \in Peers |-> <<>>]
  /\ known = [n \in Peers |-> {}]
  /\ requested = [n \in Peers |-> {}]

\* A datagram to the broadcast address: the listeners' sockets only, because
\* the one confirm_ID opens is bound to the host's own address.
Broadcast(m) ==
  /\ \A n \in Up : Len(inbox[n]) < MaxInbox
  /\ \E heard \in IF prompt THEN {Up} ELSE SUBSET Up :
       inbox' = [n \in Peers |-> IF n \in heard THEN Append(inbox[n], m) ELSE inbox[n]]

\* check/5 draws a name and asks for it.
Check(n) ==
  /\ step[n] = "check" /\ Len(refusals[n]) < MaxRefusals
  /\ \E i \in Names : name' = [name EXCEPT ![n] = i] /\ Broadcast(Request(i, n))
  /\ step' = [step EXCEPT ![n] = "asking"]
  /\ UNCHANGED <<refusals, known, requested, setting>>

\* is_my_id_ok returns {error, ID}.  check/5 has a clause for the id it asked
\* for and "ok"; an INVALID_NAME for an earlier one matches neither, and the
\* process ends with a case_clause error.
Refused(n) ==
  /\ step[n] = "asking" /\ refusals[n] # <<>>
  /\ refusals' = [refusals EXCEPT ![n] = Tail(@)]
  /\ step' = [step EXCEPT ![n] = IF Head(refusals[n]) = name[n] THEN "check" ELSE "crashed"]
  /\ UNCHANGED <<name, inbox, known, requested, setting>>

\* "after ?ID_WAIT -> ok": the name is taken, the socket closed.
Accept(n) ==
  /\ step[n] = "asking" /\ refusals[n] = <<>>
  /\ prompt => ~Pending(n)
  /\ step' = [step EXCEPT ![n] = "accepted"]
  /\ UNCHANGED <<name, refusals, inbox, known, requested, setting>>

\* srv_tcp:start_server spawns recv_and_hello, which opens port 12346.
StartServer(n) ==
  /\ step[n] = "accepted"
  /\ step' = [step EXCEPT ![n] = "up"]
  /\ UNCHANGED <<name, refusals, inbox, known, requested, setting>>

\* One turn of loop_send.  Bound: only to a network without unread datagrams.
SendHello(n) ==
  /\ step[n] = "up" /\ \A m \in Peers : inbox[m] = <<>>
  /\ Broadcast(Hello(name[n], n))
  /\ UNCHANGED <<step, name, refusals, known, requested, setting>>

Hear(n) == step[n] = "up" /\ inbox[n] # <<>> /\ inbox' = [inbox EXCEPT ![n] = Tail(@)]

\* loop_recv, "HELLO": the first address heard for an id is kept for good.
RecvHello(n) ==
  /\ Hear(n) /\ Head(inbox[n]).kind = "HELLO"
  /\ known' = [known EXCEPT ![n] = @ \cup ({Head(inbox[n]).id} \ {name[n]})]
  /\ UNCHANGED <<step, name, refusals, requested, setting>>

\* Mutant: the sleeper's eliminar_id reaches the listener at once.
RecvRequestForgetful(n) ==
  /\ Hear(n) /\ Head(inbox[n]).kind = "NAME_REQUEST"
  /\ LET i == Head(inbox[n]).id
         asker == Head(inbox[n]).from
     IN refusals' = [refusals EXCEPT ![asker] =
          IF i = name[n] /\ step[asker] \in {"check", "asking"} THEN Append(@, i) ELSE @]
  /\ UNCHANGED <<step, name, known, requested, setting>>

\* Mutant: an id goes into Requested also when it is refused, and again when
\* it is asked for again, so that every request gets two answers.
RecvRequestTwice(n) ==
  /\ Hear(n) /\ Head(inbox[n]).kind = "NAME_REQUEST"
  /\ LET i == Head(inbox[n]).id
         asker == Head(inbox[n]).from
     IN /\ refusals' = [refusals EXCEPT ![asker] =
             IF i \in requested[n] \cup {name[n]} THEN @ \o <<i, i>> ELSE @]
        /\ requested' = [requested EXCEPT ![n] = @ \cup {i}]
  /\ UNCHANGED <<step, name, known, setting>>

\* loop_recv, "NAME_REQUEST": refuse the own name and the requested ones,
\* remember the others.  The sleeper spawned for each of those sends
\* eliminar_id to self(), which inside its fun is the sleeper itself, so
\* nothing is ever taken out of Requested.  An INVALID_NAME goes to port 12346
\* of the asker: to confirm_ID while its socket is open, else to a listener
\* that ignores it or to nobody.
RecvRequest(n) ==
  /\ Hear(n) /\ Head(inbox[n]).kind = "NAME_REQUEST"
  /\ LET i == Head(inbox[n]).id
         asker == Head(inbox[n]).from
         refuse == i = name[n] \/ i \in requested[n]
     IN /\ \/ /\ refuse /\ step[asker] \in {"check", "asking"}
              /\ refusals' = [refusals EXCEPT ![asker] = Append(@, i)]
           \/ /\ ~refuse \/ ~prompt \/ step[asker] \notin {"check", "asking"}
              /\ UNCHANGED refusals
        /\ requested' = [requested EXCEPT ![n] = IF refuse THEN @ ELSE @ \cup {i}]
  /\ UNCHANGED <<step, name, known, setting>>

Next3 == \E n \in Peers :
  \/ Check(n) \/ Refused(n) \/ Accept(n) \/ StartServer(n)
  \/ SendHello(n) \/ RecvHello(n) \/ RecvRequest(n)

-----------------------------------------------------------------------------
\* Two nodes with one name, even if they start at the same moment, takes that
\* nobody else is listening or that an answer is lost or late: a listener that
\* owns neither name remembers the first request (Requested) and refuses the
\* second.
UniqueBesideAWitness ==
  prompt /\ first # {} =>
    \A n, m \in Peers : Named(n) /\ Named(m) /\ name[n] = name[m] => n = m

\* The case_clause in check/5 takes two listeners: the second answer to a
\* request is the one that is read as the answer to the next.
CrashTakesTwoAnswers == (\E n \in Peers : step[n] = "crashed") => Cardinality(Up) >= 2

=============================================================================
