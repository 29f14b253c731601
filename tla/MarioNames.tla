------------------------------ MODULE MarioNames ------------------------------
(***************************************************************************)
(* How a node of SO1_TP2025-MARIO takes its name: name:confimar_nombre     *)
(* asks, udp:receive_hello_loop of the others answers.  What the module    *)
(* says about text is the one thing that matters here: name.erl splits a   *)
(* message at its spaces without trimming it, udp.erl trims it first.      *)
(***************************************************************************)
EXTENDS Naturals, Sequences

CONSTANTS
  MNodes,      \* the nodes, one per host
  MNames,      \* the ids nombrar_nodo can draw
  NotNamed,    \* before it has drawn any
  MaxMail      \* bound: no broadcast while a receiver holds this many datagrams

ASSUME MailAssumption == NotNamed \notin MNames /\ MaxMail \in Nat \ {0}

VARIABLES
  stage,     \* "naming": about to ask; "waiting"; "named"; "up"
  nodoID,    \* the name asked for, then owned
  answers,   \* the INVALID_NAMEs in the mailbox of the process that waits
  mail,      \* the datagrams in receive_hello_loop's mailbox
  table,     \* the keys of the ETS table
  ears,      \* is receive_hello_loop still running?
  objected,  \* history: the names refused to a node while it could still read it
  onTime     \* are requests answered, by all who can, before the asker stops waiting?

varsN == <<stage, nodoID, answers, mail, table, ears, objected, onTime>>

Packet(kind, i, n) == [kind |-> kind, id |-> i, from |-> n]
Receivers == {n \in MNodes : stage[n] = "up" /\ ears[n]}
HasName(n) == stage[n] \in {"named", "up"}
Unanswered(n) == \E m \in Receivers : \E k \in DOMAIN mail[m] :
  mail[m][k].kind = "NAME_REQUEST" /\ mail[m][k].from = n

InitN ==
  /\ onTime \in BOOLEAN
  /\ stage = [n \in MNodes |-> "naming"]
  /\ nodoID = [n \in MNodes |-> NotNamed]
  /\ answers = [n \in MNodes |-> <<>>]
  /\ mail = [n \in MNodes |-> <<>>]
  /\ table = [n \in MNodes |-> {}]
  /\ ears = [n \in MNodes |-> TRUE]
  /\ objected = [n \in MNodes |-> {}]

\* The second word of a message: the id, with the line end of the message
\* still on it when the text was not trimmed and the id is the last word.
SecondWord(m, trimmed) == <<m.id, ~trimmed /\ m.kind # "HELLO">>

\* gen_udp:send to 255.255.255.255.
SendAll(m) ==
  /\ \A n \in Receivers : Len(mail[n]) < MaxMail
  /\ \E heard \in IF onTime THEN {Receivers} ELSE SUBSET Receivers :
       mail' = [n \in MNodes |-> IF n \in heard THEN Append(mail[n], m) ELSE mail[n]]

\* confimar_nombre: draw a name and ask for it.
Ask(n) ==
  /\ stage[n] = "naming"
  /\ \E i \in MNames :
       nodoID' = [nodoID EXCEPT ![n] = i] /\ SendAll(Packet("NAME_REQUEST", i, n))
  /\ stage' = [stage EXCEPT ![n] = "waiting"]
  /\ objected' = [objected EXCEPT ![n] = {}]
  /\ UNCHANGED <<answers, table, ears, onTime>>

\* esperar_nodo reads a message: it is a refusal only when its second word is
\* the name, and every other message is skipped.
ReadAnswer(n) ==
  /\ stage[n] = "waiting" /\ answers[n] # <<>>
  /\ answers' = [answers EXCEPT ![n] = Tail(@)]
  /\ stage' = [stage EXCEPT ![n] =
       IF SecondWord(Head(answers[n]), FALSE) = <<nodoID[n], FALSE>> THEN "naming" ELSE @]
  /\ UNCHANGED <<nodoID, mail, table, ears, objected, onTime>>

\* Ten seconds have gone by: the mailbox is not looked at again.
Confirm(n) ==
  /\ stage[n] = "waiting"
  /\ onTime => ~Unanswered(n) /\ answers[n] = <<>>
  /\ stage' = [stage EXCEPT ![n] = "named"]
  /\ UNCHANGED <<nodoID, answers, mail, table, ears, objected, onTime>>

\* nodo:inicio creates the table and spawns udp:start.
Start(n) ==
  /\ stage[n] = "named"
  /\ stage' = [stage EXCEPT ![n] = "up"]
  /\ UNCHANGED <<nodoID, answers, mail, table, ears, objected, onTime>>

\* hello_loop.  Bound: only to a network without unread datagrams.  The loop
\* goes on after receive_hello_loop has ended.
SayHelloM(n) ==
  /\ stage[n] = "up" /\ \A m \in MNodes : mail[m] = <<>>
  /\ SendAll(Packet("HELLO", nodoID[n], n))
  /\ UNCHANGED <<stage, nodoID, answers, table, ears, objected, onTime>>

Take(n, kind) ==
  /\ n \in Receivers /\ mail[n] # <<>> /\ Head(mail[n]).kind = kind

\* Mutant: the answer goes to the listener of whoever owns the name.
HearRequestEcho(n) ==
  /\ Take(n, "NAME_REQUEST")
  /\ LET m == Head(mail[n]) IN
       mail' = [mail EXCEPT ![n] = IF m.id = nodoID[n]
                  THEN Append(Tail(@), Packet("INVALID_NAME", m.id, n)) ELSE Tail(@)]
  /\ UNCHANGED <<stage, nodoID, answers, table, ears, objected, onTime>>

\* "NAME_REQUEST" for the own name: INVALID_NAME goes to port 12346 of the
\* asker, where name.erl's socket is open until it stops waiting and, later,
\* receive_hello_loop's.  Any other name is not this node's business.
HearRequest(n) ==
  /\ Take(n, "NAME_REQUEST")
  /\ LET m == Head(mail[n])
         refuse == SecondWord(m, TRUE) = <<nodoID[n], FALSE>>
         rest == [mail EXCEPT ![n] = Tail(@)]
         no == Packet("INVALID_NAME", m.id, n)
     IN \/ /\ refuse /\ stage[m.from] \in {"naming", "waiting"}
           /\ answers' = [answers EXCEPT ![m.from] = Append(@, no)]
           /\ objected' = [objected EXCEPT ![m.from] = @ \cup {m.id}]
           /\ mail' = rest
        \/ /\ refuse /\ m.from \in Receivers
           /\ mail' = [rest EXCEPT ![m.from] = Append(@, no)]
           /\ UNCHANGED <<answers, objected>>
        \/ /\ ~refuse \/ ~onTime \/ stage[m.from] = "named"
           /\ mail' = rest
           /\ UNCHANGED <<answers, objected>>
  /\ UNCHANGED <<stage, nodoID, table, ears, onTime>>

\* "HELLO" of another node: actualizar_nodos.
HearHello(n) ==
  /\ Take(n, "HELLO")
  /\ table' = [table EXCEPT ![n] = @ \cup ({Head(mail[n]).id} \ {nodoID[n]})]
  /\ mail' = [mail EXCEPT ![n] = Tail(@)]
  /\ UNCHANGED <<stage, nodoID, answers, ears, objected, onTime>>

\* Any other first word: "true -> ok" is a clause for the atom true and no
\* clause for the rest, so the process ends with a case_clause error and its
\* socket is closed.
HearOther(n) ==
  /\ Take(n, "INVALID_NAME")
  /\ ears' = [ears EXCEPT ![n] = FALSE]
  /\ mail' = [mail EXCEPT ![n] = <<>>]
  /\ UNCHANGED <<stage, nodoID, answers, table, objected, onTime>>

NextN == \E n \in MNodes :
  \/ Ask(n) \/ ReadAnswer(n) \/ Confirm(n) \/ Start(n)
  \/ SayHelloM(n) \/ HearRequest(n) \/ HearHello(n) \/ HearOther(n)

-----------------------------------------------------------------------------
\* What ends receive_hello_loop is an INVALID_NAME that reaches a node which
\* has stopped waiting for it: never when all answers are in time.
DeafnessTakesALateAnswer == onTime => \A n \in MNodes : ears[n]

\* name.erl:9, "Proceso que nombra no rechazado por algun nodo": a name that
\* somebody objected to is not confirmed, if all answers are read in time.
ConfirmedNameWasNotRefused == onTime => \A n \in MNodes : HasName(n) => nodoID[n] \notin objected[n]

=============================================================================
