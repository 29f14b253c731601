--------------------------- MODULE Resolucion1Table ---------------------------
(***************************************************************************)
(* The table of nodes of tpso2-RESOLUCION1 (main2.erl).  loop_receiveUDP   *)
(* keeps two maps, MapaNodos and MapaTempos; the second gives each node a  *)
(* process atentoHola that counts the silence since its last HELLO and, in *)
(* the end, asks for the node to be deleted.  One process, one mailbox:    *)
(* HELLOs, those demands and the node's own registration arrive in it.     *)
(***************************************************************************)
EXTENDS Naturals, SequencesExt

CONSTANTS
  Keys,        \* the ids on the network
  Own,         \* this node's
  Pids,        \* bound: the processes atentoHola there can be at a time
  NoPid,       \* no process
  MaxQueue     \* bound: no HELLO while the mailbox holds this many messages

ASSUME OwnAssumption == /\ Own \in Keys /\ "none" \notin Keys
                        /\ NoPid \notin Pids /\ IsFiniteSet(Pids)

VARIABLES
  there,       \* the nodes that still send HELLOs
  queue,       \* the mailbox of loop_receiveUDP
  mapaNodos,   \* the keys of MapaNodos
  mapaTempos,  \* MapaTempos: a process, or NoPid
  guard,       \* the node each live atentoHola watches, or "none"
  greeted,     \* is a "hello" in the mailbox of an atentoHola?
  confirmed    \* has atentoNameRequester waited its 5 s?

varsR == <<there, queue, mapaNodos, mapaTempos, guard, greeted, confirmed>>

Msg(what, i) == [what |-> what, id |-> i]
Alive(p) == guard[p] # "none"
Free == {p \in Pids : ~Alive(p) /\ \A i \in Keys : mapaTempos[i] # p}

InitR ==
  /\ there = Keys
  /\ queue = <<>>
  /\ mapaNodos = {}
  /\ mapaTempos = [i \in Keys |-> NoPid]
  /\ guard = [p \in Pids |-> "none"]
  /\ greeted = [p \in Pids |-> FALSE]
  /\ confirmed = FALSE

\* helloPeriodicos of any node, this one included; HELLOs may be lost.
\* Bound: one HELLO of a node at a time.
HelloR(i) ==
  /\ i \in there /\ (i = Own => confirmed)
  /\ Len(queue) < MaxQueue /\ ~Contains(queue, Msg("hello", i))
  /\ queue' = Append(queue, Msg("hello", i))
  /\ UNCHANGED <<there, mapaNodos, mapaTempos, guard, greeted, confirmed>>

LeaveR(i) ==
  /\ i \in there \ {Own}
  /\ there' = there \ {i}
  /\ UNCHANGED <<queue, mapaNodos, mapaTempos, guard, greeted, confirmed>>

\* atentoNameRequester: nobody can refuse, because the INVALID_NAME of
\* loop_receiveUDP is sent with gen_udp:send/2 over a socket that is not
\* connected.  inicioP2P passes the name on.
ConfirmR ==
  /\ ~confirmed /\ Len(queue) < MaxQueue
  /\ confirmed' = TRUE
  /\ queue' = Append(queue, Msg("ok", Own))
  /\ UNCHANGED <<there, mapaNodos, mapaTempos, guard, greeted>>

Next1(what) == queue # <<>> /\ Head(queue).what = what /\ queue' = Tail(queue)

\* A node new in MapaNodos, or there without a process, gets one.
RecvNewHello ==
  /\ Next1("hello")
  /\ LET i == Head(queue).id IN
       /\ i \notin mapaNodos \/ mapaTempos[i] = NoPid
       /\ \E p \in Free :
            /\ guard' = [guard EXCEPT ![p] = i]
            /\ mapaTempos' = [mapaTempos EXCEPT ![i] = p]
       /\ mapaNodos' = mapaNodos \cup {i}
  /\ UNCHANGED <<there, greeted, confirmed>>

\* Mutant: every HELLO of a known node starts another process.
RecvAgainSpawns ==
  /\ Next1("hello")
  /\ LET i == Head(queue).id IN
       /\ i \in mapaNodos /\ mapaTempos[i] # NoPid
       /\ \E p \in Free :
            /\ guard' = [guard EXCEPT ![p] = i]
            /\ mapaTempos' = [mapaTempos EXCEPT ![i] = p]
  /\ UNCHANGED <<there, mapaNodos, greeted, confirmed>>

\* A known node: "hello" to its process, which may have ended.
RecvHelloAgain ==
  /\ Next1("hello")
  /\ LET i == Head(queue).id
         p == mapaTempos[i]
     IN /\ i \in mapaNodos /\ p # NoPid
        /\ greeted' = [greeted EXCEPT ![p] = Alive(p)]
  /\ UNCHANGED <<there, mapaNodos, mapaTempos, guard, confirmed>>

\* {borrar, Id}.
RecvBorrar ==
  /\ Next1("borrar")
  /\ mapaNodos' = mapaNodos \ {Head(queue).id}
  /\ mapaTempos' = [mapaTempos EXCEPT ![Head(queue).id] = NoPid]
  /\ UNCHANGED <<there, guard, greeted, confirmed>>

\* {ok, Id, Ip, Puerto}: this node's own entry.
RecvOk ==
  /\ Next1("ok")
  /\ mapaNodos' = mapaNodos \cup {Own}
  /\ UNCHANGED <<there, mapaTempos, guard, greeted, confirmed>>

\* atentoHola reads "hello" and starts its 45 s again ...
Renew(p) ==
  /\ Alive(p) /\ greeted[p]
  /\ greeted' = [greeted EXCEPT ![p] = FALSE]
  /\ UNCHANGED <<there, queue, mapaNodos, mapaTempos, guard, confirmed>>

\* Mutant: the demand goes to self().
ExpireSilently(p) ==
  /\ Alive(p) /\ ~greeted[p]
  /\ guard' = [guard EXCEPT ![p] = "none"]
  /\ UNCHANGED <<there, queue, mapaNodos, mapaTempos, greeted, confirmed>>

\* ... or waits them in vain, sends {borrar, Id} and ends.
Expire(p) ==
  /\ Alive(p) /\ ~greeted[p]
  /\ queue' = Append(queue, Msg("borrar", guard[p]))
  /\ guard' = [guard EXCEPT ![p] = "none"]
  /\ UNCHANGED <<there, mapaNodos, mapaTempos, greeted, confirmed>>

ReceiveUDP == RecvNewHello \/ RecvHelloAgain \/ RecvBorrar \/ RecvOk

NextR ==
  \/ \E i \in Keys : HelloR(i) \/ LeaveR(i)
  \/ ConfirmR \/ RecvNewHello \/ RecvHelloAgain \/ RecvBorrar \/ RecvOk
  \/ \E p \in Pids : Renew(p) \/ Expire(p)

-----------------------------------------------------------------------------
\* Watchers of i, running or on their way out.
Watchers(i) == {p \in Pids : guard[p] = i}
Demands(i) == {k \in DOMAIN queue : queue[k] = Msg("borrar", i)}

\* Exactly one process watches an entry that has been greeted, or exactly one
\* demand to delete it is on its way; no entry is left for ever and no old
\* demand deletes a new entry.
OneWatcherEach == \A i \in Keys :
  LET n == Cardinality(Watchers(i)) + Cardinality(Demands(i)) IN
  IF mapaTempos[i] # NoPid THEN n = 1 /\ i \in mapaNodos ELSE n = 0

\* A node that has left is forgotten, although a HELLO that comes between the
\* end of atentoHola and its demand goes to a process that is no more.
LeftIsForgotten == \A i \in Keys : i \notin there ~> [](i \notin mapaNodos)

=============================================================================
