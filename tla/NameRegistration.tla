--------------------------- MODULE NameRegistration ---------------------------
(***************************************************************************)
(* How a node of the P2P network (project tp_so1-RESOLUCION2) chooses its  *)
(* name.  One Erlang process per node first runs name_request and then, in *)
(* the same process and with the same mailbox, udp_listener.  A second     *)
(* process, node_registry, keeps the names the node has heard in HELLOs.   *)
(*                                                                         *)
(* A message in the mailbox of the first process came through the          *)
(* ephemeral socket the request was sent from ("request"), through the     *)
(* socket bound to port 12346 ("listen"), or from node_registry ("local"). *)
(* A datagram reaches the mailboxes of its receivers when it is sent, or   *)
(* is lost; how long a receiver takes to look at it is left open, and that *)
(* is what makes an answer late.                                           *)
(***************************************************************************)
EXTENDS Naturals, SequencesExt

CONSTANTS
  Nodes,        \* the nodes started on the network
  Ids,          \* the names gen_id can draw
  NoId,         \* the name of a node that has drawn none
  MaxMailbox,   \* bound: no broadcast while a receiver holds this many messages,
                \* and no handling of a HELLO while node_registry holds this many
  Networks      \* the kinds of network and of use considered

\* lossy: a datagram may miss any of its receivers.  oneAtATime: a node starts
\* only when every other node has settled.  prompt: nobody lets a request wait
\* longer than TIMEOUT_MS.  calm: no HELLO is sent while some request waits.
Network == [lossy : BOOLEAN, oneAtATime : BOOLEAN, prompt : BOOLEAN, calm : BOOLEAN]

ASSUME NamesAssumption == NoId \notin Ids
ASSUME BoundAssumption == MaxMailbox \in Nat \ {0}
ASSUME NetworksAssumption == Networks \subseteq Network

VARIABLES
  net,       \* the network the nodes run in; it stays the same
  phase,     \* where the node's process is
  id,        \* the name it asks for, then owns
  mbox,      \* its mailbox
  query,     \* the NAME_REQUEST handle_request is serving, if any
  registry,  \* the names in node_registry's map
  rmbox      \* the mailbox of node_registry

vars == <<net, phase, id, mbox, query, registry, rmbox>>

Datagram(sock, kind, i, n) == [sock |-> sock, kind |-> kind, id |-> i, from |-> n]
NodeList(names) == [sock |-> "local", kind |-> "list", nodes |-> names]
RegistryCall(op, i) == [op |-> op, id |-> i]
NoQuery == [id |-> NoId]

Message ==
  [sock : {"listen"}, kind : {"NAME_REQUEST", "HELLO"}, id : Ids, from : Nodes]
    \cup [sock : {"request"}, kind : {"INVALID_NAME"}, id : Ids, from : Nodes]
    \cup [sock : {"local"}, kind : {"list"}, nodes : SUBSET Ids]
Calls == [op : {"add_node", "remove_node"}, id : Ids] \cup [op : {"get_all_nodes"}, id : {NoId}]

Registered(n) == phase[n] \in {"registered", "up"}
Listening == {n \in Nodes : phase[n] = "up"}
Serving(n) == query[n] # NoQuery

\* A node that changes nothing by itself any more, apart from its HELLOs.
Settled(n) ==
  \/ phase[n] = "begin" /\ id[n] = NoId
  \/ phase[n] = "up" /\ id[n] \in registry[n] /\ ~Serving(n) /\ mbox[n] = <<>> /\ rmbox[n] = <<>>

\* Somebody still has to look at a request of n.
Outstanding(n) == \E m \in Nodes :
  \/ Serving(m) /\ query[m].from = n
  \/ \E msg \in ToSet(mbox[m]) : msg.kind = "NAME_REQUEST" /\ msg.from = n

\* Bound: the HELLO of a node waits unread in some mailbox; until it is read
\* (the period is two seconds) the next one is not sent.
HelloUnread(n) == \E m \in Nodes : \E msg \in ToSet(mbox[m]) :
  msg.kind = "HELLO" /\ msg.from = n

-----------------------------------------------------------------------------
Init ==
  /\ net \in Networks
  /\ phase = [n \in Nodes |-> "begin"]
  /\ id = [n \in Nodes |-> NoId]
  /\ mbox = [n \in Nodes |-> <<>>]
  /\ query = [n \in Nodes |-> NoQuery]
  /\ registry = [n \in Nodes |-> {}]
  /\ rmbox = [n \in Nodes |-> <<>>]

\* gen_udp:send to 255.255.255.255:12346: every bound socket on that port.
Broadcast(kind, i, n) ==
  /\ \A m \in Listening : Len(mbox[m]) < MaxMailbox
  /\ \E heard \in SUBSET Listening :
       /\ net.lossy \/ heard = Listening
       /\ mbox' = [m \in Nodes |->
                     IF m \in heard THEN Append(mbox[m], Datagram("listen", kind, i, n)) ELSE mbox[m]]

\* Mutant: the request goes out before gen_id's result is stored.
RequestBeforeDrawing(n) ==
  /\ phase[n] = "begin"
  /\ Broadcast("NAME_REQUEST", id[n], n)
  /\ \E i \in Ids : id' = [id EXCEPT ![n] = i]
  /\ phase' = [phase EXCEPT ![n] = "asking"]
  /\ UNCHANGED <<net, query, registry, rmbox>>

\* start_request, at start-up or after the delay that follows a refusal.
RequestName(n) ==
  /\ phase[n] = "begin"
  /\ net.oneAtATime => \A m \in Nodes \ {n} : Settled(m)
  /\ \E i \in Ids :
       /\ id' = [id EXCEPT ![n] = i]
       /\ Broadcast("NAME_REQUEST", i, n)
  /\ phase' = [phase EXCEPT ![n] = "asking"]
  /\ UNCHANGED <<net, query, registry, rmbox>>

\* INVALID_NAME, for whatever name: sleep and start again with another one.
Refused(n) ==
  /\ phase[n] = "asking"
  /\ mbox[n] # <<>>
  /\ Head(mbox[n]).kind = "INVALID_NAME"
  /\ mbox' = [mbox EXCEPT ![n] = Tail(@)]
  /\ phase' = [phase EXCEPT ![n] = "begin"]
  /\ UNCHANGED <<net, id, query, registry, rmbox>>

\* Mutant: the timeout is taken although an answer is waiting.
AcceptedDespiteAnswer(n) ==
  /\ phase[n] = "asking"
  /\ net.prompt => ~Outstanding(n)
  /\ phase' = [phase EXCEPT ![n] = "registered"]
  /\ UNCHANGED <<net, id, mbox, query, registry, rmbox>>

\* "after TIMEOUT_MS": nobody objected, self_id is set and HELLOs start.
Accepted(n) ==
  /\ phase[n] = "asking"
  /\ mbox[n] = <<>>
  /\ net.prompt => ~Outstanding(n)
  /\ phase' = [phase EXCEPT ![n] = "registered"]
  /\ UNCHANGED <<net, id, mbox, query, registry, rmbox>>

\* udp_listener:start, the first time the node can hear anybody.
StartListener(n) ==
  /\ phase[n] = "registered"
  /\ phase' = [phase EXCEPT ![n] = "up"]
  /\ UNCHANGED <<net, id, mbox, query, registry, rmbox>>

\* Mutant: the broadcaster starts before the name is accepted.
HelloBeforeAccepted(n) ==
  /\ phase[n] # "begin"
  /\ Listening # {}
  /\ ~HelloUnread(n)
  /\ net.calm => \A m \in Nodes : ~Outstanding(m)
  /\ Broadcast("HELLO", id[n], n)
  /\ UNCHANGED <<net, phase, id, query, registry, rmbox>>

\* One turn of hello:loop; the node's own listener is among the receivers.
SayHello(n) ==
  /\ Registered(n)
  /\ Listening # {}
  /\ ~HelloUnread(n)
  /\ net.calm => \A m \in Nodes : ~Outstanding(m)
  /\ Broadcast("HELLO", id[n], n)
  /\ UNCHANGED <<net, phase, id, query, registry, rmbox>>

\* The first message of the mailbox that udp_listener:loop's pattern matches.
NextDatagram(n, k) ==
  /\ phase[n] = "up" /\ ~Serving(n)
  /\ k \in DOMAIN mbox[n]
  /\ mbox[n][k].sock = "listen"
  /\ \A j \in 1..(k - 1) : mbox[n][j].sock # "listen"

\* hello_handler:process: two calls to node_registry.
HandleHello(n) ==
  /\ Len(rmbox[n]) < MaxMailbox
  /\ \E k \in 1..Len(mbox[n]) :
       LET m == mbox[n][k] IN
       /\ NextDatagram(n, k) /\ m.kind = "HELLO"
       /\ mbox' = [mbox EXCEPT ![n] = RemoveAt(@, k)]
       /\ rmbox' = [rmbox EXCEPT ![n] =
                      Append(Append(@, RegistryCall("remove_node", m.id)), RegistryCall("add_node", m.id))]
  /\ UNCHANGED <<net, phase, id, query, registry>>

\* Mutant: handle_request waits for the list without asking for it.
HandleNameRequestUnasked(n) ==
  /\ \E k \in 1..Len(mbox[n]) :
       LET m == mbox[n][k] IN
       /\ NextDatagram(n, k) /\ m.kind = "NAME_REQUEST"
       /\ mbox' = [mbox EXCEPT ![n] = RemoveAt(@, k)]
       /\ query' = [query EXCEPT ![n] = [id |-> m.id, from |-> m.from]]
  /\ UNCHANGED <<net, phase, id, registry, rmbox>>

\* invalid_name:handle_request up to its receive.
HandleNameRequest(n) ==
  /\ \E k \in 1..Len(mbox[n]) :
       LET m == mbox[n][k] IN
       /\ NextDatagram(n, k) /\ m.kind = "NAME_REQUEST"
       /\ mbox' = [mbox EXCEPT ![n] = RemoveAt(@, k)]
       /\ query' = [query EXCEPT ![n] = [id |-> m.id, from |-> m.from]]
  /\ rmbox' = [rmbox EXCEPT ![n] = Append(@, RegistryCall("get_all_nodes", NoId))]
  /\ UNCHANGED <<net, phase, id, registry>>

\* Mutant: on an unexpected message every name counts as taken.
NodesSeenPessimist(m) == IF m.kind = "list" THEN m.nodes ELSE Ids

\* What handle_request takes for the list of nodes: the first message of its
\* mailbox whatever it is, and the empty list when that is not a list.
NodesSeen(m) == IF m.kind = "list" THEN m.nodes ELSE {}

\* The rest of handle_request: INVALID_NAME goes back when the name is listed.
Answer(n) ==
  /\ Serving(n)
  /\ mbox[n] # <<>>
  /\ LET asker == query[n].from
         objects == query[n].id \in NodesSeen(Head(mbox[n]))
         rest == [mbox EXCEPT ![n] = Tail(@)]
     IN \/ /\ objects
           /\ mbox' = [rest EXCEPT ![asker] =
                         Append(@, Datagram("request", "INVALID_NAME", query[n].id, n))]
        \/ /\ ~objects \/ net.lossy
           /\ mbox' = rest
  /\ query' = [query EXCEPT ![n] = NoQuery]
  /\ UNCHANGED <<net, phase, id, registry, rmbox>>

\* Mutant: an empty map is not worth an answer.
RegistryStepSilent(n) ==
  /\ rmbox[n] # <<>>
  /\ LET c == Head(rmbox[n]) IN
       /\ mbox' = IF c.op = "get_all_nodes" /\ registry[n] # {}
                  THEN [mbox EXCEPT ![n] = Append(@, NodeList(registry[n]))] ELSE mbox
       /\ registry' = [registry EXCEPT ![n] =
                          IF c.op = "add_node" THEN @ \cup {c.id} ELSE @ \ {c.id}]
  /\ rmbox' = [rmbox EXCEPT ![n] = Tail(@)]
  /\ UNCHANGED <<net, phase, id, query>>

\* One turn of node_registry:loop.
RegistryStep(n) ==
  /\ rmbox[n] # <<>>
  /\ LET c == Head(rmbox[n]) IN
       \/ /\ c.op = "add_node"
          /\ registry' = [registry EXCEPT ![n] = @ \cup {c.id}]
          /\ UNCHANGED mbox
       \/ /\ c.op = "remove_node"
          /\ registry' = [registry EXCEPT ![n] = @ \ {c.id}]
          /\ UNCHANGED mbox
       \/ /\ c.op = "get_all_nodes"
          /\ mbox' = [mbox EXCEPT ![n] = Append(@, NodeList(registry[n]))]
          /\ UNCHANGED registry
  /\ rmbox' = [rmbox EXCEPT ![n] = Tail(@)]
  /\ UNCHANGED <<net, phase, id, query>>

Listener(n) == HandleHello(n) \/ HandleNameRequest(n) \/ Answer(n)

Next == \E n \in Nodes :
  \/ RequestName(n) \/ Refused(n) \/ Accepted(n) \/ StartListener(n)
  \/ SayHello(n) \/ HandleHello(n) \/ HandleNameRequest(n) \/ Answer(n)
  \/ RegistryStep(n)

Spec == Init /\ [][Next]_vars

\* Runnable Erlang processes run: the listener and the registry of every node.
FairSpec == Spec /\ \A n \in Nodes : WF_vars(Listener(n)) /\ WF_vars(RegistryStep(n))

-----------------------------------------------------------------------------
TypeOK ==
  /\ net \in Network
  /\ phase \in [Nodes -> {"begin", "asking", "registered", "up"}]
  /\ id \in [Nodes -> Ids \cup {NoId}]
  /\ mbox \in [Nodes -> Seq(Message)]
  /\ query \in [Nodes -> [id : Ids, from : Nodes] \cup {NoQuery}]
  /\ registry \in [Nodes -> SUBSET Ids]
  /\ rmbox \in [Nodes -> Seq(Calls)]

\* The promise of name_request's header, "evitando colisiones de IDs": two
\* nodes that finished registering never have the same name.
UniqueIds == \A n, m \in Nodes :
  Registered(n) /\ Registered(m) /\ id[n] = id[m] => n = m

\* The same promise with what it really takes written down: no datagram is
\* lost, nobody starts before the others have settled, no request waits beyond
\* its timeout, and no HELLO comes between a request and its answer.
Careful == ~net.lossy /\ net.oneAtATime /\ net.prompt /\ net.calm
UniqueIdsWithCare == Careful => UniqueIds

\* An INVALID_NAME that reaches a node names an id that some other node really
\* owns: neither a stale list nor the node's own HELLOs make a free name look
\* taken (invalid_name:handle_request answering from node_registry's list).
RefusalIsJustified == \A n \in Nodes : \A msg \in ToSet(mbox[n]) :
  msg.kind = "INVALID_NAME" =>
    \E m \in Nodes \ {n} : Registered(m) /\ id[m] = msg.id

\* Some node finished its registration under this name.
Owned(i) == \E m \in Nodes : Registered(m) /\ id[m] = i

\* A name in a registry, on its way there in a HELLO or an add_node, or on its
\* way back in a list or an INVALID_NAME, belongs to a node that registered it
\* (HELLO is sent only after fallback_or_success accepted the name).
KnownNamesAreOwned == \A n \in Nodes :
  /\ \A i \in registry[n] : Owned(i)
  /\ \A msg \in ToSet(mbox[n]) :
       /\ msg.kind = "list" => \A i \in msg.nodes : Owned(i)
       /\ msg.kind \in {"HELLO", "INVALID_NAME"} => Owned(msg.id)
  /\ \A c \in ToSet(rmbox[n]) : c.op = "add_node" => Owned(c.id)

\* A listener waiting inside handle_request always has the answer it needs
\* ahead of it: a list in its mailbox, or its call in the registry's.  The
\* receive of handle_request has no "after", so this is what keeps it alive.
AnswerIsComing == \A n \in Nodes : Serving(n) =>
  \/ \E msg \in ToSet(mbox[n]) : msg.kind = "list"
  \/ \E c \in ToSet(rmbox[n]) : c.op = "get_all_nodes"

\* handle_request's own promise, "Si ya hay un nodo con el mismo ID, responde
\* con INVALID_NAME": a name the registry knows when the listener finishes a
\* request for it is refused.
KnownNameIsRefused == [][\A n \in Nodes :
  (/\ Serving(n) /\ query'[n] = NoQuery
   /\ query[n].id \in registry[n])
    => \E msg \in ToSet(mbox'[query[n].from]) : msg.kind = "INVALID_NAME" /\ msg.from = n]_vars

\* Every request a listener starts to serve is finished.
RequestsAreFinished == \A n \in Nodes : Serving(n) ~> ~Serving(n)

=============================================================================
