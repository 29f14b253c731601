---------------------------- MODULE RegistryClient ----------------------------
(***************************************************************************)
(* Inside one node of tp_so1-RESOLUCION2: three Erlang processes share the *)
(* list of known nodes.  udp_listener refreshes an entry at every HELLO    *)
(* with two messages, the command line (nodos, buscar, descargar) asks for *)
(* the whole list and waits one second for it, and node_registry serves    *)
(* both from one mailbox.  Commands are numbered so that an answer can be  *)
(* told from the answer to an older command; the code carries no number.   *)
(***************************************************************************)
EXTENDS Naturals, SequencesExt

CONSTANTS
  Ids,          \* names of the nodes whose HELLOs arrive
  Addrs,        \* the (IP, port) pairs they announce
  NoAddr,       \* what the map holds for a name it does not have
  MaxCalls,     \* bound: calls waiting in node_registry's mailbox
  MaxCommands   \* bound: commands typed by the user

VARIABLES
  registry,   \* node_registry's map
  calls,      \* its mailbox
  refresh,    \* the entry hello_handler has removed and not yet added again
  cli,        \* "prompt", or "waiting" for the list
  replies,    \* the mailbox of the command line
  asked,      \* number of commands that asked for the list
  timeouts,   \* how many of them gave up
  shown,      \* the answer the last command used
  heard       \* the names node_registry has added at least once

vars == <<registry, calls, refresh, cli, replies, asked, timeouts, shown, heard>>

NoRefresh == [id |-> NoAddr]
-----------------------------------------------------------------------------
Init ==
  /\ registry = [i \in Ids |-> NoAddr]
  /\ calls = <<>>
  /\ refresh = NoRefresh
  /\ cli = "prompt"
  /\ replies = <<>>
  /\ asked = 0 /\ timeouts = 0
  /\ shown = [command |-> 0]
  /\ heard = {}

\* hello_handler:process, first message.
RemoveOld(i, a) ==
  /\ refresh = NoRefresh
  /\ Len(calls) < MaxCalls
  /\ calls' = Append(calls, [op |-> "remove_node", id |-> i])
  /\ refresh' = [id |-> i, addr |-> a]
  /\ UNCHANGED <<registry, cli, replies, asked, timeouts, shown, heard>>

\* hello_handler:process, second message.
AddNew ==
  /\ refresh # NoRefresh
  /\ calls' = Append(calls, [op |-> "add_node", id |-> refresh.id, addr |-> refresh.addr])
  /\ refresh' = NoRefresh
  /\ UNCHANGED <<registry, cli, replies, asked, timeouts, shown, heard>>

\* A command that needs the list: show_nodes, search_in_network, get_node_info.
Ask ==
  /\ cli = "prompt"
  /\ asked < MaxCommands
  /\ Len(calls) < MaxCalls
  /\ asked' = asked + 1
  /\ calls' = Append(calls, [op |-> "get_all_nodes", command |-> asked + 1])
  /\ cli' = "waiting"
  /\ UNCHANGED <<registry, refresh, replies, timeouts, shown, heard>>

\* Mutant: the command first empties its mailbox, as a caller with numbered
\* requests would.
TakeListFlushing ==
  /\ cli = "waiting"
  /\ replies # <<>>
  /\ shown' = replies[Len(replies)]
  /\ replies' = <<>>
  /\ cli' = "prompt"
  /\ UNCHANGED <<registry, calls, refresh, asked, timeouts, heard>>

\* "Nodes when is_list(Nodes)": the oldest list in the mailbox.
TakeList ==
  /\ cli = "waiting"
  /\ replies # <<>>
  /\ shown' = Head(replies)
  /\ replies' = Tail(replies)
  /\ cli' = "prompt"
  /\ UNCHANGED <<registry, calls, refresh, asked, timeouts, heard>>

\* "after 1000": the command gives up, its answer will still come.
GiveUp ==
  /\ cli = "waiting"
  /\ replies = <<>>
  /\ timeouts' = timeouts + 1
  /\ cli' = "prompt"
  /\ UNCHANGED <<registry, calls, refresh, replies, asked, shown, heard>>

\* Mutant: a name that is already there is not added again.
ServeAddOnce ==
  /\ calls # <<>>
  /\ Head(calls).op = "add_node"
  /\ registry' = IF Head(calls).id \in heard THEN registry
                 ELSE [registry EXCEPT ![Head(calls).id] = Head(calls).addr]
  /\ heard' = heard \cup {Head(calls).id}
  /\ calls' = Tail(calls)
  /\ UNCHANGED <<refresh, cli, replies, asked, timeouts, shown>>

\* node_registry:loop, one action per clause.
ServeAdd ==
  /\ calls # <<>>
  /\ Head(calls).op = "add_node"
  /\ registry' = [registry EXCEPT ![Head(calls).id] = Head(calls).addr]
  /\ heard' = heard \cup {Head(calls).id}
  /\ calls' = Tail(calls)
  /\ UNCHANGED <<refresh, cli, replies, asked, timeouts, shown>>

ServeRemove ==
  /\ calls # <<>>
  /\ Head(calls).op = "remove_node"
  /\ registry' = [registry EXCEPT ![Head(calls).id] = NoAddr]
  /\ calls' = Tail(calls)
  /\ UNCHANGED <<refresh, cli, replies, asked, timeouts, shown, heard>>

ServeGet ==
  /\ calls # <<>>
  /\ Head(calls).op = "get_all_nodes"
  /\ replies' = Append(replies, [command |-> Head(calls).command, nodes |-> registry])
  /\ calls' = Tail(calls)
  /\ UNCHANGED <<registry, refresh, cli, asked, timeouts, shown, heard>>

Serve == ServeAdd \/ ServeRemove \/ ServeGet

Next ==
  \/ \E i \in Ids, a \in Addrs : RemoveOld(i, a)
  \/ AddNew \/ Ask \/ TakeList \/ GiveUp
  \/ ServeAdd \/ ServeRemove \/ ServeGet

Spec == Init /\ [][Next]_vars

\* node_registry and the listener run whenever they have something to do.
FairSpec == Spec /\ WF_vars(Serve) /\ WF_vars(AddNew)

-----------------------------------------------------------------------------
\* show_nodes "solicita al node_registry la lista de nodos y la imprime", but not
\* the list it asked for: the one it takes was asked for as many commands ago as
\* there have been timeouts, so one slow answer makes every later "nodos",
\* "buscar" and "descargar" work from an old list, exactly that old and no older.
EveryTimeoutDelaysAnswers == [][TakeList => shown'.command = asked - timeouts]_vars

\* So a node that was heard keeps coming back in the list.
HeardIsListedAgain == \A i \in Ids : i \in heard ~> registry[i] # NoAddr

=============================================================================
