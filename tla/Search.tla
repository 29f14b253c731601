-------------------------------- MODULE Search --------------------------------
(***************************************************************************)
(* "buscar" in the four projects: every node that is known is asked on a   *)
(* connection of its own and answers with a line for each file that        *)
(* matches.  RESOLUCION2 asks one node after the other and reads line by   *)
(* line; the processes of Resolucion3 read whatever has arrived and send   *)
(* it to the command line; those of MARIO read once and print a line;      *)
(* RESOLUCION1 is answered on a new connection, whose process prints.      *)
(***************************************************************************)
EXTENDS Naturals, SequencesExt, Functions

CONSTANTS
  Nodes,        \* the other nodes
  MaxMatches,   \* bound: files that match, on all nodes
  MaxSearches   \* bound: searches

VARIABLES
  project,   \* whose search
  calm,      \* is every answer there before any timeout?
  matches,   \* files of each node that match
  search,    \* the number of the search
  cli,       \* "prompt" or "searching"
  conn,      \* of each connection: "none", "reading" or "done"
  due,       \* the files its node has not sent yet
  lines,     \* what has been sent on it and not been read
  results,   \* the lines in Acc and Results, or in Resolucion3's mailbox and Search_Results
  shown      \* what has been printed: <<search, line>>

varsF == <<project, calm, matches, search, cli, conn, due, lines, results, shown>>

Connections == (1..MaxSearches) \X Nodes
Line(c, k) == [search |-> c[1], node |-> c[2], file |-> k]
NotFoundLine(c) == Line(c, 0)
Projects == {"RESOLUCION1", "RESOLUCION2", "Resolucion3", "MARIO"}

\* RESOLUCION1 looks for one name, and does not answer a node it does not know.
InitF ==
  /\ project \in Projects /\ calm \in BOOLEAN
  /\ matches \in [Nodes -> 0..MaxMatches]
  /\ FoldFunction(+, 0, matches) <= MaxMatches
  /\ project = "RESOLUCION1" => \A n \in Nodes : matches[n] <= 1
  /\ search = 0 /\ cli = "prompt"
  /\ conn = [c \in Connections |-> "none"]
  /\ due = [c \in Connections |-> <<>>]
  /\ lines = [c \in Connections |-> <<>>]
  /\ results = {} /\ shown = {}

Now(c) == c[1] = search
Asking == {c \in Connections : conn[c] = "reading"}
Shows(ls) == shown' = shown \cup {<<search, l>> : l \in ls}

\* The connection to a node, and its answer: search_handler:process, manager,
\* handler_occurrence, buscarMisArch.  A node of Resolucion3 says NOTFOUND.
Found(c) ==
  IF matches[c[2]] = 0 /\ project = "Resolucion3" THEN <<NotFoundLine(c)>>
  ELSE [k \in 1..matches[c[2]] |-> Line(c, k)]
Connects(cs) ==
  /\ conn' = [c \in Connections |-> IF c \in cs THEN "reading" ELSE conn[c]]
  /\ due' = [c \in Connections |-> IF c \in cs THEN Found(c) ELSE due[c]]

\* The command starts a process for each node; RESOLUCION2 asks one after the
\* other.
Buscar ==
  /\ cli = "prompt" /\ search < MaxSearches
  /\ search' = search + 1 /\ cli' = "searching"
  /\ Connects(IF project = "RESOLUCION2" THEN {} ELSE {search + 1} \X Nodes)
  /\ UNCHANGED <<project, calm, matches, lines, results, shown>>
AskNext(c) ==
  /\ project = "RESOLUCION2" /\ cli = "searching" /\ Now(c)
  /\ conn[c] = "none" /\ Asking = {} /\ Connects({c})
  /\ UNCHANGED <<project, calm, matches, search, cli, lines, results, shown>>

SendLine(c) ==
  /\ due[c] # <<>> /\ due' = [due EXCEPT ![c] = Tail(@)]
  /\ lines' = [lines EXCEPT ![c] = Append(@, Head(due[c]))]
  /\ UNCHANGED <<project, calm, matches, search, cli, conn, results, shown>>

\* Nothing has come for as long as the reader waits, or the node has closed.
Silent(c) == lines[c] = <<>> /\ (calm => due[c] = <<>>)
GiveUp(c) ==
  /\ conn[c] = "reading" /\ Silent(c) /\ project # "RESOLUCION1"
  /\ conn' = [conn EXCEPT ![c] = "done"]
  /\ UNCHANGED <<project, calm, matches, search, cli, due, lines, results, shown>>

-----------------------------------------------------------------------------
\* Mutant: one line is taken for the whole answer.
CollectOne(c) ==
  /\ project = "RESOLUCION2" /\ conn[c] = "reading" /\ lines[c] # <<>>
  /\ results' = results \cup {Head(lines[c])} /\ lines' = [lines EXCEPT ![c] = Tail(@)]
  /\ conn' = [conn EXCEPT ![c] = "done"]
  /\ UNCHANGED <<project, calm, matches, search, cli, due, shown>>

\* RESOLUCION2, collect_search_responses: a socket in line mode.
Collect(c) ==
  /\ project = "RESOLUCION2" /\ conn[c] = "reading" /\ lines[c] # <<>>
  /\ results' = results \cup {Head(lines[c])} /\ lines' = [lines EXCEPT ![c] = Tail(@)]
  /\ UNCHANGED <<project, calm, matches, search, cli, conn, due, shown>>

\* Resolucion3, loop_tcp_recv: what has arrived goes to the mailbox of the
\* command line as one result; NOTFOUND is no list of words and ends the
\* process.  loop_receive takes what is in the mailbox, and nothing there tells
\* the results of one search from those of another.
LoopRecv(c) ==
  /\ project = "Resolucion3" /\ conn[c] = "reading"
  /\ lines[c] # <<>> /\ lines' = [lines EXCEPT ![c] = <<>>]
  /\ IF lines[c] = <<NotFoundLine(c)>>
       THEN conn' = [conn EXCEPT ![c] = "done"] /\ UNCHANGED results
       ELSE results' = results \cup ToSet(lines[c]) /\ UNCHANGED conn
  /\ UNCHANGED <<project, calm, matches, search, cli, due, shown>>

\* MARIO, iniciar_busqueda: the first packet, and of it the first line.
RecvOnce(c) ==
  /\ project = "MARIO" /\ conn[c] = "reading" /\ lines[c] # <<>>
  /\ Shows({Head(lines[c])})
  /\ conn' = [conn EXCEPT ![c] = "done"]
  /\ lines' = [lines EXCEPT ![c] = <<>>]
  /\ UNCHANGED <<project, calm, matches, search, cli, due, results>>

\* RESOLUCION1, loop_receiveTCP.
ReceiveTCP(c) ==
  /\ project = "RESOLUCION1" /\ conn[c] = "reading" /\ lines[c] # <<>>
  /\ Shows({Head(lines[c])})
  /\ lines' = [lines EXCEPT ![c] = Tail(@)]
  /\ UNCHANGED <<project, calm, matches, search, cli, conn, due, results>>

\* The end of the command: in RESOLUCION2 when every node has been asked; in
\* Resolucion3 after three seconds without a packet; in MARIO after a second;
\* RESOLUCION1 does not wait.  The results are printed.
AllAsked == \A c \in Connections : Now(c) => conn[c] # "none"
Over == CASE
     project = "RESOLUCION2" -> Asking = {}
  [] project = "Resolucion3" -> calm => \A c \in Asking : due[c] = <<>> /\ lines[c] = <<>>
  [] project = "MARIO"       -> calm => Asking = {}
  [] OTHER                   -> TRUE
Prompt ==
  /\ cli = "searching" /\ AllAsked /\ Over
  /\ cli' = "prompt" /\ Shows(results) /\ results' = {}
  /\ UNCHANGED <<project, calm, matches, search, conn, due, lines>>

NextF ==
  \/ Buscar \/ Prompt
  \/ \E c \in Connections : AskNext(c) \/ SendLine(c) \/ GiveUp(c) \/ Collect(c)
       \/ LoopRecv(c) \/ RecvOnce(c) \/ ReceiveTCP(c)
SpecF == InitF /\ [][NextF]_varsF

-----------------------------------------------------------------------------
\* What search s has printed.
Answers(s) == {p[2] : p \in {q \in shown : q[1] = s}}
Matching(s) == UNION {{Line(<<s, n>>, k) : k \in 1..matches[n]} : n \in Nodes}

\* "Obtiene la lista de nodos registrados y envia SEARCH_REQUEST a cada uno,
\* luego recolecta y muestra los resultados" (search_client.erl:12): a search
\* of RESOLUCION2 shows nothing that another search has found, and one that no
\* timeout disturbs shows all there is.  So does Resolucion3's if nothing is
\* late; what is comes up in the next search.  MARIO shows one file of each
\* node.  RESOLUCION1 shows a line when it comes.
SearchShowsWhatIsShared == \A s \in 1..search :
  LET over == s < search \/ cli = "prompt" IN
  /\ Answers(s) \subseteq UNION {Matching(r) : r \in 1..s}
  /\ project = "RESOLUCION2" => Answers(s) \subseteq Matching(s)
  /\ project \in {"RESOLUCION2", "Resolucion3"} /\ calm /\ over => Answers(s) = Matching(s)
  /\ project = "MARIO" => Answers(s) \subseteq {Line(<<r, n>>, 1) : r \in 1..s, n \in Nodes}
  /\ project = "MARIO" /\ calm /\ over => Answers(s) = {l \in Matching(s) : l.file = 1}

=============================================================================
