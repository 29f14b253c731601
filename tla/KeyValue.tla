------------------------------- MODULE KeyValue -------------------------------
(***************************************************************************)
(* The servers of "PUT value key", "GET key" and "DEL key": Ejercicio 12   *)
(* of Practica 1 (a process and a list for each client), Ejercicio 15 of   *)
(* Practica 2 (epoll, one thread, a list for each line) and its version    *)
(* with a hash table (epoll, four threads, one table under a mutex).  A    *)
(* client sends a line when the last one is answered; it is short enough   *)
(* for what an earlier one has left in the buffer, which readline does not *)
(* end with a zero, not to show behind it.                                 *)
(***************************************************************************)
EXTENDS Naturals, SequencesExt

CONSTANTS
  Users,
  Servers,     \* the threads wait_for_clients, 4 in the code
  Keys,        \* keys of one cell of the hash table
  MaxLines     \* bound: the lines that all clients send

VARIABLES
  program,   \* which of the three
  status,    \* of a connection: "new", "backlog", "open" or "closed"
  line,      \* what the server has not read yet of each client
  sent,      \* lines sent so far; the next PUT stores its number
  owner,     \* the thread that accepted each client
  todo,      \* what is left of events[] in each thread
  current,   \* the event each thread is working on
  lists,     \* inicio of each process, or the cell
  stored,    \* history: per key, what a GET may still find, first to last
  killed     \* has a signal ended the server?

varsK == <<program, status, line, sent, owner, todo, current, lists, stored, killed>>

Nothing == "nothing"
NoLine == [op |-> "none"]
NotFound == 0
Listen == "listen"
\* Which key a GET asks for makes no difference to what follows.
Lines == [op : {"PUT"}, key : Keys, value : {sent + 1}] \cup [op : {"DEL"}, key : Keys]
           \cup [op : {"GET", "EXIT", "EOF"}]

\* Mutant: main starts all its threads before it waits for them.
RunningAll == Servers

\* Main waits for the end of a thread before it starts the next, so Ej15 has
\* only one.
Running == IF program = "Ej15" THEN {CHOOSE t \in Servers : TRUE} ELSE Servers

InitK ==
  /\ program \in {"Ej12", "Ej15", "hash"}
  /\ status = [c \in Users |-> "new"]
  /\ line = [c \in Users |-> NoLine]
  /\ sent = 0
  /\ owner = [c \in Users |-> Nothing]
  /\ todo = [t \in Servers |-> {}]
  /\ current = [t \in Servers |-> Nothing]
  /\ lists = [c \in Users |-> <<>>]
  /\ stored = [c \in Users |-> [k \in Keys |-> <<>>]]
  /\ killed = FALSE

\* The clients.
Connect(c) ==
  /\ status[c] = "new" /\ status' = [status EXCEPT ![c] = "backlog"]
  /\ UNCHANGED <<program, line, sent, owner, todo, current, lists, stored, killed>>
SendLine(c) ==
  /\ status[c] \in {"backlog", "open"} /\ line[c] = NoLine /\ sent < MaxLines
  /\ \E l \in Lines : line' = [line EXCEPT ![c] = l]
  /\ sent' = sent + 1
  /\ UNCHANGED <<program, status, owner, todo, current, lists, stored, killed>>

-----------------------------------------------------------------------------
(* The lists, as sequences of <<key, value>>.                              *)

First(list, k) == SelectInSeq(list, LAMBDA node : node[1] = k)
FindValue(list, k) == IF First(list, k) = 0 THEN NotFound ELSE list[First(list, k)][2]
AddNode(list, k, v) == Append(list, <<k, v>>)

\* delateNode of a key that a list with other keys does not have reads through
\* the null pointer at its end.
Crashes(list, k) == list # <<>> /\ First(list, k) = 0
DelateNode(list, k) == IF list = <<>> THEN list ELSE RemoveAt(list, First(list, k))

\* Mutant: hashtable_add leaves the old value behind the new one.
TableAddOnly(list, k, v) == <<<<k, v>>>> \o list

TableDelete(list, k) == IF First(list, k) = 0 THEN list ELSE RemoveAt(list, First(list, k))
TableAdd(list, k, v) == <<<<k, v>>>> \o TableDelete(list, k)

\* inicio is a variable of the process, of the call or of the program.
Where(c) == IF program = "Ej12" THEN c ELSE CHOOSE d \in Users : TRUE

\* handle_conn for one line: what it leaves in the lists, and whether it is
\* the end of the connection or of the process.
Stores(c, list, seqs) ==
  lists' = [lists EXCEPT ![Where(c)] = list] /\ stored' = [stored EXCEPT ![Where(c)] = seqs]
Effect(c, l) ==
  LET list == lists[Where(c)]
      seqs == stored[Where(c)]
  IN  CASE l.op = "PUT" /\ program = "Ej12" ->
             Stores(c, AddNode(list, l.key, l.value), [seqs EXCEPT ![l.key] = Append(@, l.value)])
        [] l.op = "PUT" /\ program = "hash" ->
             Stores(c, TableAdd(list, l.key, l.value), [seqs EXCEPT ![l.key] = <<l.value>>])
        [] l.op = "DEL" /\ program = "Ej12" /\ ~Crashes(list, l.key) ->
             Stores(c, DelateNode(list, l.key), [seqs EXCEPT ![l.key] = IF @ = <<>> THEN @ ELSE Tail(@)])
        [] l.op = "DEL" /\ program = "hash" ->
             Stores(c, TableDelete(list, l.key), [seqs EXCEPT ![l.key] = <<>>])
        [] OTHER -> UNCHANGED <<lists, stored>>

\* Of a connection that has ended readline returns what malloc left in the
\* buffer: nothing, which closes it in the hash version, or anything; the
\* answer to that may be the SIGPIPE that ends the process.
HandleConn(c) ==
  /\ line[c] # NoLine
  /\ Effect(c, line[c])
  /\ line' = [line EXCEPT ![c] = NoLine]
  /\ status' = [status EXCEPT ![c] =
       IF line[c].op \in {"EXIT", "EOF"} THEN "closed"
       ELSE IF program = "Ej12" /\ line[c].op = "DEL" /\ Crashes(lists[c], line[c].key) THEN "closed"
       ELSE @]
  /\ killed' \in IF line[c].op = "EOF" /\ program # "Ej12" THEN BOOLEAN ELSE {killed}

-----------------------------------------------------------------------------
(* Ejercicio 12: the process that accepts a client serves it alone.        *)
Fork(c) ==
  /\ program = "Ej12" /\ status[c] = "backlog" /\ status' = [status EXCEPT ![c] = "open"]
  /\ UNCHANGED <<program, line, sent, owner, todo, current, lists, stored, killed>>
Child(c) ==
  /\ program = "Ej12" /\ status[c] = "open" /\ HandleConn(c)
  /\ UNCHANGED <<program, sent, owner, todo, current>>

\* Every thread waits for the one listening socket.  EPOLLOUT is always there,
\* so the hash version is told of all its clients every time; with EPOLLET Ej15
\* is told of a line once.
Ready(t) ==
  LET mine == {c \in Users : owner[c] = t /\ status[c] = "open"}
  IN  {c \in mine : program = "hash" \/ line[c] # NoLine}
        \cup {Listen : c \in {d \in Users : status[d] = "backlog"}}
Threaded(t) == program # "Ej12" /\ ~killed /\ t \in Running

\* The loop over events[], and epoll_wait when it is done.
Events(t) == IF todo[t] = {} THEN Ready(t) ELSE todo[t]

NextEvent(t) ==
  /\ Threaded(t) /\ current[t] = Nothing
  /\ \E e \in Events(t) :
       /\ current' = [current EXCEPT ![t] = e]
       /\ todo' = [todo EXCEPT ![t] = Events(t) \ {e}]
  /\ UNCHANGED <<program, status, line, sent, owner, lists, stored, killed>>

\* accept waits when another thread has been faster ...
Accept(t) ==
  /\ Threaded(t) /\ current[t] = Listen
  /\ \E c \in Users :
       /\ status[c] = "backlog" /\ status' = [status EXCEPT ![c] = "open"]
       /\ owner' = [owner EXCEPT ![c] = t]
  /\ current' = [current EXCEPT ![t] = Nothing]
  /\ UNCHANGED <<program, line, sent, todo, lists, stored, killed>>

\* ... and read while the client is silent.
Serve(t) ==
  /\ Threaded(t) /\ current[t] \in Users /\ HandleConn(current[t])
  /\ current' = [current EXCEPT ![t] = Nothing]
  /\ UNCHANGED <<program, sent, owner, todo>>

Thread(t) == NextEvent(t) \/ Accept(t) \/ Serve(t)
NextK ==
  \/ \E c \in Users : Connect(c) \/ SendLine(c) \/ Fork(c) \/ Child(c)
  \/ \E t \in Servers : NextEvent(t) \/ Accept(t) \/ Serve(t)

\* Processes and threads run; clients do as they like.
FairK ==
  /\ \A c \in Users : WF_varsK(Fork(c) \/ Child(c))
  /\ \A t \in Servers : WF_varsK(Thread(t))
SpecK == InitK /\ [][NextK]_varsK /\ FairK

-----------------------------------------------------------------------------
\* A GET finds what the PUTs and DELs before it have left: in the hash version
\* the last value that any client has put, in Ejercicio 12 the oldest one that
\* the client itself has put and not deleted.  (A PUT of Ej15 leaves nothing.)
FindsWhatIsStored == \A c \in Users, k \in Keys :
  LET found == stored[Where(c)][k] IN
  FindValue(lists[Where(c)], k) = IF found = <<>> THEN NotFound ELSE Head(found)

\* A thread of the hash version that waits in accept for a client that another
\* one has accepted, or in read for a client that says nothing.
Stuck(t) == program = "hash" /\
  \/ current[t] = Listen /\ \A c \in Users : status[c] # "backlog"
  \/ current[t] \in Users /\ line[current[t]] = NoLine

\* Every line is answered, or its connection closed.  Only the hash version may
\* leave one, when its thread, or every thread that could accept its client,
\* waits for another client; and the two with threads when a hang-up has
\* killed them.
LinesAreAnswered == \A c \in Users :
  line[c] # NoLine ~>
    \/ line[c] = NoLine \/ killed
    \/ IF owner[c] = Nothing THEN \A t \in Servers : Stuck(t) ELSE Stuck(owner[c])

=============================================================================
