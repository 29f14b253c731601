----------------------------- MODULE TicketServer -----------------------------
(***************************************************************************)
(* The servers that give each "NUEVO" a number: Ejercicio 11 of Practica 1 *)
(* in C (a: a process for each client; b: the same, with the counter in    *)
(* shared memory; d: one process and select) and Ejercicio 8 of Practica 4 *)
(* in Erlang (a process for each client and one that counts; sockets in    *)
(* passive or in active mode).  The bytes of a line may arrive apart, and  *)
(* those of several lines together.  A client may hang up with answers it  *)
(* has not read, or before they are written: what the kernel then tells a  *)
(* server in C ends the process that serves it.                            *)
(***************************************************************************)
EXTENDS Naturals, SequencesExt

CONSTANTS
  Clients,
  MaxRequests  \* bound: the requests of one client

VARIABLES
  server,    \* which of the programs
  untidy,    \* the client that sends its lines in pieces and waits for nothing
  halves,    \* half lines that each client has sent
  left,      \* the clients that have said good-bye or closed
  stream,    \* what each has sent and the server has not read
  broken,    \* the connections whose next write finds them reset
  at,        \* where the code that serves each client is
  busy,      \* the client select's process is serving, or Nobody
  U,         \* the counters; only one is used when it is shared
  number,    \* what sprintf has put in the reply, or the increment has read
  asked,     \* the mailbox of the process that counts
  mail,      \* the mailboxes of the processes that serve a client (Erlang)
  answers    \* the numbers each client has been sent

varsS ==
  <<server, untidy, halves, left, stream, broken, at, busy, U, number, asked, mail, answers>>

Nobody == "nobody"
Forks == {"Ej11_a", "Ej11_b"}
C == Forks \cup {"Ej11_d"}
Erlang == {"pasiva", "activa"}
Ends == {"EOF", "RST"}

\* Mutant: every client has a counter.
CounterOfEach(c) == c
\* The counter that serves c: Ej11_a's is copied by fork before anybody has
\* used it.
Counter(c) == IF server = "Ej11_a" THEN c ELSE CHOOSE d \in Clients : TRUE

InitS ==
  /\ server \in C \cup Erlang /\ untidy \in Clients \cup {Nobody}
  /\ halves = [c \in Clients |-> 0]
  /\ left = {}
  /\ stream = [c \in Clients |-> <<>>]
  /\ broken = {}
  /\ at = [c \in Clients |-> "read"]
  /\ busy = Nobody
  /\ U = [c \in Clients |-> 0]
  /\ number = [c \in Clients |-> <<0, 0>>]
  /\ asked = <<>>
  /\ mail = [c \in Clients |-> <<>>]
  /\ answers = [c \in Clients |-> <<>>]

Setting == UNCHANGED <<server, untidy>>
Process == UNCHANGED <<U, number, asked, mail, answers>>
Goes(c, to) == at' = [at EXCEPT ![c] = to]
Sends(c, bytes) == stream' = [stream EXCEPT ![c] = @ \o bytes]

\* A client sends a request when it has the answer to the last; the untidy one
\* whenever it likes and in two pieces.
InHalf(c) == halves[c] % 2 = 1
Request(c) ==
  /\ halves[c] < 2 * MaxRequests /\ c \notin left
  /\ IF c # untidy
       THEN /\ Len(answers[c]) * 2 = halves[c] /\ Sends(c, <<"NUE", "VO">>)
            /\ halves' = [halves EXCEPT ![c] = @ + 2]
       ELSE /\ Sends(c, <<IF InHalf(c) THEN "VO" ELSE "NUE">>)
            /\ halves' = [halves EXCEPT ![c] = @ + 1]
  /\ UNCHANGED <<left, broken, at, busy>> /\ Process /\ Setting

\* "CHAU", or the end of the connection: reset when it is closed with answers
\* unread, which only the untidy client leaves.
Leave(c) ==
  /\ c \notin left /\ left' = left \cup {c}
  /\ c # untidy => Len(answers[c]) * 2 = halves[c]
  /\ \E bye \in {"CHAU", "EOF", "RST"} :
       /\ bye = "CHAU" => ~InHalf(c)
       /\ bye = "RST" => c = untidy /\ answers[c] # <<>>
       /\ Sends(c, <<bye>>)
  /\ UNCHANGED <<halves, broken, at, busy>> /\ Process /\ Setting

HungUp(c) == stream[c] # <<>> /\ Last(stream[c]) \in Ends

-----------------------------------------------------------------------------
(* The servers in C.                                                       *)

Mine(c) == server \in C /\ (server \in Forks \/ busy \in {Nobody, c})
Holds(c, on) == busy' = IF server = "Ej11_d" /\ on THEN c ELSE Nobody

\* quit, or SIGPIPE: the end of the process that serves c.
OfTheProcess(c) == IF server = "Ej11_d" THEN Clients ELSE {c}
Abort(c) == at' = [d \in Clients |-> IF d \in OfTheProcess(c) THEN "closed" ELSE at[d]]

\* fd_readline, and the comparison of the line: the end of the connection ends
\* the line it cuts, which is no request, and then the conversation.  Of a reset
\* read returns -1, once: not any more when write has reported it.
Readline(c) ==
  /\ Mine(c) /\ at[c] \in {"read", "half"} /\ stream[c] # <<>>
  /\ LET piece == Head(stream[c]) to ==
           CASE piece = "NUE" -> "half" [] piece = "VO" -> "print" [] piece = "CHAU" -> "closed"
             [] OTHER -> IF at[c] = "half" THEN "read" ELSE "closed"
     IN IF piece = "RST" /\ c \notin broken
          THEN Abort(c) /\ Holds(c, FALSE) /\ UNCHANGED stream
          ELSE /\ Goes(c, to) /\ Holds(c, to \in {"half", "print"})
               /\ stream' = IF piece \in Ends THEN stream ELSE [stream EXCEPT ![c] = Tail(@)]
  /\ UNCHANGED <<halves, left, broken>> /\ Process /\ Setting

\* sprintf(reply, "%d\n", *U); (*U) = (*U) + 1; write(csock, reply): reads the
\* counter, reads it again, writes it.  A write to a client that has hung up is
\* done, or finds the connection reset, or makes it so; the next one then gets
\* SIGPIPE.
Format(c) ==
  /\ server \in C /\ at[c] = "print" /\ Goes(c, "load")
  /\ number' = [number EXCEPT ![c][1] = U[Counter(c)]]
  /\ UNCHANGED <<halves, left, stream, broken, busy, U, asked, mail, answers>> /\ Setting
LoadU(c) ==
  /\ server \in C /\ at[c] = "load" /\ Goes(c, "store")
  /\ number' = [number EXCEPT ![c][2] = U[Counter(c)]]
  /\ UNCHANGED <<halves, left, stream, broken, busy, U, asked, mail, answers>> /\ Setting
Store(c) ==
  /\ server \in C /\ at[c] = "store" /\ Holds(c, FALSE)
  /\ U' = [U EXCEPT ![Counter(c)] = number[c][2] + 1]
  /\ IF c \in broken
       THEN Abort(c) /\ UNCHANGED <<answers, broken>>
       ELSE /\ Goes(c, "read")
            /\ answers' = [answers EXCEPT ![c] = Append(@, number[c][1])]
            /\ broken' \in {broken, IF HungUp(c) THEN broken \cup {c} ELSE broken}
  /\ UNCHANGED <<halves, left, stream, number, asked, mail>> /\ Setting

-----------------------------------------------------------------------------
(* The servers in Erlang.                                                  *)

Data(bytes) == [is |-> "data", n |-> 0, line |->
  CASE bytes = <<"NUE", "VO">> -> "NUEVO" [] bytes = <<"CHAU">> -> "CHAU"
    [] bytes \in {<<e>> : e \in Ends} -> "closed" [] OTHER -> "other"]
Number(n) == [is |-> "number", n |-> n, line |-> ""]

\* What has arrived is handed over together, or the first part of it; the end
\* of the connection comes alone.  In passive mode when the process asks for
\* it, in active mode at any time.
Deliver(c) ==
  /\ server \in Erlang /\ at[c] \in {"read", "ask"} /\ stream[c] # <<>>
  /\ server = "pasiva" => at[c] = "read" /\ mail[c] = <<>>
  /\ \E k \in IF c # untidy THEN {Len(stream[c])} ELSE 1..Len(stream[c]) :
       /\ \A i \in 1..k : stream[c][i] \in Ends => k = 1
       /\ mail' = [mail EXCEPT ![c] = Append(@, Data(SubSeq(stream[c], 1, k)))]
       /\ stream' = [stream EXCEPT ![c] = SubSeq(@, k + 1, Len(@))]
  /\ UNCHANGED <<halves, left, broken, at, busy, U, number, asked, answers>> /\ Setting

\* get_request.  In passive mode anything but the two lines ends the
\* connection; in active mode it stays in the mailbox.
Matches(m) == m.is = "data" /\ (m.line # "other" \/ server = "pasiva")
GetRequest(c) ==
  /\ server \in Erlang /\ at[c] = "read"
  /\ \E k \in DOMAIN mail[c] :
       /\ Matches(mail[c][k]) /\ \A i \in 1..(k - 1) : ~Matches(mail[c][i])
       /\ mail' = [mail EXCEPT ![c] = RemoveAt(@, k)]
       /\ IF mail[c][k].line = "NUEVO" THEN asked' = Append(asked, c) /\ Goes(c, "ask")
                                       ELSE UNCHANGED asked /\ Goes(c, "closed")
  /\ UNCHANGED <<halves, left, stream, broken, busy, U, number, answers>> /\ Setting

\* contador.
Count ==
  /\ asked # <<>> /\ asked' = Tail(asked)
  /\ mail' = [mail EXCEPT ![Head(asked)] = Append(@, Number(U[Counter(Head(asked))]))]
  /\ U' = [U EXCEPT ![Counter(Head(asked))] = @ + 1]
  /\ UNCHANGED <<halves, left, stream, broken, at, busy, number, answers>> /\ Setting

\* Mutant: the process ends after its first answer.
ReplyOnce(c) ==
  /\ server \in Erlang /\ at[c] = "ask" /\ mail[c] # <<>> /\ Goes(c, "closed")
  /\ mail' = [mail EXCEPT ![c] = Tail(@)]
  /\ answers' = [answers EXCEPT ![c] =
       IF Head(mail[c]).is = "number" THEN Append(@, Head(mail[c]).n) ELSE @]
  /\ UNCHANGED <<halves, left, stream, broken, busy, U, number, asked>> /\ Setting

\* "receive N -> gen_tcp:send(Socket, N)": the first message whatever it is.
\* A request that comes in before the number is taken for it; it is sent as
\* such in vain, and the number stays for the next request.
Reply(c) ==
  /\ server \in Erlang /\ at[c] = "ask" /\ mail[c] # <<>> /\ Goes(c, "read")
  /\ mail' = [mail EXCEPT ![c] = Tail(@)]
  /\ answers' = [answers EXCEPT ![c] =
       IF Head(mail[c]).is = "number" THEN Append(@, Head(mail[c]).n) ELSE @]
  /\ UNCHANGED <<halves, left, stream, broken, busy, U, number, asked>> /\ Setting

Serves(c) ==
  Readline(c) \/ Format(c) \/ LoadU(c) \/ Store(c)
    \/ Deliver(c) \/ GetRequest(c) \/ Reply(c)
NextS ==
  \/ Count
  \/ \E c \in Clients : Request(c) \/ Leave(c) \/ Readline(c) \/ Format(c)
       \/ LoadU(c) \/ Store(c) \/ Deliver(c) \/ GetRequest(c) \/ Reply(c)

\* Processes run and messages arrive; clients do as they like.
FairS ==
  WF_varsS(Count) /\ \A c \in Clients : WF_varsS(Serves(c))

SpecS == InitS /\ [][NextS]_varsS /\ FairS

-----------------------------------------------------------------------------
Given == {g \in Clients \X (1..MaxRequests) : g[2] \in DOMAIN answers[g[1]]}

\* Where one process counts, no number is given twice, whatever comes in when.
\* The counters of Ej11_a and Ej11_b do repeat numbers: the one is copied by
\* fork, the other is read, read again and written by processes that do not
\* exclude each other.
NoNumberTwice == server \in {"Ej11_d"} \cup Erlang =>
  \A x, y \in Given : answers[x[1]][x[2]] = answers[y[1]][y[2]] => x = y

\* Every client gets an answer to every request, whatever another one does,
\* except one that has hung up; of a server in Erlang, one that sends its lines
\* in pieces; of Ej11_d all of them, as long as another stops in the middle of
\* a line, and for ever when the process has ended, which takes one that hung
\* up after a request.
Waiting(c) == Len(answers[c]) < halves[c] \div 2
Held == server = "Ej11_d" /\ untidy \in Clients /\ at[untidy] = "half" /\ stream[untidy] = <<>>
Killed(c) ==
  /\ server = "Ej11_d" /\ at[c] = "closed"
  /\ untidy \in Clients /\ HungUp(untidy) /\ halves[untidy] > 1
EveryRequestIsAnswered == \A c \in Clients :
  []<>(Waiting(c) => HungUp(c) \/ (server \in Erlang /\ c = untidy) \/ Held \/ Killed(c))

=============================================================================
