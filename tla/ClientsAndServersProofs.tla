------------------------ MODULE ClientsAndServersProofs ------------------------
(* node_registry, the ticket servers, the key-value servers and the searches,  *)
(* for any number of clients, nodes, keys and requests.                        *)
EXTENDS ClientsAndServers, TransferProofs

-----------------------------------------------------------------------------
(* node_registry and the commands that ask it.                                 *)

\* Commands that have their list, and the number of the oldest that has not.
Served == asked - timeouts - (IF cli = "waiting" THEN 1 ELSE 0)
Oldest == Served + 1

CommandCalls == [op : {"get_all_nodes"}, command : Nat]
Calls == CommandCalls \cup [op : {"remove_node"}, id : Ids] \cup [op : {"add_node"}, id : Ids, addr : Addrs]
Asks(k) == k \in DOMAIN calls /\ calls[k].op = "get_all_nodes"

RegistryTyped ==
  /\ calls \in Seq(Calls)
  /\ replies \in Seq([command : Nat, nodes : [Ids -> Addrs \cup {NoAddr}]])
  /\ registry \in [Ids -> Addrs \cup {NoAddr}]
  /\ refresh \in {Registry!NoRefresh} \cup [id : Ids, addr : Addrs]
  /\ cli \in {"prompt", "waiting"}
  /\ asked \in Nat /\ timeouts \in Nat

\* The answers in the mailbox of the command line, and after them the questions
\* in the mailbox of node_registry, are those of consecutive commands up to the
\* last one.
RepliesInOrder == \A k \in DOMAIN replies : replies[k].command = Served + k
CallsInOrder == \A j, k \in DOMAIN calls :
  Asks(j) /\ Asks(k) /\ j < k => calls[j].command < calls[k].command
CallsAreLatest ==
  /\ \A k \in DOMAIN calls : Asks(k) => calls[k].command \in (Oldest + Len(replies))..asked
  /\ \A n \in (Oldest + Len(replies))..asked : \E k \in DOMAIN calls : Asks(k) /\ calls[k].command = n
AllOnTheWay == Served \in Nat /\ Served + Len(replies) <= asked

RegistryInv == RegistryTyped /\ RepliesInOrder /\ CallsInOrder /\ CallsAreLatest /\ AllOnTheWay

Due == Oldest + Len(replies)

LEMMA RegistryInit == Registry!Init => RegistryInv
<1> SUFFICES ASSUME Registry!Init PROVE RegistryInv
  OBVIOUS
<1>1. RegistryTyped
  BY DEF Registry!Init, RegistryTyped, Registry!NoRefresh
<1>2. Served = 0 /\ Oldest = 1 /\ Len(replies) = 0 /\ DOMAIN calls = {} /\ DOMAIN replies = {} /\ asked = 0
  BY DEF Registry!Init, Served, Oldest
<1> QED BY <1>1, <1>2 DEF RegistryInv, RepliesInOrder, CallsInOrder, CallsAreLatest, AllOnTheWay, Asks

LEMMA RegistryTyping == RegistryTyped /\ [Registry!Next]_registryVars => RegistryTyped'
<1> SUFFICES ASSUME RegistryTyped, [Registry!Next]_registryVars PROVE RegistryTyped'
  OBVIOUS
<1> USE DEF RegistryTyped, Registry!NoRefresh
<1>1. ASSUME NEW i \in Ids, NEW a \in Addrs, Registry!RemoveOld(i, a) PROVE RegistryTyped'
  <2>1. [op |-> "remove_node", id |-> i] \in Calls
    BY DEF Calls
  <2> QED BY <1>1, <2>1 DEF Registry!RemoveOld
<1>2. CASE Registry!AddNew
  <2>1. refresh \in [id : Ids, addr : Addrs]
    BY <1>2 DEF Registry!AddNew
  <2>2. [op |-> "add_node", id |-> refresh.id, addr |-> refresh.addr] \in Calls
    BY <2>1 DEF Calls
  <2> QED BY <1>2, <2>2 DEF Registry!AddNew
<1>3. CASE Registry!Ask
  <2>1. [op |-> "get_all_nodes", command |-> asked + 1] \in Calls
    BY DEF Calls, CommandCalls
  <2> QED BY <1>3, <2>1 DEF Registry!Ask
<1>4. CASE Registry!TakeList
  BY <1>4 DEF Registry!TakeList
<1>5. CASE Registry!GiveUp
  BY <1>5 DEF Registry!GiveUp
<1>6. CASE Registry!ServeAdd
  <2>1. Head(calls) \in Calls /\ Tail(calls) \in Seq(Calls) /\ Head(calls).op = "add_node"
    BY <1>6 DEF Registry!ServeAdd
  <2>2. Head(calls).id \in Ids /\ Head(calls).addr \in Addrs
    BY <2>1 DEF Calls, CommandCalls
  <2> QED BY <1>6, <2>1, <2>2 DEF Registry!ServeAdd
<1>7. CASE Registry!ServeRemove
  <2>1. Tail(calls) \in Seq(Calls)
    BY <1>7 DEF Registry!ServeRemove
  <2> QED BY <1>7, <2>1 DEF Registry!ServeRemove
<1>8. CASE Registry!ServeGet
  <2>1. Head(calls) \in Calls /\ Tail(calls) \in Seq(Calls) /\ Head(calls).op = "get_all_nodes"
    BY <1>8 DEF Registry!ServeGet
  <2>2. Head(calls).command \in Nat
    BY <2>1 DEF Calls, CommandCalls
  <2> QED BY <1>8, <2>1, <2>2 DEF Registry!ServeGet
<1>9. CASE UNCHANGED registryVars
  BY <1>9 DEF registryVars
<1> QED BY <1>1, <1>2, <1>3, <1>4, <1>5, <1>6, <1>7, <1>8, <1>9 DEF Registry!Next

\* A message that is no question changes nothing between the questions.
LEMMA OtherCallComes ==
  ASSUME RegistryInv, RegistryTyped', NEW y \in Calls, y.op # "get_all_nodes", calls' = Append(calls, y),
         UNCHANGED <<cli, replies, asked, timeouts>>
  PROVE  RegistryInv'
<1>1. /\ DOMAIN calls' = 1..(Len(calls) + 1) /\ DOMAIN calls = 1..Len(calls) /\ Len(calls) \in Nat
      /\ \A k \in 1..Len(calls) : calls'[k] = calls[k]
      /\ calls'[Len(calls) + 1] = y
  BY DEF RegistryInv, RegistryTyped
<1>2. Served' = Served /\ Oldest' = Oldest /\ replies' = replies
  BY DEF Served, Oldest
<1>3. /\ \A k : Asks(k)' <=> Asks(k)
      /\ \A k : Asks(k) => calls'[k] = calls[k]
  BY <1>1 DEF Asks
<1>4. CallsInOrder'
  BY <1>1, <1>3 DEF RegistryInv, CallsInOrder, Asks
<1>5. CallsAreLatest'
  BY <1>1, <1>2, <1>3 DEF RegistryInv, CallsAreLatest, Asks
<1> QED BY <1>2, <1>4, <1>5 DEF RegistryInv, RepliesInOrder, AllOnTheWay

LEMMA QuestionComes == RegistryInv /\ RegistryTyped' /\ Registry!Ask => RegistryInv'
<1> SUFFICES ASSUME RegistryInv, RegistryTyped', Registry!Ask PROVE RegistryInv'
  OBVIOUS
<1>1. /\ DOMAIN calls' = 1..(Len(calls) + 1) /\ DOMAIN calls = 1..Len(calls) /\ Len(calls) \in Nat
      /\ \A k \in 1..Len(calls) : calls'[k] = calls[k]
      /\ calls'[Len(calls) + 1] = [op |-> "get_all_nodes", command |-> asked + 1]
  BY DEF RegistryInv, RegistryTyped, Registry!Ask
<1>2. /\ Served' = Served /\ Oldest' = Oldest /\ replies' = replies /\ asked' = asked + 1
      /\ asked \in Nat /\ Len(replies) \in Nat /\ Served \in Nat /\ Oldest = Served + 1
  BY DEF RegistryInv, RegistryTyped, AllOnTheWay, Registry!Ask, Served, Oldest
<1>3. /\ \A k : Asks(k)' <=> Asks(k) \/ k = Len(calls) + 1
      /\ \A k : Asks(k) => k \in 1..Len(calls) /\ calls'[k] = calls[k]
      /\ calls'[Len(calls) + 1].command = asked + 1
  BY <1>1 DEF Asks
<1>4. \A k : Asks(k) => calls[k].command \in (Oldest + Len(replies))..asked
  BY DEF RegistryInv, CallsAreLatest, Asks
<1>5. CallsInOrder'
  <2> SUFFICES ASSUME NEW j \in DOMAIN calls', NEW k \in DOMAIN calls', Asks(j)', Asks(k)', j < k
               PROVE calls'[j].command < calls'[k].command
    BY DEF CallsInOrder
  <2>1. Asks(j) /\ j \in 1..Len(calls) /\ calls'[j] = calls[j]
    BY <1>1, <1>3
  <2>2. CASE k = Len(calls) + 1
    BY <1>2, <1>3, <1>4, <2>1, <2>2
  <2>3. CASE Asks(k)
    BY <1>1, <1>3, <2>1, <2>3 DEF RegistryInv, CallsInOrder
  <2> QED BY <1>3, <2>2, <2>3
<1>6. CallsAreLatest'
  <2>1. \A k : Asks(k)' => calls'[k].command \in (Oldest + Len(replies))..(asked + 1)
    <3> SUFFICES ASSUME NEW k, Asks(k)' PROVE calls'[k].command \in (Oldest + Len(replies))..(asked + 1)
      OBVIOUS
    <3>1. CASE k = Len(calls) + 1
      BY <1>2, <1>3, <3>1 DEF RegistryInv, AllOnTheWay
    <3>2. CASE Asks(k)
      BY <1>2, <1>3, <1>4, <3>2
    <3> QED BY <1>3, <3>1, <3>2
  <2>2. ASSUME NEW n \in (Oldest + Len(replies))..(asked + 1)
        PROVE \E k \in DOMAIN calls' : Asks(k)' /\ calls'[k].command = n
    <3>1. CASE n = asked + 1
      BY <1>1, <1>3, <3>1
    <3>2. CASE n \in (Oldest + Len(replies))..asked
      <4>1. PICK k \in DOMAIN calls : Asks(k) /\ calls[k].command = n
        BY <3>2 DEF RegistryInv, CallsAreLatest
      <4> QED BY <1>1, <1>3, <4>1
    <3> QED BY <1>2, <3>1, <3>2
  <2> QED BY <1>2, <2>1, <2>2 DEF CallsAreLatest
<1> QED BY <1>2, <1>5, <1>6 DEF RegistryInv, RepliesInOrder, AllOnTheWay

\* node_registry takes a message that is no question.
LEMMA OtherCallServed ==
  ASSUME RegistryInv, RegistryTyped', calls # <<>>, Head(calls).op # "get_all_nodes", calls' = Tail(calls),
         UNCHANGED <<cli, replies, asked, timeouts>>
  PROVE  RegistryInv'
<1>1. /\ Len(calls) \in Nat \ {0} /\ Head(calls) = calls[1]
      /\ DOMAIN calls' = 1..(Len(calls) - 1) /\ DOMAIN calls = 1..Len(calls)
      /\ \A k \in 1..(Len(calls) - 1) : calls'[k] = calls[k + 1]
  BY HeadTailProperties, EmptySeq DEF RegistryInv, RegistryTyped
<1>2. Served' = Served /\ Oldest' = Oldest /\ replies' = replies
  BY DEF Served, Oldest
<1>3. /\ \A k \in 1..(Len(calls) - 1) : (Asks(k)' <=> Asks(k + 1)) /\ calls'[k] = calls[k + 1]
      /\ ~Asks(1)
  BY <1>1 DEF Asks
<1>4. CallsInOrder'
  BY <1>1, <1>3 DEF RegistryInv, CallsInOrder
<1>5. CallsAreLatest'
  <2>1. ASSUME NEW k \in DOMAIN calls', Asks(k)'
        PROVE calls'[k].command \in (Oldest + Len(replies))..asked
    BY <1>1, <1>3, <2>1 DEF RegistryInv, CallsAreLatest
  <2>2. ASSUME NEW n \in (Oldest + Len(replies))..asked
        PROVE \E k \in DOMAIN calls' : Asks(k)' /\ calls'[k].command = n
    <3>1. PICK k \in DOMAIN calls : Asks(k) /\ calls[k].command = n
      BY DEF RegistryInv, CallsAreLatest
    <3>2. k - 1 \in 1..(Len(calls) - 1) /\ (k - 1) + 1 = k
      BY <1>1, <1>3, <3>1
    <3> QED BY <1>1, <1>3, <3>1, <3>2
  <2> QED BY <1>2, <2>1, <2>2 DEF CallsAreLatest
<1> QED BY <1>2, <1>4, <1>5 DEF RegistryInv, RepliesInOrder, AllOnTheWay

\* ... or a question, which is the oldest one.
LEMMA QuestionServed == RegistryInv /\ RegistryTyped' /\ Registry!ServeGet => RegistryInv'
<1> SUFFICES ASSUME RegistryInv, RegistryTyped', Registry!ServeGet PROVE RegistryInv'
  OBVIOUS
<1>1. /\ Len(calls) \in Nat \ {0} /\ Head(calls) = calls[1] /\ calls' = Tail(calls)
      /\ DOMAIN calls' = 1..(Len(calls) - 1) /\ DOMAIN calls = 1..Len(calls)
      /\ \A k \in 1..(Len(calls) - 1) : calls'[k] = calls[k + 1]
  BY HeadTailProperties, EmptySeq DEF RegistryInv, RegistryTyped, Registry!ServeGet
<1>2. /\ Served' = Served /\ Oldest' = Oldest /\ asked' = asked
      /\ asked \in Nat /\ Len(replies) \in Nat /\ Served \in Nat /\ Oldest = Served + 1
  BY DEF RegistryInv, RegistryTyped, AllOnTheWay, Registry!ServeGet, Served, Oldest
<1>3. /\ \A k \in 1..(Len(calls) - 1) : (Asks(k)' <=> Asks(k + 1)) /\ calls'[k] = calls[k + 1]
      /\ Asks(1)
  BY <1>1 DEF Asks, Registry!ServeGet
<1>4. CallsInOrder'
  BY <1>1, <1>3 DEF RegistryInv, CallsInOrder
<1>5. /\ \A k \in 1..Len(calls) : Asks(k) => calls[k].command \in Due..asked
      /\ \A n \in Due..asked : \E k \in 1..Len(calls) : Asks(k) /\ calls[k].command = n
      /\ \A j, k \in 1..Len(calls) : Asks(j) /\ Asks(k) /\ j < k => calls[j].command < calls[k].command
  BY <1>1 DEF RegistryInv, CallsAreLatest, CallsInOrder, Due
<1>6. Due \in Nat /\ calls[1].command = Due
  <2>1. Due \in Nat /\ calls[1].command \in Due..asked
    BY <1>1, <1>2, <1>3, <1>5 DEF Due
  <2>2. PICK k \in 1..Len(calls) : Asks(k) /\ calls[k].command = Due
    BY <1>2, <1>5, <2>1
  <2>3. CASE k > 1
    BY <1>1, <1>3, <1>5, <2>1, <2>2, <2>3
  <2> QED BY <2>1, <2>2, <2>3
<1>7. /\ DOMAIN replies = 1..Len(replies) /\ DOMAIN replies' = 1..(Len(replies) + 1)
      /\ Len(replies') = Len(replies) + 1
      /\ \A k \in 1..Len(replies) : replies'[k] = replies[k]
      /\ replies'[Len(replies) + 1].command = Due
  <2>1. replies' = Append(replies, [command |-> Head(calls).command, nodes |-> registry])
    BY DEF Registry!ServeGet
  <2> QED BY <1>1, <1>6, <2>1 DEF RegistryInv, RegistryTyped
<1>8. CallsAreLatest'
  <2>1. ASSUME NEW k \in DOMAIN calls', Asks(k)'
        PROVE calls'[k].command \in (Oldest + Len(replies'))..asked
    <3>1. Asks(k + 1) /\ k + 1 \in 1..Len(calls) /\ 1 < k + 1 /\ calls'[k] = calls[k + 1]
      BY <1>1, <1>3, <2>1
    <3>2. calls[1].command < calls[k + 1].command /\ calls[k + 1].command \in Due..asked
      BY <1>1, <1>3, <1>5, <3>1
    <3> QED BY <1>2, <1>6, <1>7, <3>1, <3>2 DEF Due
  <2>2. ASSUME NEW n \in (Oldest + Len(replies'))..asked
        PROVE \E k \in DOMAIN calls' : Asks(k)' /\ calls'[k].command = n
    <3>1. n \in Due..asked /\ n # Due
      BY <1>2, <1>6, <1>7 DEF Due
    <3>2. PICK k \in 1..Len(calls) : Asks(k) /\ calls[k].command = n
      BY <1>5, <3>1
    <3>3. k - 1 \in 1..(Len(calls) - 1) /\ (k - 1) + 1 = k
      BY <1>1, <1>6, <3>1, <3>2
    <3> QED BY <1>1, <1>3, <3>2, <3>3
  <2> QED BY <1>2, <2>1, <2>2 DEF CallsAreLatest
<1>9. RepliesInOrder'
  <2> SUFFICES ASSUME NEW k \in 1..(Len(replies) + 1) PROVE replies'[k].command = Served + k
    BY <1>2, <1>7 DEF RepliesInOrder
  <2>1. CASE k = Len(replies) + 1
    BY <1>2, <1>7, <2>1 DEF Due
  <2>2. CASE k \in 1..Len(replies)
    BY <1>7, <2>2 DEF RegistryInv, RepliesInOrder
  <2> QED BY <1>2, <2>1, <2>2
<1>10. AllOnTheWay'
  BY <1>1, <1>2, <1>3, <1>5, <1>6, <1>7 DEF AllOnTheWay, Due
<1> QED BY <1>4, <1>8, <1>9, <1>10 DEF RegistryInv

LEMMA ListTaken == RegistryInv /\ RegistryTyped' /\ Registry!TakeList =>
                     RegistryInv' /\ shown'.command = asked - timeouts
<1> SUFFICES ASSUME RegistryInv, RegistryTyped', Registry!TakeList
             PROVE  RegistryInv' /\ shown'.command = asked - timeouts
  OBVIOUS
<1>1. /\ Len(replies) \in Nat \ {0} /\ Head(replies) = replies[1]
      /\ Len(replies') = Len(replies) - 1
      /\ DOMAIN replies' = 1..(Len(replies) - 1) /\ DOMAIN replies = 1..Len(replies)
      /\ \A k \in 1..(Len(replies) - 1) : replies'[k] = replies[k + 1]
  BY HeadTailProperties, EmptySeq DEF RegistryInv, RegistryTyped, Registry!TakeList
<1>2. /\ Served' = Served + 1 /\ Oldest' = Oldest + 1 /\ asked' = asked /\ calls' = calls
      /\ asked \in Nat /\ timeouts \in Nat /\ Served \in Nat /\ Oldest = Served + 1
      /\ Served = asked - timeouts - 1
  BY DEF RegistryInv, RegistryTyped, AllOnTheWay, Registry!TakeList, Served, Oldest
<1>3. shown'.command = asked - timeouts
  BY <1>1, <1>2 DEF Registry!TakeList, RegistryInv, RepliesInOrder
<1>4. Oldest' + Len(replies') = Oldest + Len(replies)
  BY <1>1, <1>2
<1>5. CallsInOrder' /\ CallsAreLatest'
  BY <1>2, <1>4 DEF RegistryInv, CallsInOrder, CallsAreLatest, Asks
<1>6. RepliesInOrder'
  <2> SUFFICES ASSUME NEW k \in 1..(Len(replies) - 1) PROVE replies'[k].command = Served' + k
    BY <1>1 DEF RepliesInOrder
  <2>1. k + 1 \in 1..Len(replies) /\ replies'[k] = replies[k + 1] /\ k \in Nat
    BY <1>1
  <2>2. replies[k + 1].command = Served + (k + 1)
    BY <1>1, <2>1 DEF RegistryInv, RepliesInOrder
  <2> QED BY <1>2, <2>1, <2>2
<1>7. AllOnTheWay'
  BY <1>1, <1>2 DEF RegistryInv, AllOnTheWay
<1> QED BY <1>3, <1>5, <1>6, <1>7 DEF RegistryInv

LEMMA RegistryNext == RegistryInv /\ [Registry!Next]_registryVars => RegistryInv'
<1> SUFFICES ASSUME RegistryInv, [Registry!Next]_registryVars PROVE RegistryInv'
  OBVIOUS
<1>0. RegistryTyped /\ RegistryTyped'
  BY RegistryTyping DEF RegistryInv
<1>1. ASSUME NEW i \in Ids, NEW a \in Addrs, Registry!RemoveOld(i, a) PROVE RegistryInv'
  <2>1. [op |-> "remove_node", id |-> i] \in Calls /\ [op |-> "remove_node", id |-> i].op # "get_all_nodes"
    BY DEF Calls
  <2> QED BY <1>0, <1>1, <2>1, OtherCallComes DEF Registry!RemoveOld
<1>2. CASE Registry!AddNew
  <2>1. refresh \in [id : Ids, addr : Addrs]
    BY <1>0, <1>2 DEF Registry!AddNew, RegistryTyped
  <2>2. PICK y : y = [op |-> "add_node", id |-> refresh.id, addr |-> refresh.addr]
    OBVIOUS
  <2>3. y \in Calls /\ y.op # "get_all_nodes" /\ calls' = Append(calls, y)
    BY <1>2, <2>1, <2>2 DEF Calls, Registry!AddNew
  <2> QED BY <1>0, <1>2, <2>3, OtherCallComes DEF Registry!AddNew
<1>3. CASE Registry!GiveUp
  <2>1. /\ Served' = Served /\ Oldest' = Oldest
        /\ replies' = replies /\ calls' = calls /\ asked' = asked
    BY <1>0, <1>3 DEF Registry!GiveUp, Served, Oldest, RegistryTyped
  <2> QED BY <1>0, <2>1 DEF RegistryInv, RepliesInOrder, CallsInOrder, CallsAreLatest, AllOnTheWay, Asks
<1>4. CASE Registry!ServeAdd
  BY <1>0, <1>4, OtherCallServed DEF Registry!ServeAdd
<1>5. CASE Registry!ServeRemove
  BY <1>0, <1>5, OtherCallServed DEF Registry!ServeRemove
<1>6. CASE UNCHANGED registryVars
  BY <1>0, <1>6 DEF registryVars, RegistryInv, RepliesInOrder, CallsInOrder, CallsAreLatest, AllOnTheWay,
       Asks, Served, Oldest
<1> QED BY <1>0, <1>1, <1>2, <1>3, <1>4, <1>5, <1>6, QuestionComes, QuestionServed, ListTaken DEF Registry!Next

-----------------------------------------------------------------------------
(* The ticket servers in which one process counts.                             *)

OneCounts == ticket \in {"Ej11_d"} \cup Tickets!Erlang
TheCounter == CHOOSE d \in Clients : TRUE

Pieces == {"NUE", "VO", "CHAU", "EOF", "RST"}
ReplyPlaces == {"half", "print", "load", "store"}
Letters == [is : {"data", "number"}, n : Nat, line : {"NUEVO", "CHAU", "closed", "other", ""}]

TicketsTyped ==
  /\ stream \in [Clients -> Seq(Pieces)]
  /\ at \in [Clients -> {"read", "ask", "closed"} \cup ReplyPlaces]
  /\ U \in [Clients -> Nat]
  /\ number \in [Clients -> [1..2 -> Nat]]
  /\ counting \in Seq(Clients)
  /\ mail \in [Clients -> Seq(Letters)]
  /\ answers \in [Clients -> Seq(Nat)]

\* select's process serves a line at a time, and holds what it has read of the
\* counter until it writes it back.
OneAtATime == ticket = "Ej11_d" => \A c \in Clients :
  /\ at[c] \in ReplyPlaces => busy = c
  /\ at[c] \in {"load", "store"} => number[c][1] = U[TheCounter]
  /\ at[c] = "store" => number[c][2] = U[TheCounter]

\* The counter's process counts in Erlang, the clients' in C.
Apart == /\ ticket \in Tickets!C => counting = <<>>
         /\ ticket \in Tickets!Erlang => \A c \in Clients : at[c] \notin ReplyPlaces

\* A client has got n as its k-th answer, or n is on its way to it.
Got(c, k, n) == k \in DOMAIN answers[c] /\ answers[c][k] = n
OnItsWay(c, k, n) == k \in DOMAIN mail[c] /\ mail[c][k].is = "number" /\ mail[c][k].n = n

\* Every number is in one place, and less than the counter.
GivenOnce == OneCounts => \A n \in Nat : \A c, d \in Clients : \A j, k \in Nat :
  /\ Got(c, j, n) /\ Got(d, k, n) => c = d /\ j = k
  /\ OnItsWay(c, j, n) /\ OnItsWay(d, k, n) => c = d /\ j = k
  /\ ~(Got(c, j, n) /\ OnItsWay(d, k, n))
  /\ Got(c, j, n) \/ OnItsWay(c, j, n) => n < U[TheCounter]

TicketInv == TicketsTyped /\ OneAtATime /\ Apart /\ GivenOnce

LEMMA TicketInit == Tickets!InitS => TicketInv
<1> SUFFICES ASSUME Tickets!InitS PROVE TicketInv
  OBVIOUS
<1>1. TicketsTyped
  BY DEF Tickets!InitS, TicketsTyped
<1>2. OneAtATime /\ Apart
  BY DEF Tickets!InitS, OneAtATime, Apart, ReplyPlaces
<1>3. GivenOnce
  BY DEF Tickets!InitS, GivenOnce, Got, OnItsWay
<1> QED BY <1>1, <1>2, <1>3 DEF TicketInv

LEMMA TicketTyping == TicketsTyped /\ [Tickets!NextS]_ticketVars => TicketsTyped'
<1> SUFFICES ASSUME TicketsTyped, [Tickets!NextS]_ticketVars PROVE TicketsTyped'
  OBVIOUS
<1> USE DEF TicketsTyped, Tickets!Process, Tickets!Setting, Tickets!Goes, Tickets!Sends
<1>1. ASSUME NEW c \in Clients, Tickets!Request(c) PROVE TicketsTyped'
  <2>1. <<"NUE", "VO">> \in Seq(Pieces) /\ <<IF Tickets!InHalf(c) THEN "VO" ELSE "NUE">> \in Seq(Pieces)
    BY DEF Pieces
  <2>2. PICK bytes \in Seq(Pieces) : stream' = [stream EXCEPT ![c] = @ \o bytes]
    BY <1>1, <2>1 DEF Tickets!Request
  <2>3. stream[c] \o bytes \in Seq(Pieces)
    OBVIOUS
  <2> QED BY <1>1, <2>2, <2>3 DEF Tickets!Request
<1>2. ASSUME NEW c \in Clients, Tickets!Leave(c) PROVE TicketsTyped'
  <2>1. PICK bye \in {"CHAU", "EOF", "RST"} : Tickets!Sends(c, <<bye>>)
    BY <1>2 DEF Tickets!Leave
  <2>2. <<bye>> \in Seq(Pieces)
    BY DEF Pieces
  <2> QED BY <1>2, <2>1, <2>2 DEF Tickets!Leave
<1>3. ASSUME NEW c \in Clients, Tickets!Readline(c) PROVE TicketsTyped'
  <2>1. Head(stream[c]) \in Pieces /\ Tail(stream[c]) \in Seq(Pieces)
    BY <1>3 DEF Tickets!Readline
  <2>2. at' \in [Clients -> {"read", "ask", "closed"} \cup ReplyPlaces]
    <3>1. CASE at' = [at EXCEPT ![c] = "half"] \/ at' = [at EXCEPT ![c] = "print"]
               \/ at' = [at EXCEPT ![c] = "read"] \/ at' = [at EXCEPT ![c] = "closed"]
      BY <3>1 DEF ReplyPlaces
    <3>2. CASE Tickets!Abort(c)
      BY <3>2 DEF Tickets!Abort
    <3> QED BY <1>3, <2>1, <3>1, <3>2 DEF Tickets!Readline, Pieces
  <2>3. stream' \in [Clients -> Seq(Pieces)]
    BY <1>3, <2>1 DEF Tickets!Readline
  <2> QED BY <1>3, <2>2, <2>3 DEF Tickets!Readline
<1>4. ASSUME NEW c \in Clients, Tickets!Format(c) PROVE TicketsTyped'
  <2>1. U[Tickets!Counter(c)] \in Nat
    BY DEF Tickets!Counter
  <2> QED BY <1>4, <2>1 DEF Tickets!Format, ReplyPlaces
<1>5. ASSUME NEW c \in Clients, Tickets!LoadU(c) PROVE TicketsTyped'
  <2>1. U[Tickets!Counter(c)] \in Nat
    BY DEF Tickets!Counter
  <2> QED BY <1>5, <2>1 DEF Tickets!LoadU, ReplyPlaces
<1>6. ASSUME NEW c \in Clients, Tickets!Store(c) PROVE TicketsTyped'
  <2>1. number[c][1] \in Nat /\ number[c][2] + 1 \in Nat
    OBVIOUS
  <2>2. Append(answers[c], number[c][1]) \in Seq(Nat)
    BY <2>1
  <2>3. U' \in [Clients -> Nat] /\ answers' \in [Clients -> Seq(Nat)]
    BY <1>6, <2>1, <2>2 DEF Tickets!Store
  <2>4. at' \in [Clients -> {"read", "ask", "closed"} \cup ReplyPlaces]
    BY <1>6 DEF Tickets!Store, Tickets!Abort
  <2> QED BY <1>6, <2>3, <2>4 DEF Tickets!Store
<1>7. ASSUME NEW c \in Clients, Tickets!Deliver(c) PROVE TicketsTyped'
  <2>1. PICK k \in 1..Len(stream[c]) :
          /\ mail' = [mail EXCEPT ![c] = Append(@, Tickets!Data(SubSeq(stream[c], 1, k)))]
          /\ stream' = [stream EXCEPT ![c] = SubSeq(@, k + 1, Len(@))]
    <3>1. Len(stream[c]) \in 1..Len(stream[c])
      BY <1>7, EmptySeq DEF Tickets!Deliver
    <3> QED BY <1>7, <3>1 DEF Tickets!Deliver
  <2>2. Tickets!Data(SubSeq(stream[c], 1, k)) \in Letters
    BY DEF Tickets!Data, Letters
  <2>3. mail' \in [Clients -> Seq(Letters)]
    BY <2>1, <2>2
  <2>4. SubSeq(stream[c], k + 1, Len(stream[c])) \in Seq(Pieces)
    OBVIOUS
  <2>5. stream' \in [Clients -> Seq(Pieces)]
    BY <2>1, <2>4
  <2> QED BY <1>7, <2>3, <2>5 DEF Tickets!Deliver
<1>8. ASSUME NEW c \in Clients, Tickets!GetRequest(c) PROVE TicketsTyped'
  <2>1. PICK k \in DOMAIN mail[c] :
          /\ mail' = [mail EXCEPT ![c] = Tickets!RemoveAt(@, k)]
          /\ counting' \in {counting, Append(counting, c)}
          /\ at' \in {[at EXCEPT ![c] = "ask"], [at EXCEPT ![c] = "closed"]}
    BY <1>8 DEF Tickets!GetRequest
  <2>2. Tickets!RemoveAt(mail[c], k) \in Seq(Letters)
    BY DEF Tickets!RemoveAt
  <2>3. mail' \in [Clients -> Seq(Letters)]
    BY <2>1, <2>2
  <2>5. counting' \in Seq(Clients)
    <3>1. Append(counting, c) \in Seq(Clients)
      OBVIOUS
    <3> QED BY ONLY <2>1, <3>1, TicketsTyped DEF TicketsTyped
  <2>4. at' \in [Clients -> {"read", "ask", "closed"} \cup ReplyPlaces]
    BY <2>1
  <2> QED BY <1>8, <2>3, <2>4, <2>5 DEF Tickets!GetRequest
<1>9. ASSUME NEW c \in Clients, Tickets!Reply(c) PROVE TicketsTyped'
  <2>1. Head(mail[c]) \in Letters /\ Tail(mail[c]) \in Seq(Letters)
    BY <1>9 DEF Tickets!Reply
  <2>2. Head(mail[c]).n \in Nat
    BY <2>1 DEF Letters
  <2>3. mail' \in [Clients -> Seq(Letters)] /\ answers' \in [Clients -> Seq(Nat)]
    BY <1>9, <2>1, <2>2 DEF Tickets!Reply
  <2> QED BY <1>9, <2>3 DEF Tickets!Reply
<1>10. CASE Tickets!Count
  <2>1. PICK c \in Clients : c = Head(counting) /\ Tail(counting) \in Seq(Clients)
    BY <1>10 DEF Tickets!Count
  <2>2. Tickets!Counter(c) \in Clients /\ Tickets!Number(U[Tickets!Counter(c)]) \in Letters
    BY DEF Tickets!Counter, Tickets!Number, Letters
  <2>3. /\ mail' = [mail EXCEPT ![c] = Append(@, Tickets!Number(U[Tickets!Counter(c)]))]
        /\ U' = [U EXCEPT ![Tickets!Counter(c)] = @ + 1]
        /\ counting' = Tail(counting)
    BY <1>10, <2>1 DEF Tickets!Count
  <2>4. Append(mail[c], Tickets!Number(U[Tickets!Counter(c)])) \in Seq(Letters)
    BY <2>2
  <2>5. mail' \in [Clients -> Seq(Letters)]
    BY <2>3, <2>4
  <2>6. U' \in [Clients -> Nat]
    <3>1. U[Tickets!Counter(c)] + 1 \in Nat
      BY <2>2
    <3> QED BY ONLY <2>2, <2>3, <3>1, TicketsTyped DEF TicketsTyped
  <2> QED BY <1>10, <2>1, <2>3, <2>5, <2>6 DEF Tickets!Count
<1>11. CASE UNCHANGED ticketVars
  BY <1>11 DEF ticketVars
<1> QED BY <1>1, <1>2, <1>3, <1>4, <1>5, <1>6, <1>7, <1>8, <1>9, <1>10, <1>11 DEF Tickets!NextS

\* Only one client's reply is being written.
LEMMA OneAtATimeNext == TicketInv /\ TicketsTyped' /\ [Tickets!NextS]_ticketVars => OneAtATime'
<1> SUFFICES ASSUME TicketInv, TicketsTyped', [Tickets!NextS]_ticketVars, ticket' = "Ej11_d"
             PROVE  OneAtATime'
  BY DEF OneAtATime
<1> USE NobodyAssumption DEF Tickets!Process, Tickets!Setting, Tickets!Goes, Tickets!Holds, Tickets!Nobody
<1>0. ticket = "Ej11_d"
  BY DEF Tickets!NextS, Tickets!Request, Tickets!Leave, Tickets!Readline, Tickets!Format, Tickets!LoadU,
         Tickets!Store, Tickets!Deliver, Tickets!GetRequest, Tickets!Reply, Tickets!Count, ticketVars
<1>1. /\ ticket \notin Tickets!Erlang /\ ticket \in Tickets!C /\ ticket \notin Tickets!Forks
      /\ counting = <<>>
      /\ \A c : Tickets!Counter(c) = TheCounter
      /\ TheCounter \in Clients \/ Clients = {}
  BY <1>0 DEF Tickets!Erlang, Tickets!C, Tickets!Forks, TicketInv, Apart, Tickets!Counter, TheCounter
<1>2. /\ \A c \in Clients : at[c] \in ReplyPlaces => busy = c
      /\ \A c \in Clients : at[c] \in {"load", "store"} => number[c][1] = U[TheCounter]
      /\ \A c \in Clients : at[c] = "store" => number[c][2] = U[TheCounter]
  BY <1>0 DEF TicketInv, OneAtATime
<1>3. at \in [Clients -> {"read", "ask", "closed"} \cup ReplyPlaces] /\ number \in [Clients -> [1..2 -> Nat]]
  BY DEF TicketInv, TicketsTyped
<1>4. CASE UNCHANGED <<at, busy, number, U>>
  BY <1>2, <1>4 DEF OneAtATime
<1>5. ASSUME NEW c \in Clients, Tickets!Readline(c) PROVE OneAtATime'
  <2>1. \A d \in Clients : at[d] \in ReplyPlaces => d = c
    BY <1>0, <1>1, <1>2, <1>5 DEF Tickets!Readline, Tickets!Mine
  <2>2. /\ \A d \in Clients : d # c => at'[d] \in {at[d], "closed"}
        /\ at'[c] \in {"half", "print"} => busy' = c
    <3>1. CASE Tickets!Abort(c)
      <4>1. c \in Tickets!OfTheProcess(c)
        BY DEF Tickets!OfTheProcess
      <4> QED BY <3>1, <4>1 DEF Tickets!Abort
    <3>2. CASE ~Tickets!Abort(c)
      <4>1. PICK to : /\ at' = [at EXCEPT ![c] = to]
                      /\ busy' = IF to \in {"half", "print"} THEN c ELSE "nobody"
        BY <1>0, <1>5, <3>2, Zenon DEF Tickets!Readline
      <4> QED BY <1>3, <4>1
    <3> QED BY <3>1, <3>2
  <2>3. at'[c] \in {"half", "print", "closed", "read"}
    <3>1. Head(stream[c]) \in Pieces
      BY <1>5 DEF Tickets!Readline, TicketInv, TicketsTyped
    <3>2. CASE Tickets!Abort(c)
      BY <3>2 DEF Tickets!Abort, Tickets!OfTheProcess
    <3> QED BY <1>3, <1>5, <3>1, <3>2 DEF Tickets!Readline, Pieces
  <2> QED BY <2>1, <2>2, <2>3 DEF OneAtATime, ReplyPlaces
<1>6. ASSUME NEW c \in Clients, Tickets!Format(c) PROVE OneAtATime'
  <2>1. /\ \A d \in Clients : d # c => at'[d] = at[d] /\ number'[d] = number[d]
        /\ at'[c] = "load" /\ busy' = busy /\ U' = U /\ at[c] = "print"
        /\ number'[c][1] = U[TheCounter]
    BY <1>1, <1>3, <1>6 DEF Tickets!Format
  <2> QED BY <1>2, <2>1 DEF OneAtATime, ReplyPlaces
<1>7. ASSUME NEW c \in Clients, Tickets!LoadU(c) PROVE OneAtATime'
  <2>1. /\ \A d \in Clients : d # c => at'[d] = at[d] /\ number'[d] = number[d]
        /\ at'[c] = "store" /\ busy' = busy /\ U' = U /\ at[c] = "load"
        /\ number'[c][2] = U[TheCounter] /\ number'[c][1] = number[c][1]
    BY <1>1, <1>3, <1>7 DEF Tickets!LoadU
  <2> QED BY <1>2, <2>1 DEF OneAtATime, ReplyPlaces
<1>8. ASSUME NEW c \in Clients, Tickets!Store(c) PROVE OneAtATime'
  <2>1. /\ \A d \in Clients : d # c => at'[d] \in {at[d], "closed"}
        /\ at'[c] \in {"read", "closed"} /\ at[c] = "store"
    BY <1>3, <1>8 DEF Tickets!Store, Tickets!Abort, Tickets!OfTheProcess
  <2> QED BY <1>2, <2>1 DEF OneAtATime, ReplyPlaces
<1>9. CASE UNCHANGED ticketVars
  BY <1>4, <1>9 DEF ticketVars
<1> QED BY <1>1, <1>4, <1>5, <1>6, <1>7, <1>8, <1>9
     DEF Tickets!NextS, Tickets!Request, Tickets!Leave, Tickets!Deliver, Tickets!GetRequest, Tickets!Reply,
         Tickets!Count

LEMMA ApartNext == TicketInv /\ TicketsTyped' /\ [Tickets!NextS]_ticketVars => Apart'
<1> SUFFICES ASSUME TicketInv, TicketsTyped', [Tickets!NextS]_ticketVars PROVE Apart'
  OBVIOUS
<1> USE DEF Tickets!Process, Tickets!Setting, Tickets!Goes
<1>1. ticket' = ticket
  BY DEF Tickets!NextS, Tickets!Request, Tickets!Leave, Tickets!Readline, Tickets!Format, Tickets!LoadU,
         Tickets!Store, Tickets!Deliver, Tickets!GetRequest, Tickets!Reply, Tickets!Count, ticketVars
<1>2. ticket \in Tickets!C => ticket \notin Tickets!Erlang
  BY DEF Tickets!C, Tickets!Erlang, Tickets!Forks
<1>3. Apart /\ at \in [Clients -> {"read", "ask", "closed"} \cup ReplyPlaces]
  BY DEF TicketInv, TicketsTyped
<1>4. CASE UNCHANGED <<counting, at>>
  BY <1>1, <1>3, <1>4 DEF Apart
<1>5. ASSUME NEW c \in Clients, Tickets!Readline(c) PROVE Apart'
  BY <1>1, <1>2, <1>3, <1>5 DEF Apart, Tickets!Readline, Tickets!Mine
<1>6. ASSUME NEW c \in Clients, Tickets!Format(c) PROVE Apart'
  BY <1>1, <1>2, <1>3, <1>6 DEF Apart, Tickets!Format
<1>7. ASSUME NEW c \in Clients, Tickets!LoadU(c) PROVE Apart'
  BY <1>1, <1>2, <1>3, <1>7 DEF Apart, Tickets!LoadU
<1>8. ASSUME NEW c \in Clients, Tickets!Store(c) PROVE Apart'
  BY <1>1, <1>2, <1>3, <1>8 DEF Apart, Tickets!Store
<1>9. ASSUME NEW c \in Clients, Tickets!GetRequest(c) PROVE Apart'
  <2>1. at' \in {[at EXCEPT ![c] = "ask"], [at EXCEPT ![c] = "closed"]}
    BY <1>9 DEF Tickets!GetRequest
  <2> QED BY <1>1, <1>2, <1>3, <1>9, <2>1 DEF Apart, Tickets!GetRequest, ReplyPlaces
<1>10. ASSUME NEW c \in Clients, Tickets!Reply(c) PROVE Apart'
  BY <1>1, <1>2, <1>3, <1>10 DEF Apart, Tickets!Reply, ReplyPlaces
<1>11. CASE Tickets!Count
  BY <1>1, <1>3, <1>11 DEF Apart, Tickets!Count
<1>12. CASE UNCHANGED ticketVars
  BY <1>4, <1>12 DEF ticketVars
<1> QED BY <1>4, <1>5, <1>6, <1>7, <1>8, <1>9, <1>10, <1>11, <1>12
     DEF Tickets!NextS, Tickets!Request, Tickets!Leave, Tickets!Deliver

\* What a step may do with the numbers: none is new ...
LEMMA NoNewNumber ==
  ASSUME TicketInv, UNCHANGED <<ticket, U>>,
         \A c \in Clients : \A k, n \in Nat :
           (Got(c, k, n)' => Got(c, k, n)) /\ (OnItsWay(c, k, n)' => OnItsWay(c, k, n))
  PROVE  GivenOnce'
<1> SUFFICES ASSUME OneCounts PROVE GivenOnce'
  BY DEF GivenOnce, OneCounts
<1> QED BY DEF TicketInv, GivenOnce

\* ... or some letters of a mailbox move up behind one that is taken, which may
\* be the next answer ...
LEMMA NumberIsTaken ==
  ASSUME TicketInv, UNCHANGED <<ticket, U>>, NEW e \in Clients, NEW h \in Nat, NEW last \in Nat,
         \A c \in Clients : \A k, n \in Nat : c # e =>
           (Got(c, k, n)' => Got(c, k, n)) /\ (OnItsWay(c, k, n)' => OnItsWay(c, k, n)),
         \A k, n \in Nat : Got(e, k, n)' => Got(e, k, n) \/ (k = last /\ OnItsWay(e, h, n)),
         \A k, n \in Nat : OnItsWay(e, k, n)' =>
           IF k < h THEN OnItsWay(e, k, n) ELSE OnItsWay(e, k + 1, n)
  PROVE  GivenOnce'
<1> SUFFICES ASSUME OneCounts PROVE GivenOnce'
  BY DEF GivenOnce, OneCounts
<1>1. \A n \in Nat : \A c, d \in Clients : \A j, k \in Nat :
        /\ Got(c, j, n) /\ Got(d, k, n) => c = d /\ j = k
        /\ OnItsWay(c, j, n) /\ OnItsWay(d, k, n) => c = d /\ j = k
        /\ ~(Got(c, j, n) /\ OnItsWay(d, k, n))
        /\ Got(c, j, n) \/ OnItsWay(c, j, n) => n < U[TheCounter]
  BY DEF TicketInv, GivenOnce
<1>2. \A c \in Clients : \A k, n \in Nat :
        /\ Got(c, k, n)' => Got(c, k, n) \/ (c = e /\ k = last /\ OnItsWay(e, h, n))
        /\ OnItsWay(c, k, n)' => \/ OnItsWay(c, k, n) /\ (c = e => k < h)
                                 \/ c = e /\ k >= h /\ OnItsWay(c, k + 1, n)
  OBVIOUS
<1>3. ASSUME NEW n \in Nat, NEW c \in Clients, NEW d \in Clients, NEW j \in Nat, NEW k \in Nat
      PROVE /\ Got(c, j, n)' /\ Got(d, k, n)' => c = d /\ j = k
            /\ OnItsWay(c, j, n)' /\ OnItsWay(d, k, n)' => c = d /\ j = k
            /\ ~(Got(c, j, n)' /\ OnItsWay(d, k, n)')
            /\ Got(c, j, n)' \/ OnItsWay(c, j, n)' => n < U[TheCounter]
  <2>1. j + 1 \in Nat /\ k + 1 \in Nat
    OBVIOUS
  <2>2. Got(c, j, n)' /\ Got(d, k, n)' => c = d /\ j = k
    BY <1>1, <1>2, <2>1
  <2>3. OnItsWay(c, j, n)' /\ OnItsWay(d, k, n)' => c = d /\ j = k
    BY <1>1, <1>2, <2>1
  <2>4. ~(Got(c, j, n)' /\ OnItsWay(d, k, n)')
    BY <1>1, <1>2, <2>1
  <2>5. Got(c, j, n)' \/ OnItsWay(c, j, n)' => n < U[TheCounter]
    BY <1>1, <1>2, <2>1
  <2> QED BY <2>2, <2>3, <2>4, <2>5
<1> QED BY <1>3 DEF GivenOnce

\* ... or the value of the counter is given to a client and the counter goes on.
LEMMA NumberIsGiven ==
  ASSUME TicketInv, OneCounts, UNCHANGED ticket, NEW e \in Clients, NEW last \in Nat,
         U[TheCounter] \in Nat, U'[TheCounter] = U[TheCounter] + 1, NEW V, V \in BOOLEAN,
         \A c \in Clients : \A k, n \in Nat :
           /\ Got(c, k, n)' => Got(c, k, n) \/ (V /\ c = e /\ k = last /\ n = U[TheCounter])
           /\ OnItsWay(c, k, n)' => OnItsWay(c, k, n) \/ (~V /\ c = e /\ k = last /\ n = U[TheCounter])
  PROVE  GivenOnce'
<1>1. \A n \in Nat : \A c, d \in Clients : \A j, k \in Nat :
        /\ Got(c, j, n) /\ Got(d, k, n) => c = d /\ j = k
        /\ OnItsWay(c, j, n) /\ OnItsWay(d, k, n) => c = d /\ j = k
        /\ ~(Got(c, j, n) /\ OnItsWay(d, k, n))
        /\ Got(c, j, n) \/ OnItsWay(c, j, n) => n < U[TheCounter]
  BY DEF TicketInv, GivenOnce
<1>2. TheCounter' = TheCounter
  BY DEF TheCounter
<1>3. ASSUME NEW n \in Nat, NEW c \in Clients, NEW d \in Clients, NEW j \in Nat, NEW k \in Nat
      PROVE /\ Got(c, j, n)' /\ Got(d, k, n)' => c = d /\ j = k
            /\ OnItsWay(c, j, n)' /\ OnItsWay(d, k, n)' => c = d /\ j = k
            /\ ~(Got(c, j, n)' /\ OnItsWay(d, k, n)')
            /\ Got(c, j, n)' \/ OnItsWay(c, j, n)' => n < U[TheCounter] + 1
  BY <1>1
<1> QED BY <1>2, <1>3 DEF GivenOnce

LEMMA GivenOnceNext == TicketInv /\ TicketsTyped' /\ [Tickets!NextS]_ticketVars => GivenOnce'
<1> SUFFICES ASSUME TicketInv, TicketsTyped', [Tickets!NextS]_ticketVars PROVE GivenOnce'
  OBVIOUS
<1> USE DEF Tickets!Process, Tickets!Setting, Tickets!Goes
<1>1. ticket' = ticket
  BY DEF Tickets!NextS, Tickets!Request, Tickets!Leave, Tickets!Readline, Tickets!Format, Tickets!LoadU,
         Tickets!Store, Tickets!Deliver, Tickets!GetRequest, Tickets!Reply, Tickets!Count, ticketVars
<1>2. TicketsTyped
  BY DEF TicketInv
<1>3. CASE UNCHANGED <<U, mail, answers>>
  BY <1>1, <1>3, NoNewNumber DEF Got, OnItsWay
<1>4. ASSUME NEW c \in Clients, Tickets!Store(c) PROVE GivenOnce'
  <2>1. CASE OneCounts
    <3>1. ticket = "Ej11_d"
      BY <1>4, <2>1 DEF OneCounts, Tickets!Store, Tickets!Erlang, Tickets!C, Tickets!Forks
    <3>2. /\ Tickets!Counter(c) = TheCounter /\ TheCounter \in Clients
          /\ number[c][1] = U[TheCounter] /\ number[c][2] = U[TheCounter] /\ U[TheCounter] \in Nat
      BY <1>2, <1>4, <3>1 DEF Tickets!Counter, TheCounter, TicketInv, OneAtATime, Tickets!Store, TicketsTyped
    <3>3. U'[TheCounter] = U[TheCounter] + 1
      BY <1>2, <1>4, <3>2 DEF Tickets!Store, TicketsTyped
    <3>4. CASE c \notin broken
      <4>1. /\ answers'[c] = Append(answers[c], U[TheCounter])
            /\ \A d \in Clients : d # c => answers'[d] = answers[d]
            /\ mail' = mail
        BY <1>2, <1>4, <3>2, <3>4 DEF Tickets!Store, TicketsTyped
      <4>2. /\ Len(answers[c]) \in Nat /\ DOMAIN answers[c] = 1..Len(answers[c])
            /\ DOMAIN answers'[c] = 1..(Len(answers[c]) + 1)
            /\ \A k \in 1..Len(answers[c]) : answers'[c][k] = answers[c][k]
            /\ answers'[c][Len(answers[c]) + 1] = U[TheCounter]
        <5>1. answers[c] \in Seq(Nat)
          BY <1>2 DEF TicketsTyped
        <5> QED BY <3>2, <4>1, <5>1, AppendElements
      <4>3. \A d \in Clients : \A k, n \in Nat :
              /\ Got(d, k, n)' =>
                   Got(d, k, n) \/ (TRUE /\ d = c /\ k = Len(answers[c]) + 1 /\ n = U[TheCounter])
              /\ OnItsWay(d, k, n)' =>
                   OnItsWay(d, k, n) \/ (~TRUE /\ d = c /\ k = Len(answers[c]) + 1 /\ n = U[TheCounter])
        BY <4>1, <4>2 DEF Got, OnItsWay
      <4>4. Len(answers[c]) + 1 \in Nat
        BY <4>2
      <4> QED BY <1>1, <2>1, <3>2, <3>3, <4>3, <4>4, NumberIsGiven
    <3>5. CASE c \in broken
      <4>1. answers' = answers /\ mail' = mail
        BY <1>4, <3>5 DEF Tickets!Store
      <4>2. \A d \in Clients : \A k, n \in Nat :
              (Got(d, k, n)' <=> Got(d, k, n)) /\ (OnItsWay(d, k, n)' <=> OnItsWay(d, k, n))
        BY <4>1 DEF Got, OnItsWay
      <4>3. \A n \in Nat : n < U[TheCounter] => n < U'[TheCounter]
        BY <3>2, <3>3
      <4>4. TheCounter' = TheCounter
        BY DEF TheCounter
      <4>5. \A n \in Nat : \A d, e \in Clients : \A j, k \in Nat :
              /\ Got(d, j, n) /\ Got(e, k, n) => d = e /\ j = k
              /\ OnItsWay(d, j, n) /\ OnItsWay(e, k, n) => d = e /\ j = k
              /\ ~(Got(d, j, n) /\ OnItsWay(e, k, n))
              /\ Got(d, j, n) \/ OnItsWay(d, j, n) => n < U[TheCounter]
        BY <2>1 DEF TicketInv, GivenOnce
      <4>6. ASSUME NEW n \in Nat, NEW d \in Clients, NEW e \in Clients, NEW j \in Nat, NEW k \in Nat
            PROVE /\ Got(d, j, n)' /\ Got(e, k, n)' => d = e /\ j = k
                  /\ OnItsWay(d, j, n)' /\ OnItsWay(e, k, n)' => d = e /\ j = k
                  /\ ~(Got(d, j, n)' /\ OnItsWay(e, k, n)')
                  /\ Got(d, j, n)' \/ OnItsWay(d, j, n)' => n < U'[TheCounter]
        <5>1. /\ Got(d, j, n)' <=> Got(d, j, n)
              /\ Got(e, k, n)' <=> Got(e, k, n)
              /\ OnItsWay(d, j, n)' <=> OnItsWay(d, j, n)
              /\ OnItsWay(e, k, n)' <=> OnItsWay(e, k, n)
          BY <4>2
        <5>2. /\ Got(d, j, n) /\ Got(e, k, n) => d = e /\ j = k
              /\ OnItsWay(d, j, n) /\ OnItsWay(e, k, n) => d = e /\ j = k
              /\ ~(Got(d, j, n) /\ OnItsWay(e, k, n))
              /\ Got(d, j, n) \/ OnItsWay(d, j, n) => n < U[TheCounter]
          BY <4>5
        <5> QED BY ONLY <4>3, <5>1, <5>2
      <4> QED BY <4>4, <4>6 DEF GivenOnce
    <3> QED BY <3>4, <3>5
  <2>2. CASE ~OneCounts
    BY <1>1, <2>2 DEF GivenOnce, OneCounts
  <2> QED BY <2>1, <2>2
<1>5. ASSUME NEW c \in Clients, Tickets!Deliver(c) PROVE GivenOnce'
  <2>1. PICK y : y.is = "data" /\ mail' = [mail EXCEPT ![c] = Append(@, y)]
    BY <1>5 DEF Tickets!Deliver, Tickets!Data
  <2>2. /\ mail'[c] = Append(mail[c], y)
        /\ \A d \in Clients : d # c => mail'[d] = mail[d]
        /\ answers' = answers /\ U' = U
    BY <1>2, <1>5, <2>1 DEF Tickets!Deliver, TicketsTyped
  <2>3. /\ Len(mail[c]) \in Nat /\ DOMAIN mail[c] = 1..Len(mail[c])
        /\ DOMAIN mail'[c] = 1..(Len(mail[c]) + 1)
        /\ \A k \in 1..Len(mail[c]) : mail'[c][k] = mail[c][k]
        /\ mail'[c][Len(mail[c]) + 1] = y
    BY <1>2, <2>2 DEF TicketsTyped
  <2>4. \A d \in Clients : \A k, n \in Nat :
          (Got(d, k, n)' => Got(d, k, n)) /\ (OnItsWay(d, k, n)' => OnItsWay(d, k, n))
    BY <2>1, <2>2, <2>3 DEF Got, OnItsWay
  <2> QED BY <1>1, <2>2, <2>4, NoNewNumber
<1>6. ASSUME NEW c \in Clients, Tickets!GetRequest(c) PROVE GivenOnce'
  <2>1. PICK h \in DOMAIN mail[c] : mail' = [mail EXCEPT ![c] = Tickets!RemoveAt(@, h)]
    BY <1>6 DEF Tickets!GetRequest
  <2>2. /\ mail'[c] = RemoveAt(mail[c], h)
        /\ \A d \in Clients : d # c => mail'[d] = mail[d]
        /\ answers' = answers /\ U' = U
    BY <1>2, <1>6, <2>1 DEF Tickets!GetRequest, TicketsTyped, Tickets!RemoveAt, RemoveAt
  <2>3. mail[c] \in Seq(Letters) /\ Len(mail[c]) \in Nat /\ h \in 1..Len(mail[c])
    BY <1>2, <2>1 DEF TicketsTyped
  <2>4. /\ DOMAIN mail[c] = 1..Len(mail[c]) /\ DOMAIN mail'[c] = 1..(Len(mail[c]) - 1)
        /\ \A i \in 1..(h - 1) : mail'[c][i] = mail[c][i]
        /\ \A i \in h..(Len(mail[c]) - 1) : mail'[c][i] = mail[c][i + 1]
    <3>1. DOMAIN mail[c] = 1..Len(mail[c])
      BY ONLY <2>3, LenProperties
    <3> QED BY <2>2, <2>3, <3>1, RemoveAtElements, SMTT(30)
  <2>5. \A d \in Clients : \A k, n \in Nat : d # c =>
          (Got(d, k, n)' => Got(d, k, n)) /\ (OnItsWay(d, k, n)' => OnItsWay(d, k, n))
    BY <2>2 DEF Got, OnItsWay
  <2>6. \A k, n \in Nat : Got(c, k, n)' => Got(c, k, n) \/ (k = 0 /\ OnItsWay(c, h, n))
    BY <2>2 DEF Got
  <2>7. \A k, n \in Nat : OnItsWay(c, k, n)' =>
          IF k < h THEN OnItsWay(c, k, n) ELSE OnItsWay(c, k + 1, n)
    <3> SUFFICES ASSUME NEW k \in Nat, NEW n \in Nat, OnItsWay(c, k, n)'
                 PROVE IF k < h THEN OnItsWay(c, k, n) ELSE OnItsWay(c, k + 1, n)
      OBVIOUS
    <3>1. k \in 1..(Len(mail[c]) - 1) /\ mail'[c][k].is = "number" /\ mail'[c][k].n = n
      BY <2>4 DEF OnItsWay
    <3>2. CASE k < h
      BY <2>3, <2>4, <3>1, <3>2 DEF OnItsWay
    <3>3. CASE ~(k < h)
      <4>1. k \in h..(Len(mail[c]) - 1) /\ k + 1 \in 1..Len(mail[c])
        BY <2>3, <3>1, <3>3
      <4> QED BY <2>4, <3>1, <3>3, <4>1 DEF OnItsWay
    <3> QED BY <3>2, <3>3
  <2>8. h \in Nat /\ 0 \in Nat
    BY <2>3
  <2> QED BY <1>1, <2>2, <2>5, <2>6, <2>7, <2>8, NumberIsTaken
<1>7. ASSUME NEW c \in Clients, Tickets!Reply(c) PROVE GivenOnce'
  <2>1. /\ mail'[c] = Tail(mail[c])
        /\ answers'[c] = IF Head(mail[c]).is = "number" THEN Append(answers[c], Head(mail[c]).n)
                         ELSE answers[c]
        /\ \A d \in Clients : d # c => mail'[d] = mail[d] /\ answers'[d] = answers[d]
        /\ U' = U
    BY <1>2, <1>7 DEF Tickets!Reply, TicketsTyped
  <2>2. /\ Len(mail[c]) \in Nat \ {0} /\ Head(mail[c]) = mail[c][1]
        /\ DOMAIN mail[c] = 1..Len(mail[c]) /\ DOMAIN mail'[c] = 1..(Len(mail[c]) - 1)
        /\ \A k \in 1..(Len(mail[c]) - 1) : mail'[c][k] = mail[c][k + 1]
    <3>1. mail[c] \in Seq(Letters) /\ mail[c] # <<>>
      BY <1>2, <1>7 DEF Tickets!Reply, TicketsTyped
    <3> QED BY <2>1, <3>1, TailElements
  <2>3. mail[c][1].n \in Nat
    <3>1. mail[c] \in Seq(Letters) /\ mail[c] # <<>>
      BY <1>2, <1>7 DEF Tickets!Reply, TicketsTyped
    <3>2. mail[c][1] \in Letters
      BY <3>1, TailElements
    <3> QED BY <3>2 DEF Letters
  <2>4. /\ Len(answers[c]) \in Nat /\ DOMAIN answers[c] = 1..Len(answers[c])
        /\ \A k \in DOMAIN answers'[c] : \/ k \in DOMAIN answers[c] /\ answers'[c][k] = answers[c][k]
                                         \/ /\ k = Len(answers[c]) + 1 /\ mail[c][1].is = "number"
                                            /\ answers'[c][k] = mail[c][1].n
    <3>1. answers[c] \in Seq(Nat)
      BY <1>2 DEF TicketsTyped
    <3>2. Len(answers[c]) \in Nat /\ DOMAIN answers[c] = 1..Len(answers[c])
      BY <3>1
    <3>3. CASE mail[c][1].is = "number"
      BY <2>1, <2>2, <2>3, <3>1, <3>3, AppendElements
    <3>4. CASE mail[c][1].is # "number"
      BY <2>1, <2>2, <3>2, <3>4
    <3> QED BY <3>2, <3>3, <3>4
  <2>5. \A d \in Clients : \A k, n \in Nat : d # c =>
          (Got(d, k, n)' => Got(d, k, n)) /\ (OnItsWay(d, k, n)' => OnItsWay(d, k, n))
    BY <2>1 DEF Got, OnItsWay
  <2>6. \A k, n \in Nat : Got(c, k, n)' => Got(c, k, n) \/ (k = Len(answers[c]) + 1 /\ OnItsWay(c, 1, n))
    BY <2>2, <2>4 DEF Got, OnItsWay
  <2>7. \A k, n \in Nat : OnItsWay(c, k, n)' =>
          IF k < 1 THEN OnItsWay(c, k, n) ELSE OnItsWay(c, k + 1, n)
    BY <2>2 DEF OnItsWay
  <2>8. Len(answers[c]) + 1 \in Nat
    BY <2>4
  <2> QED BY <1>1, <2>1, <2>5, <2>6, <2>7, <2>8, NumberIsTaken
<1>8. CASE Tickets!Count
  <2>1. CASE OneCounts
    <3>1. PICK c \in Clients : c = Head(counting)
      <4>1. counting \in Seq(Clients) /\ counting # <<>>
        BY <1>2, <1>8 DEF Tickets!Count, TicketsTyped
      <4> QED BY <4>1
    <3>2. Tickets!Counter(c) = TheCounter /\ TheCounter \in Clients /\ U[TheCounter] \in Nat
      BY <1>2, <2>1, <3>1 DEF OneCounts, Tickets!Erlang, Tickets!Counter, TheCounter, TicketsTyped
    <3>3. /\ U'[TheCounter] = U[TheCounter] + 1
          /\ mail'[c] = Append(mail[c], Tickets!Number(U[TheCounter]))
          /\ \A d \in Clients : d # c => mail'[d] = mail[d]
          /\ answers' = answers
      BY <1>2, <1>8, <3>1, <3>2 DEF Tickets!Count, TicketsTyped
    <3>4. Tickets!Number(U[TheCounter]).n = U[TheCounter]
      BY DEF Tickets!Number
    <3>5. /\ Len(mail[c]) \in Nat /\ DOMAIN mail[c] = 1..Len(mail[c])
          /\ DOMAIN mail'[c] = 1..(Len(mail[c]) + 1)
          /\ \A k \in 1..Len(mail[c]) : mail'[c][k] = mail[c][k]
          /\ mail'[c][Len(mail[c]) + 1].n = U[TheCounter]
      <4>1. mail[c] \in Seq(Letters) /\ Tickets!Number(U[TheCounter]) \in Letters
        BY <1>2, <3>2 DEF TicketsTyped, Tickets!Number, Letters
      <4> QED BY <3>3, <3>4, <4>1, AppendElements
    <3>6. \A d \in Clients : \A k, n \in Nat :
            /\ Got(d, k, n)' =>
                 Got(d, k, n) \/ (FALSE /\ d = c /\ k = Len(mail[c]) + 1 /\ n = U[TheCounter])
            /\ OnItsWay(d, k, n)' =>
                 OnItsWay(d, k, n) \/ (~FALSE /\ d = c /\ k = Len(mail[c]) + 1 /\ n = U[TheCounter])
      <4>1. \A d \in Clients : \A k, n \in Nat : Got(d, k, n)' => Got(d, k, n)
        BY <3>3 DEF Got
      <4>2. \A k, n \in Nat : OnItsWay(c, k, n)' =>
              OnItsWay(c, k, n) \/ (k = Len(mail[c]) + 1 /\ n = U[TheCounter])
        BY <3>5 DEF OnItsWay
      <4>3. \A d \in Clients : \A k, n \in Nat : d # c => (OnItsWay(d, k, n)' => OnItsWay(d, k, n))
        BY <3>3 DEF OnItsWay
      <4> QED BY <4>1, <4>2, <4>3
    <3>7. Len(mail[c]) + 1 \in Nat
      BY <3>5
    <3> QED BY <1>1, <2>1, <3>2, <3>3, <3>6, <3>7, NumberIsGiven
  <2>2. CASE ~OneCounts
    BY <1>1, <2>2 DEF GivenOnce, OneCounts
  <2> QED BY <2>1, <2>2
<1>9. CASE UNCHANGED ticketVars
  BY <1>3, <1>9 DEF ticketVars
<1> QED BY <1>3, <1>4, <1>5, <1>6, <1>7, <1>8, <1>9
     DEF Tickets!NextS, Tickets!Request, Tickets!Leave, Tickets!Readline, Tickets!Format, Tickets!LoadU

LEMMA TicketNext == TicketInv /\ [Tickets!NextS]_ticketVars => TicketInv'
BY TicketTyping, OneAtATimeNext, ApartNext, GivenOnceNext DEF TicketInv

LEMMA NumbersOnce == TicketInv => NoNumberTwice
<1> SUFFICES ASSUME TicketInv, OneCounts, NEW x \in Tickets!Given, NEW y \in Tickets!Given,
                    answers[x[1]][x[2]] = answers[y[1]][y[2]]
             PROVE  x = y
  BY DEF NoNumberTwice, Tickets!NoNumberTwice, OneCounts
<1>1. /\ x \in Clients \X (1..MaxRequests) /\ x[2] \in DOMAIN answers[x[1]]
      /\ y \in Clients \X (1..MaxRequests) /\ y[2] \in DOMAIN answers[y[1]]
  BY DEF Tickets!Given
<1>2. x[1] \in Clients /\ y[1] \in Clients /\ answers \in [Clients -> Seq(Nat)]
  BY <1>1 DEF TicketInv, TicketsTyped
<1>3. /\ x[2] \in Nat /\ answers[x[1]][x[2]] \in Nat
      /\ y[2] \in Nat
  <2>1. answers[x[1]] \in Seq(Nat) /\ answers[y[1]] \in Seq(Nat)
    BY <1>2
  <2> QED BY <1>1, <2>1
<1>4. PICK n \in Nat : n = answers[x[1]][x[2]]
  BY <1>3
<1>5. Got(x[1], x[2], n) /\ Got(y[1], y[2], n)
  BY <1>1, <1>4 DEF Got
<1>6. OneCounts /\ x[1] = y[1] /\ x[2] = y[2]
  BY <1>2, <1>3, <1>5 DEF TicketInv, GivenOnce
<1> QED BY <1>1, <1>6

-----------------------------------------------------------------------------
(* The searches.                                                               *)

SearchLines == [search : Nat, node : Nodes, file : Nat]
Connections == Searches!Connections
Collects == searcher \in {"RESOLUCION2", "Resolucion3"}

\* What a node has sent, or will send, on a connection and nobody has read.
Unread(c) == ToSet(due[c]) \cup ToSet(coming[c])
HowMany(c) == Len(due[c]) + Len(coming[c])

SearchTyped ==
  /\ searcher \in Searches!Projects /\ punctual \in BOOLEAN
  /\ matches \in [Nodes -> Nat]
  /\ search \in Nat /\ search <= MaxSearches
  /\ command \in {"prompt", "searching"}
  /\ conn \in [Connections -> {"none", "reading", "done"}]
  /\ due \in [Connections -> Seq(SearchLines)] /\ coming \in [Connections -> Seq(SearchLines)]
  /\ results \subseteq SearchLines /\ printed \subseteq Nat \X SearchLines

IsMatch(l) == l.search \in 1..search /\ l.file \in 1..matches[l.node]

\* A line is an answer to the search of its connection, or says that there is
\* none and is alone.
OnlyAnswers == \A c \in Connections :
  /\ \A l \in Unread(c) :
       /\ l.search = c[1] /\ l.node = c[2]
       /\ \/ l.file \in 1..matches[c[2]]
          \/ searcher = "Resolucion3" /\ matches[c[2]] = 0 /\ l.file = 0
  /\ matches[c[2]] = 0 => HowMany(c) <= 1

\* Whose connections are read only during their search.
InTurn == searcher = "RESOLUCION2" \/ (searcher = "MARIO" /\ punctual)
AskedInTurn == \A c \in Connections :
  /\ conn[c] = "none" => Unread(c) = {}
  /\ c[1] > search => conn[c] = "none"
  /\ InTurn /\ conn[c] = "reading" => c[1] = search /\ command = "searching"

\* Nothing is lost before the results are printed, and where no answer is late
\* nothing is left behind.
NothingLost == Collects /\ command = "searching" =>
  \A c \in Connections : \A k \in Nat :
    c[1] = search /\ conn[c] # "none" /\ k \in 1..matches[c[2]]
      => Searches!Line(c, k) \in Unread(c) \cup results
NothingLate == Collects /\ punctual => \A c \in Connections :
  /\ conn[c] = "done" => Unread(c) = {}
  /\ c[1] < search \/ command = "prompt" => Unread(c) = {}

\* MARIO reads a packet that begins with the first file of the node.
FirstLine == searcher = "MARIO" => \A c \in Connections : conn[c] = "reading" =>
  IF coming[c] = <<>> THEN due[c] = Searches!Found(c) ELSE Head(coming[c]).file = 1

ResultsAreMatches ==
  /\ \A l \in results : /\ IsMatch(l) /\ Collects
                        /\ searcher = "RESOLUCION2" \/ punctual => l.search = search
  /\ command = "prompt" /\ (searcher = "RESOLUCION2" \/ punctual) => results = {}
PrintedAreMatches == \A q \in printed :
  /\ IsMatch(q[2]) /\ q[2].search <= q[1] /\ q[1] <= search
  /\ searcher = "RESOLUCION2" => q[2].search = q[1]
  /\ searcher \in {"Resolucion3", "MARIO"} /\ punctual => q[2].search = q[1]
  /\ searcher = "MARIO" => q[2].file = 1

IsOver(s) == s < search \/ command = "prompt"
AllIsPrinted == Collects /\ punctual => \A c \in Connections : \A k \in Nat :
  c[1] <= search /\ IsOver(c[1]) /\ k \in 1..matches[c[2]] => <<c[1], Searches!Line(c, k)>> \in printed
FirstIsPrinted == searcher = "MARIO" /\ punctual => \A c \in Connections :
  /\ conn[c] = "done" => matches[c[2]] = 0 \/ <<c[1], Searches!Line(c, 1)>> \in printed
  /\ c[1] <= search /\ IsOver(c[1]) => conn[c] = "done"

SearchInv ==
  /\ SearchTyped /\ OnlyAnswers /\ AskedInTurn /\ NothingLost /\ NothingLate /\ FirstLine
  /\ ResultsAreMatches /\ PrintedAreMatches /\ AllIsPrinted /\ FirstIsPrinted

LEMMA SameElements == \A x : Searches!ToSet(x) = ToSet(x)
BY DEF ToSet, Searches!ToSet

LEMMA NothingUnread ==
  ASSUME SearchTyped, NEW c \in Connections
  PROVE  Unread(c) = {} <=> due[c] = <<>> /\ coming[c] = <<>>
<1>1. due[c] \in Seq(SearchLines) /\ coming[c] \in Seq(SearchLines)
  BY DEF SearchTyped
<1>2. \A s \in Seq(SearchLines) : ToSet(s) = {} <=> s = <<>>
  BY ToSetOfEmpty, ToSetOfTail
<1> QED BY <1>1, <1>2 DEF Unread

LEMMA AConnection ==
  ASSUME NEW c \in Connections
  PROVE  /\ c[1] \in Nat \ {0} /\ c[1] <= MaxSearches /\ c[2] \in Nodes
         /\ \A k \in Nat : /\ Searches!Line(c, k) \in SearchLines
                           /\ Searches!Line(c, k).search = c[1] /\ Searches!Line(c, k).node = c[2]
                           /\ Searches!Line(c, k).file = k
         /\ \A l \in SearchLines : l.search = c[1] /\ l.node = c[2] => l = Searches!Line(c, l.file)
BY BoundAssumption DEF Connections, Searches!Connections, Searches!Line, SearchLines

\* The answer of a node.
LEMMA TheAnswer ==
  ASSUME SearchTyped, NEW c \in Connections
  PROVE  /\ Searches!Found(c) \in Seq(SearchLines)
         /\ \A l \in ToSet(Searches!Found(c)) :
              /\ l.search = c[1] /\ l.node = c[2]
              /\ \/ l.file \in 1..matches[c[2]]
                 \/ searcher = "Resolucion3" /\ matches[c[2]] = 0 /\ l.file = 0
         /\ \A k \in 1..matches[c[2]] : Searches!Line(c, k) \in ToSet(Searches!Found(c))
         /\ matches[c[2]] = 0 => Len(Searches!Found(c)) <= 1
         /\ searcher # "Resolucion3" /\ Searches!Found(c) # <<>>
              => Head(Searches!Found(c)).file = 1
<1> DEFINE m == matches[c[2]]
           f == [k \in 1..m |-> Searches!Line(c, k)]
<1>1. m \in Nat /\ \A k \in Nat : /\ Searches!Line(c, k) \in SearchLines
                                  /\ Searches!Line(c, k).search = c[1] /\ Searches!Line(c, k).node = c[2]
                                  /\ Searches!Line(c, k).file = k
  BY AConnection DEF SearchTyped
<1> HIDE DEF m
<1>2. CASE m = 0 /\ searcher = "Resolucion3"
  <2>1. Searches!Found(c) = <<Searches!Line(c, 0)>>
    BY <1>2 DEF Searches!Found, Searches!NotFoundLine, m
  <2>2. /\ Searches!Found(c) \in Seq(SearchLines) /\ Len(Searches!Found(c)) = 1
        /\ ToSet(Searches!Found(c)) = {Searches!Line(c, 0)}
    BY <1>1, <2>1 DEF ToSet
  <2> QED BY <1>1, <1>2, <2>2 DEF m
<1>3. CASE ~(m = 0 /\ searcher = "Resolucion3")
  <2>1. Searches!Found(c) = f
    BY <1>3 DEF Searches!Found, m
  <2>2. f \in Seq(SearchLines) /\ Len(f) = m /\ DOMAIN f = 1..m
    BY <1>1
  <2>3. ToSet(f) = {Searches!Line(c, k) : k \in 1..m}
    BY <2>2 DEF ToSet
  <2>4. m = 0 => f = <<>>
    BY <2>2, EmptySeq
  <2>5. f # <<>> => Head(f) = Searches!Line(c, 1)
    BY <1>1, <2>2, <2>4
  <2> HIDE DEF f
  <2>6. \A l \in ToSet(f) : l.search = c[1] /\ l.node = c[2] /\ l.file \in 1..m
    BY <1>1, <2>3
  <2>7. f # <<>> => Head(f).file = 1
    BY <1>1, <2>5
  <2> QED BY <1>1, <2>1, <2>2, <2>3, <2>6, <2>7 DEF m
<1> QED BY <1>2, <1>3

LEMMA SearchInit == Searches!InitF => SearchInv
<1> SUFFICES ASSUME Searches!InitF PROVE SearchInv
  OBVIOUS
<1>1. SearchTyped
  <2>1. MaxSearches \in Nat /\ MaxMatches \in Nat
    BY BoundAssumption
  <2>2. matches \in [Nodes -> 0..MaxMatches] /\ searcher \in Searches!Projects /\ punctual \in BOOLEAN
    BY DEF Searches!InitF
  <2>3. matches \in [Nodes -> Nat]
    BY <2>1, <2>2
  <2>4. /\ search = 0 /\ command = "prompt" /\ results = {} /\ printed = {}
        /\ conn = [c \in Connections |-> "none"]
        /\ due = [c \in Connections |-> <<>>] /\ coming = [c \in Connections |-> <<>>]
    BY DEF Searches!InitF, Connections
  <2> QED BY <2>1, <2>2, <2>3, <2>4 DEF SearchTyped
<1>2. /\ \A c \in Connections : conn[c] = "none" /\ due[c] = <<>> /\ coming[c] = <<>>
      /\ search = 0 /\ command = "prompt" /\ results = {} /\ printed = {}
  BY DEF Searches!InitF, Connections
<1>3. \A c \in Connections : Unread(c) = {} /\ c[1] \in Nat \ {0}
  <2> SUFFICES ASSUME NEW c \in Connections
               PROVE Unread(c) = {} /\ c[1] \in Nat \ {0}
    OBVIOUS
  <2>1. Unread(c) = {}
    BY <1>1, <1>2, NothingUnread
  <2> QED BY <2>1, AConnection
<1>4. OnlyAnswers /\ AskedInTurn /\ NothingLost /\ NothingLate /\ FirstLine
  <2>1. ASSUME NEW c \in Connections
        PROVE  Unread(c) = {} /\ HowMany(c) <= 1
    <3>1. HowMany(c) = Len(<<>>) + Len(<<>>)
      BY <1>2 DEF HowMany
    <3> QED BY <1>3, <3>1
  <2>2. OnlyAnswers
    BY <2>1 DEF OnlyAnswers
  <2> QED BY <2>2, <1>2, <1>3 DEF OnlyAnswers, AskedInTurn, NothingLost, NothingLate, FirstLine
<1>5. ResultsAreMatches /\ PrintedAreMatches /\ AllIsPrinted /\ FirstIsPrinted
  <2>1. ASSUME NEW c \in Connections PROVE ~(c[1] <= search)
    <3>1. c[1] \in Nat /\ c[1] # 0 /\ search = 0
      BY <1>2, AConnection
    <3> QED BY ONLY <3>1
  <2> QED BY <2>1, <1>2 DEF ResultsAreMatches, PrintedAreMatches, AllIsPrinted, FirstIsPrinted
<1> QED BY <1>1, <1>4, <1>5 DEF SearchInv

LEMMA SearchTyping == SearchTyped /\ [Searches!NextF]_searchVars => SearchTyped'
<1> SUFFICES ASSUME SearchTyped, [Searches!NextF]_searchVars PROVE SearchTyped'
  OBVIOUS
<1> USE DEF SearchTyped, Searches!Shows
<1>0. \A c \in Connections : /\ due[c] \in Seq(SearchLines) /\ coming[c] \in Seq(SearchLines)
                             /\ Searches!Found(c) \in Seq(SearchLines)
  BY TheAnswer
<1>1. ASSUME NEW cs, Searches!Connects(cs)
      PROVE  /\ conn' \in [Connections -> {"none", "reading", "done"}]
             /\ due' \in [Connections -> Seq(SearchLines)]
  BY <1>0, <1>1 DEF Searches!Connects, Connections
<1>2. CASE Searches!Buscar
  BY <1>1, <1>2, BoundAssumption DEF Searches!Buscar
<1>3. CASE Searches!Prompt
  <2>1. {<<search, l>> : l \in results} \subseteq Nat \X SearchLines
    OBVIOUS
  <2> QED BY <1>3, <2>1 DEF Searches!Prompt
<1>4. ASSUME NEW c \in Connections, Searches!AskNext(c) PROVE SearchTyped'
  BY <1>1, <1>4 DEF Searches!AskNext
<1>5. ASSUME NEW c \in Connections, Searches!SendLine(c) PROVE SearchTyped'
  <2>1. Tail(due[c]) \in Seq(SearchLines) /\ Append(coming[c], Head(due[c])) \in Seq(SearchLines)
    BY <1>0, <1>5 DEF Searches!SendLine
  <2> QED BY <1>5, <2>1 DEF Searches!SendLine
<1>6. ASSUME NEW c \in Connections, Searches!GiveUp(c) PROVE SearchTyped'
  BY <1>6 DEF Searches!GiveUp
<1>7. ASSUME NEW c \in Connections, coming[c] # <<>>
      PROVE  Tail(coming[c]) \in Seq(SearchLines) /\ Head(coming[c]) \in SearchLines
  BY <1>0, <1>7
<1>8. ASSUME NEW c \in Connections, Searches!Collect(c) PROVE SearchTyped'
  BY <1>7, <1>8 DEF Searches!Collect
<1>9. ASSUME NEW c \in Connections, Searches!LoopRecv(c) PROVE SearchTyped'
  <2>1. Searches!ToSet(coming[c]) \subseteq SearchLines /\ <<>> \in Seq(SearchLines)
    BY <1>0, SameElements, ToSetTyped
  <2> QED BY <1>9, <2>1 DEF Searches!LoopRecv
<1>10. ASSUME NEW c \in Connections, Searches!RecvOnce(c) PROVE SearchTyped'
  <2>1. {<<search, l>> : l \in {Head(coming[c])}} \subseteq Nat \X SearchLines /\ <<>> \in Seq(SearchLines)
    BY <1>7, <1>10 DEF Searches!RecvOnce
  <2> QED BY <1>10, <2>1 DEF Searches!RecvOnce
<1>11. ASSUME NEW c \in Connections, Searches!ReceiveTCP(c) PROVE SearchTyped'
  <2>1. {<<search, l>> : l \in {Head(coming[c])}} \subseteq Nat \X SearchLines
    BY <1>7, <1>11 DEF Searches!ReceiveTCP
  <2> QED BY <1>7, <1>11, <2>1 DEF Searches!ReceiveTCP
<1>12. CASE UNCHANGED searchVars
  BY <1>12 DEF searchVars
<1> QED BY <1>2, <1>3, <1>4, <1>5, <1>6, <1>8, <1>9, <1>10, <1>11, <1>12 DEF Searches!NextF, Connections

LEMMA HowManyTyped == ASSUME SearchTyped, NEW c \in Connections PROVE HowMany(c) \in Nat
<1>1. \A n \in Seq(SearchLines), m \in Seq(SearchLines) : Len(n) + Len(m) \in Nat
  OBVIOUS
<1> QED BY <1>1 DEF SearchTyped, HowMany

LEMMA HowManyTypedNext == ASSUME SearchTyped', NEW c \in Connections PROVE HowMany(c)' \in Nat
<1>1. \A n \in Seq(SearchLines), m \in Seq(SearchLines) : Len(n) + Len(m) \in Nat
  OBVIOUS
<1> QED BY <1>1 DEF SearchTyped, HowMany

\* A step on one connection, which reads what has come or closes it.
LEMMA StepOfOne ==
  ASSUME SearchInv, SearchTyped', NEW c \in Connections,
         UNCHANGED <<searcher, punctual, matches, search, command>>,
         \A d \in Connections : d # c => conn'[d] = conn[d] /\ due'[d] = due[d] /\ coming'[d] = coming[d],
         Unread(c)' \subseteq Unread(c),
         HowMany(c)' <= HowMany(c),
         conn'[c] = conn[c] \/ (conn[c] = "reading" /\ conn'[c] = "done"),
         Collects /\ punctual /\ conn'[c] # conn[c] => Unread(c)' = {}
  PROVE  OnlyAnswers' /\ AskedInTurn' /\ NothingLate'
<1>1. \A d \in Connections : d # c => Unread(d)' = Unread(d)
  BY DEF Unread
<1>2. OnlyAnswers /\ AskedInTurn /\ NothingLate
  BY DEF SearchInv
<1>3. HowMany(c) \in Nat /\ HowMany(c)' \in Nat
  BY HowManyTyped, HowManyTypedNext DEF SearchInv
<1>4. OnlyAnswers'
  <2> SUFFICES ASSUME NEW d \in Connections
               PROVE /\ \A l \in Unread(d)' :
                          /\ l.search = d[1] /\ l.node = d[2]
                          /\ \/ l.file \in 1..matches[d[2]]
                             \/ searcher = "Resolucion3" /\ matches[d[2]] = 0 /\ l.file = 0
                     /\ matches[d[2]] = 0 => HowMany(d)' <= 1
    BY DEF OnlyAnswers
  <2>1. CASE d # c
    <3>1. HowMany(d)' = HowMany(d)
      BY <2>1 DEF HowMany
    <3> QED BY <1>1, <1>2, <2>1, <3>1 DEF OnlyAnswers
  <2>2. CASE d = c
    <3>1. matches[c[2]] = 0 => HowMany(c) <= 1
      BY <1>2 DEF OnlyAnswers
    <3>2. matches[c[2]] = 0 => HowMany(c)' <= 1
      BY <1>3, <3>1
    <3> QED BY <1>2, <2>2, <3>2 DEF OnlyAnswers
  <2> QED BY <2>1, <2>2
<1>5. AskedInTurn'
  BY <1>1, <1>2 DEF AskedInTurn, InTurn
<1>6. NothingLate'
  BY <1>1, <1>2 DEF NothingLate, Collects
<1> QED BY <1>4, <1>5, <1>6

LEMMA ThatLosesNothing ==
  ASSUME SearchInv, SearchTyped', NEW c \in Connections,
         UNCHANGED <<searcher, punctual, matches, search, command>>,
         \A d \in Connections : d # c => conn'[d] = conn[d] /\ due'[d] = due[d] /\ coming'[d] = coming[d],
         conn[c] = "none" => conn'[c] = "none",
         results \subseteq results',
         Collects => \A l \in Unread(c) : l.file # 0 => l \in Unread(c)' \cup results'
  PROVE  NothingLost'
<1>1. \A d \in Connections : d # c => Unread(d)' = Unread(d)
  BY DEF Unread
<1> SUFFICES ASSUME Collects, command = "searching", NEW d \in Connections, NEW k \in Nat,
                    d[1] = search, conn'[d] # "none", k \in 1..matches[d[2]]
             PROVE  Searches!Line(d, k) \in Unread(d)' \cup results'
  BY DEF NothingLost, Collects
<1>2. Searches!Line(d, k) \in Unread(d) \cup results
  BY DEF SearchInv, NothingLost
<1>3. Searches!Line(d, k).file # 0
  <2>1. k # 0 /\ Searches!Line(d, k).file = k
    BY AConnection DEF SearchInv, SearchTyped
  <2> QED BY <2>1
<1> QED BY <1>1, <1>2, <1>3

LEMMA SearchSend ==
  ASSUME SearchInv, SearchTyped', NEW c \in Connections, Searches!SendLine(c) PROVE SearchInv'
<1>1. /\ due[c] \in Seq(SearchLines) /\ due[c] # <<>> /\ coming[c] \in Seq(SearchLines)
      /\ due'[c] = Tail(due[c]) /\ coming'[c] = Append(coming[c], Head(due[c]))
      /\ \A d \in Connections : d # c => conn'[d] = conn[d] /\ due'[d] = due[d] /\ coming'[d] = coming[d]
      /\ UNCHANGED <<searcher, punctual, matches, search, command, conn, results, printed>>
  BY DEF Searches!SendLine, SearchInv, SearchTyped
<1>2. /\ Head(due[c]) \in SearchLines /\ Tail(due[c]) \in Seq(SearchLines)
      /\ ToSet(coming'[c]) = ToSet(coming[c]) \cup {Head(due[c])}
      /\ ToSet(due[c]) = ToSet(due'[c]) \cup {Head(due[c])}
  BY <1>1, ToSetOfTail, ToSetOfAppend
<1>3. Unread(c)' = Unread(c)
  BY <1>2 DEF Unread
<1>4. HowMany(c)' <= HowMany(c)
  <2> DEFINE m == Len(due[c])  n == Len(coming[c])  m1 == Len(due'[c])  n1 == Len(coming'[c])
  <2>1. m \in Nat /\ n \in Nat /\ m1 = m - 1 /\ n1 = n + 1
    BY <1>1, <1>2, TailElements, AppendElements
  <2> HIDE DEF m, n, m1, n1
  <2>2. m1 + n1 <= m + n
    BY <2>1
  <2> QED BY <2>2 DEF HowMany, m, n, m1, n1
<1>5. OnlyAnswers' /\ AskedInTurn' /\ NothingLate'
  BY <1>1, <1>3, <1>4, StepOfOne
<1>6. NothingLost'
  BY <1>1, <1>3, ThatLosesNothing
<1>7. FirstLine'
  <2> SUFFICES ASSUME searcher = "MARIO", conn[c] = "reading"
               PROVE coming'[c] # <<>> /\ Head(coming'[c]).file = 1
    BY <1>1 DEF SearchInv, FirstLine, Searches!Found, Searches!Line, Searches!NotFoundLine
  <2>1. CASE coming[c] = <<>>
    <3>1. due[c] = Searches!Found(c)
      BY <2>1 DEF SearchInv, FirstLine
    <3>2. Head(due[c]).file = 1
      BY <1>1, <3>1, TheAnswer DEF SearchInv
    <3>3. coming'[c] = <<Head(due[c])>>
      BY <1>1, <1>2, <2>1
    <3> QED BY <3>2, <3>3
  <2>2. CASE coming[c] # <<>>
    <3>1. coming'[c] # <<>> /\ Head(coming'[c]) = Head(coming[c])
      BY <1>1, <1>2, <2>2
    <3> QED BY <2>2, <3>1 DEF SearchInv, FirstLine
  <2> QED BY <2>1, <2>2
<1>8. ResultsAreMatches' /\ PrintedAreMatches'
  BY <1>1 DEF SearchInv, ResultsAreMatches, PrintedAreMatches, IsMatch, Collects
<1>9. AllIsPrinted' /\ FirstIsPrinted'
  BY <1>1 DEF SearchInv, AllIsPrinted, FirstIsPrinted, IsOver, Collects, Searches!Line
<1> QED BY <1>5, <1>6, <1>7, <1>8, <1>9 DEF SearchInv

LEMMA SearchGiveUp ==
  ASSUME SearchInv, SearchTyped', NEW c \in Connections, Searches!GiveUp(c) PROVE SearchInv'
<1>1. /\ conn[c] = "reading" /\ conn'[c] = "done" /\ coming[c] = <<>> /\ (punctual => due[c] = <<>>)
      /\ \A d \in Connections : d # c => conn'[d] = conn[d]
      /\ UNCHANGED <<searcher, punctual, matches, search, command, due, coming, results, printed>>
  BY DEF Searches!GiveUp, Searches!Silent, SearchInv, SearchTyped
<1>2. Unread(c)' = Unread(c) /\ (punctual => Unread(c) = {})
  <2>1. Unread(c)' = Unread(c)
    BY <1>1 DEF Unread
  <2> QED BY <1>1, <2>1, NothingUnread DEF SearchInv
<1>3. HowMany(c)' <= HowMany(c)
  <2>1. HowMany(c)' = HowMany(c)
    BY <1>1 DEF HowMany
  <2> QED BY <2>1, HowManyTyped DEF SearchInv
<1>4. OnlyAnswers' /\ AskedInTurn' /\ NothingLate'
  BY <1>1, <1>2, <1>3, StepOfOne
<1>5. NothingLost'
  BY <1>1, <1>2, ThatLosesNothing
<1>6. FirstLine'
  BY <1>1 DEF SearchInv, FirstLine, Searches!Found, Searches!Line, Searches!NotFoundLine
<1>7. ResultsAreMatches' /\ PrintedAreMatches' /\ AllIsPrinted'
  BY <1>1 DEF SearchInv, ResultsAreMatches, PrintedAreMatches, AllIsPrinted, IsMatch, IsOver, Collects, Searches!Line
<1>8. FirstIsPrinted'
  <2> SUFFICES ASSUME searcher = "MARIO", punctual PROVE matches[c[2]] = 0
    BY <1>1 DEF SearchInv, FirstIsPrinted, IsOver, Searches!Line
  <2>1. Searches!Found(c) = <<>>
    BY <1>1 DEF SearchInv, FirstLine
  <2>2. \A k \in 1..matches[c[2]] : Searches!Line(c, k) \in {}
    BY <2>1, TheAnswer, ToSetOfEmpty DEF SearchInv
  <2> QED BY <2>2, AConnection DEF SearchInv, SearchTyped
<1> QED BY <1>4, <1>5, <1>6, <1>7, <1>8 DEF SearchInv

\* A line that has not been read is of a search that has been asked for.
LEMMA WhatIsRead ==
  ASSUME SearchInv, NEW c \in Connections, NEW l \in Unread(c)
  PROVE  /\ l \in SearchLines /\ l.search = c[1] /\ l.node = c[2] /\ c[1] <= search
         /\ l.file # 0 => IsMatch(l)
         /\ searcher # "Resolucion3" => l.file # 0
         /\ l.file = 0 => matches[c[2]] = 0
         /\ Collects /\ punctual => c[1] = search /\ command = "searching"
<1>1. l \in SearchLines
  <2>1. due[c] \in Seq(SearchLines) /\ coming[c] \in Seq(SearchLines)
    BY DEF SearchInv, SearchTyped
  <2> QED BY <2>1, ToSetTyped DEF Unread
<1>2. /\ l.search = c[1] /\ l.node = c[2]
      /\ \/ l.file \in 1..matches[c[2]]
         \/ searcher = "Resolucion3" /\ matches[c[2]] = 0 /\ l.file = 0
  BY DEF SearchInv, OnlyAnswers
<1>3. c[1] \in Nat \ {0} /\ search \in Nat /\ matches[c[2]] \in Nat
  BY AConnection DEF SearchInv, SearchTyped
<1>4. c[1] <= search
  BY <1>3 DEF SearchInv, AskedInTurn
<1>5. /\ searcher # "Resolucion3" => l.file # 0
      /\ l.file = 0 => matches[c[2]] = 0
      /\ l.file # 0 => IsMatch(l)
  BY <1>2, <1>3, <1>4 DEF IsMatch
<1>6. Collects /\ punctual => c[1] = search /\ command = "searching"
  <2> SUFFICES ASSUME Collects, punctual PROVE c[1] = search /\ command = "searching"
    OBVIOUS
  <2>1. ~(c[1] < search) /\ command # "prompt"
    BY DEF SearchInv, NothingLate
  <2>2. command = "searching"
    BY <2>1 DEF SearchInv, SearchTyped
  <2> QED BY <1>3, <1>4, <2>1, <2>2
<1> QED BY <1>1, <1>2, <1>4, <1>5, <1>6

\* Reading the first line of what has come ...
LEMMA HeadIsRead ==
  ASSUME SearchInv, NEW c \in Connections, coming[c] # <<>>, coming'[c] = Tail(coming[c]), due'[c] = due[c]
  PROVE  /\ Head(coming[c]) \in Unread(c)
         /\ Unread(c)' \subseteq Unread(c) /\ Unread(c) \subseteq Unread(c)' \cup {Head(coming[c])}
         /\ HowMany(c)' <= HowMany(c)
<1>1. due[c] \in Seq(SearchLines) /\ coming[c] \in Seq(SearchLines)
  BY DEF SearchInv, SearchTyped
<1>2. /\ Head(coming[c]) \in ToSet(coming[c])
      /\ ToSet(coming'[c]) \subseteq ToSet(coming[c])
      /\ ToSet(coming[c]) \subseteq ToSet(coming'[c]) \cup {Head(coming[c])}
  BY <1>1, ToSetOfTail
<1>3. HowMany(c)' <= HowMany(c)
  <2> DEFINE m == Len(due[c])  n == Len(coming[c])  m1 == Len(due'[c])  n1 == Len(coming'[c])
  <2>1. m \in Nat /\ n \in Nat /\ m1 = m /\ n1 = n - 1
    BY <1>1, TailElements
  <2> HIDE DEF m, n, m1, n1
  <2>2. m1 + n1 <= m + n
    BY <2>1
  <2> QED BY <2>2 DEF HowMany, m, n, m1, n1
<1> QED BY <1>2, <1>3 DEF Unread

\* ... and all of it.
LEMMA AllIsRead ==
  ASSUME SearchInv, NEW c \in Connections, coming'[c] = <<>>, due'[c] = due[c]
  PROVE  /\ Unread(c) = Unread(c)' \cup ToSet(coming[c])
         /\ Unread(c)' = ToSet(due[c])
         /\ HowMany(c)' <= HowMany(c)
<1>1. due[c] \in Seq(SearchLines) /\ coming[c] \in Seq(SearchLines)
  BY DEF SearchInv, SearchTyped
<1>2. HowMany(c)' <= HowMany(c)
  <2> DEFINE m == Len(due[c])  n == Len(coming[c])  m1 == Len(due'[c])  n1 == Len(coming'[c])
  <2>1. m \in Nat /\ n \in Nat /\ m1 = m /\ n1 = 0
    BY <1>1
  <2> HIDE DEF m, n, m1, n1
  <2>2. m1 + n1 <= m + n
    BY <2>1
  <2> QED BY <2>2 DEF HowMany, m, n, m1, n1
<1> QED BY <1>2, ToSetOfEmpty DEF Unread

LEMMA SearchCollect ==
  ASSUME SearchInv, SearchTyped', NEW c \in Connections, Searches!Collect(c) PROVE SearchInv'
<1> DEFINE l == Head(coming[c])
<1>1. /\ searcher = "RESOLUCION2" /\ conn[c] = "reading" /\ coming[c] # <<>>
      /\ coming'[c] = Tail(coming[c]) /\ results' = results \cup {l}
      /\ \A d \in Connections : d # c => conn'[d] = conn[d] /\ due'[d] = due[d] /\ coming'[d] = coming[d]
      /\ UNCHANGED <<searcher, punctual, matches, search, command, conn, due, printed>>
  BY DEF Searches!Collect, SearchInv, SearchTyped
<1>2. /\ l \in Unread(c)
      /\ Unread(c)' \subseteq Unread(c) /\ Unread(c) \subseteq Unread(c)' \cup {l}
      /\ HowMany(c)' <= HowMany(c)
  BY <1>1, HeadIsRead
<1>3. IsMatch(l) /\ l.search = c[1] /\ c[1] = search /\ command = "searching"
  BY <1>1, <1>2, WhatIsRead DEF SearchInv, AskedInTurn, InTurn
<1> HIDE DEF l
<1>4. OnlyAnswers' /\ AskedInTurn' /\ NothingLate'
  BY <1>1, <1>2, StepOfOne
<1>5. NothingLost'
  BY <1>1, <1>2, ThatLosesNothing
<1>6. ResultsAreMatches'
  BY <1>1, <1>3 DEF SearchInv, ResultsAreMatches, IsMatch, Collects
<1>7. FirstLine' /\ PrintedAreMatches' /\ AllIsPrinted' /\ FirstIsPrinted'
  BY <1>1 DEF SearchInv, FirstLine, PrintedAreMatches, AllIsPrinted, FirstIsPrinted, IsMatch, IsOver,
       Collects, Searches!Line
<1> QED BY <1>4, <1>5, <1>6, <1>7 DEF SearchInv

LEMMA SearchLoopRecv ==
  ASSUME SearchInv, SearchTyped', NEW c \in Connections, Searches!LoopRecv(c) PROVE SearchInv'
<1> DEFINE nf == Searches!NotFoundLine(c)
<1>1. /\ searcher = "Resolucion3" /\ conn[c] = "reading" /\ coming[c] # <<>> /\ coming'[c] = <<>>
      /\ \A d \in Connections : d # c => conn'[d] = conn[d] /\ due'[d] = due[d] /\ coming'[d] = coming[d]
      /\ IF coming[c] = <<nf>> THEN conn'[c] = "done" /\ results' = results
         ELSE results' = results \cup ToSet(coming[c]) /\ conn'[c] = "reading"
      /\ UNCHANGED <<searcher, punctual, matches, search, command, due, printed>>
  BY SameElements DEF Searches!LoopRecv, SearchInv, SearchTyped
<1>2. /\ Unread(c) = Unread(c)' \cup ToSet(coming[c])
      /\ Unread(c)' = ToSet(due[c]) /\ HowMany(c)' <= HowMany(c)
  BY <1>1, AllIsRead
<1>3. /\ nf.file = 0 /\ \A l \in Unread(c) : l.file = 0 => l = nf
  BY WhatIsRead, AConnection DEF Searches!NotFoundLine
<1>4. ASSUME NEW l \in ToSet(coming[c]), l.file = 0
      PROVE  due[c] = <<>> /\ coming[c] = <<nf>>
  <2>1. due[c] \in Seq(SearchLines) /\ coming[c] \in Seq(SearchLines)
    BY DEF SearchInv, SearchTyped
  <2>2. HowMany(c) <= 1
    BY <1>2, <1>4, WhatIsRead DEF SearchInv, OnlyAnswers
  <2>3. Len(due[c]) = 0 /\ Len(coming[c]) = 1
    <3> DEFINE m == Len(due[c])  n == Len(coming[c])
    <3>1. m \in Nat /\ n \in Nat \ {0}
      BY <1>1, <2>1, TailElements
    <3>3. m + n <= 1
      BY <2>2 DEF HowMany
    <3> HIDE DEF m, n
    <3>2. m = 0 /\ n = 1
      BY <3>1, <3>3
    <3> QED BY <3>2 DEF m, n
  <2>4. coming[c] = <<coming[c][1]>> /\ coming[c][1] \in ToSet(coming[c]) /\ ToSet(coming[c]) = {coming[c][1]}
    BY <2>1, <2>3 DEF ToSet
  <2>5. l = nf
    BY <1>2, <1>3, <1>4
  <2> QED BY <2>1, <2>3, <2>4, <2>5, EmptySeq
<1>5. coming[c] = <<nf>> => Unread(c)' = {} /\ ToSet(coming[c]) = {nf}
  <2> SUFFICES ASSUME coming[c] = <<nf>> PROVE Unread(c)' = {} /\ ToSet(coming[c]) = {nf}
    OBVIOUS
  <2>1. ToSet(coming[c]) = {nf}
    BY DEF ToSet
  <2> QED BY <1>2, <1>3, <1>4, <2>1, ToSetOfEmpty
<1> HIDE DEF nf
<1>6. OnlyAnswers' /\ AskedInTurn' /\ NothingLate'
  BY <1>1, <1>2, <1>5, StepOfOne
<1>7. NothingLost'
  <2>1. \A l \in Unread(c) : l.file # 0 => l \in Unread(c)' \cup results'
    BY <1>1, <1>2, <1>3, <1>5
  <2> QED BY <1>1, <2>1, ThatLosesNothing
<1>8. ResultsAreMatches'
  <2>1. \A l \in results' \ results : l \in Unread(c) /\ l.file # 0
    BY <1>1, <1>2, <1>4
  <2>2. \A l \in results' \ results : IsMatch(l) /\ (punctual => l.search = search /\ command = "searching")
    BY <1>1, <2>1, WhatIsRead DEF Collects
  <2> QED BY <1>1, <2>2 DEF SearchInv, ResultsAreMatches, IsMatch, Collects
<1>9. FirstLine' /\ PrintedAreMatches' /\ AllIsPrinted' /\ FirstIsPrinted'
  BY <1>1 DEF SearchInv, FirstLine, PrintedAreMatches, AllIsPrinted, FirstIsPrinted, IsMatch, IsOver,
       Collects, Searches!Line
<1> QED BY <1>6, <1>7, <1>8, <1>9 DEF SearchInv

LEMMA SearchRecvOnce ==
  ASSUME SearchInv, SearchTyped', NEW c \in Connections, Searches!RecvOnce(c) PROVE SearchInv'
<1> DEFINE l == Head(coming[c])
<1>1. /\ searcher = "MARIO" /\ conn[c] = "reading" /\ coming[c] # <<>> /\ coming'[c] = <<>>
      /\ printed' = printed \cup {<<search, l>>} /\ conn'[c] = "done"
      /\ \A d \in Connections : d # c => conn'[d] = conn[d] /\ due'[d] = due[d] /\ coming'[d] = coming[d]
      /\ UNCHANGED <<searcher, punctual, matches, search, command, due, results>>
  BY DEF Searches!RecvOnce, Searches!Shows, SearchInv, SearchTyped
<1>2. /\ Unread(c) = Unread(c)' \cup ToSet(coming[c]) /\ HowMany(c)' <= HowMany(c)
  BY <1>1, AllIsRead
<1>3. l \in Unread(c) /\ l.file = 1
  <2>1. coming[c] \in Seq(SearchLines)
    BY DEF SearchInv, SearchTyped
  <2> QED BY <1>1, <1>2, <2>1, ToSetOfTail DEF SearchInv, FirstLine
<1>4. /\ IsMatch(l) /\ l = Searches!Line(c, 1) /\ l.search = c[1] /\ c[1] <= search
      /\ punctual => c[1] = search
  <2>1. IsMatch(l) /\ l \in SearchLines /\ l.search = c[1] /\ l.node = c[2] /\ c[1] <= search
    BY <1>1, <1>3, WhatIsRead
  <2>2. l = Searches!Line(c, 1)
    BY <1>3, <2>1, AConnection
  <2> QED BY <1>1, <2>1, <2>2 DEF SearchInv, AskedInTurn, InTurn
<1> HIDE DEF l
<1>5. ~Collects
  BY <1>1 DEF Collects
<1>6. OnlyAnswers' /\ AskedInTurn' /\ NothingLate'
  BY <1>1, <1>2, <1>5, StepOfOne
<1>7. FirstLine'
  BY <1>1 DEF SearchInv, FirstLine, Searches!Found, Searches!Line, Searches!NotFoundLine
<1>8. NothingLost' /\ AllIsPrinted' /\ ResultsAreMatches'
  BY <1>1, <1>5 DEF SearchInv, NothingLost, AllIsPrinted, Collects, ResultsAreMatches, IsMatch
<1>9. PrintedAreMatches'
  <2> SUFFICES ASSUME NEW q \in printed', q \notin printed
               PROVE  /\ IsMatch(q[2]) /\ q[2].search <= q[1] /\ q[1] <= search
                      /\ punctual => q[2].search = q[1]
                      /\ q[2].file = 1
    BY <1>1 DEF SearchInv, PrintedAreMatches, IsMatch
  <2>1. q[1] = search /\ q[2] = l /\ search <= search
    BY <1>1 DEF SearchInv, SearchTyped
  <2> QED BY <1>3, <1>4, <2>1
<1>10. FirstIsPrinted'
  BY <1>1, <1>4 DEF SearchInv, FirstIsPrinted, IsOver, Searches!Line
<1> QED BY <1>6, <1>7, <1>8, <1>9, <1>10 DEF SearchInv

LEMMA SearchReceiveTCP ==
  ASSUME SearchInv, SearchTyped', NEW c \in Connections, Searches!ReceiveTCP(c) PROVE SearchInv'
<1> DEFINE l == Head(coming[c])
<1>1. /\ searcher = "RESOLUCION1" /\ coming[c] # <<>> /\ coming'[c] = Tail(coming[c])
      /\ printed' = printed \cup {<<search, l>>}
      /\ \A d \in Connections : d # c => conn'[d] = conn[d] /\ due'[d] = due[d] /\ coming'[d] = coming[d]
      /\ UNCHANGED <<searcher, punctual, matches, search, command, conn, due, results>>
  BY DEF Searches!ReceiveTCP, Searches!Shows, SearchInv, SearchTyped
<1>2. l \in Unread(c) /\ Unread(c)' \subseteq Unread(c) /\ HowMany(c)' <= HowMany(c)
  BY <1>1, HeadIsRead
<1>3. IsMatch(l) /\ l.search <= search
  BY <1>1, <1>2, WhatIsRead
<1> HIDE DEF l
<1>4. OnlyAnswers' /\ AskedInTurn' /\ NothingLate'
  BY <1>1, <1>2, StepOfOne
<1>5. /\ NothingLost' /\ FirstLine' /\ ResultsAreMatches' /\ AllIsPrinted' /\ FirstIsPrinted'
  BY <1>1 DEF SearchInv, NothingLost, FirstLine, ResultsAreMatches, IsMatch, AllIsPrinted, FirstIsPrinted, Collects
<1>6. PrintedAreMatches'
  <2> SUFFICES ASSUME NEW q \in printed', q \notin printed
               PROVE  IsMatch(q[2]) /\ q[2].search <= q[1] /\ q[1] <= search
    BY <1>1 DEF SearchInv, PrintedAreMatches, IsMatch
  <2>1. q[1] = search /\ q[2] = l /\ search <= search
    BY <1>1 DEF SearchInv, SearchTyped
  <2> QED BY <1>3, <2>1
<1> QED BY <1>4, <1>5, <1>6 DEF SearchInv

\* New connections of the search that is on.
LEMMA NewConnections ==
  ASSUME SearchInv, SearchTyped', NEW cs, Searches!Connects(cs),
         UNCHANGED <<searcher, punctual, matches, coming>>,
         \A c \in Connections : c \in cs => conn[c] = "none"
  PROVE  /\ OnlyAnswers' /\ FirstLine'
         /\ \A c \in Connections :
              /\ conn'[c] = IF c \in cs THEN "reading" ELSE conn[c]
              /\ c \notin cs => Unread(c)' = Unread(c)
              /\ c \in cs => \A k \in 1..matches[c[2]] : Searches!Line(c, k) \in Unread(c)'
<1>1. \A c \in Connections : /\ conn'[c] = IF c \in cs THEN "reading" ELSE conn[c]
                             /\ due'[c] = IF c \in cs THEN Searches!Found(c) ELSE due[c]
  BY DEF Searches!Connects, Connections
<1>2. \A c \in Connections : c \notin cs => Unread(c)' = Unread(c) /\ HowMany(c)' = HowMany(c)
  BY <1>1 DEF Unread, HowMany
<1>3. \A c \in Connections : c \in cs => coming[c] = <<>>
  BY NothingUnread DEF SearchInv, AskedInTurn
<1>4. ASSUME NEW c \in Connections, c \in cs
      PROVE  Unread(c)' = ToSet(Searches!Found(c)) /\ HowMany(c)' = Len(Searches!Found(c))
  <2>1. due'[c] = Searches!Found(c) /\ coming'[c] = <<>>
    BY <1>1, <1>3, <1>4
  <2>2. Len(Searches!Found(c)) \in Nat
    BY TheAnswer, LenProperties DEF SearchInv
  <2>3. HowMany(c)' = Len(Searches!Found(c)) + 0
    BY <2>1 DEF HowMany
  <2> QED BY <2>1, <2>2, <2>3, ToSetOfEmpty DEF Unread
<1>5. OnlyAnswers'
  <2> SUFFICES ASSUME NEW d \in Connections
               PROVE /\ \A l \in Unread(d)' :
                          /\ l.search = d[1] /\ l.node = d[2]
                          /\ \/ l.file \in 1..matches[d[2]]
                             \/ searcher = "Resolucion3" /\ matches[d[2]] = 0 /\ l.file = 0
                     /\ matches[d[2]] = 0 => HowMany(d)' <= 1
    BY DEF OnlyAnswers
  <2>1. CASE d \notin cs
    BY <1>2, <2>1 DEF SearchInv, OnlyAnswers
  <2>2. CASE d \in cs
    BY <1>4, <2>2, TheAnswer DEF SearchInv
  <2> QED BY <2>1, <2>2
<1>6. FirstLine'
  <2>1. \A c \in Connections : Searches!Found(c)' = Searches!Found(c)
    BY DEF Searches!Found, Searches!Line, Searches!NotFoundLine
  <2> QED BY <1>1, <1>3, <2>1 DEF SearchInv, FirstLine
<1>7. \A c \in Connections : c \in cs => \A k \in 1..matches[c[2]] : Searches!Line(c, k) \in Unread(c)'
  BY <1>4, TheAnswer DEF SearchInv
<1> QED BY <1>1, <1>2, <1>5, <1>6, <1>7

LEMMA SearchAskNext ==
  ASSUME SearchInv, SearchTyped', NEW c \in Connections, Searches!AskNext(c) PROVE SearchInv'
<1>1. /\ searcher = "RESOLUCION2" /\ command = "searching" /\ c[1] = search /\ conn[c] = "none"
      /\ Searches!Connects({c})
      /\ UNCHANGED <<searcher, punctual, matches, search, command, coming, results, printed>>
  BY DEF Searches!AskNext, Searches!Now
<1>2. /\ OnlyAnswers' /\ FirstLine'
      /\ conn'[c] = "reading" /\ \A k \in 1..matches[c[2]] : Searches!Line(c, k) \in Unread(c)'
      /\ \A d \in Connections : d # c => conn'[d] = conn[d] /\ Unread(d)' = Unread(d)
  BY <1>1, NewConnections
<1>3. ~(c[1] > search) /\ ~(c[1] < search)
  BY <1>1, AConnection DEF SearchInv, SearchTyped
<1>4. AskedInTurn' /\ NothingLate'
  BY <1>1, <1>2, <1>3 DEF SearchInv, AskedInTurn, NothingLate, InTurn, Collects
<1>5. NothingLost'
  <2> SUFFICES ASSUME NEW d \in Connections, NEW k \in Nat, d[1] = search, conn'[d] # "none",
                      k \in 1..matches[d[2]]
               PROVE  Searches!Line(d, k) \in Unread(d)' \cup results
    BY <1>1 DEF NothingLost, Collects
  <2>1. CASE d = c
    BY <1>2, <2>1
  <2>2. CASE d # c
    BY <1>1, <1>2, <2>2 DEF SearchInv, NothingLost, Collects
  <2> QED BY <2>1, <2>2
<1>6. /\ ResultsAreMatches' /\ PrintedAreMatches' /\ AllIsPrinted' /\ FirstIsPrinted'
  BY <1>1 DEF SearchInv, ResultsAreMatches, PrintedAreMatches, AllIsPrinted, FirstIsPrinted, IsMatch, IsOver,
       Collects, Searches!Line
<1> QED BY <1>2, <1>4, <1>5, <1>6 DEF SearchInv

LEMMA SearchBuscar == ASSUME SearchInv, SearchTyped', Searches!Buscar PROVE SearchInv'
<1> DEFINE cs == IF searcher = "RESOLUCION2" THEN {} ELSE {search + 1} \X Nodes
<1>1. /\ command = "prompt" /\ command' = "searching" /\ search' = search + 1 /\ search \in Nat
      /\ Searches!Connects(cs)
      /\ UNCHANGED <<searcher, punctual, matches, coming, results, printed>>
  BY DEF Searches!Buscar, SearchInv, SearchTyped
<1>2. \A c \in Connections : c \in cs <=> searcher # "RESOLUCION2" /\ c[1] = search + 1
  BY DEF Connections, Searches!Connections
<1> HIDE DEF cs
<1>3. \A c \in Connections : c[1] \in Nat /\ (c \in cs => conn[c] = "none" /\ Unread(c) = {})
  BY <1>1, <1>2, AConnection DEF SearchInv, AskedInTurn
<1>4. /\ OnlyAnswers' /\ FirstLine'
      /\ \A c \in Connections :
           /\ conn'[c] = IF c \in cs THEN "reading" ELSE conn[c]
           /\ c \notin cs => Unread(c)' = Unread(c)
           /\ c \in cs => \A k \in 1..matches[c[2]] : Searches!Line(c, k) \in Unread(c)'
  BY <1>1, <1>3, NewConnections
<1>5. AskedInTurn'
  <2> SUFFICES ASSUME NEW c \in Connections
               PROVE  /\ conn'[c] = "none" => Unread(c)' = {}
                      /\ c[1] > search + 1 => conn'[c] = "none"
                      /\ InTurn /\ conn'[c] = "reading" => c[1] = search + 1
    BY <1>1 DEF AskedInTurn, InTurn
  <2>1. CASE c \in cs
    BY <1>1, <1>2, <1>3, <1>4, <2>1
  <2>2. CASE c \notin cs
    BY <1>1, <1>3, <1>4, <2>2 DEF SearchInv, AskedInTurn
  <2> QED BY <2>1, <2>2
<1>6. NothingLost'
  <2> SUFFICES ASSUME Collects, NEW c \in Connections, NEW k \in Nat, c[1] = search + 1, conn'[c] # "none",
                      k \in 1..matches[c[2]]
               PROVE  Searches!Line(c, k) \in Unread(c)' \cup results
    BY <1>1 DEF NothingLost, Collects
  <2>1. CASE c \in cs
    BY <1>4, <2>1
  <2>2. CASE c \notin cs
    BY <1>1, <1>3, <1>4, <2>2 DEF SearchInv, AskedInTurn
  <2> QED BY <2>1, <2>2
<1>7. NothingLate'
  <2> SUFFICES ASSUME Collects, punctual, NEW c \in Connections
               PROVE  /\ conn'[c] = "done" => Unread(c)' = {}
                      /\ c[1] < search + 1 => Unread(c)' = {}
    BY <1>1 DEF NothingLate, Collects
  <2>1. Unread(c) = {}
    BY <1>1 DEF SearchInv, NothingLate
  <2>2. c \in cs => ~(c[1] < search + 1)
    BY <1>1, <1>2, <1>3
  <2> QED BY <1>4, <2>1, <2>2
<1>8. ASSUME NEW l, IsMatch(l) PROVE IsMatch(l)'
  BY <1>1, <1>8 DEF IsMatch
<1>9. ResultsAreMatches'
  BY <1>1, <1>8 DEF SearchInv, ResultsAreMatches, Collects
<1>10. PrintedAreMatches'
  <2>1. \A q \in printed : q[1] \in Nat /\ q[1] <= search
    BY DEF SearchInv, SearchTyped, PrintedAreMatches
  <2>2. \A q \in printed : q[1] <= search + 1
    BY <1>1, <2>1
  <2> QED BY <1>1, <1>8, <2>2 DEF SearchInv, PrintedAreMatches
<1>11. \A c \in Connections : c[1] <= search' /\ IsOver(c[1])' => c[1] <= search /\ IsOver(c[1])
  BY <1>1, <1>3 DEF IsOver
<1>12. AllIsPrinted'
  BY <1>1, <1>11 DEF SearchInv, AllIsPrinted, Collects, Searches!Line
<1>13. FirstIsPrinted'
  <2>1. \A c \in Connections : c[1] <= search => c \notin cs
    BY <1>1, <1>2, <1>3
  <2> QED BY <1>1, <1>4, <1>11, <2>1 DEF SearchInv, FirstIsPrinted, Searches!Line
<1> QED BY <1>4, <1>5, <1>6, <1>7, <1>9, <1>10, <1>12, <1>13 DEF SearchInv

LEMMA SearchPrompt == ASSUME SearchInv, SearchTyped', Searches!Prompt PROVE SearchInv'
<1>1. /\ command = "searching" /\ command' = "prompt" /\ search' = search /\ search \in Nat
      /\ results' = {} /\ printed' = printed \cup {<<search, l>> : l \in results}
      /\ UNCHANGED <<searcher, punctual, matches, conn, due, coming>>
  BY DEF Searches!Prompt, Searches!Shows, SearchInv, SearchTyped
<1>2. /\ \A c \in Connections : c[1] = search => conn[c] # "none"
      /\ InTurn => \A c \in Connections : conn[c] # "reading"
      /\ searcher = "Resolucion3" /\ punctual =>
           \A c \in Connections : conn[c] = "reading" => due[c] = <<>> /\ coming[c] = <<>>
  BY DEF Searches!Prompt, Searches!AllAsked, Searches!Over, Searches!Asking, Searches!Now, Connections, InTurn
<1>3. \A c \in Connections : Unread(c)' = Unread(c) /\ HowMany(c)' = HowMany(c)
  BY <1>1 DEF Unread, HowMany
<1>4. OnlyAnswers' /\ FirstLine' /\ AskedInTurn' /\ NothingLost' /\ ResultsAreMatches'
  <2>1. OnlyAnswers'
    BY <1>1, <1>3 DEF SearchInv, OnlyAnswers
  <2>2. FirstLine'
    BY <1>1 DEF SearchInv, FirstLine, Searches!Found, Searches!Line, Searches!NotFoundLine
  <2>3. AskedInTurn'
    BY <1>1, <1>2, <1>3 DEF SearchInv, AskedInTurn, InTurn
  <2> QED BY <1>1, <2>1, <2>2, <2>3 DEF NothingLost, ResultsAreMatches
<1>5. Collects /\ punctual => \A c \in Connections : Unread(c) = {}
  <2> SUFFICES ASSUME Collects, punctual, NEW c \in Connections PROVE Unread(c) = {}
    OBVIOUS
  <2>1. c[1] \in Nat
    BY AConnection
  <2>2. CASE c[1] < search
    BY <2>2 DEF SearchInv, NothingLate
  <2>3. CASE c[1] > search
    BY <2>3 DEF SearchInv, AskedInTurn
  <2>4. CASE c[1] = search
    <3>1. conn[c] \in {"reading", "done"}
      BY <1>2, <2>4 DEF SearchInv, SearchTyped
    <3>2. CASE conn[c] = "done"
      BY <3>2 DEF SearchInv, NothingLate
    <3>3. CASE conn[c] = "reading"
      <4>1. due[c] = <<>> /\ coming[c] = <<>>
        BY <1>2, <3>3 DEF Collects, InTurn
      <4> QED BY <4>1, NothingUnread DEF SearchInv
    <3> QED BY <3>1, <3>2, <3>3
  <2> QED BY <1>1, <2>1, <2>2, <2>3, <2>4
<1>6. NothingLate'
  BY <1>1, <1>3, <1>5 DEF NothingLate, Collects
<1>7. PrintedAreMatches'
  <2> SUFFICES ASSUME NEW q \in printed', q \notin printed
               PROVE  /\ IsMatch(q[2]) /\ q[2].search <= q[1] /\ q[1] <= search
                      /\ searcher = "RESOLUCION2" => q[2].search = q[1]
                      /\ searcher \in {"Resolucion3", "MARIO"} /\ punctual => q[2].search = q[1]
                      /\ searcher # "MARIO"
    BY <1>1 DEF SearchInv, PrintedAreMatches, IsMatch
  <2>1. PICK l \in results : q = <<search, l>>
    BY <1>1
  <2>2. IsMatch(l) /\ Collects /\ (searcher = "RESOLUCION2" \/ punctual => l.search = search)
    BY DEF SearchInv, ResultsAreMatches
  <2>3. q[1] = search /\ q[2] = l
    BY <2>1
  <2>4. l.search <= search /\ search <= search
    BY <1>1, <2>2 DEF IsMatch
  <2> QED BY <2>2, <2>3, <2>4 DEF Collects
<1>8. AllIsPrinted'
  <2> SUFFICES ASSUME Collects, punctual, NEW c \in Connections, NEW k \in Nat, c[1] <= search,
                      k \in 1..matches[c[2]]
               PROVE  <<c[1], Searches!Line(c, k)>> \in printed'
    BY <1>1 DEF AllIsPrinted, Collects, Searches!Line
  <2>1. CASE c[1] < search
    BY <1>1, <2>1 DEF SearchInv, AllIsPrinted, IsOver
  <2>2. CASE c[1] = search
    <3>1. Searches!Line(c, k) \in results
      BY <1>1, <1>2, <1>5, <2>2 DEF SearchInv, NothingLost
    <3> QED BY <1>1, <2>2, <3>1
  <2> QED BY <1>1, <2>1, <2>2, AConnection
<1>9. FirstIsPrinted'
  <2> SUFFICES ASSUME searcher = "MARIO", punctual, NEW c \in Connections
               PROVE  /\ conn[c] = "done" => matches[c[2]] = 0 \/ <<c[1], Searches!Line(c, 1)>> \in printed'
                      /\ c[1] <= search => conn[c] = "done"
    BY <1>1 DEF FirstIsPrinted, Searches!Line
  <2>1. conn[c] = "done" => matches[c[2]] = 0 \/ <<c[1], Searches!Line(c, 1)>> \in printed'
    BY <1>1 DEF SearchInv, FirstIsPrinted
  <2>2. CASE c[1] < search
    BY <2>1, <2>2 DEF SearchInv, FirstIsPrinted, IsOver
  <2>3. CASE c[1] = search
    BY <1>2, <2>1, <2>3 DEF InTurn, SearchInv, SearchTyped
  <2> QED BY <1>1, <2>1, <2>2, <2>3, AConnection
<1> QED BY <1>4, <1>6, <1>7, <1>8, <1>9 DEF SearchInv

LEMMA SearchNext == SearchInv /\ [Searches!NextF]_searchVars => SearchInv'
<1> SUFFICES ASSUME SearchInv, [Searches!NextF]_searchVars PROVE SearchInv'
  OBVIOUS
<1>1. SearchTyped'
  BY SearchTyping DEF SearchInv
<1>2. CASE UNCHANGED searchVars
  BY <1>2 DEF searchVars, SearchInv, SearchTyped, OnlyAnswers, AskedInTurn, NothingLost, NothingLate, FirstLine,
       ResultsAreMatches, PrintedAreMatches, AllIsPrinted, FirstIsPrinted, Unread, HowMany, IsMatch, IsOver,
       InTurn, Collects, Searches!Found, Searches!Line, Searches!NotFoundLine
<1> QED BY <1>1, <1>2, SearchBuscar, SearchPrompt, SearchAskNext, SearchSend, SearchGiveUp, SearchCollect,
         SearchLoopRecv, SearchRecvOnce, SearchReceiveTCP DEF Searches!NextF, Connections

LEMMA SearchShows == SearchInv => SearchShowsWhatIsShared
<1> SUFFICES ASSUME SearchInv, NEW s \in 1..search
             PROVE  LET over == s < search \/ command = "prompt" IN
                    /\ Searches!Answers(s) \subseteq UNION {Searches!Matching(r) : r \in 1..s}
                    /\ searcher = "RESOLUCION2" => Searches!Answers(s) \subseteq Searches!Matching(s)
                    /\ searcher \in {"RESOLUCION2", "Resolucion3"} /\ punctual /\ over
                         => Searches!Answers(s) = Searches!Matching(s)
                    /\ searcher = "MARIO" =>
                         Searches!Answers(s) \subseteq {Searches!Line(<<r, n>>, 1) : r \in 1..s, n \in Nodes}
                    /\ searcher = "MARIO" /\ punctual /\ over
                         => Searches!Answers(s) = {l \in Searches!Matching(s) : l.file = 1}
  BY DEF SearchShowsWhatIsShared, Searches!SearchShowsWhatIsShared
<1>0. SearchTyped /\ search \in Nat /\ s \in Nat /\ s <= search /\ s >= 1
  BY DEF SearchInv, SearchTyped
<1>1. ASSUME NEW r \in 1..search, NEW n \in Nodes
      PROVE  /\ <<r, n>> \in Connections /\ <<r, n>>[1] = r /\ <<r, n>>[2] = n
             /\ matches[n] \in Nat
  BY <1>0, BoundAssumption DEF SearchTyped, Connections, Searches!Connections
<1>2. ASSUME NEW r \in 1..search, NEW x \in SearchLines, x.search = r, x.file \in 1..matches[x.node]
      PROVE  x \in Searches!Matching(r) /\ x = Searches!Line(<<r, x.node>>, x.file) /\ x.node \in Nodes
  <2>1. x.node \in Nodes
    BY DEF SearchLines
  <2>2. x = Searches!Line(<<r, x.node>>, x.file)
    BY <1>1, <1>2, <2>1, AConnection
  <2> QED BY <1>2, <2>1, <2>2 DEF Searches!Matching
<1>3. ASSUME NEW y \in Searches!Matching(s)
      PROVE  \E n \in Nodes : \E k \in 1..matches[n] :
               /\ y = Searches!Line(<<s, n>>, k) /\ k \in Nat /\ y.file = k
               /\ <<s, n>> \in Connections /\ <<s, n>>[1] = s /\ <<s, n>>[2] = n
  <2>1. PICK n \in Nodes : \E k \in 1..matches[n] : y = Searches!Line(<<s, n>>, k)
    BY DEF Searches!Matching
  <2>2. PICK k \in 1..matches[n] : y = Searches!Line(<<s, n>>, k)
    BY <2>1
  <2>3. <<s, n>> \in Connections /\ <<s, n>>[1] = s /\ <<s, n>>[2] = n /\ k \in Nat
    BY <1>0, <1>1
  <2>4. y.file = k
    BY <2>2, <2>3, AConnection
  <2> QED BY <2>2, <2>3, <2>4
<1>4. ASSUME NEW x \in Searches!Answers(s)
      PROVE  /\ x \in SearchLines /\ x.search \in 1..s /\ x.search \in 1..search
             /\ x.file \in 1..matches[x.node]
             /\ searcher = "RESOLUCION2" => x.search = s
             /\ searcher \in {"Resolucion3", "MARIO"} /\ punctual => x.search = s
             /\ searcher = "MARIO" => x.file = 1
  <2>1. PICK q \in printed : q[1] = s /\ q[2] = x
    BY DEF Searches!Answers
  <2>2. x \in SearchLines
    BY <1>0, <2>1 DEF SearchTyped
  <2>3. IsMatch(x) /\ x.search <= s
    BY <2>1 DEF SearchInv, PrintedAreMatches
  <2>4. /\ searcher = "RESOLUCION2" => x.search = s
        /\ searcher \in {"Resolucion3", "MARIO"} /\ punctual => x.search = s
        /\ searcher = "MARIO" => x.file = 1
    BY <2>1 DEF SearchInv, PrintedAreMatches
  <2>5. x.search \in 1..s /\ x.search \in 1..search /\ x.file \in 1..matches[x.node]
    BY <1>0, <2>3 DEF IsMatch
  <2> QED BY <2>2, <2>4, <2>5
<1>5. ASSUME NEW y, <<s, y>> \in printed PROVE y \in Searches!Answers(s)
  BY <1>5 DEF Searches!Answers
<1>6. \A x \in Searches!Answers(s) : x \in Searches!Matching(x.search)
  BY <1>2, <1>4
<1>7. Searches!Answers(s) \subseteq UNION {Searches!Matching(r) : r \in 1..s}
  BY <1>4, <1>6
<1>8. /\ searcher = "RESOLUCION2" => Searches!Answers(s) \subseteq Searches!Matching(s)
      /\ searcher \in {"Resolucion3", "MARIO"} /\ punctual => Searches!Answers(s) \subseteq Searches!Matching(s)
  BY <1>4, <1>6
<1>9. ASSUME searcher \in {"RESOLUCION2", "Resolucion3"}, punctual, s < search \/ command = "prompt",
             NEW y \in Searches!Matching(s)
      PROVE  y \in Searches!Answers(s)
  <2>0. PICK n \in Nodes : \E k \in 1..matches[n] :
          /\ y = Searches!Line(<<s, n>>, k) /\ k \in Nat /\ y.file = k
          /\ <<s, n>> \in Connections /\ <<s, n>>[1] = s /\ <<s, n>>[2] = n
    BY ONLY <1>3
  <2>1. PICK k \in 1..matches[n] :
          /\ y = Searches!Line(<<s, n>>, k) /\ k \in Nat
          /\ <<s, n>> \in Connections /\ <<s, n>>[1] = s /\ <<s, n>>[2] = n
    BY <2>0
  <2>2. PICK c \in Connections : c = <<s, n>> /\ c[1] = s /\ c[2] = n
    BY <2>1
  <2>3. <<c[1], Searches!Line(c, k)>> \in printed
    BY <1>0, <1>9, <2>1, <2>2 DEF SearchInv, AllIsPrinted, IsOver, Collects
  <2> QED BY <1>5, <2>1, <2>2, <2>3
<1>10. ASSUME searcher = "MARIO", NEW x \in Searches!Answers(s)
       PROVE  \E r \in 1..s : \E n \in Nodes : x = Searches!Line(<<r, n>>, 1)
  <2>1. x.file = 1 /\ x.search \in 1..s
    BY <1>4, <1>10
  <2>2. x = Searches!Line(<<x.search, x.node>>, x.file) /\ x.node \in Nodes
    BY <1>2, <1>4
  <2>3. x = Searches!Line(<<x.search, x.node>>, 1)
    BY <2>1, <2>2
  <2> QED BY ONLY <2>1, <2>2, <2>3
<1>11. ASSUME searcher = "MARIO", punctual, s < search \/ command = "prompt",
              NEW y \in Searches!Matching(s), y.file = 1
       PROVE  y \in Searches!Answers(s)
  <2>0. PICK n \in Nodes : \E k \in 1..matches[n] :
          /\ y = Searches!Line(<<s, n>>, k) /\ k \in Nat /\ y.file = k
          /\ <<s, n>> \in Connections /\ <<s, n>>[1] = s /\ <<s, n>>[2] = n
    BY ONLY <1>3
  <2>1. PICK k \in 1..matches[n] :
          /\ y = Searches!Line(<<s, n>>, k) /\ k = 1
          /\ <<s, n>> \in Connections /\ <<s, n>>[1] = s /\ <<s, n>>[2] = n
    BY <1>11, <2>0
  <2>2. PICK c \in Connections : c = <<s, n>> /\ c[1] = s /\ c[2] = n
    BY <2>1
  <2>3. matches[n] # 0
    BY <1>0, <1>1, <2>1
  <2>4. <<c[1], Searches!Line(c, 1)>> \in printed
    BY <1>0, <1>11, <2>2, <2>3 DEF SearchInv, FirstIsPrinted, IsOver
  <2> QED BY <1>5, <2>1, <2>2, <2>4
<1>12. searcher = "MARIO" =>
         Searches!Answers(s) \subseteq {Searches!Line(<<r, n>>, 1) : r \in 1..s, n \in Nodes}
  BY ONLY <1>10
<1>13. searcher \in {"RESOLUCION2", "Resolucion3"} /\ punctual /\ (s < search \/ command = "prompt")
         => Searches!Answers(s) = Searches!Matching(s)
  BY ONLY <1>8, <1>9
<1>14. searcher = "MARIO" /\ punctual /\ (s < search \/ command = "prompt")
         => Searches!Answers(s) = {l \in Searches!Matching(s) : l.file = 1}
  <2> SUFFICES ASSUME searcher = "MARIO", punctual, s < search \/ command = "prompt"
               PROVE  Searches!Answers(s) = {l \in Searches!Matching(s) : l.file = 1}
    OBVIOUS
  <2>1. Searches!Answers(s) \subseteq Searches!Matching(s)
    BY <1>8
  <2>2. \A x \in Searches!Answers(s) : x.file = 1
    BY <1>4
  <2>3. \A y \in Searches!Matching(s) : y.file = 1 => y \in Searches!Answers(s)
    BY <1>11
  <2> QED BY ONLY <2>1, <2>2, <2>3
<1>15. searcher = "RESOLUCION2" => Searches!Answers(s) \subseteq Searches!Matching(s)
  BY ONLY <1>8
<1> QED BY ONLY <1>7, <1>12, <1>13, <1>14, <1>15

-----------------------------------------------------------------------------
(* The key-value servers.                                                      *)

\* The places p[1] < p[2] < ... of a list are those of key k, and hold vals.
ArePlaces(p, list, k, vals) ==
  /\ p \in [DOMAIN vals -> DOMAIN list]
  /\ \A i, j \in DOMAIN vals : i < j => p[i] < p[j]
  /\ \A i \in DOMAIN vals : list[p[i]] = <<k, vals[i]>>
  /\ \A j \in DOMAIN list : list[j][1] = k => \E i \in DOMAIN vals : p[i] = j

\* The values of key k in a list, first to last.
Represents(list, k, vals) == \E p \in [DOMAIN vals -> DOMAIN list] : ArePlaces(p, list, k, vals)

Pairs == Keys \X Nat

LEMMA FirstOfKey ==
  ASSUME NEW list \in Seq(Pairs), NEW k, NEW vals \in Seq(Nat), Represents(list, k, vals)
  PROVE  /\ vals = <<>> => Store!First(list, k) = 0
         /\ vals # <<>> => /\ Store!First(list, k) \in 1..Len(list)
                           /\ list[Store!First(list, k)] = <<k, Head(vals)>>
                           /\ \A p \in [DOMAIN vals -> DOMAIN list] :
                                ArePlaces(p, list, k, vals) => p[1] = Store!First(list, k)
<1> DEFINE I == {i \in 1..Len(list) : list[i][1] = k}
<1>1. Store!First(list, k) = IF I # {} THEN Store!Min(I) ELSE 0
  BY DEF Store!First, Store!SelectInSeq
<1>2. DOMAIN list = 1..Len(list) /\ Len(list) \in Nat /\ DOMAIN vals = 1..Len(vals) /\ Len(vals) \in Nat
  OBVIOUS
<1>3. ASSUME vals = <<>> PROVE I = {}
  BY <1>2, <1>3 DEF Represents, ArePlaces
<1>4. ASSUME vals # <<>>, NEW p \in [DOMAIN vals -> DOMAIN list], ArePlaces(p, list, k, vals)
      PROVE  Store!Min(I) = p[1] /\ I # {} /\ list[p[1]] = <<k, Head(vals)>> /\ p[1] \in 1..Len(list)
  <2>1. 1 \in DOMAIN vals /\ Head(vals) = vals[1]
    BY <1>2, <1>4, EmptySeq
  <2>2. list[p[1]] = <<k, Head(vals)>> /\ p[1] \in 1..Len(list)
    BY <1>2, <1>4, <2>1 DEF ArePlaces
  <2>3. p[1] \in I
    BY <2>2
  <2>4. ASSUME NEW j \in I PROVE p[1] <= j
    <3>1. PICK i \in DOMAIN vals : p[i] = j
      BY <1>2, <1>4 DEF ArePlaces
    <3>2. i = 1 \/ 1 < i
      BY <1>2
    <3> QED BY <1>2, <1>4, <2>1, <2>2, <3>1, <3>2 DEF ArePlaces
  <2>5. \A x \in I : (\A y \in I : x <= y) => x = p[1]
    BY <2>3, <2>4, <2>2, <1>2
  <2> HIDE DEF I
  <2> QED BY <2>2, <2>3, <2>4, <2>5 DEF Store!Min
<1> HIDE DEF I
<1>5. ASSUME vals # <<>> PROVE \E p \in [DOMAIN vals -> DOMAIN list] : ArePlaces(p, list, k, vals)
  BY DEF Represents
<1> QED BY <1>1, <1>3, <1>4, <1>5

\* A change of the list that keeps the places of a key in their order.
LEMMA PlacesMove ==
  ASSUME NEW list \in Seq(Pairs), NEW after \in Seq(Pairs), NEW k, NEW vals \in Seq(Nat),
         NEW g \in [DOMAIN list -> Int], Represents(list, k, vals),
         \A j \in DOMAIN list : list[j][1] = k => g[j] \in DOMAIN after /\ after[g[j]] = list[j],
         \A i, j \in DOMAIN list : list[i][1] = k /\ list[j][1] = k /\ i < j => g[i] < g[j],
         \A l \in DOMAIN after : after[l][1] = k => \E j \in DOMAIN list : list[j][1] = k /\ g[j] = l
  PROVE  Represents(after, k, vals)
<1>1. PICK p \in [DOMAIN vals -> DOMAIN list] : ArePlaces(p, list, k, vals)
  BY DEF Represents
<1> DEFINE q == [i \in DOMAIN vals |-> g[p[i]]]
<1>2. \A i \in DOMAIN vals : p[i] \in DOMAIN list /\ list[p[i]] = <<k, vals[i]>> /\ list[p[i]][1] = k
  BY <1>1 DEF ArePlaces
<1>3. q \in [DOMAIN vals -> DOMAIN after]
  BY <1>2
<1>4. \A i, j \in DOMAIN vals : i < j => q[i] < q[j]
  BY <1>1, <1>2 DEF ArePlaces
<1>5. \A i \in DOMAIN vals : after[q[i]] = <<k, vals[i]>>
  BY <1>2
<1>6. ASSUME NEW l \in DOMAIN after, after[l][1] = k PROVE \E i \in DOMAIN vals : q[i] = l
  <2>1. PICK j \in DOMAIN list : list[j][1] = k /\ g[j] = l
    BY <1>6
  <2>2. PICK i \in DOMAIN vals : p[i] = j
    BY <1>1, <2>1 DEF ArePlaces
  <2> QED BY <2>1, <2>2
<1> HIDE DEF q
<1> QED BY <1>3, <1>4, <1>5, <1>6 DEF Represents, ArePlaces

\* addNode, at the end.
LEMMA AtTheEnd ==
  ASSUME NEW list \in Seq(Pairs), NEW k \in Keys, NEW v \in Nat,
         NEW other \in Keys, NEW vals \in Seq(Nat), Represents(list, other, vals)
  PROVE  Represents(Store!AddNode(list, k, v), other, IF other = k THEN Append(vals, v) ELSE vals)
<1> DEFINE after == Append(list, <<k, v>>)
<1>0. <<k, v>> \in Pairs /\ <<k, v>>[1] = k
  BY DEF Pairs
<1>1. /\ after \in Seq(Pairs) /\ Len(list) \in Nat /\ DOMAIN list = 1..Len(list)
      /\ DOMAIN after = 1..(Len(list) + 1)
      /\ \A j \in 1..Len(list) : after[j] = list[j]
      /\ after[Len(list) + 1] = <<k, v>>
  BY <1>0, AppendElements
<1> HIDE DEF after
<1>2. CASE other # k
  <2> DEFINE g == [j \in DOMAIN list |-> j]
  <2>1. g \in [DOMAIN list -> Int]
    BY <1>1
  <2>2. \A j \in DOMAIN list : g[j] = j /\ j \in DOMAIN after /\ after[j] = list[j]
    BY <1>1
  <2>3. \A l \in DOMAIN after : after[l][1] = other => l \in DOMAIN list /\ list[l][1] = other
    BY <1>0, <1>1, <1>2
  <2> HIDE DEF g
  <2>4. \A j \in DOMAIN list : list[j][1] = other => g[j] \in DOMAIN after /\ after[g[j]] = list[j]
    BY <2>2
  <2>5. \A i, j \in DOMAIN list : list[i][1] = other /\ list[j][1] = other /\ i < j => g[i] < g[j]
    BY <2>2
  <2>6. \A l \in DOMAIN after : after[l][1] = other => \E j \in DOMAIN list : list[j][1] = other /\ g[j] = l
    BY <2>2, <2>3
  <2>7. Represents(after, other, vals)
    BY ONLY <1>1, <2>1, <2>4, <2>5, <2>6, PlacesMove, Represents(list, other, vals), vals \in Seq(Nat), list \in Seq(Pairs)
  <2> QED BY <1>2, <2>7 DEF after, Store!AddNode
<1>3. CASE other = k
  <2>1. PICK p \in [DOMAIN vals -> DOMAIN list] : ArePlaces(p, list, k, vals)
    BY <1>3 DEF Represents
  <2> DEFINE more == Append(vals, v)
             q == [i \in DOMAIN more |-> IF i \in DOMAIN vals THEN p[i] ELSE Len(list) + 1]
  <2>2. /\ more \in Seq(Nat) /\ Len(vals) \in Nat /\ DOMAIN vals = 1..Len(vals)
        /\ DOMAIN more = 1..(Len(vals) + 1)
        /\ \A i \in 1..Len(vals) : more[i] = vals[i]
        /\ more[Len(vals) + 1] = v
    BY AppendElements
  <2> HIDE DEF more
  <2>3. /\ \A i \in DOMAIN vals : i \in DOMAIN more /\ q[i] = p[i] /\ p[i] \in 1..Len(list) /\ more[i] = vals[i]
        /\ Len(vals) + 1 \in DOMAIN more /\ q[Len(vals) + 1] = Len(list) + 1
        /\ \A i \in DOMAIN more : i \in DOMAIN vals \/ i = Len(vals) + 1
    BY <1>1, <2>2
  <2>4. q \in [DOMAIN more -> DOMAIN after]
    BY <1>1, <2>3
  <2> HIDE DEF q
  <2>5. \A i, j \in DOMAIN more : i < j => q[i] < q[j]
    <3> SUFFICES ASSUME NEW i \in DOMAIN more, NEW j \in DOMAIN more, i < j PROVE q[i] < q[j]
      OBVIOUS
    <3>1. i \in DOMAIN vals
      BY <2>2
    <3>2. CASE j \in DOMAIN vals
      BY <2>1, <2>3, <3>1, <3>2 DEF ArePlaces
    <3>3. CASE j = Len(vals) + 1
      BY <1>1, <2>3, <3>1, <3>3
    <3> QED BY <2>3, <3>2, <3>3
  <2>6. \A i \in DOMAIN more : after[q[i]] = <<k, more[i]>>
    <3>1. \A i \in DOMAIN vals : list[p[i]] = <<k, vals[i]>>
      BY <2>1 DEF ArePlaces
    <3>2. ASSUME NEW i \in DOMAIN vals PROVE after[q[i]] = <<k, more[i]>>
      BY <1>1, <2>3, <3>1
    <3>3. after[q[Len(vals) + 1]] = <<k, more[Len(vals) + 1]>>
      BY <1>1, <2>2, <2>3
    <3> QED BY <2>3, <3>2, <3>3
  <2>7. \A l \in DOMAIN after : after[l][1] = k => \E i \in DOMAIN more : q[i] = l
    <3> SUFFICES ASSUME NEW l \in DOMAIN after, after[l][1] = k PROVE \E i \in DOMAIN more : q[i] = l
      OBVIOUS
    <3>1. CASE l \in DOMAIN list
      <4>1. PICK i \in DOMAIN vals : p[i] = l
        BY <1>1, <2>1, <3>1 DEF ArePlaces
      <4> QED BY <2>3, <4>1
    <3>2. CASE l = Len(list) + 1
      BY <2>3, <3>2
    <3> QED BY <1>1, <3>1, <3>2
  <2>8. Represents(after, k, more)
    BY <2>4, <2>5, <2>6, <2>7 DEF Represents, ArePlaces
  <2> QED BY <1>3, <2>8 DEF after, more, Store!AddNode
<1> QED BY <1>2, <1>3

\* hashtable_add, in front, of a key that is not there any more.
LEMMA AtTheFront ==
  ASSUME NEW list \in Seq(Pairs), NEW k \in Keys, NEW v \in Nat,
         NEW other \in Keys, NEW vals \in Seq(Nat), Represents(list, other, vals),
         other = k => vals = <<>>
  PROVE  /\ <<<<k, v>>>> \o list \in Seq(Pairs)
         /\ Represents(<<<<k, v>>>> \o list, other, IF other = k THEN <<v>> ELSE vals)
<1> DEFINE after == <<<<k, v>>>> \o list
<1>0. <<k, v>> \in Pairs /\ <<k, v>>[1] = k
  BY DEF Pairs
<1>1. /\ after \in Seq(Pairs) /\ Len(list) \in Nat /\ DOMAIN list = 1..Len(list)
      /\ DOMAIN after = 1..(Len(list) + 1)
      /\ after[1] = <<k, v>>
      /\ \A j \in 1..Len(list) : after[j + 1] = list[j]
  <2> DEFINE s == <<<<k, v>>>>
  <2>1. s \in Seq(Pairs) /\ Len(s) = 1 /\ s[1] = <<k, v>>
    BY <1>0
  <2> HIDE DEF s
  <2>2. /\ s \o list \in Seq(Pairs) /\ Len(s \o list) = Len(s) + Len(list)
        /\ \A i \in 1..(Len(s) + Len(list)) : (s \o list)[i] = IF i <= Len(s) THEN s[i] ELSE list[i - Len(s)]
    BY <2>1, ConcatProperties
  <2>3. Len(list) \in Nat /\ DOMAIN list = 1..Len(list)
    OBVIOUS
  <2>4. DOMAIN (s \o list) = 1..(Len(list) + 1) /\ (s \o list)[1] = <<k, v>>
    BY <2>1, <2>2, <2>3
  <2>5. ASSUME NEW j \in 1..Len(list) PROVE (s \o list)[j + 1] = list[j]
    <3>1. j + 1 \in 1..(1 + Len(list)) /\ ~(j + 1 <= 1) /\ (j + 1) - 1 = j
      BY <2>3
    <3> QED BY <2>1, <2>2, <3>1
  <2> QED BY <2>2, <2>3, <2>4, <2>5 DEF s
<1> HIDE DEF after
<1>2. \A l \in DOMAIN after : l = 1 \/ \E j \in DOMAIN list : l = j + 1
  <2> SUFFICES ASSUME NEW l \in DOMAIN after, l # 1 PROVE l - 1 \in DOMAIN list /\ l = (l - 1) + 1
    OBVIOUS
  <2> QED BY <1>1
<1>3. CASE other # k
  <2> DEFINE g == [j \in DOMAIN list |-> j + 1]
  <2>1. g \in [DOMAIN list -> Int]
    BY <1>1
  <2>2. \A j \in DOMAIN list : g[j] = j + 1 /\ j \in Int /\ j + 1 \in DOMAIN after /\ after[j + 1] = list[j]
    BY <1>1
  <2>3. \A i, j \in DOMAIN list : i < j => g[i] < g[j]
    BY <2>2
  <2>4. \A l \in DOMAIN after : after[l][1] = other => \E j \in DOMAIN list : list[j][1] = other /\ g[j] = l
    <3> SUFFICES ASSUME NEW l \in DOMAIN after, after[l][1] = other
                 PROVE  \E j \in DOMAIN list : list[j][1] = other /\ g[j] = l
      OBVIOUS
    <3>1. l # 1
      BY <1>0, <1>1, <1>3
    <3>2. PICK j \in DOMAIN list : l = j + 1
      BY <1>2, <3>1
    <3>3. list[j] = after[l] /\ g[j] = l
      BY <2>2, <3>2
    <3> QED BY <3>3
  <2>5. \A j \in DOMAIN list : list[j][1] = other => g[j] \in DOMAIN after /\ after[g[j]] = list[j]
    BY <2>2
  <2>6. \A i, j \in DOMAIN list : list[i][1] = other /\ list[j][1] = other /\ i < j => g[i] < g[j]
    BY <2>3
  <2> HIDE DEF g
  <2>7. Represents(after, other, vals)
    BY ONLY <1>1, <2>1, <2>4, <2>5, <2>6, PlacesMove, Represents(list, other, vals), vals \in Seq(Nat), list \in Seq(Pairs)
  <2> QED BY <1>1, <1>3, <2>7 DEF after
<1>4. CASE other = k
  <2> DEFINE p == [i \in DOMAIN <<v>> |-> 1]
  <2>1. <<v>> \in Seq(Nat) /\ DOMAIN <<v>> = {1} /\ <<v>>[1] = v
    OBVIOUS
  <2>2. p \in [DOMAIN <<v>> -> DOMAIN after] /\ p[1] = 1
    BY <1>1, <2>1
  <2>3. \A j \in DOMAIN list : list[j][1] # k
    BY <1>4 DEF Represents, ArePlaces
  <2>4. \A l \in DOMAIN after : after[l][1] = k => l = 1
    BY <1>1, <1>2, <2>3
  <2> HIDE DEF p
  <2> DEFINE w == <<v>>
  <2>5. w \in Seq(Nat) /\ DOMAIN w = {1} /\ w[1] = v /\ p \in [DOMAIN w -> DOMAIN after]
    BY <2>1, <2>2
  <2> HIDE DEF w
  <2>6. \A i, j \in DOMAIN w : i < j => p[i] < p[j]
    BY <2>5
  <2>7. \A i \in DOMAIN w : after[p[i]] = <<k, w[i]>>
    BY <1>1, <2>2, <2>5
  <2>8. \A l \in DOMAIN after : after[l][1] = k => \E i \in DOMAIN w : p[i] = l
    BY <2>2, <2>4, <2>5
  <2>9. Represents(after, k, w)
    BY ONLY <2>5, <2>6, <2>7, <2>8 DEF Represents, ArePlaces
  <2> QED BY <1>1, <1>4, <2>9 DEF after, w
<1> QED BY <1>3, <1>4

\* delateNode and hashtable_del of a key that is there.
LEMMA WithoutFirst ==
  ASSUME NEW list \in Seq(Pairs), NEW k \in Keys, NEW mine \in Seq(Nat), mine # <<>>,
         Represents(list, k, mine), NEW other \in Keys, NEW vals \in Seq(Nat),
         Represents(list, other, vals)
  PROVE  LET after == Store!RemoveAt(list, Store!First(list, k))
         IN  /\ after \in Seq(Pairs)
             /\ Represents(after, k, Tail(mine))
             /\ other # k => Represents(after, other, vals)
<1> DEFINE f == Store!First(list, k)
           after == Store!RemoveAt(list, f)
           g == [j \in DOMAIN list |-> IF j < f THEN j ELSE j - 1]
<1>1. f \in 1..Len(list) /\ list[f] = <<k, Head(mine)>> /\ Len(list) \in Nat /\ DOMAIN list = 1..Len(list)
  BY FirstOfKey
<1> HIDE DEF f
<1>2. /\ after \in Seq(Pairs) /\ DOMAIN after = 1..(Len(list) - 1)
      /\ \A i \in 1..(f - 1) : after[i] = list[i]
      /\ \A i \in f..(Len(list) - 1) : after[i] = list[i + 1]
  <2>1. after = RemoveAt(list, f)
    BY DEF Store!RemoveAt, RemoveAt
  <2> HIDE DEF after
  <2> QED BY <1>1, <2>1, RemoveAtElements
<1> HIDE DEF after
<1>3. g \in [DOMAIN list -> Int]
  BY <1>1
<1>4. ASSUME NEW j \in DOMAIN list, j # f
      PROVE  j \in Int /\ g[j] \in DOMAIN after /\ after[g[j]] = list[j]
  <2>1. CASE j < f
    <3>1. j \in 1..(f - 1) /\ j \in 1..(Len(list) - 1) /\ g[j] = j
      BY <1>1, <2>1
    <3> QED BY <1>2, <3>1
  <2>2. CASE j > f
    <3>1. j - 1 \in f..(Len(list) - 1) /\ j - 1 \in 1..(Len(list) - 1) /\ g[j] = j - 1 /\ (j - 1) + 1 = j
      BY <1>1, <2>2
    <3>2. after[j - 1] = list[(j - 1) + 1]
      BY <1>2, <3>1
    <3> QED BY <1>2, <3>1, <3>2
  <2> QED BY <1>1, <1>4, <2>1, <2>2, SMTT(30)
<1>5. ASSUME NEW i \in DOMAIN list, NEW j \in DOMAIN list, i # f, j # f, i < j PROVE g[i] < g[j]
  BY <1>1, <1>5
<1>6. ASSUME NEW l \in DOMAIN after PROVE \E j \in DOMAIN list : j # f /\ g[j] = l
  <2>1. CASE l < f
    BY <1>1, <1>2, <2>1
  <2>2. CASE l >= f
    <3>1. l + 1 \in DOMAIN list /\ l + 1 # f /\ g[l + 1] = l
      BY <1>1, <1>2, <2>2, SMTT(30)
    <3> QED BY <3>1
  <2> QED BY <1>1, <1>2, <2>1, <2>2
<1> HIDE DEF g
<1>7. ASSUME other # k PROVE Represents(after, other, vals)
  <2>1. list[f][1] # other
    BY <1>1, <1>7
  <2>2. \A l \in DOMAIN after : after[l][1] = other => \E j \in DOMAIN list : list[j][1] = other /\ g[j] = l
    BY <1>4, <1>6
  <2>3. \A j \in DOMAIN list : list[j][1] = other => g[j] \in DOMAIN after /\ after[g[j]] = list[j]
    BY <1>4, <2>1
  <2>4. \A i, j \in DOMAIN list : list[i][1] = other /\ list[j][1] = other /\ i < j => g[i] < g[j]
    BY <1>5, <2>1
  <2> QED BY <1>2, <1>3, <2>2, <2>3, <2>4, PlacesMove
<1>8. Represents(after, k, Tail(mine))
  <2>1. PICK p \in [DOMAIN mine -> DOMAIN list] : ArePlaces(p, list, k, mine)
    BY DEF Represents
  <2>2. p[1] = f
    BY <2>1, FirstOfKey DEF f
  <2>3. /\ Tail(mine) \in Seq(Nat) /\ Len(mine) \in Nat \ {0} /\ DOMAIN mine = 1..Len(mine)
        /\ DOMAIN Tail(mine) = 1..(Len(mine) - 1)
        /\ \A i \in 1..(Len(mine) - 1) : Tail(mine)[i] = mine[i + 1]
    BY TailElements
  <2> DEFINE rest == Tail(mine)
             q == [i \in DOMAIN rest |-> g[p[i + 1]]]
  <2> HIDE DEF rest
  <2>4. ASSUME NEW i \in DOMAIN rest
        PROVE  /\ i + 1 \in DOMAIN mine /\ i \in Int /\ p[i + 1] \in DOMAIN list /\ p[i + 1] # f
               /\ list[p[i + 1]] = <<k, rest[i]>>
    <3>1. i + 1 \in DOMAIN mine /\ 1 \in DOMAIN mine /\ 1 < i + 1 /\ rest[i] = mine[i + 1] /\ i \in Int
      BY <2>3 DEF rest
    <3>2. p[1] < p[i + 1] /\ p[1] \in Int /\ p[i + 1] \in DOMAIN list /\ p[i + 1] \in Int
      BY <1>1, <2>1, <3>1 DEF ArePlaces
    <3> QED BY <1>1, <2>1, <2>2, <3>1, <3>2 DEF ArePlaces
  <2>5. \A i \in DOMAIN rest : q[i] = g[p[i + 1]] /\ q[i] \in DOMAIN after /\ after[q[i]] = <<k, rest[i]>>
    BY <1>4, <2>4
  <2>6. q \in [DOMAIN rest -> DOMAIN after]
    BY <1>4, <2>4
  <2> HIDE DEF q
  <2>7. ASSUME NEW i \in DOMAIN rest, NEW j \in DOMAIN rest, i < j PROVE q[i] < q[j]
    <3>1. p[i + 1] < p[j + 1]
      <4>1. i + 1 < j + 1 /\ i + 1 \in DOMAIN mine /\ j + 1 \in DOMAIN mine
        BY <2>4, <2>7
      <4> QED BY <2>1, <4>1 DEF ArePlaces
    <3> QED BY <1>5, <2>4, <2>5, <3>1
  <2>8. ASSUME NEW l \in DOMAIN after, after[l][1] = k PROVE \E i \in DOMAIN rest : q[i] = l
    <3>1. PICK j \in DOMAIN list : j # f /\ g[j] = l
      BY <1>6
    <3>2. list[j][1] = k
      BY <1>4, <2>8, <3>1
    <3>3. PICK i \in DOMAIN mine : p[i] = j
      BY <2>1, <3>2 DEF ArePlaces
    <3>4. i # 1
      BY <2>2, <3>1, <3>3
    <3>5. i - 1 \in DOMAIN rest /\ (i - 1) + 1 = i
      BY <2>3, <3>4 DEF rest
    <3>6. q[i - 1] = l
      BY <2>5, <3>1, <3>3, <3>5
    <3> QED BY <3>5, <3>6
  <2>9. Represents(after, k, rest)
    BY <2>5, <2>6, <2>7, <2>8 DEF Represents, ArePlaces
  <2> QED BY <2>9 DEF rest
<1> QED BY <1>2, <1>7, <1>8 DEF after, f

StoreLines ==
  [op : {"PUT"}, key : Keys, value : Nat] \cup [op : {"DEL"}, key : Keys]
    \cup [op : {"GET", "EXIT", "EOF", "none"}]

LinesTyped == lines \in Nat /\ line \in [Users -> StoreLines]
StoreTyped ==
  /\ program \in {"Ej12", "Ej15", "hash"}
  /\ LinesTyped
  /\ lists \in [Users -> Seq(Pairs)] /\ stored \in [Users -> [Keys -> Seq(Nat)]]

\* Each list holds exactly the values of the history, in their order, and the
\* table no key twice.
AllRepresented == \A d \in Users, k \in Keys : Represents(lists[d], k, stored[d][k])
OneOfEach == program = "hash" => \A d \in Users, k \in Keys : Len(stored[d][k]) <= 1

StoreInv == StoreTyped /\ AllRepresented /\ OneOfEach

LEMMA NothingRepresented == ASSUME NEW k PROVE Represents(<<>>, k, <<>>)
<1> DEFINE p == [i \in DOMAIN <<>> |-> 1]
           e == <<>>
<1>1. DOMAIN e = {} /\ p \in [DOMAIN e -> DOMAIN e]
  OBVIOUS
<1> HIDE DEF p, e
<1>2. Represents(e, k, e)
  BY <1>1 DEF Represents, ArePlaces
<1> QED BY <1>2 DEF e

LEMMA StoreInit == Store!InitK => StoreInv
<1> SUFFICES ASSUME Store!InitK PROVE StoreInv
  OBVIOUS
<1>1. \A d \in Users : lists[d] = <<>> /\ \A k \in Keys : stored[d][k] = <<>>
  BY DEF Store!InitK
<1>2. Len(<<>>) = 0 /\ <<>> \in Seq(Pairs) /\ <<>> \in Seq(Nat)
  OBVIOUS
<1>3. [op |-> "none"] \in StoreLines
  BY DEF StoreLines
<1>4. StoreTyped
  BY <1>2, <1>3 DEF StoreTyped, LinesTyped, Store!InitK, Store!NoLine
<1> QED BY <1>1, <1>2, <1>4, NothingRepresented DEF StoreInv, AllRepresented, OneOfEach

\* What one line leaves in a list represents the history it leaves.
LEMMA ListChanges ==
  ASSUME StoreInv, NEW d \in Users, program' = program, LinesTyped',
         NEW list \in Seq(Pairs), NEW seqs \in [Keys -> Seq(Nat)],
         lists' = [lists EXCEPT ![d] = list], stored' = [stored EXCEPT ![d] = seqs],
         \A k \in Keys : Represents(list, k, seqs[k]),
         program = "hash" => \A k \in Keys : Len(seqs[k]) <= 1
  PROVE  StoreInv'
<1>1. ASSUME NEW e \in Users
      PROVE  /\ lists'[e] = IF e = d THEN list ELSE lists[e]
             /\ stored'[e] = IF e = d THEN seqs ELSE stored[e]
  BY DEF StoreInv, StoreTyped
<1>2. AllRepresented'
  BY <1>1 DEF StoreInv, AllRepresented
<1>3. OneOfEach'
  BY <1>1 DEF StoreInv, OneOfEach
<1>4. StoreTyped'
  BY DEF StoreInv, StoreTyped
<1> QED BY <1>2, <1>3, <1>4 DEF StoreInv

LEMMA LinePut ==
  ASSUME NEW list \in Seq(Pairs), NEW seqs \in [Keys -> Seq(Nat)],
         \A k \in Keys : Represents(list, k, seqs[k]), NEW key \in Keys, NEW v \in Nat
  PROVE  LET after == Store!AddNode(list, key, v)
             then == [seqs EXCEPT ![key] = Append(seqs[key], v)]
         IN  /\ after \in Seq(Pairs) /\ then \in [Keys -> Seq(Nat)]
             /\ \A k \in Keys : Represents(after, k, then[k])
<1> DEFINE after == Store!AddNode(list, key, v)
           then == [seqs EXCEPT ![key] = Append(seqs[key], v)]
<1>1. after \in Seq(Pairs)
  BY DEF Store!AddNode, Pairs
<1>2. Append(seqs[key], v) \in Seq(Nat)
  OBVIOUS
<1>3. then \in [Keys -> Seq(Nat)]
  BY <1>2
<1>4. \A k \in Keys : then[k] = IF k = key THEN Append(seqs[k], v) ELSE seqs[k]
  OBVIOUS
<1> HIDE DEF then
<1>5. \A k \in Keys : Represents(after, k, then[k])
  BY <1>4, AtTheEnd
<1> QED BY <1>1, <1>3, <1>5 DEF then

\* Deleting the first value of a key that the list has.
LEMMA LineDel ==
  ASSUME NEW list \in Seq(Pairs), NEW seqs \in [Keys -> Seq(Nat)],
         \A k \in Keys : Represents(list, k, seqs[k]), NEW key \in Keys, seqs[key] # <<>>
  PROVE  LET after == Store!RemoveAt(list, Store!First(list, key))
             then == [seqs EXCEPT ![key] = Tail(seqs[key])]
         IN  /\ after \in Seq(Pairs) /\ then \in [Keys -> Seq(Nat)]
             /\ \A k \in Keys : Represents(after, k, then[k])
<1> DEFINE after == Store!RemoveAt(list, Store!First(list, key))
           then == [seqs EXCEPT ![key] = Tail(seqs[key])]
<1>1. seqs[key] \in Seq(Nat) /\ Tail(seqs[key]) \in Seq(Nat)
  BY TailElements
<1>2. then \in [Keys -> Seq(Nat)]
  BY <1>1
<1>3. \A k \in Keys : then[k] = IF k = key THEN Tail(seqs[key]) ELSE seqs[k]
  OBVIOUS
<1> HIDE DEF then
<1>4. ASSUME NEW k \in Keys
      PROVE  /\ after \in Seq(Pairs)
             /\ Represents(after, key, Tail(seqs[key]))
             /\ k # key => Represents(after, k, seqs[k])
  BY <1>1, WithoutFirst
<1>5. after \in Seq(Pairs)
  BY <1>4
<1>6. \A k \in Keys : Represents(after, k, then[k])
  BY <1>3, <1>4
<1> QED BY <1>2, <1>5, <1>6 DEF then

\* hashtable_del, of a table with at most one value for a key.
LEMMA TableDel ==
  ASSUME NEW list \in Seq(Pairs), NEW seqs \in [Keys -> Seq(Nat)],
         \A k \in Keys : Represents(list, k, seqs[k]), \A k \in Keys : Len(seqs[k]) <= 1,
         NEW key \in Keys
  PROVE  LET after == Store!TableDelete(list, key)
             then == [seqs EXCEPT ![key] = <<>>]
         IN  /\ after \in Seq(Pairs) /\ then \in [Keys -> Seq(Nat)]
             /\ \A k \in Keys : Represents(after, k, then[k]) /\ Len(then[k]) <= 1
<1> DEFINE after == Store!TableDelete(list, key)
           then == [seqs EXCEPT ![key] = <<>>]
<1>1. \A k \in Keys : then[k] = IF k = key THEN <<>> ELSE seqs[k]
  OBVIOUS
<1>2. then \in [Keys -> Seq(Nat)] /\ \A k \in Keys : Len(then[k]) <= 1
  OBVIOUS
<1>3. Store!First(list, key) = 0 <=> seqs[key] = <<>>
  BY FirstOfKey
<1>4. CASE seqs[key] = <<>>
  <2>1. after = list
    BY <1>3, <1>4 DEF Store!TableDelete
  <2>2. \A k \in Keys : then[k] = seqs[k]
    BY <1>1, <1>4
  <2> HIDE DEF after, then
  <2>3. \A k \in Keys : Represents(after, k, then[k])
    BY <2>1, <2>2
  <2> QED BY <1>2, <2>1, <2>3 DEF after, then
<1>5. CASE seqs[key] # <<>>
  <2>1. after = Store!RemoveAt(list, Store!First(list, key))
    BY <1>3, <1>5 DEF Store!TableDelete
  <2>2. Tail(seqs[key]) = <<>>
    <3> DEFINE s == seqs[key]
    <3>1. s \in Seq(Nat) /\ s # <<>> /\ Len(s) <= 1
      BY <1>5
    <3> HIDE DEF s
    <3> DEFINE r == Tail(s)
    <3>2. r \in Seq(Nat) /\ Len(s) \in Nat \ {0} /\ Len(r) = Len(s) - 1
      BY ONLY <3>1, TailElements
    <3>3. Tail(seqs[key]) = r
      BY DEF s
    <3> HIDE DEF r
    <3>4. Len(r) = 0
      BY ONLY <3>1, <3>2
    <3>5. r = <<>>
      BY ONLY <3>2, <3>4, EmptySeq
    <3> QED BY <3>3, <3>5
  <2>3. then = [seqs EXCEPT ![key] = Tail(seqs[key])]
    BY <2>2
  <2> HIDE DEF after, then
  <2>4. after \in Seq(Pairs) /\ \A k \in Keys : Represents(after, k, then[k])
    BY <1>5, <2>1, <2>3, LineDel
  <2> QED BY <1>2, <2>4 DEF after, then
<1> QED BY <1>4, <1>5

\* hashtable_add.
LEMMA TablePut ==
  ASSUME NEW list \in Seq(Pairs), NEW seqs \in [Keys -> Seq(Nat)],
         \A k \in Keys : Represents(list, k, seqs[k]), \A k \in Keys : Len(seqs[k]) <= 1,
         NEW key \in Keys, NEW v \in Nat
  PROVE  LET after == Store!TableAdd(list, key, v)
             then == [seqs EXCEPT ![key] = <<v>>]
         IN  /\ after \in Seq(Pairs) /\ then \in [Keys -> Seq(Nat)]
             /\ \A k \in Keys : Represents(after, k, then[k]) /\ Len(then[k]) <= 1
<1> DEFINE rest == Store!TableDelete(list, key)
           old == [seqs EXCEPT ![key] = <<>>]
           after == <<<<key, v>>>> \o rest
           then == [seqs EXCEPT ![key] = <<v>>]
<1>1. \A k \in Keys : old[k] = IF k = key THEN <<>> ELSE seqs[k]
  OBVIOUS
<1>2. \A k \in Keys : then[k] = IF k = key THEN <<v>> ELSE seqs[k]
  OBVIOUS
<1>3. then \in [Keys -> Seq(Nat)] /\ \A k \in Keys : Len(then[k]) <= 1
  OBVIOUS
<1>4. rest \in Seq(Pairs) /\ old \in [Keys -> Seq(Nat)] /\ \A k \in Keys : Represents(rest, k, old[k])
  BY TableDel
<1> HIDE DEF rest, old, then
<1>5. ASSUME NEW k \in Keys
      PROVE  after \in Seq(Pairs) /\ Represents(after, k, IF k = key THEN <<v>> ELSE old[k])
  BY <1>1, <1>4, AtTheFront
<1>6. \A k \in Keys : Represents(after, k, then[k])
  BY <1>1, <1>2, <1>5
<1>7. after \in Seq(Pairs)
  BY <1>5
<1> QED BY <1>3, <1>6, <1>7 DEF rest, then, Store!TableAdd

LEMMA EffectKeeps ==
  ASSUME StoreInv, LinesTyped', program' = program, NEW c \in Users, NEW l \in StoreLines,
         Store!Effect(c, l)
  PROVE  StoreInv'
<1> DEFINE d == Store!Where(c)
           list == lists[d]
           seqs == stored[d]
<1>1. d \in Users
  BY DEF Store!Where
<1>2. Store!Where(c) = d
  OBVIOUS
<1> HIDE DEF d
<1>3. list \in Seq(Pairs) /\ seqs \in [Keys -> Seq(Nat)]
  BY <1>1 DEF StoreInv, StoreTyped
<1>4. \A k \in Keys : Represents(list, k, seqs[k])
  BY <1>1 DEF StoreInv, AllRepresented
<1>5. program = "hash" => \A k \in Keys : Len(seqs[k]) <= 1
  BY <1>1 DEF StoreInv, OneOfEach
<1>6. /\ l.op = "PUT" => l.key \in Keys /\ l.value \in Nat
      /\ l.op = "DEL" => l.key \in Keys
  BY DEF StoreLines
<1>7. \/ /\ l.op = "PUT" /\ program = "Ej12"
         /\ Store!Stores(c, Store!AddNode(list, l.key, l.value),
                            [seqs EXCEPT ![l.key] = Append(seqs[l.key], l.value)])
      \/ /\ l.op = "PUT" /\ program = "hash"
         /\ Store!Stores(c, Store!TableAdd(list, l.key, l.value), [seqs EXCEPT ![l.key] = <<l.value>>])
      \/ /\ l.op = "DEL" /\ program = "Ej12" /\ ~Store!Crashes(list, l.key)
         /\ Store!Stores(c, Store!DelateNode(list, l.key),
              [seqs EXCEPT ![l.key] = IF seqs[l.key] = <<>> THEN seqs[l.key] ELSE Tail(seqs[l.key])])
      \/ /\ l.op = "DEL" /\ program = "hash"
         /\ Store!Stores(c, Store!TableDelete(list, l.key), [seqs EXCEPT ![l.key] = <<>>])
      \/ UNCHANGED <<lists, stored>>
  BY <1>2 DEF Store!Effect
<1> HIDE DEF list, seqs
<1>8. ASSUME NEW more \in Seq(Pairs), NEW then \in [Keys -> Seq(Nat)],
             \A k \in Keys : Represents(more, k, then[k]),
             program = "hash" => \A k \in Keys : Len(then[k]) <= 1,
             Store!Stores(c, more, then)
      PROVE  StoreInv'
  <2>1. lists' = [lists EXCEPT ![d] = more] /\ stored' = [stored EXCEPT ![d] = then]
    BY <1>2, <1>8 DEF Store!Stores
  <2> QED BY <1>1, <1>8, <2>1, ListChanges
<1>9. CASE /\ l.op = "PUT" /\ program = "Ej12"
           /\ Store!Stores(c, Store!AddNode(list, l.key, l.value),
                              [seqs EXCEPT ![l.key] = Append(seqs[l.key], l.value)])
  <2> DEFINE more == Store!AddNode(list, l.key, l.value)
             then == [seqs EXCEPT ![l.key] = Append(seqs[l.key], l.value)]
  <2>1. more \in Seq(Pairs) /\ then \in [Keys -> Seq(Nat)] /\ \A k \in Keys : Represents(more, k, then[k])
    BY <1>3, <1>4, <1>6, <1>9, LinePut
  <2>2. Store!Stores(c, more, then)
    BY <1>9
  <2> HIDE DEF more, then
  <2> QED BY <1>8, <1>9, <2>1, <2>2
<1>10. CASE /\ l.op = "PUT" /\ program = "hash"
            /\ Store!Stores(c, Store!TableAdd(list, l.key, l.value), [seqs EXCEPT ![l.key] = <<l.value>>])
  <2> DEFINE more == Store!TableAdd(list, l.key, l.value)
             then == [seqs EXCEPT ![l.key] = <<l.value>>]
  <2>1. more \in Seq(Pairs) /\ then \in [Keys -> Seq(Nat)] /\ \A k \in Keys : Represents(more, k, then[k])
    BY <1>3, <1>4, <1>5, <1>6, <1>10, TablePut
  <2>2. \A k \in Keys : Len(then[k]) <= 1
    BY <1>3, <1>4, <1>5, <1>6, <1>10, TablePut
  <2>3. Store!Stores(c, more, then)
    BY <1>10
  <2> HIDE DEF more, then
  <2> QED BY <1>8, <1>10, <2>1, <2>2, <2>3
<1>11. CASE /\ l.op = "DEL" /\ program = "Ej12" /\ ~Store!Crashes(list, l.key)
            /\ Store!Stores(c, Store!DelateNode(list, l.key),
                 [seqs EXCEPT ![l.key] = IF seqs[l.key] = <<>> THEN seqs[l.key] ELSE Tail(seqs[l.key])])
  <2>1. CASE seqs[l.key] = <<>>
    <3>1. Store!First(list, l.key) = 0
      BY <1>3, <1>4, <1>6, <1>11, <2>1, FirstOfKey
    <3>2. Store!DelateNode(list, l.key) = list
      BY <1>11, <3>1 DEF Store!Crashes, Store!DelateNode
    <3>3. [seqs EXCEPT ![l.key] = IF seqs[l.key] = <<>> THEN seqs[l.key] ELSE Tail(seqs[l.key])] = seqs
      BY <1>3, <2>1
    <3> QED BY <1>3, <1>4, <1>5, <1>8, <1>11, <3>2, <3>3
  <2>2. CASE seqs[l.key] # <<>>
    <3>1. Store!First(list, l.key) \in 1..Len(list)
      BY <1>3, <1>4, <1>6, <1>11, <2>2, FirstOfKey
    <3>2. Store!DelateNode(list, l.key) = Store!RemoveAt(list, Store!First(list, l.key))
      BY <3>1 DEF Store!DelateNode
    <3>3. [seqs EXCEPT ![l.key] = IF seqs[l.key] = <<>> THEN seqs[l.key] ELSE Tail(seqs[l.key])]
            = [seqs EXCEPT ![l.key] = Tail(seqs[l.key])]
      BY <2>2
    <3> DEFINE more == Store!RemoveAt(list, Store!First(list, l.key))
               then == [seqs EXCEPT ![l.key] = Tail(seqs[l.key])]
    <3>4. more \in Seq(Pairs) /\ then \in [Keys -> Seq(Nat)] /\ \A k \in Keys : Represents(more, k, then[k])
      BY <1>3, <1>4, <1>6, <1>11, <2>2, LineDel
    <3>5. Store!Stores(c, more, then)
      BY <1>11, <3>2, <3>3
    <3> HIDE DEF more, then
    <3> QED BY <1>8, <1>11, <3>4, <3>5
  <2> QED BY <2>1, <2>2
<1>12. CASE /\ l.op = "DEL" /\ program = "hash"
            /\ Store!Stores(c, Store!TableDelete(list, l.key), [seqs EXCEPT ![l.key] = <<>>])
  <2> DEFINE more == Store!TableDelete(list, l.key)
             then == [seqs EXCEPT ![l.key] = <<>>]
  <2>1. more \in Seq(Pairs) /\ then \in [Keys -> Seq(Nat)] /\ \A k \in Keys : Represents(more, k, then[k])
    BY <1>3, <1>4, <1>5, <1>6, <1>12, TableDel
  <2>2. \A k \in Keys : Len(then[k]) <= 1
    BY <1>3, <1>4, <1>5, <1>6, <1>12, TableDel
  <2>3. Store!Stores(c, more, then)
    BY <1>12
  <2> HIDE DEF more, then
  <2> QED BY <1>8, <1>12, <2>1, <2>2, <2>3
<1>13. CASE UNCHANGED <<lists, stored>>
  BY <1>13 DEF StoreInv, StoreTyped, AllRepresented, OneOfEach
<1> QED BY <1>7, <1>9, <1>10, <1>11, <1>12, <1>13

LEMMA LineHandled ==
  ASSUME StoreInv, NEW c \in Users, Store!HandleConn(c), program' = program, lines' = lines
  PROVE  StoreInv'
<1>1. line[c] \in StoreLines
  BY DEF StoreInv, StoreTyped, LinesTyped
<1>2. [op |-> "none"] \in StoreLines
  BY DEF StoreLines
<1>3. LinesTyped'
  BY <1>2 DEF StoreInv, StoreTyped, LinesTyped, Store!HandleConn, Store!NoLine
<1> QED BY <1>1, <1>3, EffectKeeps DEF Store!HandleConn

LEMMA StoreNext == StoreInv /\ [Store!NextK]_storeVars => StoreInv'
<1> SUFFICES ASSUME StoreInv, [Store!NextK]_storeVars PROVE StoreInv'
  OBVIOUS
<1>1. ASSUME UNCHANGED <<program, lists, stored>>, LinesTyped' PROVE StoreInv'
  BY <1>1 DEF StoreInv, StoreTyped, AllRepresented, OneOfEach
<1>2. ASSUME UNCHANGED <<program, lists, stored, line, lines>> PROVE StoreInv'
  BY <1>1, <1>2 DEF StoreInv, StoreTyped, LinesTyped
<1>3. CASE UNCHANGED storeVars
  BY <1>2, <1>3 DEF storeVars
<1>4. ASSUME NEW c \in Users, Store!Connect(c) \/ Store!Fork(c) PROVE StoreInv'
  BY <1>2, <1>4 DEF Store!Connect, Store!Fork
<1>5. ASSUME NEW c \in Users, Store!SendLine(c) PROVE StoreInv'
  <2>1. PICK l \in Store!Lines : line' = [line EXCEPT ![c] = l]
    BY <1>5 DEF Store!SendLine
  <2>2. lines \in Nat /\ lines + 1 \in Nat
    BY DEF StoreInv, StoreTyped, LinesTyped
  <2>3. l \in StoreLines
    BY <2>1, <2>2 DEF Store!Lines, StoreLines
  <2>4. LinesTyped'
    BY <1>5, <2>1, <2>2, <2>3 DEF StoreInv, StoreTyped, LinesTyped, Store!SendLine
  <2> QED BY <1>1, <1>5, <2>4 DEF Store!SendLine
<1>6. ASSUME NEW c \in Users, Store!Child(c) PROVE StoreInv'
  BY <1>6, LineHandled DEF Store!Child
<1>7. ASSUME NEW t \in Servers, Store!NextEvent(t) \/ Store!Accept(t) PROVE StoreInv'
  BY <1>2, <1>7 DEF Store!NextEvent, Store!Accept
<1>8. ASSUME NEW t \in Servers, Store!Serve(t) PROVE StoreInv'
  BY <1>8, LineHandled DEF Store!Serve
<1> QED BY <1>3, <1>4, <1>5, <1>6, <1>7, <1>8 DEF Store!NextK

LEMMA StoreFinds == StoreInv => FindsWhatIsStored
<1> SUFFICES ASSUME StoreInv, NEW c \in Users, NEW k \in Keys
             PROVE  LET found == stored[Store!Where(c)][k] IN
                    Store!FindValue(lists[Store!Where(c)], k)
                      = IF found = <<>> THEN Store!NotFound ELSE Head(found)
  BY DEF FindsWhatIsStored, Store!FindsWhatIsStored
<1> DEFINE d == Store!Where(c)
           list == lists[d]
           found == stored[d][k]
<1>1. d \in Users
  BY DEF Store!Where
<1> HIDE DEF d
<1>2. list \in Seq(Pairs) /\ found \in Seq(Nat) /\ Represents(list, k, found)
  BY <1>1 DEF StoreInv, StoreTyped, AllRepresented
<1> HIDE DEF list, found
<1>3. Store!FindValue(list, k) = IF found = <<>> THEN Store!NotFound ELSE Head(found)
  BY <1>2, FirstOfKey DEF Store!FindValue
<1> QED BY <1>3 DEF d, list, found

-----------------------------------------------------------------------------
(* Together.                                                                   *)

LEMMA StepsOfEach ==
  [NextC]_varsC => /\ [NextX]_varsX
                   /\ [Registry!Next]_registryVars
                   /\ [Tickets!NextS]_ticketVars
                   /\ [Store!NextK]_storeVars
                   /\ [Searches!NextF]_searchVars
BY DEF NextC, varsC, registryVars, ticketVars, storeVars, searchVars

InvC == TransferInv /\ RegistryInv /\ TicketInv /\ StoreInv /\ SearchInv

LEMMA InvCInit == InitC => InvC
BY TransferInit, RegistryInit, TicketInit, StoreInit, SearchInit DEF InitC, InvC

LEMMA InvCNext == InvC /\ [NextC]_varsC => InvC'
BY StepsOfEach, TransferNext, RegistryNext, TicketNext, StoreNext, SearchNext DEF InvC

LEMMA InvariantC == SpecC => []InvC
BY InvCInit, InvCNext, PTL DEF SpecC

\* RESOLUCION2: the list that a command works from was asked for as many
\* commands ago as there have been timeouts, no more and no fewer.
THEOREM TimeoutsDelay == SpecC => EveryTimeoutDelaysAnswers
<1> DEFINE Late == Registry!TakeList => shown'.command = asked - timeouts
<1>1. InvC /\ InvC' /\ [NextC]_varsC => [Late]_registryVars
  BY ListTaken DEF InvC, RegistryInv
<1> HIDE DEF Late
<1>2. SpecC => [][Late]_registryVars
  BY <1>1, InvariantC, PTL DEF SpecC
<1> QED BY <1>2 DEF Late, EveryTimeoutDelaysAnswers, Registry!EveryTimeoutDelaysAnswers,
                    Registry!vars, registryVars

\* The ticket servers: no two requests get one number from the process, or the
\* select loop, that counts alone.
THEOREM NumbersAreGivenOnce == SpecC => []NoNumberTwice
<1>1. InvC => NoNumberTwice
  BY NumbersOnce DEF InvC
<1> QED BY <1>1, InvariantC, PTL

\* The key-value servers: a GET finds the oldest value left of a key in the list
\* of a client (Ejercicio 12), and the last one put in the table that all share.
THEOREM GetFindsIt == SpecC => []FindsWhatIsStored
<1>1. InvC => FindsWhatIsStored
  BY StoreFinds DEF InvC
<1> QED BY <1>1, InvariantC, PTL

\* A search of RESOLUCION2 shows only lines that the nodes have sent for it, one
\* of Resolucion3 or MARIO may show those of an earlier search; and when every
\* answer is in time, the first two show them all and MARIO the first of each
\* node.
THEOREM SearchesShow == SpecC => []SearchShowsWhatIsShared
<1>1. InvC => SearchShowsWhatIsShared
  BY SearchShows DEF InvC
<1> QED BY <1>1, InvariantC, PTL

\* What a download leaves is the file, in each project as far as it saves it:
\* whatever the sizes of the file and of a chunk, and wherever the connection
\* breaks.
THEOREM DownloadsSave == SpecC => []WhatIsSaved
<1>1. InvC => WhatIsSaved
  BY TransferSaves DEF InvC
<1> QED BY <1>1, InvariantC, PTL

=============================================================================
