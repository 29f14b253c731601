------------------------ MODULE NameRegistrationProofs ------------------------
(* Invariants of NameRegistration, for any number of nodes and of names, any   *)
(* length of the mailboxes and every setting of the flags.                     *)
EXTENDS NameRegistration, Lemmas

\* A process past start_request has drawn its name.
HasDrawn == \A n \in Nodes : phase[n] # "begin" => id[n] \in Ids

TypeInv == TypeOK /\ HasDrawn

-----------------------------------------------------------------------------
(* What each kind of step does to the contents of the mailboxes.               *)

LEMMA BroadcastEffect ==
  ASSUME TypeOK, NEW kind \in {"NAME_REQUEST", "HELLO"}, NEW i \in Ids, NEW n \in Nodes,
         Broadcast(kind, i, n)
  PROVE  /\ mbox' \in [Nodes -> Seq(Message)]
         /\ \A m \in Nodes :
              /\ ToSet(mbox[m]) \subseteq ToSet(mbox'[m])
              /\ ToSet(mbox'[m]) \subseteq ToSet(mbox[m]) \cup {Datagram("listen", kind, i, n)}
<1> DEFINE d == Datagram("listen", kind, i, n)
<1>1. d \in Message
  BY DEF Datagram, Message
<1>2. PICK heard \in SUBSET Listening :
        mbox' = [m \in Nodes |-> IF m \in heard THEN Append(mbox[m], d) ELSE mbox[m]]
  BY DEF Broadcast
<1> HIDE DEF d
<1>3. ASSUME NEW m \in Nodes
      PROVE  /\ mbox'[m] \in Seq(Message)
             /\ ToSet(mbox[m]) \subseteq ToSet(mbox'[m])
             /\ ToSet(mbox'[m]) \subseteq ToSet(mbox[m]) \cup {d}
  <2>1. mbox[m] \in Seq(Message)
    BY DEF TypeOK
  <2>2. /\ Append(mbox[m], d) \in Seq(Message)
        /\ ToSet(Append(mbox[m], d)) = ToSet(mbox[m]) \cup {d}
    BY <2>1, <1>1, ToSetOfAppend
  <2>3. mbox'[m] = IF m \in heard THEN Append(mbox[m], d) ELSE mbox[m]
    BY <1>2
  <2> QED BY <2>1, <2>2, <2>3
<1>4. mbox' \in [Nodes -> Seq(Message)]
  BY <1>2, <1>3
<1> QED BY <1>3, <1>4 DEF d

\* A listener takes one datagram out of its mailbox and leaves the rest.
LEMMA TakeEffect ==
  ASSUME TypeOK, NEW n \in Nodes, NEW k \in 1..Len(mbox[n]),
         mbox' = [mbox EXCEPT ![n] = RemoveAt(@, k)]
  PROVE  /\ mbox' \in [Nodes -> Seq(Message)]
         /\ mbox[n][k] \in Message
         /\ mbox[n][k] \in ToSet(mbox[n])
         /\ \A m \in Nodes : ToSet(mbox'[m]) \subseteq ToSet(mbox[m])
         /\ ToSet(mbox[n]) \subseteq ToSet(mbox'[n]) \cup {mbox[n][k]}
         /\ \A m \in Nodes \ {n} : mbox'[m] = mbox[m]
<1>1. mbox \in [Nodes -> Seq(Message)] /\ mbox[n] \in Seq(Message)
  BY DEF TypeOK
<1>2. /\ RemoveAt(mbox[n], k) \in Seq(Message)
      /\ ToSet(RemoveAt(mbox[n], k)) \subseteq ToSet(mbox[n])
      /\ ToSet(mbox[n]) \subseteq ToSet(RemoveAt(mbox[n], k)) \cup {mbox[n][k]}
  BY <1>1, ToSetOfRemoveAt
<1>3. mbox'[n] = RemoveAt(mbox[n], k) /\ \A m \in Nodes \ {n} : mbox'[m] = mbox[m]
  BY <1>1
<1>4. mbox[n][k] \in Message /\ mbox[n][k] \in ToSet(mbox[n])
  BY <1>1 DEF ToSet
<1>5. mbox' \in [Nodes -> Seq(Message)]
  BY <1>1, <1>2
<1> QED BY <1>2, <1>3, <1>4, <1>5

\* handle_request takes the head of its mailbox and may put one INVALID_NAME
\* into the asker's.
LEMMA AnswerEffect ==
  ASSUME TypeOK, NEW n \in Nodes, Answer(n)
  PROVE  /\ mbox[n] # <<>> /\ Head(mbox[n]) \in ToSet(mbox[n]) /\ Head(mbox[n]) \in Message
         /\ query[n] \in [id : Ids, from : Nodes]
         /\ mbox' \in [Nodes -> Seq(Message)]
         /\ \A m \in Nodes : ToSet(mbox'[m]) \subseteq ToSet(mbox[m])
              \cup {msg \in {Datagram("request", "INVALID_NAME", query[n].id, n)} :
                       query[n].id \in NodesSeen(Head(mbox[n]))}
         /\ \A m \in Nodes \ {n} : ToSet(mbox[m]) \subseteq ToSet(mbox'[m])
<1> DEFINE d == Datagram("request", "INVALID_NAME", query[n].id, n)
           rest == [mbox EXCEPT ![n] = Tail(@)]
           objects == query[n].id \in NodesSeen(Head(mbox[n]))
           asker == query[n].from
<1>1. query[n] \in [id : Ids, from : Nodes] /\ asker \in Nodes
  BY DEF Answer, Serving, TypeOK
<1>2. d \in Message
  BY <1>1 DEF Datagram, Message
<1>3. /\ mbox[n] # <<>> /\ mbox \in [Nodes -> Seq(Message)]
      /\ \/ objects /\ mbox' = [rest EXCEPT ![asker] = Append(@, d)]
         \/ mbox' = rest
  BY DEF Answer, TypeOK
<1> HIDE DEF d, objects
<1>4. /\ Head(mbox[n]) \in Message /\ Tail(mbox[n]) \in Seq(Message)
      /\ Head(mbox[n]) \in ToSet(mbox[n])
      /\ ToSet(Tail(mbox[n])) \subseteq ToSet(mbox[n])
  BY <1>3, ToSetOfTail
<1>5. /\ rest \in [Nodes -> Seq(Message)]
      /\ \A m \in Nodes : ToSet(rest[m]) \subseteq ToSet(mbox[m])
      /\ \A m \in Nodes \ {n} : rest[m] = mbox[m]
  BY <1>3, <1>4
<1> HIDE DEF rest
<1>6. CASE mbox' = rest
  BY <1>1, <1>3, <1>4, <1>5, <1>6
<1>7. CASE objects /\ mbox' = [rest EXCEPT ![asker] = Append(@, d)]
  <2>1. /\ Append(rest[asker], d) \in Seq(Message)
        /\ ToSet(Append(rest[asker], d)) = ToSet(rest[asker]) \cup {d}
    BY <1>1, <1>2, <1>5, ToSetOfAppend
  <2>2. mbox'[asker] = Append(rest[asker], d) /\ \A m \in Nodes \ {asker} : mbox'[m] = rest[m]
    BY <1>1, <1>5, <1>7
  <2>3. mbox' \in [Nodes -> Seq(Message)]
    BY <2>1, <1>5, <1>7
  <2>4. \A m \in Nodes : /\ ToSet(mbox'[m]) \subseteq ToSet(rest[m]) \cup {d}
                         /\ ToSet(rest[m]) \subseteq ToSet(mbox'[m])
    BY <2>1, <2>2
  <2>5. {msg \in {d} : objects} = {d}
    BY <1>7
  <2>6. \A m \in Nodes : ToSet(mbox'[m]) \subseteq ToSet(mbox[m]) \cup {msg \in {d} : objects}
    BY <2>4, <2>5, <1>5
  <2> QED BY <1>1, <1>3, <1>4, <1>5, <2>3, <2>4, <2>6 DEF d, objects
<1> QED BY <1>3, <1>6, <1>7

\* node_registry takes one call; a get_all_nodes puts a list into the mailbox.
LEMMA RegistryEffect ==
  ASSUME TypeOK, NEW n \in Nodes, RegistryStep(n)
  PROVE  /\ rmbox[n] # <<>> /\ Head(rmbox[n]) \in Calls /\ Head(rmbox[n]) \in ToSet(rmbox[n])
         /\ rmbox' \in [Nodes -> Seq(Calls)]
         /\ \A m \in Nodes : ToSet(rmbox'[m]) \subseteq ToSet(rmbox[m])
         /\ ToSet(rmbox[n]) \subseteq ToSet(rmbox'[n]) \cup {Head(rmbox[n])}
         /\ \A m \in Nodes \ {n} : rmbox'[m] = rmbox[m]
<1>1. rmbox[n] # <<>> /\ rmbox \in [Nodes -> Seq(Calls)] /\ rmbox' = [rmbox EXCEPT ![n] = Tail(@)]
  BY DEF RegistryStep, TypeOK
<1>2. /\ Head(rmbox[n]) \in Calls /\ Tail(rmbox[n]) \in Seq(Calls)
      /\ Head(rmbox[n]) \in ToSet(rmbox[n])
      /\ ToSet(Tail(rmbox[n])) \subseteq ToSet(rmbox[n])
      /\ ToSet(rmbox[n]) \subseteq ToSet(Tail(rmbox[n])) \cup {Head(rmbox[n])}
  BY <1>1, ToSetOfTail
<1> QED BY <1>1, <1>2

LEMMA RegistryReply ==
  ASSUME TypeOK, NEW n \in Nodes, mbox' = [mbox EXCEPT ![n] = Append(@, NodeList(registry[n]))]
  PROVE  /\ mbox' \in [Nodes -> Seq(Message)]
         /\ ToSet(mbox'[n]) = ToSet(mbox[n]) \cup {NodeList(registry[n])}
         /\ \A m \in Nodes \ {n} : mbox'[m] = mbox[m]
<1>1. mbox \in [Nodes -> Seq(Message)] /\ NodeList(registry[n]) \in Message
  BY DEF TypeOK, NodeList, Message
<1>2. /\ Append(mbox[n], NodeList(registry[n])) \in Seq(Message)
      /\ ToSet(Append(mbox[n], NodeList(registry[n]))) = ToSet(mbox[n]) \cup {NodeList(registry[n])}
  BY <1>1, ToSetOfAppend
<1> QED BY <1>1, <1>2

\* A handler adds calls to the registry's mailbox.
LEMMA CallEffect ==
  ASSUME NEW s \in Seq(Calls), NEW c1 \in Calls, NEW c2 \in Calls
  PROVE  /\ Append(Append(s, c1), c2) \in Seq(Calls)
         /\ ToSet(Append(Append(s, c1), c2)) = ToSet(s) \cup {c1, c2}
         /\ Append(s, c1) \in Seq(Calls)
         /\ ToSet(Append(s, c1)) = ToSet(s) \cup {c1}
<1>1. Append(s, c1) \in Seq(Calls) /\ ToSet(Append(s, c1)) = ToSet(s) \cup {c1}
  BY ToSetOfAppend
<1>2. ASSUME NEW t \in Seq(Calls)
      PROVE  Append(t, c2) \in Seq(Calls) /\ ToSet(Append(t, c2)) = ToSet(t) \cup {c2}
  BY ToSetOfAppend
<1> DEFINE t1 == Append(s, c1)
<1> HIDE DEF t1
<1>3. Append(t1, c2) \in Seq(Calls) /\ ToSet(Append(t1, c2)) = ToSet(t1) \cup {c2}
  BY <1>1, <1>2 DEF t1
<1>4. ToSet(Append(t1, c2)) = ToSet(s) \cup {c1, c2}
  BY <1>1, <1>3 DEF t1
<1> QED BY <1>1, <1>3, <1>4 DEF t1

-----------------------------------------------------------------------------
(* Types.  HasDrawn is what makes the name of a HELLO a name.                  *)

LEMMA TypeInvInit == Init => TypeInv
<1> SUFFICES ASSUME Init PROVE TypeInv
  OBVIOUS
<1>1. <<>> \in Seq(Message) /\ <<>> \in Seq(Calls)
  OBVIOUS
<1> QED BY <1>1, NetworksAssumption DEF Init, TypeInv, TypeOK, HasDrawn

LEMMA TypeInvNext == TypeInv /\ [Next]_vars => TypeInv'
<1> SUFFICES ASSUME TypeInv, [Next]_vars PROVE TypeInv'
  OBVIOUS
<1> USE DEF TypeInv
<1>1. ASSUME NEW n \in Nodes, RequestName(n) PROVE TypeInv'
  <2>1. PICK i \in Ids : id' = [id EXCEPT ![n] = i] /\ Broadcast("NAME_REQUEST", i, n)
    BY <1>1 DEF RequestName
  <2>2. mbox' \in [Nodes -> Seq(Message)]
    BY <2>1, BroadcastEffect
  <2> QED BY <1>1, <2>1, <2>2 DEF RequestName, TypeOK, HasDrawn
<1>2. ASSUME NEW n \in Nodes, Refused(n) PROVE TypeInv'
  <2>1. mbox[n] \in Seq(Message) /\ mbox[n] # <<>>
    BY <1>2 DEF Refused, TypeOK
  <2>2. Tail(mbox[n]) \in Seq(Message)
    BY <2>1, ToSetOfTail
  <2> QED BY <1>2, <2>2 DEF Refused, TypeOK, HasDrawn
<1>3. ASSUME NEW n \in Nodes, Accepted(n) PROVE TypeInv'
  BY <1>3 DEF Accepted, TypeOK, HasDrawn
<1>4. ASSUME NEW n \in Nodes, StartListener(n) PROVE TypeInv'
  BY <1>4 DEF StartListener, TypeOK, HasDrawn
<1>5. ASSUME NEW n \in Nodes, SayHello(n) PROVE TypeInv'
  <2>1. id[n] \in Ids /\ Broadcast("HELLO", id[n], n)
    BY <1>5 DEF SayHello, Registered, HasDrawn
  <2>2. mbox' \in [Nodes -> Seq(Message)]
    BY <2>1, BroadcastEffect
  <2> QED BY <1>5, <2>2 DEF SayHello, TypeOK, HasDrawn
<1>6. ASSUME NEW n \in Nodes, HandleHello(n) PROVE TypeInv'
  <2>1. PICK k \in 1..Len(mbox[n]) :
          /\ mbox[n][k].kind = "HELLO"
          /\ mbox' = [mbox EXCEPT ![n] = RemoveAt(@, k)]
          /\ rmbox' = [rmbox EXCEPT ![n] =
                 Append(Append(@, RegistryCall("remove_node", mbox[n][k].id)),
                        RegistryCall("add_node", mbox[n][k].id))]
    BY <1>6 DEF HandleHello
  <2>2. mbox' \in [Nodes -> Seq(Message)] /\ mbox[n][k] \in Message
    BY <2>1, TakeEffect
  <2>3. mbox[n][k].id \in Ids
    BY <2>1, <2>2 DEF Message
  <2>4. rmbox' \in [Nodes -> Seq(Calls)]
    <3>1. rmbox[n] \in Seq(Calls) /\ RegistryCall("remove_node", mbox[n][k].id) \in Calls
          /\ RegistryCall("add_node", mbox[n][k].id) \in Calls
      BY <2>3 DEF TypeOK, RegistryCall, Calls
    <3>2. Append(Append(rmbox[n], RegistryCall("remove_node", mbox[n][k].id)),
                 RegistryCall("add_node", mbox[n][k].id)) \in Seq(Calls)
      BY <3>1, CallEffect
    <3> QED BY <2>1, <3>2 DEF TypeOK
  <2> QED BY <1>6, <2>2, <2>4 DEF HandleHello, TypeOK, HasDrawn
<1>7. ASSUME NEW n \in Nodes, HandleNameRequest(n) PROVE TypeInv'
  <2>1. PICK k \in 1..Len(mbox[n]) :
          /\ mbox[n][k].kind = "NAME_REQUEST"
          /\ mbox' = [mbox EXCEPT ![n] = RemoveAt(@, k)]
          /\ query' = [query EXCEPT ![n] = [id |-> mbox[n][k].id, from |-> mbox[n][k].from]]
    BY <1>7 DEF HandleNameRequest
  <2>2. mbox' \in [Nodes -> Seq(Message)] /\ mbox[n][k] \in Message
    BY <2>1, TakeEffect
  <2>3. mbox[n][k].id \in Ids /\ mbox[n][k].from \in Nodes
    BY <2>1, <2>2 DEF Message
  <2>4. query' \in [Nodes -> [id : Ids, from : Nodes] \cup {NoQuery}]
    BY <2>1, <2>3 DEF TypeOK
  <2>5. rmbox' \in [Nodes -> Seq(Calls)]
    <3>1. rmbox[n] \in Seq(Calls) /\ RegistryCall("get_all_nodes", NoId) \in Calls
      BY DEF TypeOK, RegistryCall, Calls
    <3>2. Append(rmbox[n], RegistryCall("get_all_nodes", NoId)) \in Seq(Calls)
      BY <3>1, CallEffect
    <3> QED BY <1>7, <3>2 DEF TypeOK, HandleNameRequest
  <2> QED BY <1>7, <2>2, <2>4, <2>5 DEF HandleNameRequest, TypeOK, HasDrawn
<1>8. ASSUME NEW n \in Nodes, Answer(n) PROVE TypeInv'
  <2>1. mbox' \in [Nodes -> Seq(Message)]
    BY <1>8, AnswerEffect
  <2> QED BY <1>8, <2>1 DEF Answer, TypeOK, HasDrawn
<1>9. ASSUME NEW n \in Nodes, RegistryStep(n) PROVE TypeInv'
  <2>1. rmbox' \in [Nodes -> Seq(Calls)] /\ Head(rmbox[n]) \in Calls
    BY <1>9, RegistryEffect
  <2>2. CASE /\ Head(rmbox[n]).op = "add_node"
             /\ registry' = [registry EXCEPT ![n] = @ \cup {Head(rmbox[n]).id}]
             /\ UNCHANGED mbox
    <3>1. Head(rmbox[n]).id \in Ids
      BY <2>1, <2>2 DEF Calls
    <3> QED BY <1>9, <2>1, <2>2, <3>1 DEF RegistryStep, TypeOK, HasDrawn
  <2>3. CASE /\ registry' = [registry EXCEPT ![n] = @ \ {Head(rmbox[n]).id}]
             /\ UNCHANGED mbox
    BY <1>9, <2>1, <2>3 DEF RegistryStep, TypeOK, HasDrawn
  <2>4. CASE /\ mbox' = [mbox EXCEPT ![n] = Append(@, NodeList(registry[n]))]
             /\ UNCHANGED registry
    <3>1. mbox' \in [Nodes -> Seq(Message)]
      BY <2>4, RegistryReply
    <3> QED BY <1>9, <2>1, <2>4, <3>1 DEF RegistryStep, TypeOK, HasDrawn
  <2> QED BY <1>9, <2>2, <2>3, <2>4 DEF RegistryStep
<1>10. CASE UNCHANGED vars
  BY <1>10 DEF vars, TypeOK, HasDrawn
<1> QED BY <1>1, <1>2, <1>3, <1>4, <1>5, <1>6, <1>7, <1>8, <1>9, <1>10 DEF Next

\* The types of NameRegistration's variables, whatever the network.
THEOREM Typing == Spec => []TypeOK
<1>1. TypeInv => TypeOK
  BY DEF TypeInv
<1> QED BY <1>1, TypeInvInit, TypeInvNext, PTL DEF Spec

-----------------------------------------------------------------------------
(* Whose names are known.                                                      *)

\* A node that finished its registration keeps its name.
LEMMA OwnedForever ==
  ASSUME TypeInv, [Next]_vars, NEW i, Owned(i)
  PROVE  Owned(i)'
<1>1. PICK m \in Nodes : Registered(m) /\ id[m] = i
  BY DEF Owned
<1>2. phase'[m] \in {"registered", "up"} /\ id'[m] = i
  <2> USE <1>1 DEF Registered, TypeInv, TypeOK
  <2>1. ASSUME NEW n \in Nodes, RequestName(n) PROVE phase'[m] \in {"registered", "up"} /\ id'[m] = i
    BY <2>1 DEF RequestName
  <2>2. ASSUME NEW n \in Nodes, Refused(n) PROVE phase'[m] \in {"registered", "up"} /\ id'[m] = i
    BY <2>2 DEF Refused
  <2>3. ASSUME NEW n \in Nodes, Accepted(n) PROVE phase'[m] \in {"registered", "up"} /\ id'[m] = i
    BY <2>3 DEF Accepted
  <2>4. ASSUME NEW n \in Nodes, StartListener(n) PROVE phase'[m] \in {"registered", "up"} /\ id'[m] = i
    BY <2>4 DEF StartListener
  <2>5. ASSUME NEW n \in Nodes,
               SayHello(n) \/ HandleHello(n) \/ HandleNameRequest(n) \/ Answer(n) \/ RegistryStep(n)
        PROVE  phase'[m] \in {"registered", "up"} /\ id'[m] = i
    BY <2>5 DEF SayHello, HandleHello, HandleNameRequest, Answer, RegistryStep
  <2>6. CASE UNCHANGED vars
    BY <2>6 DEF vars
  <2> QED BY <2>1, <2>2, <2>3, <2>4, <2>5, <2>6 DEF Next
<1> QED BY <1>2 DEF Owned, Registered

\* KnownNamesAreOwned, one message, one call and one registry at a time.
MessageOwned(msg) ==
  /\ msg.kind = "list" => \A i \in msg.nodes : Owned(i)
  /\ msg.kind \in {"HELLO", "INVALID_NAME"} => Owned(msg.id)
CallOwned(c) == c.op = "add_node" => Owned(c.id)

LEMMA KnownInit == Init => KnownNamesAreOwned
BY ToSetOfEmpty DEF Init, KnownNamesAreOwned

\* What was already there stays owned, so only what a step adds matters.
LEMMA KnownStep ==
  ASSUME TypeInv, KnownNamesAreOwned, [Next]_vars,
         \A n \in Nodes : \A i \in registry'[n] : i \in registry[n] \/ Owned(i)',
         \A n \in Nodes : \A msg \in ToSet(mbox'[n]) : msg \in ToSet(mbox[n]) \/ MessageOwned(msg)',
         \A n \in Nodes : \A c \in ToSet(rmbox'[n]) : c \in ToSet(rmbox[n]) \/ CallOwned(c)'
  PROVE  KnownNamesAreOwned'
<1>1. ASSUME NEW i, Owned(i) PROVE Owned(i)'
  BY <1>1, OwnedForever
<1>2. ASSUME NEW n \in Nodes, NEW i \in registry'[n] PROVE Owned(i)'
  BY <1>1 DEF KnownNamesAreOwned
<1>3. ASSUME NEW n \in Nodes, NEW msg \in ToSet(mbox'[n]) PROVE MessageOwned(msg)'
  <2>1. CASE msg \in ToSet(mbox[n])
    <3>1. MessageOwned(msg)
      BY <2>1 DEF KnownNamesAreOwned, MessageOwned
    <3> QED BY <3>1, <1>1 DEF MessageOwned
  <2> QED BY <2>1
<1>4. ASSUME NEW n \in Nodes, NEW c \in ToSet(rmbox'[n]) PROVE CallOwned(c)'
  <2>1. CASE c \in ToSet(rmbox[n])
    <3>1. CallOwned(c)
      BY <2>1 DEF KnownNamesAreOwned, CallOwned
    <3> QED BY <3>1, <1>1 DEF CallOwned
  <2> QED BY <2>1
<1> QED BY <1>2, <1>3, <1>4 DEF KnownNamesAreOwned, MessageOwned, CallOwned

LEMMA KnownNext == TypeInv /\ KnownNamesAreOwned /\ [Next]_vars => KnownNamesAreOwned'
<1> SUFFICES ASSUME TypeInv, KnownNamesAreOwned, [Next]_vars PROVE KnownNamesAreOwned'
  OBVIOUS
<1> USE DEF TypeInv
<1>1. ASSUME NEW n \in Nodes, RequestName(n) PROVE KnownNamesAreOwned'
  <2>1. PICK i \in Ids : Broadcast("NAME_REQUEST", i, n)
    BY <1>1 DEF RequestName
  <2>2. \A m \in Nodes : ToSet(mbox'[m]) \subseteq
                          ToSet(mbox[m]) \cup {Datagram("listen", "NAME_REQUEST", i, n)}
    BY <2>1, BroadcastEffect
  <2>3. MessageOwned(Datagram("listen", "NAME_REQUEST", i, n))'
    BY DEF MessageOwned, Datagram
  <2> QED BY <1>1, <2>2, <2>3, KnownStep DEF RequestName
<1>2. ASSUME NEW n \in Nodes, Refused(n) PROVE KnownNamesAreOwned'
  <2>1. mbox[n] \in Seq(Message) /\ mbox[n] # <<>>
    BY <1>2 DEF Refused, TypeOK
  <2>2. ToSet(Tail(mbox[n])) \subseteq ToSet(mbox[n])
    BY <2>1, ToSetOfTail
  <2>3. \A m \in Nodes : ToSet(mbox'[m]) \subseteq ToSet(mbox[m])
    BY <1>2, <2>2 DEF Refused, TypeOK
  <2> QED BY <1>2, <2>3, KnownStep DEF Refused
<1>3. ASSUME NEW n \in Nodes, Accepted(n) \/ StartListener(n) PROVE KnownNamesAreOwned'
  BY <1>3, KnownStep DEF Accepted, StartListener
<1>4. ASSUME NEW n \in Nodes, SayHello(n) PROVE KnownNamesAreOwned'
  <2>1. id[n] \in Ids /\ Broadcast("HELLO", id[n], n) /\ Registered(n)
    BY <1>4 DEF SayHello, Registered, HasDrawn
  <2>2. \A m \in Nodes : ToSet(mbox'[m]) \subseteq
                          ToSet(mbox[m]) \cup {Datagram("listen", "HELLO", id[n], n)}
    BY <2>1, BroadcastEffect
  <2>3. Owned(id[n])
    BY <2>1 DEF Owned
  <2>4. PICK i \in Ids : i = id[n]
    BY <2>1
  <2>5. Owned(i)'
    BY <2>3, <2>4, OwnedForever
  <2>6. MessageOwned(Datagram("listen", "HELLO", i, n))'
    BY <2>5 DEF MessageOwned, Datagram
  <2> QED BY <1>4, <2>2, <2>4, <2>6, KnownStep DEF SayHello
<1>5. ASSUME NEW n \in Nodes, HandleHello(n) PROVE KnownNamesAreOwned'
  <2>1. PICK k \in 1..Len(mbox[n]) :
          /\ mbox[n][k].kind = "HELLO"
          /\ mbox' = [mbox EXCEPT ![n] = RemoveAt(@, k)]
          /\ rmbox' = [rmbox EXCEPT ![n] =
                 Append(Append(@, RegistryCall("remove_node", mbox[n][k].id)),
                        RegistryCall("add_node", mbox[n][k].id))]
    BY <1>5 DEF HandleHello
  <2>2. /\ \A m \in Nodes : ToSet(mbox'[m]) \subseteq ToSet(mbox[m])
        /\ mbox[n][k] \in Message /\ mbox[n][k] \in ToSet(mbox[n])
    BY <2>1, TakeEffect
  <2>3. PICK i \in Ids : i = mbox[n][k].id /\ Owned(i)
    BY <2>1, <2>2 DEF Message, KnownNamesAreOwned
  <2>4. Owned(i)'
    BY <2>3, OwnedForever
  <2>5. rmbox \in [Nodes -> Seq(Calls)] /\ RegistryCall("remove_node", i) \in Calls
        /\ RegistryCall("add_node", i) \in Calls
    BY <2>3 DEF TypeOK, RegistryCall, Calls
  <2>6. ToSet(Append(Append(rmbox[n], RegistryCall("remove_node", i)), RegistryCall("add_node", i)))
          = ToSet(rmbox[n]) \cup {RegistryCall("remove_node", i), RegistryCall("add_node", i)}
    BY <2>5, CallEffect
  <2>7. \A m \in Nodes : ToSet(rmbox'[m]) \subseteq
           ToSet(rmbox[m]) \cup {RegistryCall("remove_node", i), RegistryCall("add_node", i)}
    BY <2>1, <2>3, <2>5, <2>6
  <2>8. \A c \in {RegistryCall("remove_node", i), RegistryCall("add_node", i)} : CallOwned(c)'
    BY <2>4 DEF CallOwned, RegistryCall
  <2> QED BY <1>5, <2>2, <2>7, <2>8, KnownStep DEF HandleHello
<1>6. ASSUME NEW n \in Nodes, HandleNameRequest(n) PROVE KnownNamesAreOwned'
  <2>1. PICK k \in 1..Len(mbox[n]) : mbox' = [mbox EXCEPT ![n] = RemoveAt(@, k)]
    BY <1>6 DEF HandleNameRequest
  <2>2. \A m \in Nodes : ToSet(mbox'[m]) \subseteq ToSet(mbox[m])
    BY <2>1, TakeEffect
  <2>3. rmbox \in [Nodes -> Seq(Calls)] /\ RegistryCall("get_all_nodes", NoId) \in Calls
    BY DEF TypeOK, RegistryCall, Calls
  <2>4. ToSet(Append(rmbox[n], RegistryCall("get_all_nodes", NoId)))
          = ToSet(rmbox[n]) \cup {RegistryCall("get_all_nodes", NoId)}
    BY <2>3, CallEffect
  <2>5. \A m \in Nodes : ToSet(rmbox'[m]) \subseteq
           ToSet(rmbox[m]) \cup {RegistryCall("get_all_nodes", NoId)}
    BY <1>6, <2>3, <2>4 DEF HandleNameRequest
  <2>6. CallOwned(RegistryCall("get_all_nodes", NoId))'
    BY DEF CallOwned, RegistryCall
  <2> QED BY <1>6, <2>2, <2>5, <2>6, KnownStep DEF HandleNameRequest
<1>7. ASSUME NEW n \in Nodes, Answer(n) PROVE KnownNamesAreOwned'
  <2>1. /\ Head(mbox[n]) \in ToSet(mbox[n])
        /\ \A m \in Nodes : ToSet(mbox'[m]) \subseteq ToSet(mbox[m])
             \cup {msg \in {Datagram("request", "INVALID_NAME", query[n].id, n)} :
                      query[n].id \in NodesSeen(Head(mbox[n]))}
    BY <1>7, AnswerEffect
  <2>a. PICK i : i = query[n].id
    OBVIOUS
  <2>2. ASSUME i \in NodesSeen(Head(mbox[n])) PROVE Owned(i)
    BY <2>1, <2>2 DEF KnownNamesAreOwned, NodesSeen
  <2>3. ASSUME i \in NodesSeen(Head(mbox[n])) PROVE MessageOwned(Datagram("request", "INVALID_NAME", i, n))'
    <3>1. Owned(i)'
      BY <2>2, <2>3, OwnedForever
    <3> QED BY <3>1 DEF MessageOwned, Datagram
  <2>4. \A m \in Nodes : \A msg \in ToSet(mbox'[m]) : msg \in ToSet(mbox[m]) \/ MessageOwned(msg)'
    BY <2>1, <2>3, <2>a
  <2> QED BY <1>7, <2>4, KnownStep DEF Answer
<1>8. ASSUME NEW n \in Nodes, RegistryStep(n) PROVE KnownNamesAreOwned'
  <2>1. /\ Head(rmbox[n]) \in ToSet(rmbox[n])
        /\ \A m \in Nodes : ToSet(rmbox'[m]) \subseteq ToSet(rmbox[m])
    BY <1>8, RegistryEffect
  <2>2. CASE /\ Head(rmbox[n]).op = "add_node"
             /\ registry' = [registry EXCEPT ![n] = @ \cup {Head(rmbox[n]).id}]
             /\ UNCHANGED mbox
    <3>1. PICK i : i = Head(rmbox[n]).id /\ Owned(i)
      BY <2>1, <2>2 DEF KnownNamesAreOwned
    <3>2. Owned(i)'
      BY <3>1, OwnedForever
    <3>3. \A m \in Nodes : registry'[m] \subseteq registry[m] \cup {i}
      BY <2>2, <3>1 DEF TypeOK
    <3> QED BY <2>1, <2>2, <3>2, <3>3, KnownStep
  <2>3. CASE /\ registry' = [registry EXCEPT ![n] = @ \ {Head(rmbox[n]).id}]
             /\ UNCHANGED mbox
    <3>1. \A m \in Nodes : registry'[m] \subseteq registry[m]
      BY <2>3 DEF TypeOK
    <3> QED BY <2>1, <2>3, <3>1, KnownStep
  <2>4. CASE /\ mbox' = [mbox EXCEPT ![n] = Append(@, NodeList(registry[n]))]
             /\ UNCHANGED registry
    <3>1. PICK names : names = registry[n] /\ \A i \in names : Owned(i)
      BY DEF KnownNamesAreOwned
    <3>2. \A m \in Nodes : ToSet(mbox'[m]) \subseteq ToSet(mbox[m]) \cup {NodeList(names)}
      BY <2>4, <3>1, RegistryReply
    <3>3. \A i \in names : Owned(i)'
      BY <3>1, OwnedForever
    <3>4. MessageOwned(NodeList(names))'
      BY <3>3 DEF MessageOwned, NodeList
    <3> QED BY <2>1, <2>4, <3>2, <3>4, KnownStep
  <2> QED BY <1>8, <2>2, <2>3, <2>4 DEF RegistryStep
<1>9. CASE UNCHANGED vars
  BY <1>9 DEF vars, KnownNamesAreOwned, Owned, Registered
<1> QED BY <1>1, <1>2, <1>3, <1>4, <1>5, <1>6, <1>7, <1>8, <1>9 DEF Next

\* No registry, no list and no refusal ever names an identifier nobody owns.
THEOREM KnownNames == Spec => []KnownNamesAreOwned
BY TypeInvInit, TypeInvNext, KnownInit, KnownNext, PTL DEF Spec

-----------------------------------------------------------------------------
(* The listener is never stuck in handle_request.                              *)

\* What AnswerIsComing says of one node.
Coming(n) ==
  \/ \E msg \in ToSet(mbox[n]) : msg.kind = "list"
  \/ \E c \in ToSet(rmbox[n]) : c.op = "get_all_nodes"

\* A step that takes no list and no call for the list away keeps the answer coming.
LEMMA ComingStep ==
  ASSUME AnswerIsComing, NEW m \in Nodes, query'[m] = query[m],
         \A msg \in ToSet(mbox[m]) : msg \in ToSet(mbox'[m]) \/ msg.kind # "list",
         ToSet(rmbox[m]) \subseteq ToSet(rmbox'[m])
  PROVE  Serving(m)' => Coming(m)'
BY DEF AnswerIsComing, Serving, Coming

LEMMA ComingNext == TypeInv /\ AnswerIsComing /\ [Next]_vars => AnswerIsComing'
<1> SUFFICES ASSUME TypeInv, AnswerIsComing, [Next]_vars, NEW m \in Nodes
             PROVE  Serving(m)' => Coming(m)'
  BY DEF AnswerIsComing, Coming
<1> USE DEF TypeInv
<1>1. ASSUME NEW n \in Nodes, RequestName(n) PROVE Serving(m)' => Coming(m)'
  <2>1. PICK i \in Ids : Broadcast("NAME_REQUEST", i, n)
    BY <1>1 DEF RequestName
  <2>2. ToSet(mbox[m]) \subseteq ToSet(mbox'[m])
    BY <2>1, BroadcastEffect
  <2> QED BY <1>1, <2>2, ComingStep DEF RequestName
<1>2. ASSUME NEW n \in Nodes, Refused(n) PROVE Serving(m)' => Coming(m)'
  <2>1. mbox[n] \in Seq(Message) /\ mbox[n] # <<>> /\ Head(mbox[n]).kind = "INVALID_NAME"
    BY <1>2 DEF Refused, TypeOK
  <2>2. ToSet(mbox[n]) \subseteq ToSet(Tail(mbox[n])) \cup {Head(mbox[n])}
    BY <2>1, ToSetOfTail
  <2>3. \A msg \in ToSet(mbox[m]) : msg \in ToSet(mbox'[m]) \/ msg.kind # "list"
    BY <1>2, <2>1, <2>2 DEF Refused, TypeOK
  <2> QED BY <1>2, <2>3, ComingStep DEF Refused
<1>3. ASSUME NEW n \in Nodes, Accepted(n) \/ StartListener(n) PROVE Serving(m)' => Coming(m)'
  BY <1>3, ComingStep DEF Accepted, StartListener
<1>4. ASSUME NEW n \in Nodes, SayHello(n) PROVE Serving(m)' => Coming(m)'
  <2>1. id[n] \in Ids /\ Broadcast("HELLO", id[n], n)
    BY <1>4 DEF SayHello, Registered, HasDrawn
  <2>2. ToSet(mbox[m]) \subseteq ToSet(mbox'[m])
    BY <2>1, BroadcastEffect
  <2> QED BY <1>4, <2>2, ComingStep DEF SayHello
<1>5. ASSUME NEW n \in Nodes, HandleHello(n) PROVE Serving(m)' => Coming(m)'
  <2>1. PICK k \in 1..Len(mbox[n]) :
          /\ mbox[n][k].kind = "HELLO"
          /\ mbox' = [mbox EXCEPT ![n] = RemoveAt(@, k)]
          /\ rmbox' = [rmbox EXCEPT ![n] =
                 Append(Append(@, RegistryCall("remove_node", mbox[n][k].id)),
                        RegistryCall("add_node", mbox[n][k].id))]
    BY <1>5 DEF HandleHello
  <2>2. /\ ToSet(mbox[n]) \subseteq ToSet(mbox'[n]) \cup {mbox[n][k]}
        /\ \A q \in Nodes \ {n} : mbox'[q] = mbox[q]
        /\ mbox[n][k] \in Message
    BY <2>1, TakeEffect
  <2>3. \A msg \in ToSet(mbox[m]) : msg \in ToSet(mbox'[m]) \/ msg.kind # "list"
    BY <2>1, <2>2
  <2>4. ToSet(rmbox[m]) \subseteq ToSet(rmbox'[m])
    <3>1. /\ rmbox[n] \in Seq(Calls) /\ RegistryCall("remove_node", mbox[n][k].id) \in Calls
          /\ RegistryCall("add_node", mbox[n][k].id) \in Calls
      BY <2>1, <2>2 DEF TypeOK, RegistryCall, Calls, Message
    <3>2. ToSet(rmbox[n]) \subseteq
            ToSet(Append(Append(rmbox[n], RegistryCall("remove_node", mbox[n][k].id)),
                         RegistryCall("add_node", mbox[n][k].id)))
      BY <3>1, CallEffect
    <3> QED BY <2>1, <3>2 DEF TypeOK
  <2> QED BY <1>5, <2>3, <2>4, ComingStep DEF HandleHello
<1>6. ASSUME NEW n \in Nodes, HandleNameRequest(n) PROVE Serving(m)' => Coming(m)'
  <2>1. PICK k \in 1..Len(mbox[n]) :
          /\ mbox[n][k].kind = "NAME_REQUEST"
          /\ mbox' = [mbox EXCEPT ![n] = RemoveAt(@, k)]
          /\ query' = [query EXCEPT ![n] = [id |-> mbox[n][k].id, from |-> mbox[n][k].from]]
    BY <1>6 DEF HandleNameRequest
  <2>2. \A q \in Nodes \ {n} : mbox'[q] = mbox[q]
    BY <2>1, TakeEffect
  <2>3. rmbox[n] \in Seq(Calls) /\ RegistryCall("get_all_nodes", NoId) \in Calls
    BY DEF TypeOK, RegistryCall, Calls
  <2>4. RegistryCall("get_all_nodes", NoId) \in ToSet(rmbox'[n]) /\ \A q \in Nodes \ {n} : rmbox'[q] = rmbox[q]
    <3>1. RegistryCall("get_all_nodes", NoId) \in ToSet(Append(rmbox[n], RegistryCall("get_all_nodes", NoId)))
      BY <2>3, CallEffect
    <3> QED BY <1>6, <3>1 DEF HandleNameRequest, TypeOK
  <2>5. CASE m = n
    BY <2>4, <2>5 DEF Coming, RegistryCall
  <2>6. CASE m # n
    BY <2>1, <2>2, <2>4, <2>6, ComingStep DEF TypeOK
  <2> QED BY <2>5, <2>6
<1>7. ASSUME NEW n \in Nodes, Answer(n) PROVE Serving(m)' => Coming(m)'
  <2>1. \A q \in Nodes \ {n} : ToSet(mbox[q]) \subseteq ToSet(mbox'[q])
    BY <1>7, AnswerEffect
  <2>2. query' = [query EXCEPT ![n] = NoQuery] /\ rmbox' = rmbox
    BY <1>7 DEF Answer
  <2>3. CASE m = n
    BY <2>2, <2>3 DEF Serving, TypeOK
  <2>4. CASE m # n
    BY <2>1, <2>2, <2>4, ComingStep DEF TypeOK
  <2> QED BY <2>3, <2>4
<1>8. ASSUME NEW n \in Nodes, RegistryStep(n) PROVE Serving(m)' => Coming(m)'
  <2>1. /\ ToSet(rmbox[n]) \subseteq ToSet(rmbox'[n]) \cup {Head(rmbox[n])}
        /\ \A q \in Nodes \ {n} : rmbox'[q] = rmbox[q]
    BY <1>8, RegistryEffect
  <2>2. query' = query
    BY <1>8 DEF RegistryStep
  <2>3. CASE Head(rmbox[n]).op # "get_all_nodes" /\ UNCHANGED mbox
    BY <2>1, <2>2, <2>3 DEF AnswerIsComing, Serving, Coming
  <2>4. CASE mbox' = [mbox EXCEPT ![n] = Append(@, NodeList(registry[n]))]
    <3>1. /\ ToSet(mbox'[n]) = ToSet(mbox[n]) \cup {NodeList(registry[n])}
          /\ \A q \in Nodes \ {n} : mbox'[q] = mbox[q]
      BY <2>4, RegistryReply
    <3>2. CASE m = n
      <4>1. NodeList(registry[n]).kind = "list"
        BY DEF NodeList
      <4>2. \E msg \in ToSet(mbox'[n]) : msg.kind = "list"
        BY <3>1, <4>1
      <4> QED BY <4>2, <3>2 DEF Coming
    <3>3. CASE m # n
      BY <3>1, <3>3, <2>1, <2>2, ComingStep
    <3> QED BY <3>2, <3>3
  <2> QED BY <1>8, <2>3, <2>4 DEF RegistryStep
<1>9. CASE UNCHANGED vars
  BY <1>9, ComingStep DEF vars
<1> QED BY <1>1, <1>2, <1>3, <1>4, <1>5, <1>6, <1>7, <1>8, <1>9 DEF Next

\* Whatever messages its receive takes by mistake, a listener inside
\* handle_request has an answer ahead of it.
THEOREM NeverStuck == Spec => []AnswerIsComing
<1>1. Init => AnswerIsComing
  BY DEF Init, AnswerIsComing, Serving
<1> QED BY <1>1, TypeInvInit, TypeInvNext, ComingNext, PTL DEF Spec

-----------------------------------------------------------------------------
(* A refusal names the id of another node.  The mailboxes are first in, first  *)
(* out: a node that asks is not registered yet, so what it says of itself once *)
(* it is comes behind its request and is not in the list that answers it.      *)

\* Another node finished its registration under this name.
OwnedBeside(n, i) == \E m \in Nodes \ {n} : Registered(m) /\ id[m] = i

\* m still has to answer the request of n for the name i.
Asked(m, i, n) ==
  \/ query[m] = [id |-> i, from |-> n]
  \/ \E msg \in ToSet(mbox[m]) : msg.kind = "NAME_REQUEST" /\ msg.id = i /\ msg.from = n

\* The list m will look at may hold the name i.
InUse(m, i) ==
  \/ i \in registry[m]
  \/ \E msg \in ToSet(mbox[m]) : msg.kind = "list" /\ i \in msg.nodes
  \/ \E c \in ToSet(rmbox[m]) : c.op = "add_node" /\ c.id = i

HelloIsOwn == \A m \in Nodes : \A msg \in ToSet(mbox[m]) :
  msg.kind = "HELLO" => Registered(msg.from) /\ id[msg.from] = msg.id
HelloAfterRequest == \A m \in Nodes : \A x, y \in ToSet(mbox[m]) :
  Before(mbox[m], x, y) /\ x.kind = "HELLO" /\ y.kind = "NAME_REQUEST" => x.from # y.from
Objections == \A m, n \in Nodes : \A i \in Ids :
  Asked(m, i, n) /\ InUse(m, i) => OwnedBeside(n, i)

RefusalInv == HelloIsOwn /\ HelloAfterRequest /\ Objections /\ RefusalIsJustified

\* A node that finished its registration is registered under its name for ever.
LEMMA RegisteredForever ==
  ASSUME TypeInv, [Next]_vars, NEW m \in Nodes, Registered(m)
  PROVE  Registered(m)' /\ id'[m] = id[m]
<1> USE DEF Registered, TypeInv, TypeOK
<1>1. ASSUME NEW n \in Nodes, RequestName(n) PROVE Registered(m)' /\ id'[m] = id[m]
  BY <1>1 DEF RequestName
<1>2. ASSUME NEW n \in Nodes, Refused(n) PROVE Registered(m)' /\ id'[m] = id[m]
  BY <1>2 DEF Refused
<1>3. ASSUME NEW n \in Nodes, Accepted(n) PROVE Registered(m)' /\ id'[m] = id[m]
  BY <1>3 DEF Accepted
<1>4. ASSUME NEW n \in Nodes, StartListener(n) PROVE Registered(m)' /\ id'[m] = id[m]
  BY <1>4 DEF StartListener
<1>5. ASSUME NEW n \in Nodes,
             SayHello(n) \/ HandleHello(n) \/ HandleNameRequest(n) \/ Answer(n) \/ RegistryStep(n)
      PROVE  Registered(m)' /\ id'[m] = id[m]
  BY <1>5 DEF SayHello, HandleHello, HandleNameRequest, Answer, RegistryStep
<1>6. CASE UNCHANGED vars
  BY <1>6 DEF vars
<1> QED BY <1>1, <1>2, <1>3, <1>4, <1>5, <1>6 DEF Next

LEMMA OwnedBesideForever ==
  ASSUME TypeInv, [Next]_vars, NEW n, NEW i, OwnedBeside(n, i)
  PROVE  OwnedBeside(n, i)'
<1>1. PICK m \in Nodes \ {n} : Registered(m) /\ id[m] = i
  BY DEF OwnedBeside
<1>2. Registered(m)' /\ id'[m] = i
  BY <1>1, RegisteredForever
<1> QED BY <1>2 DEF OwnedBeside

\* Again only what a step adds matters.
LEMMA RefusalStep ==
  ASSUME TypeInv, RefusalInv, [Next]_vars,
         \A m \in Nodes : \A msg \in ToSet(mbox'[m]) :
           \/ msg \in ToSet(mbox[m])
           \/ msg.kind \in {"NAME_REQUEST", "list"}
           \/ msg.kind = "HELLO" /\ msg.from \in Nodes /\ Registered(msg.from) /\ id[msg.from] = msg.id
           \/ msg.kind = "INVALID_NAME" /\ OwnedBeside(m, msg.id),
         \A m \in Nodes : \A x, y \in ToSet(mbox'[m]) :
           Before(mbox'[m], x, y) /\ x.kind = "HELLO" /\ y.kind = "NAME_REQUEST"
             => Before(mbox[m], x, y) \/ x.from # y.from,
         \A m, n \in Nodes : \A i \in Ids : Asked(m, i, n)' /\ InUse(m, i)'
           => (Asked(m, i, n) /\ InUse(m, i)) \/ OwnedBeside(n, i)
  PROVE  RefusalInv'
<1>1. ASSUME NEW n, NEW i, OwnedBeside(n, i) PROVE OwnedBeside(n, i)'
  BY <1>1, OwnedBesideForever
<1>2. HelloIsOwn'
  <2> SUFFICES ASSUME NEW m \in Nodes, NEW msg \in ToSet(mbox'[m]), msg.kind = "HELLO"
               PROVE  Registered(msg.from)' /\ id'[msg.from] = msg.id
    BY DEF HelloIsOwn
  <2>1. msg.from \in Nodes /\ Registered(msg.from) /\ id[msg.from] = msg.id
    <3>1. CASE msg \in ToSet(mbox[m])
      <4>1. msg \in Message
        BY <3>1, ToSetTyped DEF TypeInv, TypeOK
      <4> QED BY <3>1, <4>1 DEF RefusalInv, HelloIsOwn, Message
    <3> QED BY <3>1
  <2> QED BY <2>1, RegisteredForever
<1>3. HelloAfterRequest'
  <2> SUFFICES ASSUME NEW m \in Nodes, NEW x \in ToSet(mbox'[m]), NEW y \in ToSet(mbox'[m]),
                      Before(mbox'[m], x, y), x.kind = "HELLO", y.kind = "NAME_REQUEST"
               PROVE  x.from # y.from
    BY DEF HelloAfterRequest, Before
  <2> QED BY BothAreIn DEF RefusalInv, HelloAfterRequest
<1>4. Objections'
  BY <1>1 DEF RefusalInv, Objections
<1>5. RefusalIsJustified'
  <2>1. ASSUME NEW m \in Nodes, NEW msg \in ToSet(mbox'[m]), msg.kind = "INVALID_NAME"
        PROVE  OwnedBeside(m, msg.id)
    BY <2>1 DEF RefusalInv, RefusalIsJustified, OwnedBeside
  <2>2. ASSUME NEW m \in Nodes, NEW msg \in ToSet(mbox'[m]), msg.kind = "INVALID_NAME"
        PROVE  OwnedBeside(m, msg.id)'
    <3>1. PICK i : i = msg.id
      OBVIOUS
    <3> QED BY <2>1, <2>2, <3>1, <1>1
  <2> QED BY <2>2 DEF RefusalIsJustified, OwnedBeside
<1> QED BY <1>2, <1>3, <1>4, <1>5 DEF RefusalInv

LEMMA RefusalInit == Init => RefusalInv
<1> SUFFICES ASSUME Init PROVE RefusalInv
  OBVIOUS
<1>1. \A m \in Nodes : ToSet(mbox[m]) = {} /\ ToSet(rmbox[m]) = {} /\ registry[m] = {}
  BY ToSetOfEmpty DEF Init
<1> QED BY <1>1 DEF RefusalInv, HelloIsOwn, HelloAfterRequest, Objections, RefusalIsJustified, InUse

\* A broadcast puts one datagram at the end of some mailboxes.
LEMMA BroadcastEach ==
  ASSUME TypeOK, NEW kind \in {"NAME_REQUEST", "HELLO"}, NEW i \in Ids, NEW n \in Nodes,
         Broadcast(kind, i, n), NEW m \in Nodes
  PROVE  /\ Datagram("listen", kind, i, n) \in Message
         /\ mbox'[m] = mbox[m] \/ mbox'[m] = Append(mbox[m], Datagram("listen", kind, i, n))
BY DEF Broadcast, TypeOK, Datagram, Message

\* The mailbox after a step of the listener in handle_request, or of Refused.
LEMMA BeforeInAnswer ==
  ASSUME TypeOK, NEW n \in Nodes, Answer(n), NEW m \in Nodes, NEW x, NEW y, Before(mbox'[m], x, y)
  PROVE  Before(mbox[m], x, y) \/ y.kind = "INVALID_NAME"
<1> DEFINE d == Datagram("request", "INVALID_NAME", query[n].id, n)
           rest == [mbox EXCEPT ![n] = Tail(@)]
           asker == query[n].from
<1>1. asker \in Nodes /\ query[n].id \in Ids
  BY DEF Answer, Serving, TypeOK
<1>2. d \in Message /\ d.kind = "INVALID_NAME"
  BY <1>1 DEF Datagram, Message
<1>3. /\ mbox[n] # <<>> /\ mbox \in [Nodes -> Seq(Message)]
      /\ mbox' = [rest EXCEPT ![asker] = Append(@, d)] \/ mbox' = rest
  BY DEF Answer, TypeOK
<1> HIDE DEF d
<1>4. rest[m] \in Seq(Message) /\ (Before(rest[m], x, y) => Before(mbox[m], x, y))
  <2>1. Tail(mbox[n]) \in Seq(Message)
    BY <1>3, ToSetOfTail
  <2>2. CASE m = n
    BY <1>3, <2>1, <2>2, BeforeInTail
  <2>3. CASE m # n
    BY <1>3, <2>3
  <2> QED BY <2>2, <2>3
<1> HIDE DEF rest
<1>5. mbox'[m] = rest[m] \/ mbox'[m] = Append(rest[m], d)
  BY <1>1, <1>3 DEF rest
<1>6. Before(rest[m], x, y) \/ y = d
  BY <1>2, <1>4, <1>5, BeforeInAppend
<1> QED BY <1>2, <1>4, <1>6

LEMMA RefusalNext ==
  TypeInv /\ KnownNamesAreOwned /\ RefusalInv /\ [Next]_vars => RefusalInv'
<1> SUFFICES ASSUME TypeInv, KnownNamesAreOwned, RefusalInv, [Next]_vars PROVE RefusalInv'
  OBVIOUS
<1> USE DEF TypeInv
<1>1. ASSUME NEW n \in Nodes, RequestName(n) PROVE RefusalInv'
  <2>1. PICK i \in Ids : Broadcast("NAME_REQUEST", i, n) /\ phase[n] = "begin"
    BY <1>1 DEF RequestName
  <2> DEFINE d == Datagram("listen", "NAME_REQUEST", i, n)
  <2>2. d.kind = "NAME_REQUEST" /\ d.id = i /\ d.from = n
    BY DEF Datagram
  <2>3. ASSUME NEW m \in Nodes
        PROVE  /\ d \in Message
               /\ mbox'[m] = mbox[m] \/ mbox'[m] = Append(mbox[m], d)
               /\ ToSet(mbox'[m]) \subseteq ToSet(mbox[m]) \cup {d}
    BY <2>1, BroadcastEach, BroadcastEffect
  <2> HIDE DEF d
  <2>4. ASSUME NEW m \in Nodes, NEW x \in ToSet(mbox'[m]), NEW y \in ToSet(mbox'[m]),
               Before(mbox'[m], x, y), x.kind = "HELLO"
        PROVE  Before(mbox[m], x, y) \/ x.from # y.from
    <3>1. Before(mbox[m], x, y) \/ (x \in ToSet(mbox[m]) /\ y = d)
      <4>1. mbox[m] \in Seq(Message) /\ d \in Message
        BY <2>3 DEF TypeOK
      <4>2. Before(mbox[m], x, y) \/ Before(Append(mbox[m], d), x, y)
        BY <2>3, <2>4
      <4> QED BY <4>1, <4>2, BeforeInAppend
    <3>2. CASE x \in ToSet(mbox[m]) /\ y = d
      <4>1. Registered(x.from)
        BY <3>2, <2>4 DEF RefusalInv, HelloIsOwn
      <4> QED BY <4>1, <2>1, <2>2, <3>2 DEF Registered
    <3> QED BY <3>1, <3>2
  <2>5. ASSUME NEW m \in Nodes, NEW q \in Nodes, NEW j \in Ids, Asked(m, j, q)', InUse(m, j)'
        PROVE  (Asked(m, j, q) /\ InUse(m, j)) \/ OwnedBeside(q, j)
    <3>1. InUse(m, j)
      BY <1>1, <2>5, <2>3, <2>2 DEF InUse, RequestName
    <3>2. Asked(m, j, q) \/ (q = n /\ j = i)
      BY <1>1, <2>5, <2>3, <2>2 DEF Asked, RequestName
    <3>3. Owned(j)
      BY <3>1 DEF InUse, KnownNamesAreOwned
    <3>4. CASE q = n
      BY <3>3, <3>4, <2>1 DEF Owned, OwnedBeside, Registered
    <3> QED BY <3>1, <3>2, <3>4
  <2> QED BY <2>2, <2>3, <2>4, <2>5, RefusalStep
<1>2. ASSUME NEW n \in Nodes, Refused(n) PROVE RefusalInv'
  <2>1. mbox[n] \in Seq(Message) /\ mbox[n] # <<>> /\ UNCHANGED <<query, registry, rmbox>>
        /\ mbox \in [Nodes -> Seq(Message)] /\ mbox' = [mbox EXCEPT ![n] = Tail(@)]
    BY <1>2 DEF Refused, TypeOK
  <2>2. \A m \in Nodes : ToSet(mbox'[m]) \subseteq ToSet(mbox[m])
    BY <2>1, ToSetOfTail
  <2>3. ASSUME NEW m \in Nodes, NEW x, NEW y, Before(mbox'[m], x, y) PROVE Before(mbox[m], x, y)
    <3>1. CASE m = n
      BY <2>1, <2>3, <3>1, BeforeInTail
    <3>2. CASE m # n
      BY <2>1, <2>3, <3>2
    <3> QED BY <3>1, <3>2
  <2>4. ASSUME NEW m \in Nodes, NEW q \in Nodes, NEW j \in Ids, Asked(m, j, q)', InUse(m, j)'
        PROVE  Asked(m, j, q) /\ InUse(m, j)
    BY <2>1, <2>2, <2>4 DEF Asked, InUse
  <2> QED BY <2>2, <2>3, <2>4, RefusalStep
<1>3. ASSUME NEW n \in Nodes, Accepted(n) \/ StartListener(n) PROVE RefusalInv'
  <2>1. UNCHANGED <<mbox, query, registry, rmbox>>
    BY <1>3 DEF Accepted, StartListener
  <2> QED BY <2>1, RefusalStep DEF Asked, InUse
<1>4. ASSUME NEW n \in Nodes, SayHello(n) PROVE RefusalInv'
  <2>1. PICK i \in Ids : i = id[n] /\ Broadcast("HELLO", i, n) /\ Registered(n)
    BY <1>4 DEF SayHello, Registered, HasDrawn
  <2> DEFINE d == Datagram("listen", "HELLO", i, n)
  <2>2. d.kind = "HELLO" /\ d.id = i /\ d.from = n
    BY DEF Datagram
  <2>3. ASSUME NEW m \in Nodes
        PROVE  /\ d \in Message
               /\ mbox'[m] = mbox[m] \/ mbox'[m] = Append(mbox[m], d)
               /\ ToSet(mbox'[m]) \subseteq ToSet(mbox[m]) \cup {d}
    BY <2>1, BroadcastEach, BroadcastEffect
  <2> HIDE DEF d
  <2>4. ASSUME NEW m \in Nodes, NEW x, NEW y, Before(mbox'[m], x, y), y.kind = "NAME_REQUEST"
        PROVE  Before(mbox[m], x, y)
    <3>1. Before(mbox[m], x, y) \/ y = d
      <4>1. mbox[m] \in Seq(Message) /\ d \in Message
        BY <2>3 DEF TypeOK
      <4>2. Before(mbox[m], x, y) \/ Before(Append(mbox[m], d), x, y)
        BY <2>3, <2>4
      <4> QED BY <4>1, <4>2, BeforeInAppend
    <3> QED BY <3>1, <2>2, <2>4
  <2>5. ASSUME NEW m \in Nodes, NEW q \in Nodes, NEW j \in Ids, Asked(m, j, q)', InUse(m, j)'
        PROVE  Asked(m, j, q) /\ InUse(m, j)
    BY <1>4, <2>5, <2>3, <2>2 DEF Asked, InUse, SayHello
  <2> QED BY <2>1, <2>2, <2>3, <2>4, <2>5, RefusalStep
<1>5. ASSUME NEW n \in Nodes, HandleHello(n) PROVE RefusalInv'
  <2>1. PICK k \in 1..Len(mbox[n]) :
          /\ NextDatagram(n, k)
          /\ mbox[n][k].kind = "HELLO"
          /\ mbox' = [mbox EXCEPT ![n] = RemoveAt(@, k)]
          /\ rmbox' = [rmbox EXCEPT ![n] =
                 Append(Append(@, RegistryCall("remove_node", mbox[n][k].id)),
                        RegistryCall("add_node", mbox[n][k].id))]
    BY <1>5 DEF HandleHello
  <2>2. /\ \A m \in Nodes : ToSet(mbox'[m]) \subseteq ToSet(mbox[m])
        /\ mbox[n][k] \in Message /\ mbox[n][k] \in ToSet(mbox[n])
        /\ \A m \in Nodes \ {n} : mbox'[m] = mbox[m]
    BY <2>1, TakeEffect
  <2>3. PICK h \in Message : h = mbox[n][k]
    BY <2>2
  <2>4. h.kind = "HELLO" /\ h.id \in Ids /\ h.from \in Nodes /\ Registered(h.from) /\ id[h.from] = h.id
    BY <2>1, <2>2, <2>3 DEF Message, RefusalInv, HelloIsOwn
  <2>5. ASSUME NEW m \in Nodes, NEW x, NEW y, Before(mbox'[m], x, y) PROVE Before(mbox[m], x, y)
    <3>1. CASE m = n
      BY <2>1, <2>5, <3>1, BeforeInRemoveAt DEF TypeOK
    <3>2. CASE m # n
      BY <2>2, <2>5, <3>2
    <3> QED BY <3>1, <3>2
  <2>6. \A m \in Nodes : ToSet(rmbox'[m]) \subseteq ToSet(rmbox[m]) \cup
           (IF m = n THEN {RegistryCall("remove_node", h.id), RegistryCall("add_node", h.id)} ELSE {})
    <3>1. rmbox \in [Nodes -> Seq(Calls)] /\ RegistryCall("remove_node", h.id) \in Calls
          /\ RegistryCall("add_node", h.id) \in Calls
      BY <2>4 DEF TypeOK, RegistryCall, Calls
    <3>2. ToSet(Append(Append(rmbox[n], RegistryCall("remove_node", h.id)), RegistryCall("add_node", h.id)))
            = ToSet(rmbox[n]) \cup {RegistryCall("remove_node", h.id), RegistryCall("add_node", h.id)}
      BY <3>1, CallEffect
    <3> QED BY <2>1, <2>3, <3>1, <3>2
  <2>7. ASSUME NEW msg \in ToSet(mbox[n]), msg.kind = "NAME_REQUEST"
        PROVE  Before(mbox[n], h, msg)
    <3>1. mbox[n] \in Seq(Message) /\ DOMAIN mbox[n] = 1..Len(mbox[n]) /\ Len(mbox[n]) \in Nat
      BY DEF TypeOK
    <3>2. PICK j \in 1..Len(mbox[n]) : mbox[n][j] = msg
      BY <3>1 DEF ToSet
    <3>3. msg.sock = "listen"
      BY <3>1, <3>2, <2>7 DEF Message
    <3>4. j > k
      BY <2>1, <2>3, <2>4, <2>7, <3>2, <3>3 DEF NextDatagram
    <3> QED BY <2>3, <3>1, <3>2, <3>4 DEF Before
  <2>8. ASSUME NEW m \in Nodes, NEW q \in Nodes, NEW j \in Ids, Asked(m, j, q)', InUse(m, j)'
        PROVE  (Asked(m, j, q) /\ InUse(m, j)) \/ OwnedBeside(q, j)
    <3>1. Asked(m, j, q)
      BY <1>5, <2>2, <2>8 DEF Asked, HandleHello
    <3>2. InUse(m, j) \/ (m = n /\ j = h.id)
      <4>1. registry' = registry
        BY <1>5 DEF HandleHello
      <4>2. ASSUME NEW c \in ToSet(rmbox'[m]), c.op = "add_node", c.id = j
            PROVE  c \in ToSet(rmbox[m]) \/ (m = n /\ j = h.id)
        BY <2>6, <4>2 DEF RegistryCall
      <4> QED BY <2>2, <2>8, <4>1, <4>2 DEF InUse
    <3>3. CASE m = n /\ j = h.id
      <4>1. query[n] = NoQuery
        BY <2>1 DEF NextDatagram, Serving
      <4>2. PICK msg \in ToSet(mbox[n]) : msg.kind = "NAME_REQUEST" /\ msg.id = j /\ msg.from = q
        BY <3>1, <3>3, <4>1 DEF Asked, NoQuery
      <4>3. h.from # q
        BY <2>2, <2>3, <2>4, <2>7, <4>2 DEF RefusalInv, HelloAfterRequest
      <4> QED BY <2>4, <3>3, <4>3 DEF OwnedBeside
    <3> QED BY <3>1, <3>2, <3>3
  <2> QED BY <2>2, <2>5, <2>8, RefusalStep
<1>6. ASSUME NEW n \in Nodes, HandleNameRequest(n) PROVE RefusalInv'
  <2>1. PICK k \in 1..Len(mbox[n]) :
          /\ mbox[n][k].kind = "NAME_REQUEST"
          /\ mbox' = [mbox EXCEPT ![n] = RemoveAt(@, k)]
          /\ query' = [query EXCEPT ![n] = [id |-> mbox[n][k].id, from |-> mbox[n][k].from]]
    BY <1>6 DEF HandleNameRequest
  <2>2. /\ \A m \in Nodes : ToSet(mbox'[m]) \subseteq ToSet(mbox[m])
        /\ \A m \in Nodes \ {n} : mbox'[m] = mbox[m]
        /\ mbox[n][k] \in ToSet(mbox[n])
    BY <2>1, TakeEffect
  <2>3. ASSUME NEW m \in Nodes, NEW x, NEW y, Before(mbox'[m], x, y) PROVE Before(mbox[m], x, y)
    <3>1. CASE m = n
      BY <2>1, <2>3, <3>1, BeforeInRemoveAt DEF TypeOK
    <3>2. CASE m # n
      BY <2>2, <2>3, <3>2
    <3> QED BY <3>1, <3>2
  <2>4. \A m \in Nodes : ToSet(rmbox'[m]) \subseteq ToSet(rmbox[m]) \cup {RegistryCall("get_all_nodes", NoId)}
    <3>1. rmbox \in [Nodes -> Seq(Calls)] /\ RegistryCall("get_all_nodes", NoId) \in Calls
      BY DEF TypeOK, RegistryCall, Calls
    <3>2. ToSet(Append(rmbox[n], RegistryCall("get_all_nodes", NoId)))
            = ToSet(rmbox[n]) \cup {RegistryCall("get_all_nodes", NoId)}
      BY <3>1, CallEffect
    <3> QED BY <1>6, <3>1, <3>2 DEF HandleNameRequest
  <2>5. ASSUME NEW m \in Nodes, NEW q \in Nodes, NEW j \in Ids, Asked(m, j, q)', InUse(m, j)'
        PROVE  Asked(m, j, q) /\ InUse(m, j)
    <3>1. InUse(m, j)
      <4>1. registry' = registry
        BY <1>6 DEF HandleNameRequest
      <4>2. ASSUME NEW c \in ToSet(rmbox'[m]), c.op = "add_node" PROVE c \in ToSet(rmbox[m])
        BY <2>4, <4>2 DEF RegistryCall
      <4> QED BY <2>2, <2>5, <4>1, <4>2 DEF InUse
    <3>2. CASE m = n /\ query'[n] = [id |-> j, from |-> q]
      <4>1. mbox[n][k].id = j /\ mbox[n][k].from = q
        BY <2>1, <3>2 DEF TypeOK
      <4> QED BY <2>1, <2>2, <3>1, <3>2, <4>1 DEF Asked
    <3>3. CASE ~(m = n /\ query'[n] = [id |-> j, from |-> q])
      BY <2>1, <2>2, <2>5, <3>1, <3>3 DEF Asked, TypeOK
    <3> QED BY <3>2, <3>3
  <2> QED BY <2>2, <2>3, <2>5, RefusalStep
<1>7. ASSUME NEW n \in Nodes, Answer(n) PROVE RefusalInv'
  <2>1. /\ Head(mbox[n]) \in ToSet(mbox[n])
        /\ query[n] \in [id : Ids, from : Nodes]
        /\ \A m \in Nodes : ToSet(mbox'[m]) \subseteq ToSet(mbox[m])
             \cup {msg \in {Datagram("request", "INVALID_NAME", query[n].id, n)} :
                      query[n].id \in NodesSeen(Head(mbox[n]))}
    BY <1>7, AnswerEffect
  <2>2. PICK i \in Ids, a \in Nodes : query[n] = [id |-> i, from |-> a]
    BY <2>1
  <2>3. ASSUME NEW m \in Nodes, NEW msg \in ToSet(mbox'[m])
        PROVE  \/ msg \in ToSet(mbox[m])
               \/ msg.kind = "INVALID_NAME" /\ m = a /\ msg.id = i /\ OwnedBeside(m, i)
    <3>1. CASE msg \notin ToSet(mbox[m])
      <4>1. msg = Datagram("request", "INVALID_NAME", i, n) /\ i \in NodesSeen(Head(mbox[n]))
        BY <2>1, <2>2, <2>3, <3>1
      <4>2. InUse(n, i)
        BY <2>1, <4>1 DEF NodesSeen, InUse
      <4>3. OwnedBeside(a, i)
        BY <2>2, <4>2 DEF Asked, RefusalInv, Objections
      <4>4. m = a
        <5>1. CASE m # a
          <6> DEFINE rest == [mbox EXCEPT ![n] = Tail(@)]
                     d == Datagram("request", "INVALID_NAME", query[n].id, n)
          <6>1. rest[m] = IF m = n THEN Tail(mbox[m]) ELSE mbox[m]
            BY DEF TypeOK
          <6>2. DOMAIN rest = Nodes
            BY DEF TypeOK
          <6>3. mbox' = [rest EXCEPT ![a] = Append(@, d)] \/ mbox' = rest
            BY <1>7, <2>2 DEF Answer
          <6> HIDE DEF rest, d
          <6>4. mbox'[m] = rest[m]
            BY <6>2, <6>3, <5>1
          <6>5. mbox'[m] = mbox[m] \/ (m = n /\ mbox'[m] = Tail(mbox[m]))
            BY <6>1, <6>4
          <6>6. mbox[n] # <<>> /\ mbox[n] \in Seq(Message)
            BY <1>7 DEF Answer, TypeOK
          <6>7. ToSet(mbox'[m]) \subseteq ToSet(mbox[m])
            BY <6>5, <6>6, ToSetOfTail
          <6> QED BY <6>7, <3>1
        <5> QED BY <5>1
      <4> QED BY <4>1, <4>3, <4>4 DEF Datagram
    <3> QED BY <3>1
  <2>4. ASSUME NEW m \in Nodes, NEW x, NEW y, Before(mbox'[m], x, y), y.kind = "NAME_REQUEST"
        PROVE  Before(mbox[m], x, y)
    BY <1>7, <2>4, BeforeInAnswer
  <2>5. ASSUME NEW m \in Nodes, NEW q \in Nodes, NEW j \in Ids, Asked(m, j, q)', InUse(m, j)'
        PROVE  Asked(m, j, q) /\ InUse(m, j)
    <3>1. InUse(m, j)
      BY <1>7, <2>3, <2>5 DEF InUse, Answer
    <3>2. query'[m] = query[m] \/ query'[m] = NoQuery
      BY <1>7 DEF Answer, TypeOK
    <3>3. query'[m] # NoQuery \/ query'[m] # [id |-> j, from |-> q]
      BY DEF NoQuery
    <3> QED BY <2>3, <2>5, <3>1, <3>2, <3>3 DEF Asked
  <2> QED BY <2>3, <2>4, <2>5, RefusalStep
<1>8. ASSUME NEW n \in Nodes, RegistryStep(n) PROVE RefusalInv'
  <2>1. /\ Head(rmbox[n]) \in ToSet(rmbox[n])
        /\ \A m \in Nodes : ToSet(rmbox'[m]) \subseteq ToSet(rmbox[m])
    BY <1>8, RegistryEffect
  <2>2. /\ query' = query /\ registry \in [Nodes -> SUBSET Ids]
        /\ \A m \in Nodes : \A j \in registry'[m] : j \in registry[m]
             \/ (m = n /\ Head(rmbox[n]).op = "add_node" /\ j = Head(rmbox[n]).id)
    BY <1>8 DEF RegistryStep, TypeOK
  <2>3. ASSUME NEW m \in Nodes
        PROVE  /\ NodeList(registry[n]) \in Message
               /\ \/ mbox'[m] = mbox[m]
                  \/ m = n /\ mbox'[m] = Append(mbox[m], NodeList(registry[n]))
    <3>1. NodeList(registry[n]) \in Message
      BY DEF TypeOK, NodeList, Message
    <3> QED BY <1>8, <3>1 DEF RegistryStep, TypeOK
  <2>4. PICK names \in SUBSET Ids : names = registry[n]
    BY <2>2
  <2> DEFINE d == NodeList(names)
  <2>5. d.kind = "list" /\ d.nodes = names
    BY DEF NodeList
  <2>6. d \in Message /\ \A m \in Nodes : mbox'[m] = mbox[m] \/ (m = n /\ mbox'[m] = Append(mbox[m], d))
    BY <2>3, <2>4
  <2> HIDE DEF d
  <2>7. ASSUME NEW m \in Nodes
        PROVE  ToSet(mbox'[m]) \subseteq ToSet(mbox[m]) \cup (IF m = n THEN {d} ELSE {})
    <3>1. mbox[m] \in Seq(Message)
      BY DEF TypeOK
    <3>2. ToSet(Append(mbox[m], d)) = ToSet(mbox[m]) \cup {d}
      BY <2>6, <3>1, ToSetOfAppend
    <3> QED BY <2>6, <3>2
  <2>8. ASSUME NEW m \in Nodes, NEW x, NEW y, Before(mbox'[m], x, y), y.kind = "NAME_REQUEST"
        PROVE  Before(mbox[m], x, y)
    <3>1. mbox[m] \in Seq(Message)
      BY DEF TypeOK
    <3>2. Before(mbox[m], x, y) \/ Before(Append(mbox[m], d), x, y)
      BY <2>6, <2>8
    <3>3. Before(mbox[m], x, y) \/ y = d
      BY <2>6, <3>1, <3>2, BeforeInAppend
    <3> QED BY <2>5, <2>8, <3>3
  <2>9. ASSUME NEW m \in Nodes, NEW q \in Nodes, NEW j \in Ids, Asked(m, j, q)', InUse(m, j)'
        PROVE  Asked(m, j, q) /\ InUse(m, j)
    <3>1. Asked(m, j, q)
      BY <2>2, <2>5, <2>7, <2>9 DEF Asked
    <3>2. InUse(m, j)
      BY <2>1, <2>2, <2>4, <2>5, <2>7, <2>9 DEF InUse
    <3> QED BY <3>1, <3>2
  <2> QED BY <2>5, <2>7, <2>8, <2>9, RefusalStep
<1>9. CASE UNCHANGED vars
  <2>1. UNCHANGED <<mbox, query, registry, rmbox>>
    BY <1>9 DEF vars
  <2> QED BY <2>1, RefusalStep DEF Asked, InUse
<1> QED BY <1>1, <1>2, <1>3, <1>4, <1>5, <1>6, <1>7, <1>8, <1>9 DEF Next

\* Whatever the network does, a node is refused only a name that another node
\* has registered: never for its own HELLOs, and never for a list that is old.
THEOREM RefusedForAReason == Spec => []RefusalIsJustified
<1>1. RefusalInv => RefusalIsJustified
  BY DEF RefusalInv
<1> QED BY <1>1, TypeInvInit, TypeInvNext, KnownInit, KnownNext, RefusalInit, RefusalNext, PTL DEF Spec

-----------------------------------------------------------------------------
(* Names are unique where everything is as it should be.  One node at a time   *)
(* is between its first request and its listener; while it asks, the owner of  *)
(* the name it asks for, if there is one, has the request, its own list or a   *)
(* refusal on the way, and nothing else, because nobody says HELLO meanwhile.  *)

\* Between the first request and the listener; and still asking or to ask again.
Busy(n) == phase[n] # "up" /\ ~(phase[n] = "begin" /\ id[n] = NoId)
Pending(n) == phase[n] = "asking" \/ (phase[n] = "begin" /\ id[n] # NoId)

\* How far the owner m of the name that n asks for has come.
Request(n) == [id |-> id[n], from |-> n]
Heard(m, n) == /\ mbox[m] = <<Datagram("listen", "NAME_REQUEST", id[n], n)>>
               /\ query[m] = NoQuery /\ rmbox[m] = <<>> /\ id[m] \in registry[m]
Looks(m, n) == /\ mbox[m] = <<>> /\ query[m] = Request(n)
               /\ rmbox[m] = <<RegistryCall("get_all_nodes", NoId)>> /\ id[m] \in registry[m]
Finds(m, n) == /\ \E names \in SUBSET Ids : mbox[m] = <<NodeList(names)>> /\ id[m] \in names
               /\ query[m] = Request(n) /\ rmbox[m] = <<>>
IsRefused(n) == \E msg \in ToSet(mbox[n]) : msg.kind = "INVALID_NAME"
Objecting(m, n) == Heard(m, n) \/ Looks(m, n) \/ Finds(m, n) \/ IsRefused(n)

DeafUntilUp == \A m \in Nodes : phase[m] # "up" =>
  /\ query[m] = NoQuery /\ rmbox[m] = <<>>
  /\ \A msg \in ToSet(mbox[m]) : msg.kind = "INVALID_NAME"
OneBusy == \A n, m \in Nodes : Busy(n) /\ Busy(m) => n = m
OnlyAskers == \A m \in Nodes :
  /\ Serving(m) => Pending(query[m].from)
  /\ \A msg \in ToSet(mbox[m]) : /\ msg.kind = "NAME_REQUEST" => Pending(msg.from)
                                 /\ msg.kind = "INVALID_NAME" => Pending(m)
OwnersObject == \A n, m \in Nodes :
  n # m /\ phase[n] = "asking" /\ phase[m] = "up" /\ id[m] = id[n] => Objecting(m, n)

CareInv == DeafUntilUp /\ OneBusy /\ OnlyAskers /\ OwnersObject /\ UniqueIds

LEMMA CareInit == Init => CareInv
<1> SUFFICES ASSUME Init PROVE CareInv
  OBVIOUS
<1>1. \A m \in Nodes : ToSet(mbox[m]) = {}
  BY ToSetOfEmpty DEF Init
<1> QED BY <1>1 DEF Init, CareInv, DeafUntilUp, OneBusy, Busy, OnlyAskers, Serving,
                    OwnersObject, UniqueIds, Registered

\* Without losses a broadcast reaches every listener, and nobody else.
LEMMA BroadcastToAll ==
  ASSUME TypeOK, ~net.lossy, NEW kind, NEW i, NEW n, Broadcast(kind, i, n), NEW m \in Nodes
  PROVE  mbox'[m] = IF phase[m] = "up" THEN Append(mbox[m], Datagram("listen", kind, i, n)) ELSE mbox[m]
BY DEF Broadcast, Listening

LEMMA OneMessage ==
  ASSUME NEW x
  PROVE  /\ <<x>> # <<>> /\ Append(<<>>, x) = <<x>> /\ Head(<<x>>) = x /\ Tail(<<x>>) = <<>>
         /\ RemoveAt(<<x>>, 1) = <<>> /\ Len(<<x>>) = 1 /\ ToSet(<<x>>) = {x} /\ <<x>>[1] = x
BY RemoveOnly DEF ToSet

\* An owner that objects leaves the request open until the refusal is sent.
LEMMA OpenOrRefused ==
  ASSUME NEW m \in Nodes, NEW n \in Nodes, Objecting(m, n)
  PROVE  Outstanding(n) \/ IsRefused(n)
<1>1. CASE Heard(m, n)
  <2> DEFINE d == Datagram("listen", "NAME_REQUEST", id[n], n)
  <2>1. d.kind = "NAME_REQUEST" /\ d.from = n
    BY DEF Datagram
  <2> HIDE DEF d
  <2>2. d \in ToSet(mbox[m])
    BY <1>1, OneMessage DEF Heard, d
  <2> QED BY <2>1, <2>2 DEF Outstanding
<1>2. CASE Looks(m, n) \/ Finds(m, n)
  <2>1. query[m] = [id |-> id[n], from |-> n]
    BY <1>2 DEF Looks, Finds, Request
  <2>2. [id |-> id[n], from |-> n] # [id |-> NoId]
    OBVIOUS
  <2> QED BY <2>1, <2>2 DEF Outstanding, Serving, NoQuery
<1> QED BY <1>1, <1>2 DEF Objecting

\* A step that is none of m's business.
LEMMA StillObjecting ==
  ASSUME NEW m, NEW n, Objecting(m, n), UNCHANGED id,
         mbox'[m] = mbox[m], query'[m] = query[m], rmbox'[m] = rmbox[m], registry'[m] = registry[m],
         IsRefused(n) => IsRefused(n)'
  PROVE  Objecting(m, n)'
BY DEF Objecting, Heard, Looks, Finds, Request

LEMMA CareNext == TypeInv /\ Careful /\ CareInv /\ [Next]_vars => CareInv'
<1> SUFFICES ASSUME TypeInv, Careful, CareInv, [Next]_vars PROVE CareInv'
  OBVIOUS
<1> USE DEF TypeInv
<1>0. /\ mbox \in [Nodes -> Seq(Message)] /\ NoId \notin Ids
      /\ ~net.lossy /\ net.oneAtATime /\ net.prompt /\ net.calm
  BY NamesAssumption DEF TypeOK, Careful
<1>a. ASSUME UNCHANGED <<phase, id>> PROVE OneBusy' /\ UniqueIds' /\ \A n : Pending(n)' <=> Pending(n)
  BY <1>a DEF CareInv, OneBusy, Busy, UniqueIds, Registered, Pending
<1>1. ASSUME NEW n \in Nodes, RequestName(n) PROVE CareInv'
  <2>1. PICK i \in Ids : /\ phase[n] = "begin" /\ id' = [id EXCEPT ![n] = i]
                         /\ Broadcast("NAME_REQUEST", i, n) /\ phase' = [phase EXCEPT ![n] = "asking"]
                         /\ UNCHANGED <<query, registry, rmbox>>
    BY <1>1 DEF RequestName
  <2> DEFINE d == Datagram("listen", "NAME_REQUEST", i, n)
  <2>2. d.kind = "NAME_REQUEST" /\ d.from = n
    BY DEF Datagram
  <2>3. phase'[n] = "asking" /\ id'[n] = i /\ i # NoId
    BY <1>0, <2>1 DEF TypeOK
  <2>4. ASSUME NEW m \in Nodes, m # n
        PROVE  /\ phase'[m] = phase[m] /\ id'[m] = id[m] /\ query[m] = NoQuery
               /\ \/ phase[m] = "begin" /\ id[m] = NoId /\ mbox'[m] = mbox[m] /\ ToSet(mbox[m]) = {}
                  \/ phase[m] = "up" /\ id[m] \in registry[m] /\ mbox'[m] = <<d>> /\ rmbox[m] = <<>>
    <3>1. Settled(m)
      BY <1>0, <1>1, <2>4 DEF RequestName
    <3>2. phase'[m] = phase[m] /\ id'[m] = id[m]
      BY <2>1, <2>4 DEF TypeOK
    <3>3. mbox'[m] = IF phase[m] = "up" THEN Append(mbox[m], d) ELSE mbox[m]
      BY <1>0, <2>1, BroadcastToAll
    <3>4. CASE phase[m] = "begin" /\ id[m] = NoId
      <4>1. ~Pending(m)
        BY <3>4 DEF Pending
      <4> QED BY <3>2, <3>3, <3>4, <4>1 DEF CareInv, DeafUntilUp, OnlyAskers
    <3>5. CASE phase[m] = "up" /\ id[m] \in registry[m] /\ ~Serving(m) /\ mbox[m] = <<>> /\ rmbox[m] = <<>>
      BY <3>2, <3>3, <3>5, OneMessage DEF Serving
    <3> QED BY <3>1, <3>4, <3>5 DEF Settled
  <2>5. mbox'[n] = mbox[n]
    BY <1>0, <2>1, BroadcastToAll
  <2> HIDE DEF d
  <2>6. Pending(n)' /\ \A m \in Nodes : m # n => (~Busy(m)' /\ phase'[m] # "asking")
    BY <2>3, <2>4 DEF Pending, Busy
  <2>7. DeafUntilUp'
    BY <2>1, <2>4, <2>5 DEF CareInv, DeafUntilUp
  <2>8. OneBusy'
    BY <2>6 DEF OneBusy
  <2>9. OnlyAskers'
    <3>1. query'[n] = NoQuery /\ \A msg \in ToSet(mbox'[n]) : msg.kind = "INVALID_NAME"
      BY <2>1, <2>5 DEF CareInv, DeafUntilUp
    <3>2. ASSUME NEW m \in Nodes, m # n
          PROVE  query'[m] = NoQuery /\ \A msg \in ToSet(mbox'[m]) : msg = d
      <4>1. ToSet(<<d>>) = {d}
        BY OneMessage
      <4>2. query'[m] = NoQuery /\ (ToSet(mbox'[m]) = {} \/ mbox'[m] = <<d>>)
        BY <2>1, <2>4, <3>2
      <4> QED BY <4>1, <4>2
    <3> QED BY <2>2, <2>6, <3>1, <3>2 DEF OnlyAskers, Serving
  <2>10. OwnersObject'
    <3> SUFFICES ASSUME NEW m \in Nodes, m # n, phase'[m] = "up" PROVE Heard(m, n)'
      BY <2>6 DEF OwnersObject, Objecting
    <3> QED BY <2>1, <2>3, <2>4 DEF Heard, d
  <2>11. UniqueIds'
    BY <2>3, <2>4 DEF CareInv, UniqueIds, Registered
  <2> QED BY <2>7, <2>8, <2>9, <2>10, <2>11 DEF CareInv
<1>2. ASSUME NEW n \in Nodes, Refused(n) PROVE CareInv'
  <2>1. /\ phase[n] = "asking" /\ mbox[n] # <<>> /\ phase' = [phase EXCEPT ![n] = "begin"]
        /\ mbox' = [mbox EXCEPT ![n] = Tail(@)] /\ UNCHANGED <<id, query, registry, rmbox>>
    BY <1>2 DEF Refused
  <2>2. phase'[n] = "begin" /\ id[n] # NoId /\ \A m \in Nodes \ {n} : phase'[m] = phase[m]
    BY <1>0, <2>1 DEF TypeOK, HasDrawn
  <2>3. \A m \in Nodes : ToSet(mbox'[m]) \subseteq ToSet(mbox[m])
    BY <1>0, <2>1, ToSetOfTail
  <2>4. \A m \in Nodes : (Busy(m)' <=> Busy(m)) /\ (Pending(m)' <=> Pending(m))
                         /\ (Registered(m)' <=> Registered(m))
    BY <2>1, <2>2 DEF Busy, Pending, Registered
  <2>5. DeafUntilUp' /\ OneBusy' /\ UniqueIds'
    BY <2>1, <2>2, <2>3, <2>4 DEF CareInv, DeafUntilUp, OneBusy, UniqueIds
  <2>6. OnlyAskers'
    <3>1. ASSUME NEW m \in Nodes, Serving(m) PROVE query[m].from \in Nodes
      BY <3>1 DEF Serving, TypeOK
    <3>2. ASSUME NEW m \in Nodes, NEW msg \in ToSet(mbox[m]), msg.kind = "NAME_REQUEST"
          PROVE  msg.from \in Nodes
      BY <1>0, <3>2, ToSetTyped DEF Message
    <3> QED BY <2>1, <2>3, <2>4, <3>1, <3>2 DEF CareInv, OnlyAskers, Serving
  <2>7. \A m \in Nodes : phase'[m] # "asking"
    BY <2>1, <2>2 DEF CareInv, OneBusy, Busy
  <2> QED BY <2>5, <2>6, <2>7 DEF CareInv, OwnersObject
<1>3. ASSUME NEW n \in Nodes, Accepted(n) PROVE CareInv'
  <2>1. /\ phase[n] = "asking" /\ mbox[n] = <<>> /\ ~Outstanding(n)
        /\ phase' = [phase EXCEPT ![n] = "registered"] /\ UNCHANGED <<id, mbox, query, registry, rmbox>>
    BY <1>0, <1>3 DEF Accepted
  <2>2. phase'[n] = "registered" /\ \A m \in Nodes \ {n} : phase'[m] = phase[m]
    BY <2>1 DEF TypeOK
  <2>3. \A m \in Nodes : m # n => phase[m] # "asking" /\ phase[m] # "registered"
    BY <2>1 DEF CareInv, OneBusy, Busy
  <2>4. DeafUntilUp' /\ OneBusy'
    BY <2>1, <2>2 DEF CareInv, DeafUntilUp, OneBusy, Busy
  <2>5. OnlyAskers'
    <3>1. ASSUME NEW m \in Nodes, m # n, Pending(m) PROVE Pending(m)'
      BY <2>1, <2>2, <3>1 DEF Pending
    <3>2. ASSUME NEW m \in Nodes, Serving(m) PROVE query[m].from \in Nodes \ {n}
      BY <2>1, <3>2 DEF Outstanding, Serving, TypeOK
    <3>3. ASSUME NEW m \in Nodes, NEW msg \in ToSet(mbox[m]), msg.kind = "NAME_REQUEST"
          PROVE  msg.from \in Nodes \ {n}
      <4>1. msg.from \in Nodes
        BY <1>0, <3>3, ToSetTyped DEF Message
      <4> QED BY <2>1, <3>3, <4>1 DEF Outstanding
    <3>4. ToSet(mbox[n]) = {}
      BY <2>1, ToSetOfEmpty
    <3> QED BY <2>1, <3>1, <3>2, <3>3, <3>4 DEF CareInv, OnlyAskers, Serving
  <2>6. OwnersObject'
    BY <2>2, <2>3 DEF OwnersObject
  <2>7. UniqueIds'
    <3>1. ~IsRefused(n)
      BY <2>1, ToSetOfEmpty DEF IsRefused
    <3>2. ASSUME NEW m \in Nodes, m # n, Registered(m) PROVE id[m] # id[n]
      <4>1. phase[m] = "up"
        BY <2>3, <3>2 DEF Registered
      <4>2. CASE id[m] = id[n]
        <5>1. Objecting(m, n)
          BY <2>1, <3>2, <4>1, <4>2 DEF CareInv, OwnersObject
        <5> QED BY <5>1, <3>1, <2>1, OpenOrRefused
      <4> QED BY <4>2
    <3> QED BY <2>1, <2>2, <3>2 DEF CareInv, UniqueIds, Registered
  <2> QED BY <2>4, <2>5, <2>6, <2>7 DEF CareInv
<1>4. ASSUME NEW n \in Nodes, StartListener(n) PROVE CareInv'
  <2>1. /\ phase[n] = "registered" /\ phase' = [phase EXCEPT ![n] = "up"]
        /\ UNCHANGED <<id, mbox, query, registry, rmbox>>
    BY <1>4 DEF StartListener
  <2>2. phase'[n] = "up" /\ \A m \in Nodes \ {n} : phase'[m] = phase[m]
    BY <2>1 DEF TypeOK
  <2>3. \A m \in Nodes : phase'[m] # "asking"
    BY <2>1, <2>2 DEF CareInv, OneBusy, Busy
  <2>4. DeafUntilUp' /\ OneBusy' /\ UniqueIds'
    BY <2>1, <2>2 DEF CareInv, DeafUntilUp, OneBusy, Busy, UniqueIds, Registered
  <2>5. OnlyAskers'
    <3>1. ASSUME NEW m \in Nodes, Pending(m) PROVE Pending(m)'
      BY <2>1, <2>2, <3>1 DEF Pending
    <3>2. ASSUME NEW m \in Nodes, Serving(m) PROVE query[m].from \in Nodes
      BY <3>2 DEF Serving, TypeOK
    <3>3. ASSUME NEW m \in Nodes, NEW msg \in ToSet(mbox[m]), msg.kind = "NAME_REQUEST"
          PROVE  msg.from \in Nodes
      BY <1>0, <3>3, ToSetTyped DEF Message
    <3> QED BY <2>1, <3>1, <3>2, <3>3 DEF CareInv, OnlyAskers, Serving
  <2> QED BY <2>3, <2>4, <2>5 DEF CareInv, OwnersObject
<1>5. ASSUME NEW n \in Nodes, SayHello(n) PROVE CareInv'
  <2>1. PICK i \in Ids : Broadcast("HELLO", i, n)
    BY <1>5 DEF SayHello, Registered, HasDrawn
  <2>2. UNCHANGED <<phase, id, query, registry, rmbox>> /\ \A m \in Nodes : ~Outstanding(m)
    BY <1>0, <1>5 DEF SayHello
  <2> DEFINE d == Datagram("listen", "HELLO", i, n)
  <2>3. d.kind = "HELLO"
    BY DEF Datagram
  <2>4. \A m \in Nodes : /\ ToSet(mbox[m]) \subseteq ToSet(mbox'[m])
                         /\ ToSet(mbox'[m]) \subseteq ToSet(mbox[m]) \cup {d}
                         /\ phase[m] # "up" => mbox'[m] = mbox[m]
    BY <1>0, <2>1, BroadcastEffect, BroadcastToAll
  <2> HIDE DEF d
  <2>5. DeafUntilUp'
    BY <2>2, <2>4 DEF CareInv, DeafUntilUp
  <2>6. OnlyAskers'
    BY <1>a, <2>2, <2>3, <2>4 DEF CareInv, OnlyAskers, Serving
  <2>7. OwnersObject'
    <3> SUFFICES ASSUME NEW q \in Nodes, NEW m \in Nodes, Objecting(m, q) PROVE IsRefused(q)'
      BY <2>2 DEF CareInv, OwnersObject, Objecting
    <3>1. IsRefused(q)
      BY <2>2, OpenOrRefused
    <3> QED BY <2>4, <3>1 DEF IsRefused
  <2> QED BY <1>a, <2>2, <2>5, <2>6, <2>7 DEF CareInv
<1>6. ASSUME NEW n \in Nodes, HandleHello(n) PROVE CareInv'
  <2>1. PICK k \in 1..Len(mbox[n]) :
          /\ NextDatagram(n, k) /\ mbox[n][k].kind = "HELLO"
          /\ mbox' = [mbox EXCEPT ![n] = RemoveAt(@, k)]
    BY <1>6 DEF HandleHello
  <2>2. /\ \A m \in Nodes : ToSet(mbox'[m]) \subseteq ToSet(mbox[m])
        /\ \A m \in Nodes \ {n} : mbox'[m] = mbox[m]
    BY <2>1, TakeEffect
  <2>3. phase[n] = "up" /\ query[n] = NoQuery
    BY <2>1 DEF NextDatagram, Serving
  <2>4. UNCHANGED <<phase, id, query, registry>> /\ \A m \in Nodes \ {n} : rmbox'[m] = rmbox[m]
    BY <1>6 DEF HandleHello, TypeOK
  <2>5. DeafUntilUp' /\ OnlyAskers'
    BY <1>a, <2>2, <2>3, <2>4 DEF CareInv, DeafUntilUp, OnlyAskers, Serving
  <2>6. OwnersObject'
    <3> SUFFICES ASSUME NEW q \in Nodes, NEW m \in Nodes, phase[q] = "asking", Objecting(m, q)
                 PROVE  Objecting(m, q)'
      BY <2>4 DEF CareInv, OwnersObject
    <3>1. IsRefused(q) => IsRefused(q)'
      BY <2>2, <2>3 DEF IsRefused
    <3>2. CASE m # n
      BY <2>2, <2>4, <3>1, <3>2, StillObjecting
    <3>3. CASE m = n
      <4>1. ~Looks(n, q) /\ ~Finds(n, q)
        BY <2>3 DEF Looks, Finds, Request, NoQuery
      <4>2. ~Heard(n, q)
        <5> DEFINE d == Datagram("listen", "NAME_REQUEST", id[q], q)
        <5>1. d.kind = "NAME_REQUEST"
          BY DEF Datagram
        <5> HIDE DEF d
        <5>2. CASE mbox[n] = <<d>>
          <6>1. k = 1 /\ mbox[n][k] = d
            BY <2>1, <5>2, OneMessage
          <6> QED BY <2>1, <5>1, <6>1
        <5> QED BY <5>2 DEF Heard, d
      <4> QED BY <3>1, <3>3, <4>1, <4>2 DEF Objecting
    <3> QED BY <3>2, <3>3
  <2> QED BY <1>a, <2>4, <2>5, <2>6 DEF CareInv
<1>7. ASSUME NEW n \in Nodes, HandleNameRequest(n) PROVE CareInv'
  <2>1. PICK k \in 1..Len(mbox[n]) :
          /\ NextDatagram(n, k) /\ mbox[n][k].kind = "NAME_REQUEST"
          /\ mbox' = [mbox EXCEPT ![n] = RemoveAt(@, k)]
          /\ query' = [query EXCEPT ![n] = [id |-> mbox[n][k].id, from |-> mbox[n][k].from]]
    BY <1>7 DEF HandleNameRequest
  <2>2. /\ \A m \in Nodes : ToSet(mbox'[m]) \subseteq ToSet(mbox[m])
        /\ \A m \in Nodes \ {n} : mbox'[m] = mbox[m]
        /\ mbox[n][k] \in ToSet(mbox[n])
    BY <2>1, TakeEffect
  <2>3. phase[n] = "up" /\ query[n] = NoQuery
    BY <2>1 DEF NextDatagram, Serving
  <2>4. /\ UNCHANGED <<phase, id, registry>>
        /\ \A m \in Nodes \ {n} : rmbox'[m] = rmbox[m] /\ query'[m] = query[m]
        /\ rmbox'[n] = Append(rmbox[n], RegistryCall("get_all_nodes", NoId))
        /\ query'[n] = [id |-> mbox[n][k].id, from |-> mbox[n][k].from]
    BY <1>7, <2>1 DEF HandleNameRequest, TypeOK
  <2>5. DeafUntilUp'
    BY <2>2, <2>3, <2>4 DEF CareInv, DeafUntilUp
  <2>6. OnlyAskers'
    <3>1. Pending(query'[n].from)
      BY <2>1, <2>2, <2>4 DEF CareInv, OnlyAskers
    <3>2. \A m \in Nodes \ {n} : Serving(m)' <=> Serving(m)
      BY <2>4 DEF Serving
    <3> QED BY <1>a, <2>2, <2>4, <3>1, <3>2 DEF CareInv, OnlyAskers, Serving
  <2>7. OwnersObject'
    <3> SUFFICES ASSUME NEW q \in Nodes, NEW m \in Nodes, phase[q] = "asking", Objecting(m, q)
                 PROVE  Objecting(m, q)'
      BY <2>4 DEF CareInv, OwnersObject
    <3>1. IsRefused(q) => IsRefused(q)'
      BY <2>2, <2>3 DEF IsRefused
    <3>2. CASE m # n
      BY <2>2, <2>4, <3>1, <3>2, StillObjecting
    <3>3. CASE m = n
      <4>1. ~Looks(n, q) /\ ~Finds(n, q)
        BY <2>3 DEF Looks, Finds, Request, NoQuery
      <4>2. CASE Heard(n, q)
        <5> DEFINE d == Datagram("listen", "NAME_REQUEST", id[q], q)
        <5>1. d.id = id[q] /\ d.from = q
          BY DEF Datagram
        <5> HIDE DEF d
        <5>2. mbox[n] = <<d>> /\ rmbox[n] = <<>> /\ id[n] \in registry[n]
          BY <4>2 DEF Heard, d
        <5>3. k = 1 /\ mbox[n][k] = d
          BY <5>2, OneMessage
        <5>4. mbox'[n] = <<>>
          BY <1>0, <2>1, <5>2, <5>3, OneMessage
        <5>5. rmbox'[n] = <<RegistryCall("get_all_nodes", NoId)>>
          BY <2>4, <5>2, OneMessage
        <5> QED BY <2>4, <3>3, <5>1, <5>2, <5>3, <5>4, <5>5 DEF Objecting, Looks, Request
      <4> QED BY <3>1, <3>3, <4>1, <4>2 DEF Objecting
    <3> QED BY <3>2, <3>3
  <2> QED BY <1>a, <2>4, <2>5, <2>6, <2>7 DEF CareInv
<1>8. ASSUME NEW n \in Nodes, Answer(n) PROVE CareInv'
  <2>1. /\ mbox[n] # <<>> /\ query[n] # NoQuery
        /\ query[n] \in [id : Ids, from : Nodes]
        /\ \A m \in Nodes \ {n} : ToSet(mbox[m]) \subseteq ToSet(mbox'[m])
    BY <1>8, AnswerEffect DEF Answer, Serving
  <2>2. PICK i \in Ids, a \in Nodes : query[n] = [id |-> i, from |-> a]
    BY <2>1
  <2>3. phase[n] = "up" /\ Pending(a)
    BY <2>1, <2>2 DEF CareInv, DeafUntilUp, OnlyAskers, Serving
  <2>4. a # n
    BY <2>3 DEF Pending
  <2> DEFINE d == Datagram("request", "INVALID_NAME", i, n)
  <2>5. d.kind = "INVALID_NAME" /\ d \in Message
    BY DEF Datagram, Message
  <2>6. \/ mbox' = [[mbox EXCEPT ![n] = Tail(@)] EXCEPT ![a] = Append(@, d)]
        \/ mbox' = [mbox EXCEPT ![n] = Tail(@)] /\ i \notin NodesSeen(Head(mbox[n]))
    BY <1>0, <1>8, <2>2 DEF Answer
  <2> HIDE DEF d
  <2>7. /\ mbox'[n] = Tail(mbox[n])
        /\ \A m \in Nodes : m # n /\ m # a => mbox'[m] = mbox[m]
        /\ \/ mbox'[a] = Append(mbox[a], d)
           \/ mbox'[a] = mbox[a] /\ i \notin NodesSeen(Head(mbox[n]))
    BY <1>0, <2>4, <2>6
  <2>8. ToSet(Append(mbox[a], d)) = ToSet(mbox[a]) \cup {d} /\ ToSet(Tail(mbox[n])) \subseteq ToSet(mbox[n])
    BY <1>0, <2>1, <2>5, ToSetOfAppend, ToSetOfTail
  <2>9. /\ UNCHANGED <<phase, id, registry, rmbox>>
        /\ query'[n] = NoQuery /\ \A m \in Nodes \ {n} : query'[m] = query[m]
    BY <1>8 DEF Answer, TypeOK
  <2>10. DeafUntilUp'
    BY <2>3, <2>5, <2>7, <2>8, <2>9 DEF CareInv, DeafUntilUp
  <2>11. OnlyAskers'
    <3>1. ASSUME NEW m \in Nodes, NEW msg \in ToSet(mbox'[m]) PROVE msg \in ToSet(mbox[m]) \/ (m = a /\ msg = d)
      <4>1. CASE m = n
        BY <2>7, <2>8, <3>1, <4>1
      <4>2. CASE m = a
        <5>1. ToSet(mbox'[a]) \subseteq ToSet(mbox[a]) \cup {d}
          BY <2>7, <2>8
        <5> QED BY <3>1, <4>2, <5>1
      <4>3. CASE m # n /\ m # a
        BY <2>7, <3>1, <4>3
      <4> QED BY <4>1, <4>2, <4>3
    <3>2. \A m \in Nodes : Serving(m)' => Serving(m) /\ query'[m] = query[m]
      BY <2>9 DEF Serving, NoQuery
    <3> QED BY <1>a, <2>3, <2>5, <2>9, <3>1, <3>2 DEF CareInv, OnlyAskers
  <2>12. OwnersObject'
    <3> SUFFICES ASSUME NEW q \in Nodes, NEW m \in Nodes, phase[q] = "asking", phase[m] = "up",
                        id[m] = id[q], Objecting(m, q)
                 PROVE  Objecting(m, q)'
      BY <2>9 DEF CareInv, OwnersObject
    <3>1. IsRefused(q) => IsRefused(q)'
      BY <2>1, <2>3 DEF IsRefused
    <3>2. CASE m # n
      <4>1. m # a
        BY <2>3 DEF Pending
      <4> QED BY <2>7, <2>9, <3>1, <3>2, <4>1, StillObjecting
    <3>3. CASE m = n
      <4>1. ~Heard(n, q) /\ ~Looks(n, q)
        BY <2>1 DEF Heard, Looks
      <4>2. CASE Finds(n, q)
        <5>1. PICK names \in SUBSET Ids : mbox[n] = <<NodeList(names)>> /\ id[n] \in names
          BY <4>2 DEF Finds
        <5>2. i = id[q] /\ a = q
          BY <2>2, <4>2 DEF Finds, Request
        <5>3. Head(mbox[n]) = NodeList(names)
          BY <5>1, OneMessage
        <5>4. i \in NodesSeen(Head(mbox[n]))
          BY <3>3, <5>1, <5>2, <5>3 DEF NodesSeen, NodeList
        <5>5. d \in ToSet(mbox'[q])
          BY <2>7, <2>8, <5>2, <5>4
        <5> QED BY <2>5, <5>5 DEF Objecting, IsRefused
      <4> QED BY <3>1, <3>3, <4>1, <4>2 DEF Objecting
    <3> QED BY <3>2, <3>3
  <2> QED BY <1>a, <2>9, <2>10, <2>11, <2>12 DEF CareInv
<1>9. ASSUME NEW n \in Nodes, RegistryStep(n) PROVE CareInv'
  <2>1. rmbox[n] # <<>> /\ \A m \in Nodes \ {n} : rmbox'[m] = rmbox[m]
    BY <1>9, RegistryEffect
  <2>2. /\ UNCHANGED <<phase, id, query>> /\ rmbox'[n] = Tail(rmbox[n])
        /\ \A m \in Nodes \ {n} : mbox'[m] = mbox[m] /\ registry'[m] = registry[m]
        /\ Head(rmbox[n]).op = "get_all_nodes" =>
             mbox'[n] = Append(mbox[n], NodeList(registry[n])) /\ registry'[n] = registry[n]
        /\ mbox'[n] = mbox[n] \/ mbox'[n] = Append(mbox[n], NodeList(registry[n]))
    BY <1>9 DEF RegistryStep, TypeOK
  <2>3. phase[n] = "up"
    BY <2>1 DEF CareInv, DeafUntilUp
  <2> DEFINE d == NodeList(registry[n])
  <2>4. d \in Message /\ d.kind = "list"
    BY DEF NodeList, Message, TypeOK
  <2> HIDE DEF d
  <2>5. ToSet(Append(mbox[n], d)) = ToSet(mbox[n]) \cup {d}
    BY <1>0, <2>4, ToSetOfAppend
  <2>6. /\ ToSet(mbox[n]) \subseteq ToSet(mbox'[n])
        /\ \A msg \in ToSet(mbox'[n]) : msg \in ToSet(mbox[n]) \/ msg.kind = "list"
    BY <2>2, <2>4, <2>5 DEF d
  <2>7. DeafUntilUp' /\ OnlyAskers'
    BY <1>a, <2>1, <2>2, <2>3, <2>6 DEF CareInv, DeafUntilUp, OnlyAskers, Serving
  <2>8. OwnersObject'
    <3> SUFFICES ASSUME NEW q \in Nodes, NEW m \in Nodes, phase[q] = "asking", Objecting(m, q)
                 PROVE  Objecting(m, q)'
      BY <2>2 DEF CareInv, OwnersObject
    <3>1. IsRefused(q) => IsRefused(q)'
      BY <2>2, <2>6 DEF IsRefused
    <3>2. CASE m # n
      BY <2>1, <2>2, <3>1, <3>2, StillObjecting
    <3>3. CASE m = n
      <4>1. ~Heard(n, q) /\ ~Finds(n, q)
        BY <2>1 DEF Heard, Finds
      <4>2. CASE Looks(n, q)
        <5>1. /\ mbox[n] = <<>> /\ rmbox[n] = <<RegistryCall("get_all_nodes", NoId)>>
              /\ id[n] \in registry[n] /\ query[n] = Request(q)
          BY <4>2 DEF Looks
        <5>2. Head(rmbox[n]).op = "get_all_nodes" /\ Tail(rmbox[n]) = <<>>
          <6>1. Head(rmbox[n]) = RegistryCall("get_all_nodes", NoId) /\ Tail(rmbox[n]) = <<>>
            BY <5>1, OneMessage
          <6> QED BY <6>1 DEF RegistryCall
        <5>3. mbox'[n] = <<NodeList(registry[n])>>
          BY <2>2, <5>1, <5>2, OneMessage
        <5>4. registry[n] \in SUBSET Ids
          BY DEF TypeOK
        <5>5. Finds(n, q)'
          BY <2>2, <5>1, <5>2, <5>3, <5>4 DEF Finds, Request
        <5> QED BY <3>3, <5>5 DEF Objecting
      <4> QED BY <3>1, <3>3, <4>1, <4>2 DEF Objecting
    <3> QED BY <3>2, <3>3
  <2> QED BY <1>a, <2>2, <2>7, <2>8 DEF CareInv
<1>10. CASE UNCHANGED vars
  BY <1>10 DEF vars, CareInv, DeafUntilUp, OneBusy, Busy, OnlyAskers, Pending, Serving, OwnersObject,
               Objecting, Heard, Looks, Finds, Request, IsRefused, UniqueIds, Registered
<1> QED BY <1>1, <1>2, <1>3, <1>4, <1>5, <1>6, <1>7, <1>8, <1>9, <1>10 DEF Next

\* The promise of name_request's header holds for any number of nodes if no
\* datagram is lost, nodes start one at a time, requests are answered in time
\* and no HELLO is sent meanwhile.
THEOREM NamesAreUniqueWithCare == Spec => []UniqueIdsWithCare
<1> DEFINE Inv == TypeInv /\ (Careful => CareInv)
<1>1. Init => Inv
  BY TypeInvInit, CareInit
<1>2. Inv /\ [Next]_vars => Inv'
  <2> SUFFICES ASSUME Inv, [Next]_vars PROVE Inv'
    OBVIOUS
  <2>1. net' = net
    BY DEF Next, vars, RequestName, Refused, Accepted, StartListener, SayHello, HandleHello,
           HandleNameRequest, Answer, RegistryStep
  <2> QED BY <2>1, TypeInvNext, CareNext DEF Careful
<1>3. Inv => UniqueIdsWithCare
  BY DEF CareInv, UniqueIdsWithCare
<1> HIDE DEF Inv
<1> QED BY <1>1, <1>2, <1>3, PTL DEF Spec

=============================================================================
