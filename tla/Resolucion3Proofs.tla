--------------------------- MODULE Resolucion3Proofs ---------------------------
(* Unique names in Resolucion3, for any number of nodes, of names and of       *)
(* witnesses and any length of the mailboxes.                                  *)
EXTENDS Resolucion3, Lemmas

AnyName == Names \cup {NoName}
Datagrams == [kind : {"NAME_REQUEST", "HELLO"}, id : AnyName, from : Peers]

Typed3 == /\ step \in [Peers -> {"check", "asking", "accepted", "up", "crashed"}]
          /\ name \in [Peers -> AnyName]
          /\ refusals \in [Peers -> Seq(AnyName)]
          /\ inbox \in [Peers -> Seq(Datagrams)]
          /\ requested \in [Peers -> SUBSET AnyName]
          /\ prompt \in BOOLEAN
          /\ first \subseteq Peers

\* The witnesses listen for ever, each with a name of its own.
FirstListen == /\ \A w \in first : step[w] = "up"
               /\ \A v, w \in first : name[v] = name[w] => v = w

\* A node with a name has no request and no refusal under way.
Settled == prompt => \A n \in Peers : Named(n) =>
  /\ refusals[n] = <<>>
  /\ \A m \in Peers : \A d \in ToSet(inbox[m]) : d.kind = "NAME_REQUEST" => d.from # n

\* Witness w has read the request of n for its name and has not refused it.
Granted(w, n) ==
  /\ step[n] \in {"asking", "accepted", "up"}
  /\ Request(name[n], n) \notin ToSet(inbox[w])
  /\ name[n] \notin ToSet(refusals[n])

\* A witness grants a name that is not its own, remembers it, and grants it once.
Grants == prompt => \A w \in first :
  /\ \A n \in Peers \ first : Granted(w, n) => name[n] # name[w] /\ name[n] \in requested[w]
  /\ \A n, m \in Peers \ first :
       Granted(w, n) /\ Granted(w, m) /\ name[n] = name[m] => n = m

Inv3 == Typed3 /\ FirstListen /\ Settled /\ Grants

-----------------------------------------------------------------------------
LEMMA Init3Inv == Init3 => Inv3
<1> SUFFICES ASSUME Init3 PROVE Inv3
  OBVIOUS
<1>1. Typed3
  BY WitnessAssumption DEF Init3, Typed3, AnyName
<1>2. FirstListen
  <2>1. PICK i \in [first -> Names] :
          IsInjective(i) /\ name = [n \in Peers |-> IF n \in first THEN i[n] ELSE NoName]
    BY DEF Init3
  <2>2. first \subseteq Peers /\ \A w \in first : name[w] = i[w]
    BY <1>1, <2>1 DEF Typed3
  <2> QED BY <2>1, <2>2 DEF Init3, FirstListen, IsInjective
<1>3. ASSUME NEW n \in Peers PROVE ToSet(inbox[n]) = {} /\ refusals[n] = <<>>
  BY ToSetOfEmpty DEF Init3
<1>4. Settled
  BY <1>3 DEF Settled
<1>5. Grants
  BY DEF Init3, Grants, Granted
<1> QED BY <1>1, <1>2, <1>4, <1>5 DEF Inv3

\* A broadcast adds one datagram to some mailboxes, to those of all listeners
\* when nothing is lost.
LEMMA BroadcastEffect3 ==
  ASSUME Typed3, NEW d \in Datagrams, Broadcast(d)
  PROVE  /\ inbox' \in [Peers -> Seq(Datagrams)]
         /\ \A n \in Peers : /\ ToSet(inbox[n]) \subseteq ToSet(inbox'[n])
                             /\ ToSet(inbox'[n]) \subseteq ToSet(inbox[n]) \cup {d}
         /\ prompt => \A n \in Up : d \in ToSet(inbox'[n])
<1>1. PICK heard \in SUBSET Up :
        /\ inbox' = [n \in Peers |-> IF n \in heard THEN Append(inbox[n], d) ELSE inbox[n]]
        /\ prompt => heard = Up
  BY DEF Broadcast
<1>2. ASSUME NEW n \in Peers
      PROVE  /\ inbox'[n] \in Seq(Datagrams)
             /\ ToSet(inbox[n]) \subseteq ToSet(inbox'[n])
             /\ ToSet(inbox'[n]) \subseteq ToSet(inbox[n]) \cup {d}
             /\ n \in heard => d \in ToSet(inbox'[n])
  <2>1. inbox[n] \in Seq(Datagrams)
    BY DEF Typed3
  <2>2. /\ Append(inbox[n], d) \in Seq(Datagrams)
        /\ ToSet(Append(inbox[n], d)) = ToSet(inbox[n]) \cup {d}
    BY <2>1, ToSetOfAppend
  <2> QED BY <1>1, <2>1, <2>2
<1>3. inbox' \in [Peers -> Seq(Datagrams)]
  BY <1>1, <1>2
<1> QED BY <1>1, <1>2, <1>3 DEF Up

\* A listener takes the first datagram and leaves the others.
LEMMA HearEffect3 ==
  ASSUME Typed3, NEW n \in Peers, Hear(n)
  PROVE  /\ Head(inbox[n]) \in Datagrams /\ Head(inbox[n]) \in ToSet(inbox[n])
         /\ inbox' \in [Peers -> Seq(Datagrams)]
         /\ \A m \in Peers : ToSet(inbox'[m]) \subseteq ToSet(inbox[m])
         /\ \A m \in Peers \ {n} : inbox'[m] = inbox[m]
         /\ ToSet(inbox[n]) \subseteq ToSet(inbox'[n]) \cup {Head(inbox[n])}
<1>1. inbox \in [Peers -> Seq(Datagrams)] /\ inbox[n] \in Seq(Datagrams) /\ inbox[n] # <<>>
  BY DEF Typed3, Hear
<1>2. /\ Head(inbox[n]) \in Datagrams /\ Tail(inbox[n]) \in Seq(Datagrams)
      /\ Head(inbox[n]) \in ToSet(inbox[n])
      /\ ToSet(Tail(inbox[n])) \subseteq ToSet(inbox[n])
      /\ ToSet(inbox[n]) \subseteq ToSet(Tail(inbox[n])) \cup {Head(inbox[n])}
  BY <1>1, ToSetOfTail
<1>3. inbox' = [inbox EXCEPT ![n] = Tail(@)]
  BY DEF Hear
<1> QED BY <1>1, <1>2, <1>3

\* A step after which no witness has granted more than before.
LEMMA NoNewGrants ==
  ASSUME Grants, UNCHANGED setting,
         \A w \in first : name'[w] = name[w] /\ requested[w] \subseteq requested'[w],
         \A w \in first, n \in Peers \ first :
            prompt /\ Granted(w, n)' => Granted(w, n) /\ name'[n] = name[n]
  PROVE  Grants'
<1>1. first' = first /\ prompt' = prompt
  BY DEF setting
<1> HIDE DEF Granted
<1> QED BY <1>1 DEF Grants

LEMMA Next3Inv == Inv3 /\ [Next3]_vars3 => Inv3'
<1> SUFFICES ASSUME Inv3, [Next3]_vars3 PROVE Inv3'
  OBVIOUS
<1>0. Typed3 /\ FirstListen /\ Settled /\ Grants /\ first \subseteq Peers
  BY DEF Inv3, Typed3
<1>1. ASSUME NEW n \in Peers, Check(n) PROVE Inv3'
  <2>1. PICK i \in Names : name' = [name EXCEPT ![n] = i] /\ Broadcast(Request(i, n))
    BY <1>1 DEF Check
  <2> DEFINE d == Request(i, n)
  <2>2. d \in Datagrams /\ d.kind = "NAME_REQUEST" /\ d.from = n
    BY DEF Request, Datagrams, AnyName
  <2> HIDE DEF d
  <2>3. /\ inbox' \in [Peers -> Seq(Datagrams)]
        /\ \A m \in Peers : /\ ToSet(inbox[m]) \subseteq ToSet(inbox'[m])
                            /\ ToSet(inbox'[m]) \subseteq ToSet(inbox[m]) \cup {d}
        /\ prompt => \A m \in Up : d \in ToSet(inbox'[m])
    BY <1>0, <2>1, <2>2, BroadcastEffect3 DEF d
  <2>4. /\ step[n] = "check" /\ step' = [step EXCEPT ![n] = "asking"]
        /\ UNCHANGED <<refusals, requested, setting>>
    BY <1>1 DEF Check
  <2>5. n \notin first
    BY <1>0, <2>4 DEF FirstListen
  <2>6. Typed3'
    BY <1>0, <2>1, <2>3, <2>4 DEF Typed3, AnyName, setting
  <2>7. FirstListen'
    BY <1>0, <2>1, <2>4, <2>5 DEF FirstListen, Typed3, setting
  <2>8. Settled'
    BY <1>0, <2>2, <2>3, <2>4 DEF Settled, Named, Typed3, setting
  <2>9. ASSUME NEW w \in first, NEW m \in Peers \ first, prompt, Granted(w, m)'
        PROVE  Granted(w, m) /\ name'[m] = name[m]
    <3>1. w \in Up
      BY <1>0 DEF FirstListen, Up
    <3>2. m # n
      BY <1>0, <2>1, <2>3, <2>9, <3>1 DEF Granted, d, Typed3, Request
    <3>3. step'[m] = step[m] /\ name'[m] = name[m] /\ refusals'[m] = refusals[m]
      BY <1>0, <2>1, <2>4, <3>2 DEF Typed3
    <3>4. Request(name[m], m)' = Request(name[m], m)
      BY <3>3 DEF Request
    <3> QED BY <1>0, <2>3, <2>9, <3>3, <3>4 DEF Granted
  <2>10. Grants'
    <3>1. \A w \in first : name'[w] = name[w] /\ requested[w] \subseteq requested'[w]
      BY <1>0, <2>1, <2>4, <2>5 DEF Typed3
    <3> QED BY <1>0, <2>4, <2>9, <3>1, NoNewGrants
  <2> QED BY <2>6, <2>7, <2>8, <2>10 DEF Inv3
<1>2. ASSUME NEW n \in Peers, Refused(n) PROVE Inv3'
  <2>1. /\ step[n] = "asking" /\ refusals[n] # <<>>
        /\ refusals' = [refusals EXCEPT ![n] = Tail(@)]
        /\ UNCHANGED <<name, inbox, requested, setting>>
    BY <1>2 DEF Refused
  <2>2. PICK s \in {"check", "crashed"} : step' = [step EXCEPT ![n] = s]
    BY <1>2 DEF Refused
  <2>3. Tail(refusals[n]) \in Seq(AnyName)
    BY <1>0, <2>1, ToSetOfTail DEF Typed3
  <2>4. Typed3'
    BY <1>0, <2>1, <2>2, <2>3 DEF Typed3, setting
  <2>5. FirstListen'
    BY <1>0, <2>1, <2>2 DEF FirstListen, Typed3, setting
  <2>6. Settled'
    BY <1>0, <2>1, <2>2 DEF Settled, Named, Typed3, setting
  <2>7. \A w \in first, m \in Peers \ first :
          prompt /\ Granted(w, m)' => Granted(w, m) /\ name'[m] = name[m]
    BY <1>0, <2>1, <2>2 DEF Granted, Typed3, Request
  <2>8. Grants'
    BY <1>0, <2>1, <2>7, NoNewGrants
  <2> QED BY <2>4, <2>5, <2>6, <2>8 DEF Inv3
<1>3. ASSUME NEW n \in Peers, Accept(n) PROVE Inv3'
  <2>1. /\ step[n] = "asking" /\ refusals[n] = <<>>
        /\ prompt => ~Pending(n)
        /\ step' = [step EXCEPT ![n] = "accepted"]
        /\ UNCHANGED <<name, refusals, inbox, requested, setting>>
    BY <1>3 DEF Accept
  <2>2. Typed3' /\ FirstListen'
    BY <1>0, <2>1 DEF FirstListen, Typed3, setting
  <2>3. ASSUME prompt, NEW m \in Peers, NEW d \in ToSet(inbox[m])
        PROVE  ~(d.kind = "NAME_REQUEST" /\ d.from = n)
    <3>1. PICK k \in DOMAIN inbox[m] : d = inbox[m][k]
      BY <2>3 DEF ToSet
    <3> QED BY <2>1, <2>3, <3>1 DEF Pending
  <2>4. Settled'
    BY <1>0, <2>1, <2>3 DEF Settled, Named, Typed3, setting
  <2>5. \A w \in first, m \in Peers \ first :
          prompt /\ Granted(w, m)' => Granted(w, m) /\ name'[m] = name[m]
    BY <1>0, <2>1 DEF Granted, Typed3, Request
  <2>6. Grants'
    BY <1>0, <2>1, <2>5, NoNewGrants
  <2> QED BY <2>2, <2>4, <2>6 DEF Inv3
<1>4. ASSUME NEW n \in Peers, StartServer(n) PROVE Inv3'
  <2>1. /\ step[n] = "accepted" /\ step' = [step EXCEPT ![n] = "up"]
        /\ UNCHANGED <<name, refusals, inbox, requested, setting>>
    BY <1>4 DEF StartServer
  <2>2. Typed3' /\ FirstListen' /\ Settled'
    BY <1>0, <2>1 DEF FirstListen, Settled, Named, Typed3, setting
  <2>3. \A w \in first, m \in Peers \ first :
          prompt /\ Granted(w, m)' => Granted(w, m) /\ name'[m] = name[m]
    BY <1>0, <2>1 DEF Granted, Typed3, Request
  <2>4. Grants'
    BY <1>0, <2>1, <2>3, NoNewGrants
  <2> QED BY <2>2, <2>4 DEF Inv3
<1>5. ASSUME NEW n \in Peers, SendHello(n) PROVE Inv3'
  <2> DEFINE d == Hello(name[n], n)
  <2>1. d \in Datagrams /\ d.kind = "HELLO"
    BY <1>0 DEF Hello, Datagrams, Typed3
  <2>2. Broadcast(d) /\ UNCHANGED <<step, name, refusals, requested, setting>>
    BY <1>5 DEF SendHello
  <2> HIDE DEF d
  <2>3. /\ inbox' \in [Peers -> Seq(Datagrams)]
        /\ \A m \in Peers : /\ ToSet(inbox[m]) \subseteq ToSet(inbox'[m])
                            /\ ToSet(inbox'[m]) \subseteq ToSet(inbox[m]) \cup {d}
    BY <1>0, <2>1, <2>2, BroadcastEffect3
  <2>4. Typed3' /\ FirstListen'
    BY <1>0, <2>2, <2>3 DEF FirstListen, Typed3, setting
  <2>5. Settled'
    BY <1>0, <2>1, <2>2, <2>3 DEF Settled, Named, setting
  <2>6. \A w \in first, m \in Peers \ first :
          prompt /\ Granted(w, m)' => Granted(w, m) /\ name'[m] = name[m]
    BY <1>0, <2>2, <2>3 DEF Granted, Request
  <2>7. Grants'
    BY <1>0, <2>2, <2>6, NoNewGrants
  <2> QED BY <2>4, <2>5, <2>7 DEF Inv3
<1>6. ASSUME NEW n \in Peers, RecvHello(n) PROVE Inv3'
  <2>1. /\ Hear(n) /\ Head(inbox[n]).kind = "HELLO"
        /\ UNCHANGED <<step, name, refusals, requested, setting>>
    BY <1>6 DEF RecvHello
  <2>2. /\ inbox' \in [Peers -> Seq(Datagrams)]
        /\ \A m \in Peers : ToSet(inbox'[m]) \subseteq ToSet(inbox[m])
        /\ \A m \in Peers \ {n} : inbox'[m] = inbox[m]
        /\ ToSet(inbox[n]) \subseteq ToSet(inbox'[n]) \cup {Head(inbox[n])}
    BY <1>0, <2>1, HearEffect3
  <2>3. Typed3' /\ FirstListen' /\ Settled'
    BY <1>0, <2>1, <2>2 DEF FirstListen, Settled, Named, Typed3, setting
  <2>4. ASSUME NEW w \in first, NEW m \in Peers \ first, Granted(w, m)' PROVE Granted(w, m)
    <3>1. Request(name[m], m) # Head(inbox[n])
      BY <2>1 DEF Request
    <3> QED BY <1>0, <2>1, <2>2, <2>4, <3>1 DEF Granted, Request
  <2>5. Grants'
    BY <1>0, <2>1, <2>4, NoNewGrants
  <2> QED BY <2>3, <2>5 DEF Inv3
<1>7. ASSUME NEW v \in Peers, RecvRequest(v) PROVE Inv3'
  <2> DEFINE d == Head(inbox[v])
             i == d.id
             asker == d.from
             refuse == i = name[v] \/ i \in requested[v]
  <2>1. Hear(v) /\ d.kind = "NAME_REQUEST" /\ UNCHANGED <<step, name, setting>>
    BY <1>7 DEF RecvRequest
  <2>2. \/ /\ refuse /\ step[asker] \in {"check", "asking"}
           /\ refusals' = [refusals EXCEPT ![asker] = Append(@, i)]
        \/ /\ ~refuse \/ ~prompt \/ step[asker] \notin {"check", "asking"}
           /\ UNCHANGED refusals
    BY <1>7 DEF RecvRequest
  <2>3. requested' = [requested EXCEPT ![v] = IF refuse THEN @ ELSE @ \cup {i}]
    BY <1>7 DEF RecvRequest
  <2>4. /\ d \in Datagrams /\ d \in ToSet(inbox[v])
        /\ inbox' \in [Peers -> Seq(Datagrams)]
        /\ \A m \in Peers : ToSet(inbox'[m]) \subseteq ToSet(inbox[m])
        /\ \A m \in Peers \ {v} : inbox'[m] = inbox[m]
        /\ ToSet(inbox[v]) \subseteq ToSet(inbox'[v]) \cup {d}
    BY <1>0, <2>1, HearEffect3
  <2>5. asker \in Peers /\ i \in AnyName
    BY <2>4 DEF Datagrams
  <2> HIDE DEF d
  <2>6. /\ refusals' \in [Peers -> Seq(AnyName)]
        /\ \A m \in Peers : ToSet(refusals[m]) \subseteq ToSet(refusals'[m])
        /\ \A m \in Peers : step[m] \notin {"check", "asking"} => refusals'[m] = refusals[m]
        /\ refusals' # refusals => i \in ToSet(refusals'[asker])
    <3>1. /\ Append(refusals[asker], i) \in Seq(AnyName)
          /\ ToSet(Append(refusals[asker], i)) = ToSet(refusals[asker]) \cup {i}
      BY <1>0, <2>5, ToSetOfAppend DEF Typed3
    <3> QED BY <1>0, <2>2, <2>5, <3>1 DEF Typed3
  <2>7. Typed3' /\ FirstListen'
    BY <1>0, <2>1, <2>3, <2>4, <2>5, <2>6 DEF FirstListen, Typed3, AnyName, setting
  <2>8. Settled'
    BY <1>0, <2>1, <2>4, <2>6 DEF Settled, Named, setting
  <2>9. ASSUME prompt, NEW w \in first, NEW n \in Peers \ first, Granted(w, n)', ~Granted(w, n)
        PROVE  w = v /\ n = asker /\ name[n] = i /\ ~refuse
    <3>1. /\ step[n] \in {"asking", "accepted", "up"}
          /\ Request(name[n], n) \notin ToSet(inbox'[w]) /\ name[n] \notin ToSet(refusals'[n])
      BY <2>1, <2>9 DEF Granted, Request
    <3>2. Request(name[n], n) \in ToSet(inbox[w])
      BY <2>6, <2>9, <3>1 DEF Granted
    <3>3. w = v /\ d = Request(name[n], n)
      BY <1>0, <2>4, <3>1, <3>2
    <3>4. n = asker /\ name[n] = i
      BY <3>3 DEF Request
    <3>5. step[n] = "asking"
      BY <1>0, <2>9, <3>1, <3>2 DEF Settled, Named, Request
    <3>6. ~refuse
      BY <2>2, <2>6, <2>9, <3>1, <3>4, <3>5, <1>0, <2>5 DEF Typed3
    <3> QED BY <3>3, <3>4, <3>6
  <2>10. Grants'
    <3>1. first' = first /\ prompt' = prompt /\ name' = name
      BY <2>1 DEF setting
    <3>2. \A w \in first : requested[w] \subseteq requested'[w]
      BY <1>0, <2>3 DEF Typed3
    <3>3. ~refuse => i \in requested'[v] /\ i # name[v] /\ i \notin requested[v]
      BY <1>0, <2>3 DEF Typed3
    <3>4. ASSUME prompt, NEW w \in first, NEW n \in Peers \ first, Granted(w, n)'
          PROVE  name[n] # name[w] /\ name[n] \in requested'[w]
      BY <1>0, <2>9, <3>2, <3>3, <3>4 DEF Grants
    <3>5. ASSUME prompt, NEW w \in first, NEW n \in Peers \ first, NEW m \in Peers \ first,
                 Granted(w, n)', Granted(w, m)', name[n] = name[m]
          PROVE  n = m
      <4>1. CASE Granted(w, n) /\ Granted(w, m)
        BY <1>0, <3>5, <4>1 DEF Grants
      <4>2. CASE ~Granted(w, n) /\ ~Granted(w, m)
        BY <2>9, <3>5, <4>2
      <4>3. ASSUME NEW x \in Peers \ first, NEW y \in Peers \ first, name[x] = name[y],
                   Granted(w, x)', Granted(w, x), Granted(w, y)', ~Granted(w, y)
            PROVE  FALSE
        <5>1. w = v /\ name[y] = i /\ ~refuse
          BY <2>9, <3>5, <4>3
        <5>2. name[x] \in requested[w]
          BY <1>0, <3>5, <4>3 DEF Grants
        <5> QED BY <3>3, <4>3, <5>1, <5>2
      <4> QED BY <3>5, <4>1, <4>2, <4>3
    <3> QED BY <3>1, <3>4, <3>5 DEF Grants
  <2> QED BY <2>7, <2>8, <2>10 DEF Inv3
<1>8. CASE UNCHANGED vars3
  BY <1>0, <1>8
  DEF vars3, Inv3, Typed3, FirstListen, Settled, Named, Grants, Granted, Request, setting
<1> QED BY <1>1, <1>2, <1>3, <1>4, <1>5, <1>6, <1>7, <1>8 DEF Next3

\* Two nodes that have one name would both have it from the same witness.
LEMMA GrantsAreUnique == Inv3 => UniqueBesideAWitness
<1> SUFFICES ASSUME Inv3, prompt, NEW w \in first, NEW n \in Peers, NEW m \in Peers,
                    Named(n), Named(m), name[n] = name[m]
             PROVE  n = m
  BY DEF UniqueBesideAWitness
<1>0. Typed3 /\ FirstListen /\ Settled /\ Grants /\ first \subseteq Peers
  BY DEF Inv3, Typed3
<1>1. ASSUME NEW x \in Peers \ first, Named(x), NEW v \in first PROVE Granted(v, x)
  <2>1. /\ refusals[x] = <<>>
        /\ \A d \in ToSet(inbox[v]) : d.kind = "NAME_REQUEST" => d.from # x
    BY <1>0, <1>1 DEF Settled
  <2>2. Request(name[x], x).kind = "NAME_REQUEST" /\ Request(name[x], x).from = x
    BY DEF Request
  <2> QED BY <1>1, <2>1, <2>2, ToSetOfEmpty DEF Granted, Named
<1>2. ASSUME NEW x \in Peers \ first, Named(x), NEW v \in first PROVE name[x] # name[v]
  BY <1>0, <1>1, <1>2 DEF Grants
<1>3. CASE n \in first /\ m \in first
  BY <1>0, <1>3 DEF FirstListen
<1>4. CASE n \in first <=> m \notin first
  BY <1>2, <1>4
<1>5. CASE n \notin first /\ m \notin first
  BY <1>0, <1>1, <1>5 DEF Grants
<1> QED BY <1>3, <1>4, <1>5

-----------------------------------------------------------------------------
(* A crash takes two listeners: while there is only one, every request gets    *)
(* one answer, and it is about the name asked for.                             *)
Alone == \A x, y \in Up : x = y
Asks(d, n) == d.kind = "NAME_REQUEST" /\ d.from = n
Once(s, n) == \A k, l \in DOMAIN s : Asks(s[k], n) /\ Asks(s[l], n) => k = l
Quiet(n) == refusals[n] = <<>> /\ \A m \in Peers : \A d \in ToSet(inbox[m]) : ~Asks(d, n)
OneAnswer(n) ==
  /\ refusals[n] \in {<<>>, <<name[n]>>}
  /\ \A m \in Peers : Once(inbox[m], n)
  /\ \A m \in Peers : \A d \in ToSet(inbox[m]) :
       Asks(d, n) => d.id = name[n] /\ refusals[n] = <<>>

HeardByUp == \A m \in Peers : inbox[m] # <<>> => m \in Up
AnsweredOnce == Alone => \A n \in Peers :
  /\ step[n] # "crashed"
  /\ step[n] = "check" => Quiet(n)
  /\ step[n] = "asking" => OneAnswer(n)

Inv3b == Typed3 /\ HeardByUp /\ AnsweredOnce

LEMMA OnceAppend ==
  ASSUME NEW s \in Seq(Datagrams), NEW d \in Datagrams, NEW n, Once(s, n),
         Asks(d, n) => \A e \in ToSet(s) : ~Asks(e, n)
  PROVE  Once(Append(s, d), n)
<1>1. /\ DOMAIN Append(s, d) = 1..(Len(s) + 1) /\ DOMAIN s = 1..Len(s) /\ Len(s) \in Nat
      /\ \A k \in 1..Len(s) : Append(s, d)[k] = s[k]
      /\ Append(s, d)[Len(s) + 1] = d
  OBVIOUS
<1>2. \A k \in 1..Len(s) : s[k] \in ToSet(s)
  BY DEF ToSet
<1> HIDE DEF Asks
<1> QED BY <1>1, <1>2 DEF Once

LEMMA OnceTail ==
  ASSUME NEW s \in Seq(Datagrams), s # <<>>, NEW n, Once(s, n)
  PROVE  /\ Once(Tail(s), n)
         /\ Asks(Head(s), n) => \A e \in ToSet(Tail(s)) : ~Asks(e, n)
<1>1. /\ Len(s) \in Nat \ {0} /\ Tail(s) \in Seq(Datagrams) /\ Head(s) = s[1]
      /\ DOMAIN Tail(s) = 1..(Len(s) - 1) /\ DOMAIN s = 1..Len(s)
      /\ \A k \in 1..(Len(s) - 1) : Tail(s)[k] = s[k + 1]
  BY HeadTailProperties, EmptySeq
<1> HIDE DEF Asks
<1>2. ASSUME NEW k \in 1..(Len(s) - 1) PROVE k + 1 \in 1..Len(s) /\ Tail(s)[k] = s[k + 1]
  BY <1>1
<1>3. Once(Tail(s), n)
  <2> SUFFICES ASSUME NEW k \in 1..(Len(s) - 1), NEW l \in 1..(Len(s) - 1),
                      Asks(Tail(s)[k], n), Asks(Tail(s)[l], n)
               PROVE  k = l
    BY <1>1 DEF Once
  <2>1. k + 1 = l + 1
    BY <1>1, <1>2 DEF Once
  <2> QED BY <2>1, <1>1
<1>4. ASSUME Asks(Head(s), n), NEW e \in ToSet(Tail(s)) PROVE ~Asks(e, n)
  <2>1. PICK k \in 1..(Len(s) - 1) : e = Tail(s)[k]
    BY <1>1 DEF ToSet
  <2>2. 1 \in DOMAIN s /\ k + 1 \in DOMAIN s /\ k + 1 # 1
    BY <1>1, <1>2
  <2> QED BY <1>1, <1>2, <1>4, <2>1, <2>2 DEF Once
<1> QED BY <1>3, <1>4

LEMMA Init3bInv == Init3 => Inv3b
<1> SUFFICES ASSUME Init3 PROVE Inv3b
  OBVIOUS
<1>1. Typed3
  BY Init3Inv DEF Inv3
<1>2. ASSUME NEW n \in Peers PROVE inbox[n] = <<>> /\ refusals[n] = <<>> /\ ToSet(inbox[n]) = {}
  BY ToSetOfEmpty DEF Init3
<1>3. HeardByUp /\ \A n \in Peers : Quiet(n) /\ step[n] \in {"check", "up"}
  BY <1>2 DEF HeardByUp, Quiet, Init3
<1> QED BY <1>1, <1>3 DEF Inv3b, AnsweredOnce

\* Nodes other than n, of which nothing has changed, are where they were.
LEMMA OthersAsBefore ==
  ASSUME AnsweredOnce, Alone, NEW n \in Peers, step'[n] = step[n], name'[n] = name[n],
         refusals'[n] = refusals[n],
         \A m \in Peers : \A d \in ToSet(inbox'[m]) : Asks(d, n) => d \in ToSet(inbox[m]),
         \A m \in Peers : Once(inbox[m], n) => Once(inbox'[m], n)
  PROVE  /\ step'[n] # "crashed"
         /\ step'[n] = "check" => Quiet(n)'
         /\ step'[n] = "asking" => OneAnswer(n)'
BY DEF AnsweredOnce, Quiet, OneAnswer, Asks

LEMMA Next3bInv == Inv3b /\ Inv3 /\ [Next3]_vars3 => Inv3b'
<1> SUFFICES ASSUME Inv3b, Inv3, [Next3]_vars3 PROVE Inv3b'
  OBVIOUS
<1>0. Typed3 /\ HeardByUp /\ AnsweredOnce /\ Typed3'
  BY Next3Inv DEF Inv3b, Inv3
<1>a. ASSUME NEW n \in Peers, NEW s \in {"check", "asking", "accepted", "up", "crashed"},
             step' = [step EXCEPT ![n] = s], step[n] # "up"
      PROVE  Up \subseteq Up' /\ (Alone' => Alone)
  BY <1>0, <1>a DEF Up, Alone, Typed3
<1>b. ASSUME step' = step PROVE Up' = Up /\ (Alone' => Alone)
  BY <1>b DEF Up, Alone
<1>1. ASSUME NEW n \in Peers, Check(n) PROVE Inv3b'
  <2>1. PICK i \in Names : name' = [name EXCEPT ![n] = i] /\ Broadcast(Request(i, n))
    BY <1>1 DEF Check
  <2> DEFINE d == Request(i, n)
  <2>2. d \in Datagrams /\ Asks(d, n) /\ d.id = i /\ \A m : m # n => ~Asks(d, m)
    BY DEF Request, Datagrams, AnyName, Asks
  <2>3. PICK heard \in SUBSET Up :
          inbox' = [m \in Peers |-> IF m \in heard THEN Append(inbox[m], d) ELSE inbox[m]]
    BY <2>1 DEF Broadcast
  <2>4. /\ step[n] = "check" /\ step' = [step EXCEPT ![n] = "asking"]
        /\ refusals' = refusals
    BY <1>1 DEF Check
  <2> HIDE DEF d
  <2>5. \A m \in Peers : ToSet(inbox'[m]) \subseteq ToSet(inbox[m]) \cup {d}
    <3>1. \A m \in Peers : ToSet(Append(inbox[m], d)) = ToSet(inbox[m]) \cup {d}
      BY <1>0, <2>2, ToSetOfAppend DEF Typed3
    <3> QED BY <2>3, <3>1
  <2>6. HeardByUp'
    <3>1. Up' = Up
      BY <1>0, <2>4 DEF Up, Typed3
    <3> QED BY <1>0, <2>3, <3>1 DEF HeardByUp
  <2>7. ASSUME Alone', NEW m \in Peers
        PROVE  /\ step'[m] # "crashed"
               /\ step'[m] = "check" => Quiet(m)'
               /\ step'[m] = "asking" => OneAnswer(m)'
    <3>1. Alone
      BY <1>a, <2>4, <2>7
    <3>2. CASE m = n
      <4>1. Quiet(n)
        BY <1>0, <2>4, <3>1 DEF AnsweredOnce
      <4>2. name'[n] = i /\ refusals'[n] = <<>> /\ step'[n] = "asking"
        BY <1>0, <2>1, <2>4, <4>1 DEF Typed3, Quiet
      <4>3. ASSUME NEW q \in Peers PROVE Once(inbox'[q], n)
        <5>1. inbox[q] \in Seq(Datagrams) /\ \A e \in ToSet(inbox[q]) : ~Asks(e, n)
          BY <1>0, <4>1 DEF Typed3, Quiet
        <5>2. Once(inbox[q], n)
          BY <5>1 DEF Once, ToSet
        <5> QED BY <2>2, <2>3, <5>1, <5>2, OnceAppend
      <4>4. ASSUME NEW q \in Peers, NEW e \in ToSet(inbox'[q]), Asks(e, n) PROVE e.id = i
        BY <2>2, <2>5, <4>1, <4>4 DEF Quiet
      <4> QED BY <3>2, <4>2, <4>3, <4>4 DEF OneAnswer, Asks
    <3>3. CASE m # n
      <4>1. step'[m] = step[m] /\ name'[m] = name[m] /\ refusals'[m] = refusals[m]
        BY <1>0, <2>1, <2>4, <3>3 DEF Typed3
      <4>2. \A q \in Peers : \A e \in ToSet(inbox'[q]) : Asks(e, m) => e \in ToSet(inbox[q])
        BY <2>2, <2>5, <3>3
      <4>3. ASSUME NEW q \in Peers, Once(inbox[q], m) PROVE Once(inbox'[q], m)
        BY <1>0, <2>2, <2>3, <3>3, <4>3, OnceAppend DEF Typed3
      <4> QED BY <1>0, <3>1, <4>1, <4>2, <4>3, OthersAsBefore
    <3> QED BY <3>2, <3>3
  <2> QED BY <1>0, <2>6, <2>7 DEF Inv3b, AnsweredOnce
<1>2. ASSUME NEW n \in Peers, Refused(n) PROVE Inv3b'
  <2>1. /\ step[n] = "asking" /\ refusals[n] # <<>>
        /\ refusals' = [refusals EXCEPT ![n] = Tail(@)]
        /\ step' = [step EXCEPT ![n] = IF Head(refusals[n]) = name[n] THEN "check" ELSE "crashed"]
        /\ UNCHANGED <<name, inbox>>
    BY <1>2 DEF Refused
  <2>2. Up \subseteq Up' /\ (Alone' => Alone)
    BY <1>a, <2>1
  <2>3. HeardByUp'
    BY <1>0, <2>1, <2>2 DEF HeardByUp
  <2>4. ASSUME Alone', NEW m \in Peers
        PROVE  /\ step'[m] # "crashed"
               /\ step'[m] = "check" => Quiet(m)'
               /\ step'[m] = "asking" => OneAnswer(m)'
    <3>1. Alone
      BY <2>2, <2>4
    <3>2. CASE m = n
      <4>1. OneAnswer(n)
        BY <1>0, <2>1, <3>1 DEF AnsweredOnce
      <4>2. refusals[n] = <<name[n]>>
        BY <2>1, <4>1 DEF OneAnswer
      <4>3. Head(refusals[n]) = name[n] /\ Tail(refusals[n]) = <<>>
        BY <4>2
      <4>4. step'[n] = "check" /\ refusals'[n] = <<>>
        BY <1>0, <2>1, <4>3 DEF Typed3
      <4>5. \A q \in Peers : \A e \in ToSet(inbox[q]) : ~Asks(e, n)
        BY <2>1, <4>1 DEF OneAnswer
      <4> QED BY <2>1, <3>2, <4>4, <4>5 DEF Quiet, Asks
    <3>3. CASE m # n
      <4>1. step'[m] = step[m] /\ refusals'[m] = refusals[m]
        BY <1>0, <2>1, <3>3 DEF Typed3
      <4> QED BY <1>0, <2>1, <3>1, <4>1, OthersAsBefore
    <3> QED BY <3>2, <3>3
  <2> QED BY <1>0, <2>3, <2>4 DEF Inv3b, AnsweredOnce
<1>3. ASSUME NEW n \in Peers, Accept(n) \/ StartServer(n) PROVE Inv3b'
  <2>1. PICK s \in {"accepted", "up"} : step' = [step EXCEPT ![n] = s] /\ step[n] # "up"
    BY <1>3 DEF Accept, StartServer
  <2>2. UNCHANGED <<name, refusals, inbox>>
    BY <1>3 DEF Accept, StartServer
  <2>3. Up \subseteq Up' /\ (Alone' => Alone)
    BY <1>a, <2>1
  <2>4. HeardByUp'
    BY <1>0, <2>2, <2>3 DEF HeardByUp
  <2>5. ASSUME Alone', NEW m \in Peers
        PROVE  /\ step'[m] # "crashed"
               /\ step'[m] = "check" => Quiet(m)'
               /\ step'[m] = "asking" => OneAnswer(m)'
    <3>1. CASE m = n
      BY <1>0, <2>1, <3>1 DEF Typed3
    <3>2. CASE m # n
      <4>1. step'[m] = step[m] /\ Alone
        BY <1>0, <2>1, <2>3, <2>5, <3>2 DEF Typed3
      <4> QED BY <1>0, <2>2, <4>1, OthersAsBefore
    <3> QED BY <3>1, <3>2
  <2> QED BY <1>0, <2>4, <2>5 DEF Inv3b, AnsweredOnce
<1>4. ASSUME NEW n \in Peers, SendHello(n) PROVE Inv3b'
  <2> DEFINE d == Hello(name[n], n)
  <2>1. d \in Datagrams /\ \A m : ~Asks(d, m)
    BY <1>0 DEF Hello, Datagrams, Asks, Typed3
  <2>2. Broadcast(d) /\ UNCHANGED <<step, name, refusals>>
    BY <1>4 DEF SendHello
  <2> HIDE DEF d
  <2>3. PICK heard \in SUBSET Up :
          inbox' = [m \in Peers |-> IF m \in heard THEN Append(inbox[m], d) ELSE inbox[m]]
    BY <2>2 DEF Broadcast
  <2>4. \A m \in Peers : ToSet(inbox'[m]) \subseteq ToSet(inbox[m]) \cup {d}
    BY <1>0, <2>1, <2>2, BroadcastEffect3
  <2>5. HeardByUp'
    BY <1>0, <1>b, <2>2, <2>3 DEF HeardByUp
  <2>6. ASSUME NEW m \in Peers, NEW q \in Peers, Once(inbox[q], m) PROVE Once(inbox'[q], m)
    BY <1>0, <2>1, <2>3, <2>6, OnceAppend DEF Typed3
  <2>7. \A m, q \in Peers : \A e \in ToSet(inbox'[q]) : Asks(e, m) => e \in ToSet(inbox[q])
    BY <2>1, <2>4
  <2> QED BY <1>0, <1>b, <2>2, <2>5, <2>6, <2>7, OthersAsBefore DEF Inv3b, AnsweredOnce
<1>5. ASSUME NEW n \in Peers, Hear(n), step' = step
      PROVE  /\ HeardByUp'
             /\ \A m, q \in Peers : Once(inbox[q], m) => Once(inbox'[q], m)
             /\ \A q \in Peers : ToSet(inbox'[q]) \subseteq ToSet(inbox[q])
             /\ \A q \in Peers \ {n} : inbox'[q] = inbox[q]
  <2>1. /\ inbox' = [inbox EXCEPT ![n] = Tail(@)] /\ inbox[n] \in Seq(Datagrams)
        /\ inbox[n] # <<>> /\ n \in Up
    BY <1>0, <1>5 DEF Hear, Typed3, Up
  <2>2. \A m \in Peers : Once(inbox[n], m) => Once(Tail(inbox[n]), m)
    BY <2>1, OnceTail
  <2>3. \A q \in Peers : inbox'[q] = IF q = n THEN Tail(inbox[n]) ELSE inbox[q]
    BY <1>0, <2>1 DEF Typed3
  <2>4. HeardByUp'
    BY <1>0, <1>b, <1>5, <2>1, <2>3 DEF HeardByUp
  <2> QED BY <1>0, <1>5, <2>2, <2>3, <2>4, HearEffect3
<1>6. ASSUME NEW n \in Peers, RecvHello(n) PROVE Inv3b'
  <2>1. Hear(n) /\ UNCHANGED <<step, name, refusals>>
    BY <1>6 DEF RecvHello
  <2>2. /\ HeardByUp'
        /\ \A m, q \in Peers : Once(inbox[q], m) => Once(inbox'[q], m)
        /\ \A q \in Peers : ToSet(inbox'[q]) \subseteq ToSet(inbox[q])
    BY <1>5, <2>1
  <2> QED BY <1>0, <1>b, <2>1, <2>2, OthersAsBefore DEF Inv3b, AnsweredOnce
<1>7. ASSUME NEW v \in Peers, RecvRequest(v) PROVE Inv3b'
  <2> DEFINE d == Head(inbox[v])
             asker == d.from
  <2>1. Hear(v) /\ d.kind = "NAME_REQUEST" /\ UNCHANGED <<step, name>>
    BY <1>7 DEF RecvRequest
  <2>2. \/ /\ step[asker] \in {"check", "asking"}
           /\ refusals' = [refusals EXCEPT ![asker] = Append(@, d.id)]
        \/ UNCHANGED refusals
    BY <1>7 DEF RecvRequest
  <2>3. d \in ToSet(inbox[v]) /\ asker \in Peers /\ Asks(d, asker)
    BY <1>0, <2>1, HearEffect3 DEF Datagrams, Asks
  <2> HIDE DEF d
  <2>4. /\ HeardByUp'
        /\ \A m, q \in Peers : Once(inbox[q], m) => Once(inbox'[q], m)
        /\ \A q \in Peers : ToSet(inbox'[q]) \subseteq ToSet(inbox[q])
        /\ \A q \in Peers \ {v} : inbox'[q] = inbox[q]
    BY <1>5, <2>1
  <2>5. ASSUME Alone', NEW m \in Peers
        PROVE  /\ step'[m] # "crashed"
               /\ step'[m] = "check" => Quiet(m)'
               /\ step'[m] = "asking" => OneAnswer(m)'
    <3>1. Alone
      BY <1>b, <2>1, <2>5
    <3>2. CASE refusals'[m] = refusals[m]
      BY <1>0, <2>1, <2>4, <3>1, <3>2, OthersAsBefore
    <3>3. CASE refusals'[m] # refusals[m]
      <4>1. m = asker /\ step[m] \in {"check", "asking"} /\ refusals'[m] = Append(refusals[m], d.id)
        BY <1>0, <2>2, <2>3, <3>3 DEF Typed3
      <4>2. step[m] = "asking" /\ OneAnswer(m)
        BY <1>0, <2>3, <3>1, <4>1 DEF AnsweredOnce, Quiet
      <4>3. refusals[m] = <<>> /\ d.id = name[m]
        BY <2>3, <4>1, <4>2 DEF OneAnswer
      <4>4. refusals'[m] = <<name'[m]>>
        BY <2>1, <4>1, <4>3
      <4>5. \A q \in Peers : Once(inbox'[q], m)
        BY <2>4, <4>2 DEF OneAnswer
      <4>6. ASSUME NEW q \in Peers, NEW e \in ToSet(inbox'[q]) PROVE ~Asks(e, m)
        <5>1. CASE q = v
          <6>1. /\ inbox[v] \in Seq(Datagrams) /\ inbox[v] # <<>> /\ inbox'[v] = Tail(inbox[v])
            BY <1>0, <2>1 DEF Hear, Typed3
          <6>2. Once(inbox[v], m)
            BY <4>2 DEF OneAnswer
          <6> QED BY <2>3, <4>1, <4>6, <5>1, <6>1, <6>2, OnceTail DEF d
        <5>2. CASE q # v
          <6>1. v \in Up /\ (inbox[q] # <<>> => q \in Up)
            BY <1>0, <2>1 DEF Hear, Up, HeardByUp
          <6>2. inbox[q] = <<>>
            BY <3>1, <5>2, <6>1 DEF Alone
          <6> QED BY <2>4, <4>6, <5>2, <6>2, ToSetOfEmpty
        <5> QED BY <5>1, <5>2
      <4> QED BY <2>1, <4>2, <4>4, <4>5, <4>6 DEF OneAnswer, Asks
    <3> QED BY <3>2, <3>3
  <2> QED BY <1>0, <2>4, <2>5 DEF Inv3b, AnsweredOnce
<1>8. CASE UNCHANGED vars3
  BY <1>0, <1>8 DEF vars3, Inv3b, HeardByUp, AnsweredOnce, Alone, Up, Quiet, OneAnswer
<1> QED BY <1>1, <1>2, <1>3, <1>4, <1>6, <1>7, <1>8 DEF Next3

\* Who crashes has been answered by two.
LEMMA CrashNeedsTwo == Inv3b => CrashTakesTwoAnswers
<1> SUFFICES ASSUME Inv3b, NEW n \in Peers, step[n] = "crashed" PROVE Cardinality(Up) >= 2
  BY DEF CrashTakesTwoAnswers
<1>1. PICK x \in Up, y \in Up : x # y
  BY DEF Inv3b, AnsweredOnce, Alone
<1>2. IsFiniteSet(Up)
  <2>1. Up \in SUBSET Peers
    BY DEF Up
  <2> QED BY <2>1, PeersAssumption, FS_Subset
<1>3. Cardinality({x} \cup {y}) = 2
  <2>1. IsFiniteSet({x}) /\ Cardinality({x}) = 1
    BY FS_Singleton
  <2>2. y \notin {x}
    BY <1>1
  <2> QED BY <2>1, <2>2, FS_AddElement
<1>4. Cardinality({x} \cup {y}) <= Cardinality(Up)
  <2>1. {x} \cup {y} \in SUBSET Up
    BY <1>1
  <2> QED BY <2>1, <1>2, FS_Subset
<1>5. Cardinality(Up) \in Nat
  BY <1>2, FS_CardinalityType
<1> QED BY <1>3, <1>4, <1>5
=============================================================================
