--------------------------- MODULE OtherNodesProofs ---------------------------
(* The nodes of MARIO and of RESOLUCION1, for any number of nodes, of names    *)
(* and of processes, any length of a run of lost HELLOs and any intervals that *)
(* let two HELLOs into the life of an entry; and what the inductive            *)
(* invariants, those of Resolucion3Proofs too, say of the nodes side by side.  *)
EXTENDS OtherNodes, Resolucion3Proofs

-----------------------------------------------------------------------------
(* MARIO's listener and names.                                                 *)

Packets == [kind : {"NAME_REQUEST", "HELLO", "INVALID_NAME"},
            id : MNames \cup {NotNamed}, from : MNodes]

NamesTyped == /\ stage \in [MNodes -> {"naming", "waiting", "named", "up"}]
              /\ nodoID \in [MNodes -> MNames \cup {NotNamed}]
              /\ mail \in [MNodes -> Seq(Packets)]
              /\ ears \in [MNodes -> BOOLEAN]

\* Only who listens has mail.
MailIsHeard == \A n \in MNodes : mail[n] # <<>> => n \in Receivers

\* When answers are in time, a request in a mailbox is that of a node that
\* still waits, so its refusal never reaches a listener.
Expected(m) == /\ m.kind \in {"NAME_REQUEST", "HELLO"}
               /\ m.kind = "NAME_REQUEST" => stage[m.from] \in {"naming", "waiting"}
AskersWait == onTime => \A n \in MNodes :
  ears[n] /\ \A m \in ToSet(mail[n]) : Expected(m)

NamesInv == NamesTyped /\ MailIsHeard /\ AskersWait

LEMMA NamesInit == InitN => NamesInv
<1> SUFFICES ASSUME InitN PROVE NamesInv
  OBVIOUS
<1>1. NamesTyped
  BY DEF InitN, NamesTyped
<1>2. MailIsHeard
  BY DEF InitN, MailIsHeard
<1>3. AskersWait
  BY ToSetOfEmpty DEF InitN, AskersWait
<1> QED BY <1>1, <1>2, <1>3 DEF NamesInv

\* A datagram goes to listeners only.
LEMMA SendEffect ==
  ASSUME NamesTyped, MailIsHeard, NEW p \in Packets, SendAll(p)
  PROVE  /\ mail' \in [MNodes -> Seq(Packets)]
         /\ \A n \in MNodes : mail'[n] # <<>> => n \in Receivers
         /\ \A n \in MNodes : ToSet(mail'[n]) \subseteq ToSet(mail[n]) \cup {p}
<1>1. PICK heard \in SUBSET Receivers :
        mail' = [n \in MNodes |-> IF n \in heard THEN Append(mail[n], p) ELSE mail[n]]
  BY DEF SendAll
<1>2. ASSUME NEW n \in MNodes
      PROVE  /\ mail'[n] \in Seq(Packets)
             /\ mail'[n] # <<>> => n \in Receivers
             /\ ToSet(mail'[n]) \subseteq ToSet(mail[n]) \cup {p}
  <2>1. mail[n] \in Seq(Packets)
    BY DEF NamesTyped
  <2>2. Append(mail[n], p) \in Seq(Packets) /\ ToSet(Append(mail[n], p)) = ToSet(mail[n]) \cup {p}
    BY <2>1, ToSetOfAppend
  <2> QED BY <1>1, <2>1, <2>2 DEF MailIsHeard
<1>3. mail' \in [MNodes -> Seq(Packets)]
  BY <1>1, <1>2
<1> QED BY <1>2, <1>3

\* A listener takes the first datagram and leaves the others.
LEMMA HearEffect ==
  ASSUME NamesTyped, NEW n \in MNodes, NEW kind, Take(n, kind)
  PROVE  /\ Head(mail[n]) \in Packets /\ Head(mail[n]) \in ToSet(mail[n])
         /\ Head(mail[n]).kind = kind
         /\ [mail EXCEPT ![n] = Tail(@)] \in [MNodes -> Seq(Packets)]
         /\ ToSet(Tail(mail[n])) \subseteq ToSet(mail[n])
         /\ n \in Receivers
<1>1. mail[n] \in Seq(Packets) /\ mail[n] # <<>>
  BY DEF NamesTyped, Take
<1>2. /\ Head(mail[n]) \in Packets /\ Tail(mail[n]) \in Seq(Packets)
      /\ Head(mail[n]) \in ToSet(mail[n])
      /\ ToSet(Tail(mail[n])) \subseteq ToSet(mail[n])
  BY <1>1, ToSetOfTail
<1> QED BY <1>2 DEF NamesTyped, Take

\* What a mailbox loses changes nothing that is expected of the rest.
LEMMA FewerAreExpected ==
  ASSUME NamesInv, NamesTyped', MailIsHeard', stage' = stage, ears' = ears, onTime' = onTime,
         \A n \in MNodes : ToSet(mail'[n]) \subseteq ToSet(mail[n])
  PROVE  NamesInv'
BY DEF NamesInv, AskersWait, Expected

LEMMA NamesNext == NamesInv /\ [NextN]_varsN => NamesInv'
<1> SUFFICES ASSUME NamesInv, [NextN]_varsN PROVE NamesInv'
  OBVIOUS
<1>0. NamesTyped /\ MailIsHeard
  BY DEF NamesInv
<1>1. ASSUME NEW n \in MNodes, Ask(n) PROVE NamesInv'
  <2>1. PICK i \in MNames : nodoID' = [nodoID EXCEPT ![n] = i] /\ SendAll(Packet("NAME_REQUEST", i, n))
    BY <1>1 DEF Ask
  <2> DEFINE p == Packet("NAME_REQUEST", i, n)
  <2>2. p \in Packets /\ p.kind = "NAME_REQUEST" /\ p.from = n
    BY DEF Packet, Packets
  <2> HIDE DEF p
  <2>3. /\ mail' \in [MNodes -> Seq(Packets)]
        /\ \A m \in MNodes : mail'[m] # <<>> => m \in Receivers
        /\ \A m \in MNodes : ToSet(mail'[m]) \subseteq ToSet(mail[m]) \cup {p}
    BY <1>0, <2>1, <2>2, SendEffect DEF p
  <2>4. stage[n] = "naming" /\ stage' = [stage EXCEPT ![n] = "waiting"] /\ UNCHANGED <<ears, onTime>>
    BY <1>1 DEF Ask
  <2>5. NamesTyped'
    BY <1>0, <2>1, <2>3, <2>4 DEF NamesTyped
  <2>6. MailIsHeard'
    BY <1>0, <2>3, <2>4 DEF MailIsHeard, Receivers, NamesTyped
  <2>7. AskersWait'
    BY <1>0, <2>2, <2>3, <2>4 DEF NamesInv, AskersWait, Expected, NamesTyped
  <2> QED BY <2>5, <2>6, <2>7 DEF NamesInv
<1>2. ASSUME NEW n \in MNodes, ReadAnswer(n) PROVE NamesInv'
  <2>1. /\ stage[n] = "waiting" /\ UNCHANGED <<nodoID, mail, ears, onTime>>
        /\ \E s \in {"naming", "waiting"} : stage' = [stage EXCEPT ![n] = s]
    BY <1>2 DEF ReadAnswer
  <2> QED BY <1>0, <2>1
        DEF NamesInv, NamesTyped, MailIsHeard, Receivers, AskersWait, Expected
<1>3. ASSUME NEW n \in MNodes, Confirm(n) PROVE NamesInv'
  <2>1. /\ stage[n] = "waiting" /\ UNCHANGED <<nodoID, mail, ears, onTime>>
        /\ stage' = [stage EXCEPT ![n] = "named"]
        /\ onTime => ~Unanswered(n)
    BY <1>3 DEF Confirm
  <2>2. NamesTyped' /\ MailIsHeard'
    BY <1>0, <2>1 DEF NamesTyped, MailIsHeard, Receivers
  <2>3. ASSUME onTime, NEW m \in MNodes, NEW p \in ToSet(mail[m])
        PROVE  ~(p.kind = "NAME_REQUEST" /\ p.from = n)
    <3>1. PICK k \in DOMAIN mail[m] : p = mail[m][k]
      BY <2>3 DEF ToSet
    <3>2. m \in Receivers
      BY <1>0, <3>1 DEF MailIsHeard
    <3> QED BY <2>1, <2>3, <3>1, <3>2 DEF Unanswered
  <2>4. AskersWait'
    BY <1>0, <2>1, <2>3 DEF NamesInv, AskersWait, Expected, NamesTyped
  <2> QED BY <2>2, <2>4 DEF NamesInv
<1>4. ASSUME NEW n \in MNodes, Start(n) PROVE NamesInv'
  BY <1>0, <1>4
  DEF Start, NamesInv, NamesTyped, MailIsHeard, Receivers, AskersWait, Expected
<1>5. ASSUME NEW n \in MNodes, SayHelloM(n) PROVE NamesInv'
  <2> DEFINE p == Packet("HELLO", nodoID[n], n)
  <2>1. p \in Packets /\ p.kind = "HELLO"
    BY <1>0 DEF Packet, Packets, NamesTyped
  <2>2. SendAll(p) /\ UNCHANGED <<stage, nodoID, ears, onTime>>
    BY <1>5 DEF SayHelloM
  <2> HIDE DEF p
  <2>3. /\ mail' \in [MNodes -> Seq(Packets)]
        /\ \A m \in MNodes : mail'[m] # <<>> => m \in Receivers
        /\ \A m \in MNodes : ToSet(mail'[m]) \subseteq ToSet(mail[m]) \cup {p}
    BY <1>0, <2>1, <2>2, SendEffect
  <2>4. NamesTyped' /\ MailIsHeard'
    BY <1>0, <2>2, <2>3 DEF NamesTyped, MailIsHeard, Receivers
  <2>5. AskersWait'
    BY <2>1, <2>2, <2>3 DEF NamesInv, AskersWait, Expected
  <2> QED BY <2>4, <2>5 DEF NamesInv
<1>6. ASSUME NEW n \in MNodes, HearHello(n) PROVE NamesInv'
  <2>1. /\ Take(n, "HELLO") /\ mail' = [mail EXCEPT ![n] = Tail(@)]
        /\ UNCHANGED <<stage, nodoID, ears, onTime>>
    BY <1>6 DEF HearHello
  <2>2. NamesTyped' /\ MailIsHeard'
    BY <1>0, <2>1, HearEffect DEF NamesTyped, MailIsHeard, Receivers
  <2>3. \A m \in MNodes : ToSet(mail'[m]) \subseteq ToSet(mail[m])
    BY <1>0, <2>1, HearEffect DEF NamesTyped
  <2> QED BY <2>1, <2>2, <2>3, FewerAreExpected
<1>7. ASSUME NEW n \in MNodes, HearRequest(n) PROVE NamesInv'
  <2> DEFINE rest == [mail EXCEPT ![n] = Tail(@)]
             no == Packet("INVALID_NAME", Head(mail[n]).id, n)
             asker == Head(mail[n]).from
  <2>1. Take(n, "NAME_REQUEST") /\ UNCHANGED <<stage, nodoID, ears, onTime>>
    BY <1>7 DEF HearRequest
  <2>2. /\ Head(mail[n]) \in Packets /\ Head(mail[n]) \in ToSet(mail[n])
        /\ Head(mail[n]).kind = "NAME_REQUEST"
        /\ rest \in [MNodes -> Seq(Packets)] /\ n \in Receivers
    BY <1>0, <2>1, HearEffect
  <2>3. \A m \in MNodes : ToSet(rest[m]) \subseteq ToSet(mail[m])
    BY <1>0, <2>1, HearEffect DEF NamesTyped
  <2>4. \A m \in MNodes : rest[m] # <<>> => m \in Receivers
    BY <1>0, <2>2 DEF NamesTyped, MailIsHeard
  <2>5. \/ mail' = rest
        \/ asker \in Receivers /\ mail' = [rest EXCEPT ![asker] = Append(@, no)]
    BY <1>7 DEF HearRequest
  <2>6. CASE mail' = rest
    BY <1>0, <2>1, <2>2, <2>3, <2>4, <2>6, FewerAreExpected
    DEF NamesTyped, MailIsHeard, Receivers
  <2>7. CASE asker \in Receivers /\ mail' = [rest EXCEPT ![asker] = Append(@, no)]
    <3>1. no \in Packets /\ asker \in MNodes
      BY <2>2 DEF Packet, Packets
    <3> HIDE DEF rest, no
    <3>2. Append(rest[asker], no) \in Seq(Packets)
      BY <2>2, <3>1, ToSetOfAppend
    <3>3. NamesTyped'
      BY <1>0, <2>1, <2>2, <2>7, <3>2 DEF NamesTyped
    <3>4. MailIsHeard'
      BY <2>1, <2>2, <2>4, <2>7 DEF MailIsHeard, Receivers
    <3>5. ~onTime
      BY <2>2, <2>7 DEF NamesInv, AskersWait, Expected, Receivers
    <3>6. AskersWait'
      BY <2>1, <3>5 DEF AskersWait
    <3> QED BY <3>3, <3>4, <3>6 DEF NamesInv
  <2> QED BY <2>5, <2>6, <2>7
<1>8. ASSUME NEW n \in MNodes, HearOther(n) PROVE NamesInv'
  <2>1. /\ Take(n, "INVALID_NAME") /\ mail' = [mail EXCEPT ![n] = <<>>]
        /\ ears' = [ears EXCEPT ![n] = FALSE] /\ UNCHANGED <<stage, nodoID, onTime>>
    BY <1>8 DEF HearOther
  <2>2. NamesTyped' /\ MailIsHeard'
    BY <1>0, <2>1 DEF NamesTyped, MailIsHeard, Receivers
  <2>3. Head(mail[n]) \in ToSet(mail[n]) /\ Head(mail[n]).kind = "INVALID_NAME"
    BY <1>0, <2>1, HearEffect
  <2>4. ~onTime
    BY <2>3 DEF NamesInv, AskersWait, Expected
  <2> QED BY <2>1, <2>2, <2>4 DEF NamesInv, AskersWait
<1>9. CASE UNCHANGED varsN
  BY <1>9
  DEF varsN, NamesInv, NamesTyped, MailIsHeard, Receivers, AskersWait, Expected
<1> QED BY <1>1, <1>2, <1>3, <1>4, <1>5, <1>6, <1>7, <1>8, <1>9 DEF NextN

-----------------------------------------------------------------------------
(* The table and its cleaner.                                                  *)

Clocks == /\ age \in [Others -> 0..Absent]
          /\ helloIn \in [Others -> 0..HelloEvery]
          /\ lost \in [Others -> Nat]
          /\ cleanIn \in 0..CleanEvery

\* An entry is as old as the HELLOs that were lost allow: its age and the time
\* to the next HELLO add up to one interval, or two after one loss.
AgeIsBounded == \A i \in Present \cap running :
  /\ lost[i] = 0 => age[i] + helloIn[i] <= HelloEvery
  /\ lost[i] = 1 => age[i] + helloIn[i] <= 2 * HelloEvery

TableInv == Clocks /\ AgeIsBounded

LEMMA Constants ==
  /\ HelloEvery \in Nat \ {0} /\ CleanEvery \in Nat \ {0} /\ MaxAge \in Nat \ {0}
  /\ Oldest \in Nat /\ Absent = Oldest + 1 /\ Oldest > MaxAge
BY TimesAssumption DEF Oldest, Absent

LEMMA TableInit == InitT => TableInv
BY Constants DEF InitT, TableInv, Clocks, AgeIsBounded, Present

LEMMA TableNext == TableInv /\ [NextT]_varsT => TableInv'
<1> SUFFICES ASSUME TableInv, [NextT]_varsT PROVE TableInv'
  OBVIOUS
<1> USE Constants
<1>1. ASSUME NEW i \in Others, HelloT(i) PROVE TableInv'
  <2>1. Clocks'
    BY <1>1 DEF HelloT, TableInv, Clocks
  <2>2. ASSUME NEW j \in Present' \cap running'
        PROVE  /\ lost'[j] = 0 => age'[j] + helloIn'[j] <= HelloEvery
               /\ lost'[j] = 1 => age'[j] + helloIn'[j] <= 2 * HelloEvery
    <3>1. CASE j = i
      BY <1>1, <2>2, <3>1 DEF HelloT, TableInv, Clocks, AgeIsBounded, Present
    <3>2. CASE j # i
      BY <1>1, <2>2, <3>2 DEF HelloT, TableInv, Clocks, AgeIsBounded, Present
    <3> QED BY <3>1, <3>2
  <2> QED BY <2>1, <2>2 DEF TableInv, AgeIsBounded
<1>2. ASSUME NEW i \in Others, Delete(i) PROVE TableInv'
  BY <1>2 DEF Delete, TableInv, Clocks, AgeIsBounded, Present
<1>3. ASSUME NEW i \in Others, LeaveT(i) PROVE TableInv'
  BY <1>3 DEF LeaveT, TableInv, Clocks, AgeIsBounded, Present
<1>4. CASE Copy
  BY <1>4 DEF Copy, TableInv, Clocks, AgeIsBounded, Present
<1>5. CASE TickT
  <2>1. ASSUME NEW j \in Others
        PROVE  /\ age'[j] = IF age[j] >= Oldest THEN age[j] ELSE age[j] + 1
               /\ helloIn'[j] = IF helloIn[j] = 0 THEN 0 ELSE helloIn[j] - 1
    BY <1>5 DEF TickT, Down
  <2>2. Clocks'
    BY <1>5, <2>1 DEF TickT, Down, TableInv, Clocks
  <2>3. AgeIsBounded'
    BY <1>5, <2>1 DEF TickT, TableInv, Clocks, AgeIsBounded, Present
  <2> QED BY <2>2, <2>3 DEF TableInv
<1>6. CASE UNCHANGED varsT
  BY <1>6 DEF varsT, TableInv, Clocks, AgeIsBounded, Present
<1> QED BY <1>1, <1>2, <1>3, <1>4, <1>5, <1>6 DEF NextT

\* Only the copy picks entries, and it picks those older than two intervals.
LEMMA PickedMissedTwo ==
  ASSUME TableInv, [NextT]_varsT, NEW i \in Others, i \notin doomed, i \in doomed', i \in running
  PROVE  lost[i] >= 2
<1>1. Copy
  BY DEF NextT, HelloT, Delete, LeaveT, TickT, varsT
<1>2. i \in Present /\ age[i] > MaxAge
  BY <1>1 DEF Copy
<1>3. age[i] \in Nat /\ helloIn[i] \in Nat /\ lost[i] \in Nat
  BY DEF TableInv, Clocks
<1> QED BY <1>2, <1>3, LifeAssumption, Constants DEF TableInv, AgeIsBounded

-----------------------------------------------------------------------------
(* RESOLUCION1's table for any number of nodes and of processes.               *)
MsgsR == [what : {"hello", "ok", "borrar"}, id : Keys]

TableTyped ==
  /\ queue \in Seq(MsgsR)
  /\ mapaNodos \subseteq Keys
  /\ mapaTempos \in [Keys -> Pids \cup {NoPid}]
  /\ guard \in [Pids -> Keys \cup {"none"}]

\* What may still delete the entry of i: its processes and their demands.
Ends(i) == Count(Pids, guard, i) + Occurs(queue, Msg("borrar", i))
WatchersInv == /\ TableTyped
               /\ \A i \in Keys : IF mapaTempos[i] # NoPid
                                   THEN Ends(i) = 1 /\ i \in mapaNodos
                                   ELSE Ends(i) = 0

LEMMA WatchersInit == InitR => WatchersInv
<1> SUFFICES ASSUME InitR PROVE WatchersInv
  OBVIOUS
<1>1. TableTyped
  BY DEF InitR, TableTyped
<1>2. ASSUME NEW i \in Keys PROVE Ends(i) = 0 /\ mapaTempos[i] = NoPid
  <2>1. Count(Pids, guard, i) = 0
    BY CountIsNat, OwnAssumption DEF InitR
  <2>2. Occurs(queue, Msg("borrar", i)) = 0
    BY OccursInEmpty DEF InitR
  <2> QED BY <2>1, <2>2 DEF Ends, InitR
<1> QED BY <1>1, <1>2 DEF WatchersInv

\* A message at the end of the mailbox, or the first one gone from it, changes
\* the number of demands by that message at most.
LEMMA DemandsAfterSend ==
  ASSUME TableTyped, NEW what \in {"hello", "ok", "borrar"}, NEW j \in Keys,
         queue' = Append(queue, Msg(what, j))
  PROVE  /\ queue' \in Seq(MsgsR)
         /\ \A i \in Keys : Occurs(queue, Msg("borrar", i))' =
              Occurs(queue, Msg("borrar", i)) + One(what = "borrar" /\ i = j)
<1>0. queue \in Seq(MsgsR)
  BY DEF TableTyped
<1>1. Msg(what, j) \in MsgsR
  BY DEF Msg, MsgsR
<1>2. ASSUME NEW i \in Keys
      PROVE  Occurs(queue, Msg("borrar", i))' =
               Occurs(queue, Msg("borrar", i)) + One(what = "borrar" /\ i = j)
  <2>1. Msg(what, j) = Msg("borrar", i) <=> what = "borrar" /\ i = j
    BY DEF Msg
  <2>2. Occurs(queue, Msg("borrar", i)) \in Nat
    BY OccursIsNat DEF TableTyped
  <2>3. Occurs(Append(queue, Msg(what, j)), Msg("borrar", i)) =
          IF Msg(what, j) = Msg("borrar", i)
          THEN Occurs(queue, Msg("borrar", i)) + 1 ELSE Occurs(queue, Msg("borrar", i))
    BY <1>0, <1>1, OccursAfterAppend
  <2>4. Occurs(queue, Msg("borrar", i))' = Occurs(Append(queue, Msg(what, j)), Msg("borrar", i))
    BY DEF Occurs, Msg
  <2> QED BY <2>1, <2>2, <2>3, <2>4 DEF One
<1>3. queue' \in Seq(MsgsR)
  BY <1>1 DEF TableTyped
<1> QED BY <1>2, <1>3

LEMMA DemandsAfterReceive ==
  ASSUME TableTyped, NEW what \in {"hello", "ok", "borrar"}, Next1(what)
  PROVE  /\ queue' \in Seq(MsgsR)
         /\ Head(queue).id \in Keys
         /\ \A i \in Keys :
              /\ Occurs(queue, Msg("borrar", i))' \in Nat
              /\ Occurs(queue, Msg("borrar", i)) =
                   Occurs(queue, Msg("borrar", i))' + One(what = "borrar" /\ i = Head(queue).id)
<1>1. /\ queue \in Seq(MsgsR)
      /\ queue # <<>> /\ Head(queue).what = what /\ queue' = Tail(queue)
  BY DEF TableTyped, Next1
<1>2. Head(queue) \in MsgsR /\ queue' \in Seq(MsgsR) /\ Head(queue).id \in Keys
  <2>1. Head(queue) \in MsgsR /\ Tail(queue) \in Seq(MsgsR)
    BY <1>1, HeadTailProperties
  <2> QED BY <1>1, <2>1 DEF MsgsR
<1>3. ASSUME NEW i \in Keys
      PROVE  /\ Occurs(queue, Msg("borrar", i))' \in Nat
             /\ Occurs(queue, Msg("borrar", i)) =
                  Occurs(queue, Msg("borrar", i))' + One(what = "borrar" /\ i = Head(queue).id)
  <2>1. Head(queue) = Msg("borrar", i) <=> what = "borrar" /\ i = Head(queue).id
    BY <1>1, <1>2 DEF Msg, MsgsR
  <2>2. Occurs(Tail(queue), Msg("borrar", i)) \in Nat
    BY <1>1, <1>2, OccursIsNat
  <2>3. Occurs(queue, Msg("borrar", i)) =
          IF Head(queue) = Msg("borrar", i)
          THEN Occurs(Tail(queue), Msg("borrar", i)) + 1 ELSE Occurs(Tail(queue), Msg("borrar", i))
    BY <1>1, OccursAfterTail
  <2>4. Occurs(queue, Msg("borrar", i))' = Occurs(Tail(queue), Msg("borrar", i))
    BY <1>1 DEF Occurs, Msg
  <2> QED BY <2>1, <2>2, <2>3, <2>4 DEF One
<1> QED BY <1>2, <1>3

\* The processes after one of them starts or ends.
LEMMA WatchersAfterChange ==
  ASSUME TableTyped, NEW p \in Pids, NEW v \in Keys \cup {"none"},
         guard' = [guard EXCEPT ![p] = v]
  PROVE  /\ guard' \in [Pids -> Keys \cup {"none"}]
         /\ \A i \in Keys : Count(Pids, guard, i)' =
              Count(Pids, guard, i) + (IF v = i THEN 1 ELSE 0) - (IF guard[p] = i THEN 1 ELSE 0)
<1>1. /\ OnlyMoves(p, Pids, guard, guard') /\ guard'[p] = v
      /\ guard' \in [Pids -> Keys \cup {"none"}]
  BY DEF OnlyMoves, TableTyped
<1>2. ASSUME NEW i \in Keys
      PROVE  Count(Pids, guard, i)' = Count(Pids, guard, i)
               + (IF v = i THEN 1 ELSE 0) - (IF guard[p] = i THEN 1 ELSE 0)
  <2>1. Count(Pids, guard', i) = Count(Pids, guard, i) + One(guard'[p] = i) - One(guard[p] = i)
    <3>1. IsFiniteSet(Pids) /\ OnlyMoves(p, Pids, guard, guard') /\ p \in Pids
      BY <1>1, OwnAssumption
    <3> QED BY ONLY <3>1, CountAfterMove
  <2>2. Count(Pids, guard, i)' = Count(Pids, guard', i)
    BY DEF Count
  <2> QED BY <1>1, <2>1, <2>2 DEF One
<1> QED BY <1>1, <1>2

LEMMA EndsAreNat ==
  ASSUME TableTyped, NEW i \in Keys
  PROVE  /\ Count(Pids, guard, i) \in Nat /\ Occurs(queue, Msg("borrar", i)) \in Nat
BY CountIsNat, OccursIsNat, OwnAssumption DEF TableTyped

LEMMA WatchersNext == WatchersInv /\ [NextR]_varsR => WatchersInv'
<1> SUFFICES ASSUME WatchersInv, [NextR]_varsR PROVE WatchersInv'
  OBVIOUS
<1>0. TableTyped
  BY DEF WatchersInv
<1>a. ASSUME UNCHANGED guard, NEW i \in Keys PROVE Count(Pids, guard, i)' = Count(Pids, guard, i)
  BY <1>a DEF Count
<1>1. ASSUME NEW j \in Keys, HelloR(j) PROVE WatchersInv'
  <2>1. queue' = Append(queue, Msg("hello", j)) /\ UNCHANGED <<mapaNodos, mapaTempos, guard>>
    BY <1>1 DEF HelloR
  <2>2. TableTyped' /\ \A i \in Keys : Ends(i)' = Ends(i)
    BY <2>1, <1>0, <1>a, DemandsAfterSend, EndsAreNat DEF TableTyped, Ends, One
  <2> QED BY <2>1, <2>2 DEF WatchersInv
<1>2. ASSUME NEW j \in Keys, LeaveR(j) PROVE WatchersInv'
  BY <1>2 DEF LeaveR, WatchersInv, TableTyped, Ends, Count, Occurs, Msg
<1>3. CASE ConfirmR
  <2>1. queue' = Append(queue, Msg("ok", Own)) /\ UNCHANGED <<mapaNodos, mapaTempos, guard>>
    BY <1>3 DEF ConfirmR
  <2>2. TableTyped' /\ \A i \in Keys : Ends(i)' = Ends(i)
    BY <2>1, <1>0, <1>a, DemandsAfterSend, EndsAreNat, OwnAssumption DEF TableTyped, Ends, One
  <2> QED BY <2>1, <2>2 DEF WatchersInv
<1>4. CASE RecvNewHello
  <2>0. PICK j \in Keys : j = Head(queue).id
    BY <1>0, <1>4, DemandsAfterReceive DEF RecvNewHello
  <2>1. Next1("hello") /\ mapaNodos' = mapaNodos \cup {j} /\ (j \notin mapaNodos \/ mapaTempos[j] = NoPid)
    BY <1>4, <2>0 DEF RecvNewHello
  <2>2. PICK p \in Free : /\ guard' = [guard EXCEPT ![p] = j]
                         /\ mapaTempos' = [mapaTempos EXCEPT ![j] = p]
    BY <1>4, <2>0 DEF RecvNewHello
  <2>3. p \in Pids /\ guard[p] = "none" /\ p # NoPid
    BY OwnAssumption DEF Free, Alive
  <2>5. TableTyped'
    BY <1>0, <2>1, <2>2, <2>3, DemandsAfterReceive, WatchersAfterChange DEF TableTyped
  <2>6. ASSUME NEW i \in Keys PROVE Ends(i)' = Ends(i) + One(i = j)
    <3>1. Occurs(queue, Msg("borrar", i))' = Occurs(queue, Msg("borrar", i))
      BY <1>0, <2>1, DemandsAfterReceive DEF One
    <3>2. Count(Pids, guard, i)' = Count(Pids, guard, i)
                 + (IF j = i THEN 1 ELSE 0) - (IF guard[p] = i THEN 1 ELSE 0)
      <4>1. p \in Pids /\ j \in Keys \cup {"none"} /\ guard' = [guard EXCEPT ![p] = j]
        BY <2>2, <2>3
      <4> QED BY <1>0, <4>1, WatchersAfterChange, ZenonT(60)
    <3>3. guard[p] # i
      BY <2>3, OwnAssumption
    <3> QED BY <1>0, <3>1, <3>2, <3>3, EndsAreNat DEF Ends, One
  <2>7. mapaTempos[j] = NoPid /\ Ends(j) = 0
    BY <2>1 DEF WatchersInv
  <2>8. ASSUME NEW i \in Keys
        PROVE  IF mapaTempos'[i] # NoPid THEN Ends(i)' = 1 /\ i \in mapaNodos' ELSE Ends(i)' = 0
    <3>1. CASE i = j
      BY <3>1, <2>1, <2>2, <2>3, <2>6, <2>7, <1>0 DEF TableTyped, One
    <3>2. CASE i # j
      <4>1. Ends(i)' = Ends(i)
        BY <3>2, <2>6, <1>0, EndsAreNat DEF One, Ends
      <4>2. mapaTempos'[i] = mapaTempos[i] /\ (i \in mapaNodos => i \in mapaNodos')
        BY <3>2, <2>1, <2>2, <1>0 DEF TableTyped
      <4> QED BY <4>1, <4>2 DEF WatchersInv
    <3> QED BY <3>1, <3>2
  <2> QED BY <2>5, <2>8 DEF WatchersInv
<1>5. CASE RecvHelloAgain
  <2>1. Next1("hello") /\ UNCHANGED <<mapaNodos, mapaTempos, guard>>
    BY <1>5 DEF RecvHelloAgain
  <2>2. TableTyped' 
    BY <2>1, <1>0, DemandsAfterReceive DEF TableTyped
  <2>3. ASSUME NEW i \in Keys PROVE Ends(i)' = Ends(i)
    <3>1. Occurs(queue, Msg("borrar", i))' = Occurs(queue, Msg("borrar", i))
      BY <1>0, <2>1, DemandsAfterReceive DEF One
    <3> QED BY <3>1, <2>1, <1>a DEF Ends
  <2> QED BY <2>1, <2>2, <2>3 DEF WatchersInv
<1>6. CASE RecvBorrar
  <2>0. PICK j \in Keys : j = Head(queue).id
    BY <1>0, <1>6, DemandsAfterReceive DEF RecvBorrar
  <2>1. /\ Next1("borrar") /\ mapaNodos' = mapaNodos \ {j} /\ UNCHANGED guard
        /\ mapaTempos' = [mapaTempos EXCEPT ![j] = NoPid]
    BY <1>6, <2>0 DEF RecvBorrar
  <2>3. TableTyped'
    BY <1>0, <2>1, DemandsAfterReceive DEF TableTyped
  <2>4. ASSUME NEW i \in Keys PROVE Ends(i) = Ends(i)' + One(i = j)
    <3>1. Occurs(queue, Msg("borrar", i)) = Occurs(queue, Msg("borrar", i))' + One(i = j)
      BY <1>0, <2>0, <2>1, DemandsAfterReceive DEF One
    <3>2. Count(Pids, guard, i)' = Count(Pids, guard, i)
      BY <2>1, <1>a
    <3>3. Occurs(queue, Msg("borrar", i))' \in Nat /\ Count(Pids, guard, i) \in Nat /\ One(i = j) \in Nat
      BY <1>0, <2>1, EndsAreNat, DemandsAfterReceive DEF One
    <3> QED BY <3>1, <3>2, <3>3 DEF Ends
  <2>5. Ends(j)' = 0 /\ \A i \in Keys : Ends(i)' \in Nat
    <3>1. \A i \in Keys : Count(Pids, guard, i)' \in Nat /\ Occurs(queue, Msg("borrar", i))' \in Nat
      BY <2>1, <1>a, <1>0, EndsAreNat, DemandsAfterReceive
    <3>2. \A i \in Keys : Ends(i)' \in Nat
      BY <3>1 DEF Ends
    <3>3. Ends(j) = Ends(j)' + 1
      BY <2>4 DEF One
    <3>4. Ends(j) \in {0, 1}
      BY DEF WatchersInv
    <3> QED BY <3>2, <3>3, <3>4
  <2>6. ASSUME NEW i \in Keys
        PROVE  IF mapaTempos'[i] # NoPid THEN Ends(i)' = 1 /\ i \in mapaNodos' ELSE Ends(i)' = 0
    <3>1. CASE i = j
      BY <3>1, <2>1, <2>5, <1>0 DEF TableTyped
    <3>2. CASE i # j
      <4>1. Ends(i)' = Ends(i)
        BY <3>2, <2>4, <2>5 DEF One
      <4>2. mapaTempos'[i] = mapaTempos[i] /\ (i \in mapaNodos => i \in mapaNodos')
        BY <3>2, <2>1, <1>0 DEF TableTyped
      <4> QED BY <4>1, <4>2 DEF WatchersInv
    <3> QED BY <3>1, <3>2
  <2> QED BY <2>3, <2>6 DEF WatchersInv
<1>7. CASE RecvOk
  <2>1. Next1("ok") /\ mapaNodos' = mapaNodos \cup {Own} /\ UNCHANGED <<mapaTempos, guard>>
    BY <1>7 DEF RecvOk
  <2>2. TableTyped'
    BY <2>1, <1>0, DemandsAfterReceive, OwnAssumption DEF TableTyped
  <2>3. ASSUME NEW i \in Keys PROVE Ends(i)' = Ends(i)
    <3>1. Occurs(queue, Msg("borrar", i))' = Occurs(queue, Msg("borrar", i))
      BY <1>0, <2>1, DemandsAfterReceive DEF One
    <3> QED BY <3>1, <2>1, <1>a DEF Ends
  <2> QED BY <2>1, <2>2, <2>3 DEF WatchersInv
<1>8. ASSUME NEW p \in Pids, Renew(p) PROVE WatchersInv'
  BY <1>8 DEF Renew, WatchersInv, TableTyped, Ends, Count, Occurs, Msg
<1>9. ASSUME NEW p \in Pids, Expire(p) PROVE WatchersInv'
  <2>0. PICK j \in Keys : j = guard[p]
    BY <1>0, <1>9 DEF Expire, Alive, TableTyped
  <2>1. /\ guard[p] = j /\ UNCHANGED <<mapaNodos, mapaTempos>>
        /\ queue' = Append(queue, Msg("borrar", j)) /\ guard' = [guard EXCEPT ![p] = "none"]
    BY <1>9, <2>0 DEF Expire
  <2>2. TableTyped'
    BY <1>0, <2>1, DemandsAfterSend, WatchersAfterChange DEF TableTyped
  <2>3. ASSUME NEW i \in Keys PROVE Ends(i)' = Ends(i)
    <3>1. Occurs(queue, Msg("borrar", i))' = Occurs(queue, Msg("borrar", i)) + One(i = j)
      BY <1>0, <2>1, DemandsAfterSend DEF One
    <3>2. Count(Pids, guard, i)' = Count(Pids, guard, i)
                 + (IF "none" = i THEN 1 ELSE 0) - (IF guard[p] = i THEN 1 ELSE 0)
      <4>1. "none" \in Keys \cup {"none"} /\ guard' = [guard EXCEPT ![p] = "none"]
        BY <2>1
      <4> QED BY <1>0, <4>1, WatchersAfterChange, ZenonT(60)
    <3>3. "none" # i
      BY OwnAssumption
    <3>4. CASE i = j
      BY <1>0, <2>1, <3>1, <3>2, <3>3, <3>4, EndsAreNat, SMTT(30) DEF Ends, One
    <3>5. CASE i # j
      BY <1>0, <2>1, <3>1, <3>2, <3>3, <3>5, EndsAreNat, SMTT(30) DEF Ends, One
    <3> QED BY <3>4, <3>5
  <2> QED BY <2>1, <2>2, <2>3 DEF WatchersInv
<1>10. CASE UNCHANGED varsR
  BY <1>10 DEF varsR, WatchersInv, TableTyped, Ends, Count, Occurs, Msg
<1> QED BY <1>1, <1>2, <1>3, <1>4, <1>5, <1>6, <1>7, <1>8, <1>9, <1>10 DEF NextR

LEMMA EachIsWatched == WatchersInv => OneWatcherEach
BY DEF WatchersInv, OneWatcherEach, Ends, Count, Occurs, Watchers, Demands

-----------------------------------------------------------------------------
(* The nodes side by side.                                                     *)
InvO == Inv3 /\ Inv3b /\ NamesInv /\ TableInv /\ WatchersInv

LEMMA InvOInit == InitO => InvO
BY Init3Inv, Init3bInv, NamesInit, TableInit, WatchersInit DEF InitO, InvO

\* A step of one project is no step of the others.
LEMMA StepsApart ==
  [NextO]_varsO => [Next3]_vars3 /\ [NextN]_varsN /\ [NextT]_varsT /\ [NextR]_varsR
BY DEF NextO, varsO

LEMMA InvONext == InvO /\ [NextO]_varsO => InvO'
BY StepsApart, Next3Inv, Next3bInv, NamesNext, TableNext, WatchersNext DEF InvO

\* Resolucion3: names are unique, even of nodes that start at the same moment,
\* if some node was up before them and answers are prompt.
THEOREM UniqueNames == SpecO => []UniqueBesideAWitness
<1>1. InvO => UniqueBesideAWitness
  BY GrantsAreUnique DEF InvO
<1> QED BY InvOInit, InvONext, <1>1, PTL DEF SpecO

\* Resolucion3: init_srv ends on a second refusal only, and while answers are
\* prompt that takes two listeners.
THEOREM CrashTakesTwo == SpecO => []CrashTakesTwoAnswers
<1>1. InvO => CrashTakesTwoAnswers
  BY CrashNeedsTwo DEF InvO
<1> QED BY InvOInit, InvONext, <1>1, PTL DEF SpecO

\* MARIO: while answers are in time, no listener ends.
THEOREM NobodyIsDeaf == SpecO => []DeafnessTakesALateAnswer
<1>1. InvO => DeafnessTakesALateAnswer
  BY DEF InvO, NamesInv, AskersWait, DeafnessTakesALateAnswer
<1> QED BY InvOInit, InvONext, <1>1, PTL DEF SpecO

\* MARIO: the cleaner picks no running node that has lost fewer than two HELLOs.
THEOREM TwoLossesAtLeast == SpecO => OneLossIsSurvived
<1> DEFINE Survives == \A i \in Others :
      i \notin doomed /\ i \in doomed' /\ i \in running => lost[i] >= 2
<1>1. InvO /\ [NextO]_varsO => [Survives]_varsT
  BY StepsApart, PickedMissedTwo DEF InvO
<1> HIDE DEF Survives
<1>2. SpecO => [][Survives]_varsT
  BY InvOInit, InvONext, <1>1, PTL DEF SpecO
<1> QED BY <1>2 DEF Survives, OneLossIsSurvived

\* RESOLUCION1: an entry that has been greeted has exactly one process to watch
\* it, or exactly one demand to delete it on its way; any other has neither.
THEOREM EntriesAreWatched == SpecO => []OneWatcherEach
<1>1. InvO => OneWatcherEach
  BY EachIsWatched DEF InvO
<1> QED BY InvOInit, InvONext, <1>1, PTL DEF SpecO
=============================================================================
