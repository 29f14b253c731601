-------------------------------- MODULE Lemmas --------------------------------
(* What the proofs of several modules need of mailboxes, sequences read        *)
(* through the sets of their elements, and of the number of threads at a       *)
(* place.                                                                      *)
EXTENDS Integers, FiniteSets, SequencesExt, SequenceTheorems, FunctionTheorems, FiniteSetTheorems, TLAPS

-----------------------------------------------------------------------------
(* Mailboxes.                                                                  *)

\* A message put at the end of a mailbox is added to its contents.
THEOREM ToSetOfAppend ==
  ASSUME NEW S, NEW s \in Seq(S), NEW x \in S
  PROVE  /\ Append(s, x) \in Seq(S)
         /\ ToSet(Append(s, x)) = ToSet(s) \cup {x}
<1>1. /\ Append(s, x) \in Seq(S)
      /\ Len(Append(s, x)) = Len(s) + 1
      /\ \A i \in 1..Len(s) : Append(s, x)[i] = s[i]
      /\ Append(s, x)[Len(s) + 1] = x
  OBVIOUS
<1>2. DOMAIN Append(s, x) = 1..(Len(s) + 1) /\ DOMAIN s = 1..Len(s) /\ Len(s) \in Nat
  BY <1>1
<1>3. ToSet(Append(s, x)) \subseteq ToSet(s) \cup {x}
  BY <1>1, <1>2 DEF ToSet
<1>4. ToSet(s) \cup {x} \subseteq ToSet(Append(s, x))
  BY <1>1, <1>2 DEF ToSet
<1> QED BY <1>1, <1>3, <1>4

\* The contents of an empty mailbox, and membership in the contents.
THEOREM ToSetOfEmpty == ToSet(<<>>) = {}
BY DEF ToSet

THEOREM ToSetTyped ==
  ASSUME NEW S, NEW s \in Seq(S)
  PROVE  ToSet(s) \subseteq S
BY DEF ToSet

\* Taking the first message leaves everything else.
THEOREM ToSetOfTail ==
  ASSUME NEW S, NEW s \in Seq(S), s # <<>>
  PROVE  /\ Head(s) \in S /\ Tail(s) \in Seq(S)
         /\ Head(s) \in ToSet(s)
         /\ ToSet(Tail(s)) \subseteq ToSet(s)
         /\ ToSet(s) \subseteq ToSet(Tail(s)) \cup {Head(s)}
<1>1. /\ Head(s) \in S /\ Tail(s) \in Seq(S) /\ Len(s) \in Nat \ {0}
      /\ Len(Tail(s)) = Len(s) - 1
      /\ \A i \in 1..Len(Tail(s)) : Tail(s)[i] = s[i + 1]
      /\ Head(s) = s[1]
  BY HeadTailProperties, EmptySeq
<1>2. DOMAIN Tail(s) = 1..(Len(s) - 1) /\ DOMAIN s = 1..Len(s)
  BY <1>1
<1>3. Head(s) \in ToSet(s)
  BY <1>1, <1>2 DEF ToSet
<1>4. ToSet(Tail(s)) \subseteq ToSet(s)
  <2>1. ASSUME NEW i \in 1..(Len(s) - 1) PROVE Tail(s)[i] = s[i + 1] /\ i + 1 \in 1..Len(s)
    BY <1>1
  <2> QED BY <2>1, <1>2 DEF ToSet
<1>5. ToSet(s) \subseteq ToSet(Tail(s)) \cup {Head(s)}
  <2>1. ASSUME NEW i \in 1..Len(s), i # 1
        PROVE  i - 1 \in 1..(Len(s) - 1) /\ Tail(s)[i - 1] = s[i]
    BY <2>1, <1>1
  <2>2. ASSUME NEW i \in 1..Len(s) PROVE s[i] \in ToSet(Tail(s)) \cup {Head(s)}
    BY <2>1, <1>1, <1>2 DEF ToSet
  <2> QED BY <2>2, <1>2 DEF ToSet
<1> QED BY <1>1, <1>3, <1>4, <1>5

\* Sequences without repetitions.
LEMMA InjectiveAppend ==
  ASSUME NEW S, NEW s \in Seq(S), NEW x \in S, IsInjective(s), x \notin ToSet(s)
  PROVE  IsInjective(Append(s, x))
<1>1. /\ DOMAIN Append(s, x) = 1..(Len(s) + 1) /\ DOMAIN s = 1..Len(s) /\ Len(s) \in Nat
      /\ \A k \in 1..Len(s) : Append(s, x)[k] = s[k]
      /\ Append(s, x)[Len(s) + 1] = x
  OBVIOUS
<1>2. \A k \in 1..Len(s) : s[k] \in ToSet(s)
  BY DEF ToSet
<1> QED BY <1>1, <1>2 DEF IsInjective

LEMMA InjectiveTail ==
  ASSUME NEW S, NEW s \in Seq(S), s # <<>>, IsInjective(s)
  PROVE  /\ IsInjective(Tail(s))
         /\ ToSet(Tail(s)) = ToSet(s) \ {Head(s)}
<1>1. /\ Len(s) \in Nat \ {0} /\ Tail(s) \in Seq(S) /\ Head(s) = s[1]
      /\ DOMAIN Tail(s) = 1..(Len(s) - 1) /\ DOMAIN s = 1..Len(s)
      /\ \A k \in 1..(Len(s) - 1) : Tail(s)[k] = s[k + 1]
  BY HeadTailProperties, EmptySeq
<1>2. ASSUME NEW k \in 1..(Len(s) - 1)
      PROVE  k + 1 \in 1..Len(s) /\ k + 1 # 1 /\ Tail(s)[k] = s[k + 1]
  BY <1>1
<1>3. IsInjective(Tail(s))
  <2> SUFFICES ASSUME NEW k \in 1..(Len(s) - 1), NEW l \in 1..(Len(s) - 1), Tail(s)[k] = Tail(s)[l]
               PROVE  k = l
    BY <1>1 DEF IsInjective
  <2>1. k + 1 = l + 1
    BY <1>1, <1>2 DEF IsInjective
  <2> QED BY <2>1, <1>1
<1>4. Head(s) \notin ToSet(Tail(s))
  <2> SUFFICES ASSUME NEW k \in 1..(Len(s) - 1), Tail(s)[k] = Head(s) PROVE FALSE
    BY <1>1 DEF ToSet
  <2>1. 1 \in DOMAIN s /\ k + 1 \in DOMAIN s /\ s[k + 1] = s[1] /\ k + 1 # 1
    BY <1>1, <1>2
  <2> QED BY <2>1 DEF IsInjective
<1> QED BY <1>3, <1>4, ToSetOfTail

LEMMA InjectiveOccurrences ==
  ASSUME NEW S, NEW s \in Seq(S), NEW x, IsInjective(s)
  PROVE  Cardinality({k \in DOMAIN s : s[k] = x}) = IF x \in ToSet(s) THEN 1 ELSE 0
<1>1. CASE x \in ToSet(s)
  <2>1. PICK k \in DOMAIN s : s[k] = x
    BY <1>1 DEF ToSet
  <2>2. {l \in DOMAIN s : s[l] = x} = {k}
    BY <2>1 DEF IsInjective
  <2> QED BY <1>1, <2>2, FS_Singleton
<1>2. CASE x \notin ToSet(s)
  <2>1. {l \in DOMAIN s : s[l] = x} = {}
    BY <1>2 DEF ToSet
  <2> QED BY <1>2, <2>1, FS_EmptySet
<1> QED BY <1>1, <1>2

\* How often a message is in a mailbox.
Occurs(s, x) == Cardinality({k \in DOMAIN s : s[k] = x})

LEMMA OccursIsNat ==
  ASSUME NEW S, NEW s \in Seq(S), NEW x
  PROVE  IsFiniteSet({k \in DOMAIN s : s[k] = x}) /\ Occurs(s, x) \in Nat
<1>1. DOMAIN s = 1..Len(s) /\ Len(s) \in Nat
  OBVIOUS
<1>2. IsFiniteSet(DOMAIN s)
  BY <1>1, FS_Interval
<1>3. IsFiniteSet({k \in DOMAIN s : s[k] = x})
  BY <1>2, FS_Subset
<1> QED BY <1>3, FS_CardinalityType DEF Occurs

LEMMA OccursInEmpty == ASSUME NEW x PROVE Occurs(<<>>, x) = 0
<1>1. {k \in DOMAIN <<>> : <<>>[k] = x} = {}
  OBVIOUS
<1> QED BY <1>1, FS_EmptySet DEF Occurs

LEMMA OccursAfterAppend ==
  ASSUME NEW S, NEW s \in Seq(S), NEW y \in S, NEW x
  PROVE  Occurs(Append(s, y), x) = IF y = x THEN Occurs(s, x) + 1 ELSE Occurs(s, x)
<1> DEFINE A == {k \in DOMAIN s : s[k] = x}
           B == {k \in DOMAIN Append(s, y) : Append(s, y)[k] = x}
<1>1. /\ DOMAIN Append(s, y) = 1..(Len(s) + 1) /\ DOMAIN s = 1..Len(s) /\ Len(s) \in Nat
      /\ \A k \in 1..Len(s) : Append(s, y)[k] = s[k]
      /\ Append(s, y)[Len(s) + 1] = y
  OBVIOUS
<1>2. Len(s) + 1 \notin A
  BY <1>1
<1>3. IsFiniteSet(A)
  BY OccursIsNat
<1>4. CASE y = x
  <2>1. B = A \cup {Len(s) + 1}
    BY <1>1, <1>4
  <2> QED BY <1>2, <1>3, <1>4, <2>1, FS_AddElement DEF Occurs
<1>5. CASE y # x
  <2>1. B = A
    BY <1>1, <1>5
  <2> QED BY <1>5, <2>1 DEF Occurs
<1> QED BY <1>4, <1>5

LEMMA OccursAfterTail ==
  ASSUME NEW S, NEW s \in Seq(S), s # <<>>, NEW x
  PROVE  Occurs(s, x) = IF Head(s) = x THEN Occurs(Tail(s), x) + 1 ELSE Occurs(Tail(s), x)
<1> DEFINE A == {k \in DOMAIN Tail(s) : Tail(s)[k] = x}
           B == {k \in DOMAIN s : s[k] = x}
           C == B \ {1}
           f == [k \in A |-> k + 1]
<1>1. /\ Len(s) \in Nat \ {0} /\ Tail(s) \in Seq(S) /\ Head(s) = s[1]
      /\ DOMAIN Tail(s) = 1..(Len(s) - 1) /\ DOMAIN s = 1..Len(s)
      /\ \A k \in 1..(Len(s) - 1) : Tail(s)[k] = s[k + 1]
  BY HeadTailProperties, EmptySeq
<1>2. ASSUME NEW k \in A PROVE k \in Int /\ k + 1 \in C
  BY <1>1
<1>3. ASSUME NEW l \in C PROVE l - 1 \in A /\ l = (l - 1) + 1
  BY <1>1
<1>4. f \in Bijection(A, C)
  <2>1. f \in [A -> C]
    BY <1>2
  <2>2. \A k, l \in A : f[k] = f[l] => k = l
    BY <1>2
  <2>3. \A l \in C : \E k \in A : f[k] = l
    BY <1>3
  <2> QED BY <2>1, <2>2, <2>3, Fun_IsBij
<1>5. IsFiniteSet(A) /\ IsFiniteSet(B)
  BY <1>1, OccursIsNat
<1>6. Cardinality(A) = Cardinality(C)
  BY <1>4, <1>5, FS_Bijection DEF ExistsBijection
<1>7. Cardinality(C) = IF 1 \in B THEN Cardinality(B) - 1 ELSE Cardinality(B)
  BY <1>5, FS_RemoveElement
<1>8. 1 \in B <=> Head(s) = x
  BY <1>1
<1>9. Cardinality(A) \in Nat /\ Cardinality(B) \in Nat
  BY <1>5, FS_CardinalityType
<1> HIDE DEF A, B, C
<1>10. Cardinality(B) = IF Head(s) = x THEN Cardinality(A) + 1 ELSE Cardinality(A)
  BY <1>6, <1>7, <1>8, <1>9
<1> QED BY <1>10 DEF A, B, Occurs

\* Where the elements of a sequence are after an append, and after a tail.
LEMMA AppendElements ==
  ASSUME NEW S, NEW s \in Seq(S), NEW x \in S
  PROVE  /\ Append(s, x) \in Seq(S) /\ Len(s) \in Nat /\ DOMAIN s = 1..Len(s)
         /\ Len(Append(s, x)) = Len(s) + 1 /\ DOMAIN Append(s, x) = 1..(Len(s) + 1)
         /\ \A k \in 1..Len(s) : Append(s, x)[k] = s[k]
         /\ Append(s, x)[Len(s) + 1] = x
OBVIOUS

LEMMA TailElements ==
  ASSUME NEW S, NEW s \in Seq(S), s # <<>>
  PROVE  /\ Tail(s) \in Seq(S) /\ Head(s) \in S /\ Head(s) = s[1]
         /\ Len(s) \in Nat \ {0} /\ DOMAIN s = 1..Len(s)
         /\ Len(Tail(s)) = Len(s) - 1 /\ DOMAIN Tail(s) = 1..(Len(s) - 1)
         /\ \A k \in 1..(Len(s) - 1) : Tail(s)[k] = s[k + 1]
BY HeadTailProperties, EmptySeq

\* A selective receive takes one message and leaves the others in their order.
LEMMA RemoveAtElements ==
  ASSUME NEW S, NEW s \in Seq(S), NEW k \in 1..Len(s)
  PROVE  /\ RemoveAt(s, k) \in Seq(S)
         /\ Len(RemoveAt(s, k)) = Len(s) - 1
         /\ DOMAIN RemoveAt(s, k) = 1..(Len(s) - 1)
         /\ \A i \in 1..(k - 1) : RemoveAt(s, k)[i] = s[i]
         /\ \A i \in k..(Len(s) - 1) : RemoveAt(s, k)[i] = s[i + 1]
<1> DEFINE a == SubSeq(s, 1, k - 1)
           b == SubSeq(s, k + 1, Len(s))
<1>0. Len(s) \in Nat /\ DOMAIN s = 1..Len(s) /\ \A i \in 1..Len(s) : s[i] \in S
  OBVIOUS
<1>1. a \in Seq(S) /\ Len(a) = k - 1 /\ \A i \in 1..(k - 1) : a[i] = s[i]
  <2>1. \A i \in 1..(k - 1) : s[i] \in S
    BY <1>0
  <2> QED BY <2>1, <1>0, SubSeqProperties
<1>2. b \in Seq(S) /\ Len(b) = Len(s) - k /\ \A i \in 1..(Len(s) - k) : b[i] = s[k + i]
  <2>1. \A i \in (k + 1)..Len(s) : s[i] \in S
    BY <1>0
  <2>2. /\ b \in Seq(S)
        /\ Len(b) = IF k + 1 <= Len(s) THEN Len(s) - (k + 1) + 1 ELSE 0
        /\ \A i \in 1..(Len(s) - (k + 1) + 1) : b[i] = s[(k + 1) + i - 1]
    BY <2>1, <1>0, SubSeqProperties
  <2> HIDE DEF b
  <2>3. Len(b) = Len(s) - k
    <3>1. ASSUME NEW n \in Nat, NEW q \in Nat, q <= n
          PROVE  (IF q + 1 <= n THEN n - (q + 1) + 1 ELSE 0) = n - q
      BY <3>1
    <3>2. Len(s) \in Nat /\ k \in Nat /\ k <= Len(s)
      BY <1>0
    <3>3. (IF k + 1 <= Len(s) THEN Len(s) - (k + 1) + 1 ELSE 0) = Len(s) - k
      BY <3>1, <3>2
    <3> QED BY <3>3, <2>2
  <2>4. ASSUME NEW i \in 1..(Len(s) - k) PROVE b[i] = s[k + i]
    <3>1. Len(s) - (k + 1) + 1 = Len(s) - k /\ (k + 1) + i - 1 = k + i
      BY <1>0
    <3> QED BY <3>1, <2>2
  <2> QED BY <2>2, <2>3, <2>4
<1> HIDE DEF a, b
<1>3. /\ a \o b \in Seq(S)
      /\ Len(a \o b) = Len(s) - 1
      /\ \A i \in 1..(k - 1) : (a \o b)[i] = s[i]
      /\ \A i \in k..(Len(s) - 1) : (a \o b)[i] = s[i + 1]
  <2>1. /\ a \o b \in Seq(S)
        /\ Len(a \o b) = Len(a) + Len(b)
        /\ \A i \in 1..(Len(a) + Len(b)) : (a \o b)[i] = IF i <= Len(a) THEN a[i] ELSE b[i - Len(a)]
    BY <1>1, <1>2, ConcatProperties
  <2>2. Len(a) + Len(b) = Len(s) - 1
    BY <1>0, <1>1, <1>2
  <2>3. ASSUME NEW i \in 1..(k - 1) PROVE (a \o b)[i] = s[i]
    <3>1. i \in 1..(Len(s) - 1) /\ i <= Len(a)
      BY <1>0, <1>1
    <3> QED BY <3>1, <2>1, <2>2, <1>1
  <2>4. ASSUME NEW i \in k..(Len(s) - 1) PROVE (a \o b)[i] = s[i + 1]
    <3>1. i \in 1..(Len(s) - 1) /\ ~(i <= Len(a)) /\ i - Len(a) \in 1..(Len(s) - k) /\ k + (i - Len(a)) = i + 1
      BY <1>0, <1>1
    <3> QED BY <3>1, <2>1, <2>2, <1>2
  <2> QED BY <2>1, <2>2, <2>3, <2>4
<1>4. DOMAIN (a \o b) = 1..(Len(s) - 1)
  BY <1>3, <1>0
<1> QED BY <1>3, <1>4 DEF RemoveAt, a, b

THEOREM ToSetOfRemoveAt ==
  ASSUME NEW S, NEW s \in Seq(S), NEW k \in 1..Len(s)
  PROVE  /\ RemoveAt(s, k) \in Seq(S)
         /\ ToSet(RemoveAt(s, k)) \subseteq ToSet(s)
         /\ ToSet(s) \subseteq ToSet(RemoveAt(s, k)) \cup {s[k]}
<1> DEFINE r == RemoveAt(s, k)
<1>0. Len(s) \in Nat /\ DOMAIN s = 1..Len(s)
  OBVIOUS
<1>1. /\ r \in Seq(S) /\ DOMAIN r = 1..(Len(s) - 1)
      /\ \A i \in 1..(k - 1) : r[i] = s[i]
      /\ \A i \in k..(Len(s) - 1) : r[i] = s[i + 1]
  BY RemoveAtElements
<1> HIDE DEF r
<1>2. ToSet(r) \subseteq ToSet(s)
  <2>1. ASSUME NEW i \in 1..(Len(s) - 1) PROVE \E j \in 1..Len(s) : r[i] = s[j]
    <3>1. CASE i < k
      BY <3>1, <1>0, <1>1
    <3>2. CASE ~(i < k)
      <4>1. i + 1 \in 1..Len(s) /\ r[i] = s[i + 1]
        BY <3>2, <1>0, <1>1
      <4> QED BY <4>1
    <3> QED BY <3>1, <3>2
  <2>2. \A i \in DOMAIN r : r[i] \in ToSet(s)
    BY <2>1, <1>0, <1>1 DEF ToSet
  <2> QED BY <2>2 DEF ToSet
<1>3. ToSet(s) \subseteq ToSet(r) \cup {s[k]}
  <2>1. ASSUME NEW j \in 1..Len(s), j # k PROVE \E i \in 1..(Len(s) - 1) : r[i] = s[j]
    <3>1. CASE j < k
      <4>1. j \in 1..(Len(s) - 1) /\ j \in 1..(k - 1)
        BY <3>1, <1>0
      <4> QED BY <4>1, <1>1
    <3>2. CASE j > k
      <4>1. j - 1 \in k..(Len(s) - 1) /\ j - 1 \in 1..(Len(s) - 1) /\ (j - 1) + 1 = j
        BY <3>2, <1>0
      <4>2. r[j - 1] = s[j]
        BY <4>1, <1>1
      <4> QED BY <4>1, <4>2
    <3>3. j < k \/ j > k
      BY <2>1, <1>0
    <3> QED BY <3>1, <3>2, <3>3
  <2>2. ASSUME NEW j \in 1..Len(s) PROVE s[j] \in ToSet(r) \cup {s[k]}
    BY <2>1, <1>1 DEF ToSet
  <2> QED BY <2>2, <1>0 DEF ToSet
<1> QED BY <1>1, <1>2, <1>3 DEF r

LEMMA RemoveOnly == ASSUME NEW x PROVE RemoveAt(<<x>>, 1) = <<>>
BY DEF RemoveAt

\* x came into the mailbox s before y did.
Before(s, x, y) == \E j, k \in DOMAIN s : j < k /\ s[j] = x /\ s[k] = y

LEMMA BothAreIn == ASSUME NEW s, NEW x, NEW y, Before(s, x, y) PROVE x \in ToSet(s) /\ y \in ToSet(s)
BY DEF Before, ToSet

LEMMA BeforeInAppend ==
  ASSUME NEW S, NEW s \in Seq(S), NEW z \in S, NEW x, NEW y, Before(Append(s, z), x, y)
  PROVE  Before(s, x, y) \/ (x \in ToSet(s) /\ y = z)
<1>1. /\ DOMAIN Append(s, z) = 1..(Len(s) + 1) /\ DOMAIN s = 1..Len(s) /\ Len(s) \in Nat
      /\ \A i \in 1..Len(s) : Append(s, z)[i] = s[i]
      /\ Append(s, z)[Len(s) + 1] = z
  OBVIOUS
<1>2. PICK j, k \in 1..(Len(s) + 1) : j < k /\ Append(s, z)[j] = x /\ Append(s, z)[k] = y
  BY <1>1 DEF Before
<1>3. j \in 1..Len(s) /\ s[j] = x
  BY <1>1, <1>2
<1>4. CASE k \in 1..Len(s)
  BY <1>1, <1>2, <1>3, <1>4 DEF Before
<1>5. CASE k = Len(s) + 1
  BY <1>1, <1>2, <1>3, <1>5 DEF ToSet
<1> QED BY <1>1, <1>4, <1>5

LEMMA BeforeInTail ==
  ASSUME NEW S, NEW s \in Seq(S), s # <<>>, NEW x, NEW y, Before(Tail(s), x, y)
  PROVE  Before(s, x, y)
<1>1. /\ Len(s) \in Nat \ {0} /\ DOMAIN Tail(s) = 1..(Len(s) - 1) /\ DOMAIN s = 1..Len(s)
      /\ \A i \in 1..(Len(s) - 1) : Tail(s)[i] = s[i + 1]
  BY HeadTailProperties, EmptySeq
<1>2. PICK j, k \in 1..(Len(s) - 1) : j < k /\ Tail(s)[j] = x /\ Tail(s)[k] = y
  BY <1>1 DEF Before
<1>3. j + 1 \in DOMAIN s /\ k + 1 \in DOMAIN s /\ j + 1 < k + 1 /\ s[j + 1] = x /\ s[k + 1] = y
  BY <1>1, <1>2
<1> QED BY <1>3 DEF Before

LEMMA BeforeInRemoveAt ==
  ASSUME NEW S, NEW s \in Seq(S), NEW k \in 1..Len(s), NEW x, NEW y, Before(RemoveAt(s, k), x, y)
  PROVE  Before(s, x, y)
<1> DEFINE r == RemoveAt(s, k)
<1>1. /\ Len(s) \in Nat /\ DOMAIN s = 1..Len(s) /\ DOMAIN r = 1..(Len(s) - 1)
      /\ \A i \in 1..(k - 1) : r[i] = s[i]
      /\ \A i \in k..(Len(s) - 1) : r[i] = s[i + 1]
  BY RemoveAtElements
<1> HIDE DEF r
<1>2. PICK j, l \in 1..(Len(s) - 1) : j < l /\ r[j] = x /\ r[l] = y
  BY <1>1 DEF Before, r
<1>3. ASSUME NEW i \in 1..(Len(s) - 1)
      PROVE  (i < k => i \in DOMAIN s /\ r[i] = s[i]) /\ (i >= k => i + 1 \in DOMAIN s /\ r[i] = s[i + 1])
  BY <1>1
<1>4. CASE l < k
  <2>1. j \in DOMAIN s /\ l \in DOMAIN s /\ s[j] = x /\ s[l] = y
    BY <1>2, <1>3, <1>4
  <2> QED BY <1>2, <2>1 DEF Before
<1>5. CASE j < k /\ l >= k
  <2>1. j \in DOMAIN s /\ l + 1 \in DOMAIN s /\ s[j] = x /\ s[l + 1] = y /\ j < l + 1
    BY <1>2, <1>3, <1>5
  <2> QED BY <2>1 DEF Before
<1>6. CASE j >= k
  <2>1. j + 1 \in DOMAIN s /\ l + 1 \in DOMAIN s /\ s[j + 1] = x /\ s[l + 1] = y /\ j + 1 < l + 1
    BY <1>2, <1>3, <1>6
  <2> QED BY <2>1 DEF Before
<1> QED BY <1>4, <1>5, <1>6

-----------------------------------------------------------------------------
(* How the number of threads at a place changes when one thread moves.         *)

Count(S, f, v) == Cardinality({t \in S : f[t] = v})
One(P) == IF P THEN 1 ELSE 0

\* f and g differ at x at most.
OnlyMoves(x, S, f, g) == \A t \in S : t # x => g[t] = f[t]

LEMMA CountIsNat ==
  ASSUME NEW S, IsFiniteSet(S), NEW f, NEW v
  PROVE  /\ Count(S, f, v) \in Nat
         /\ Count(S, f, v) = 0 <=> \A t \in S : f[t] # v
<1> DEFINE A == {t \in S : f[t] = v}
<1>1. IsFiniteSet(A)
  BY FS_Subset
<1>2. Cardinality(A) \in Nat
  BY <1>1, FS_CardinalityType
<1>3. Cardinality(A) = 0 <=> A = {}
  BY <1>1, FS_EmptySet
<1> QED BY <1>2, <1>3 DEF Count

LEMMA CountAfterMove ==
  ASSUME NEW S, IsFiniteSet(S), NEW f, NEW g, NEW x \in S, NEW v, OnlyMoves(x, S, f, g)
  PROVE  Count(S, g, v) = Count(S, f, v) + One(g[x] = v) - One(f[x] = v)
<1> DEFINE A == {t \in S : f[t] = v}
           B == {t \in S : g[t] = v}
<1>1. IsFiniteSet(A) /\ IsFiniteSet(B)
  BY FS_Subset
<1>2. Cardinality(A) \in Nat /\ Cardinality(B) \in Nat
  BY <1>1, FS_CardinalityType
<1>3. A \ {x} = B \ {x}
  BY DEF OnlyMoves
<1>4. Cardinality(A \ {x}) = IF x \in A THEN Cardinality(A) - 1 ELSE Cardinality(A)
  BY <1>1, FS_RemoveElement
<1>5. Cardinality(B \ {x}) = IF x \in B THEN Cardinality(B) - 1 ELSE Cardinality(B)
  BY <1>1, FS_RemoveElement
<1>6. (x \in A <=> f[x] = v) /\ (x \in B <=> g[x] = v)
  OBVIOUS
<1> HIDE DEF A, B
<1>7. Cardinality(B) = Cardinality(A) + One(x \in B) - One(x \in A)
  BY <1>2, <1>3, <1>4, <1>5 DEF One
<1>8. One(x \in B) = One(g[x] = v) /\ One(x \in A) = One(f[x] = v)
  BY <1>6 DEF One
<1> QED BY <1>7, <1>8 DEF Count, A, B

\* No thread of S moves.
LEMMA CountWithoutMove ==
  ASSUME NEW S, NEW f, NEW g, NEW v, \A t \in S : g[t] = f[t]
  PROVE  Count(S, g, v) = Count(S, f, v)
<1>1. {t \in S : g[t] = v} = {t \in S : f[t] = v}
  OBVIOUS
<1> QED BY <1>1 DEF Count

\* Every thread of S is at v.
LEMMA CountIsAll ==
  ASSUME NEW S, IsFiniteSet(S), NEW f, NEW v, Count(S, f, v) = Cardinality(S)
  PROVE  \A t \in S : f[t] = v
<1> DEFINE A == {t \in S : f[t] = v}
<1>1. A = S
  BY FS_Subset DEF Count
<1> QED BY <1>1

=============================================================================
