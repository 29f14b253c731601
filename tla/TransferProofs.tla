---------------------------- MODULE TransferProofs ----------------------------
(* The downloads, for files and chunks of any size.                            *)
EXTENDS OtherTransfers, Lemmas, WellFoundedInduction

-----------------------------------------------------------------------------
(* Induction, as the least element of a set of numbers.                        *)

LEMMA LeastNumber ==
  ASSUME NEW T, T \subseteq Nat, T # {}
  PROVE  \E x \in T : \A y \in T : x <= y
<1> DEFINE R == {ss \in Nat \X Nat : ss[1] < ss[2]}
<1>1. IsWellFoundedOn(R, Nat)
  BY NatLessThanWellFounded DEF OpToRel
<1>2. PICK x \in T : \A y \in T : <<y, x>> \notin R
  BY <1>1, WFMin
<1>3. \A y \in T : ~(y < x)
  BY <1>2
<1> QED BY <1>3

-----------------------------------------------------------------------------
(* Where a chunk begins in the file, and in the stream after a header of three *)
(* cells and chunks that have h cells of their own each.                       *)

Offset(j) == j * MaxChunk
Ends(s, j) == Lesser(s, Offset(j))
Own(h, j) == IF h = 2 THEN 2 * j ELSE 3 * j
Start(h, s, j) == 3 + Own(h, j) + Ends(s, j)

LEMMA OffsetType == \A j \in Nat : Offset(j) \in Nat
BY WidthAssumption DEF Offset

LEMMA OffsetNext == Offset(0) = 0 /\ \A j \in Nat : Offset(j + 1) = Offset(j) + MaxChunk
BY WidthAssumption DEF Offset

LEMMA OffsetGrows == \A j, k \in Nat : j <= k => Offset(j) <= Offset(k)
<1> SUFFICES ASSUME NEW j \in Nat, NEW k \in Nat, j <= k PROVE Offset(j) <= Offset(k)
  OBVIOUS
<1>1. PICK d \in Nat : k = j + d
  <2>1. k - j \in Nat /\ k = j + (k - j)
    OBVIOUS
  <2> QED BY <2>1
<1>2. d * MaxChunk \in Nat /\ j * MaxChunk \in Nat
  BY WidthAssumption
<1>3. k * MaxChunk = j * MaxChunk + d * MaxChunk
  BY <1>1, WidthAssumption
<1> QED BY <1>2, <1>3 DEF Offset

LEMMA EndsFacts ==
  ASSUME NEW s \in Nat, NEW j \in Nat
  PROVE  /\ Ends(s, j) \in Nat /\ Ends(s, j) <= s
         /\ Ends(s, j) <= Ends(s, j + 1) /\ Ends(s, j + 1) <= Ends(s, j) + MaxChunk
         /\ Ends(s, 0) = 0
         /\ Offset(j) <= s => Ends(s, j) = Offset(j) /\ Ends(s, j + 1) = Lesser(s, Offset(j) + MaxChunk)
         /\ s <= Offset(j) => Ends(s, j) = s
<1>1. /\ Offset(j) \in Nat /\ Offset(j + 1) = Offset(j) + MaxChunk /\ Offset(0) = 0
      /\ MaxChunk \in Nat \ {0}
  BY OffsetType, OffsetNext, WidthAssumption
<1>2. Ends(s, j) = IF s <= Offset(j) THEN s ELSE Offset(j)
  BY DEF Ends, Lesser
<1>3. Ends(s, j + 1) = IF s <= Offset(j) + MaxChunk THEN s ELSE Offset(j) + MaxChunk
  BY <1>1 DEF Ends, Lesser
<1>4. Ends(s, 0) = 0
  BY <1>1 DEF Ends, Lesser
<1>5. Lesser(s, Offset(j) + MaxChunk) = Ends(s, j + 1)
  BY <1>3 DEF Lesser
<1> QED BY <1>1, <1>2, <1>3, <1>4, <1>5

LEMMA EndsGrow ==
  ASSUME NEW s \in Nat, NEW j \in Nat, NEW k \in Nat, j <= k
  PROVE  Ends(s, j) <= Ends(s, k)
BY OffsetType, OffsetGrows DEF Ends, Lesser

LEMMA StartFacts ==
  ASSUME NEW h \in {2, 3}, NEW s \in Nat, NEW j \in Nat
  PROVE  /\ Start(h, s, j) \in Nat /\ Start(h, s, 0) = 3 /\ 3 <= Start(h, s, j)
         /\ Start(h, s, j + 1) = Start(h, s, j) + h + (Ends(s, j + 1) - Ends(s, j))
         /\ \A k \in Nat : j <= k => Start(h, s, j) <= Start(h, s, k)
         /\ \A k \in Nat : j < k => Start(h, s, j + 1) <= Start(h, s, k)
<1>1. Own(h, j) \in Nat /\ Own(h, 0) = 0 /\ Own(h, j + 1) = Own(h, j) + h
  BY DEF Own
<1>2. \A k \in Nat : j <= k => Own(h, j) <= Own(h, k) /\ Own(h, k) \in Nat
  BY DEF Own
<1>3. \A k \in Nat : j < k => Own(h, j + 1) <= Own(h, k)
  BY DEF Own
<1>4. \A k \in Nat : j <= k => Ends(s, j) <= Ends(s, k) /\ Ends(s, k) \in Nat
  BY EndsGrow, EndsFacts
<1>5. \A k \in Nat : j < k => Ends(s, j + 1) <= Ends(s, k)
  BY EndsGrow
<1>6. Ends(s, j) \in Nat /\ Ends(s, j + 1) \in Nat /\ Ends(s, 0) = 0
  BY EndsFacts
<1>7. Start(h, s, j) \in Nat /\ Start(h, s, 0) = 3 /\ 3 <= Start(h, s, j)
  BY <1>1, <1>6 DEF Start
<1>8. Start(h, s, j + 1) = Start(h, s, j) + h + (Ends(s, j + 1) - Ends(s, j))
  BY <1>1, <1>6 DEF Start
<1>9. \A k \in Nat : j <= k => Start(h, s, j) <= Start(h, s, k)
  BY <1>1, <1>2, <1>4, <1>6 DEF Start
<1>10. \A k \in Nat : j < k => Start(h, s, j + 1) <= Start(h, s, k)
  BY <1>1, <1>2, <1>3, <1>4, <1>5, <1>6 DEF Start
<1> QED BY <1>7, <1>8, <1>9, <1>10

LEMMA StartType ==
  ASSUME NEW h \in {2, 3}, NEW s \in Nat, NEW j \in Nat
  PROVE  Start(h, s, j) \in Nat /\ 3 <= Start(h, s, j)
BY StartFacts

\* Indices do not run out before sizes do.
LEMMA IndexFits ==
  ASSUME NEW s \in Nat, s < SizeField, NEW j \in Nat, Offset(j) < s
  PROVE  j < IndexField /\ j % IndexField = j
<1>1. s < Offset(IndexField)
  BY WidthAssumption DEF Offset
<1>2. j < IndexField
  <2>1. SUFFICES ASSUME IndexField <= j PROVE FALSE
    BY WidthAssumption
  <2>2. Offset(IndexField) <= Offset(j)
    BY <2>1, OffsetGrows, WidthAssumption
  <2> QED BY <1>1, <2>2, OffsetType, WidthAssumption
<1> QED BY <1>2, WidthAssumption

-----------------------------------------------------------------------------
(* Cells, the bytes of a file, and chunks put together.                        *)

Cells == [field : Int] \cup [byte : Nat]

LEMMA CellKinds ==
  /\ \A n \in Int : Field(n) \in Cells /\ Field(n).field = n /\ IsNumber(Field(n))
  /\ \A n \in Nat : [byte |-> n] \in Cells /\ ~IsNumber([byte |-> n])
  /\ \A m \in Int : \A n \in Nat : Field(m) # [byte |-> n]
  /\ \A m, n \in Int : Field(m) = Field(n) => m = n
BY DEF Cells, Field, IsNumber

LEMMA BytesFacts ==
  ASSUME NEW a \in Nat, NEW b \in Nat, a <= b
  PROVE  /\ Bytes(a, b) \in Seq(Cells) /\ Len(Bytes(a, b)) = b - a
         /\ \A k \in 1..(b - a) : Bytes(a, b)[k] = [byte |-> a + k]
<1>1. \A k \in 1..(b - a) : Bytes(a, b)[k] = [byte |-> a + k] /\ a + k \in Nat
  BY DEF Bytes
<1>2. Bytes(a, b) \in [1..(b - a) -> Cells]
  BY CellKinds DEF Bytes
<1>3. b - a \in Nat
  OBVIOUS
<1> QED BY <1>1, <1>2, <1>3

\* A sequence of the right length and bytes is that part of the file.
LEMMA AreBytes ==
  ASSUME NEW a \in Nat, NEW b \in Nat, a <= b, NEW w \in Seq(Cells), Len(w) = b - a,
         \A k \in 1..(b - a) : w[k] = [byte |-> a + k]
  PROVE  w = Bytes(a, b)
<1>1. w = [k \in 1..Len(w) |-> w[k]]
  OBVIOUS
<1> QED BY <1>1 DEF Bytes

LEMMA BytesConcat ==
  ASSUME NEW a \in Nat, NEW b \in Nat, NEW c \in Nat, a <= b, b <= c
  PROVE  Bytes(a, b) \o Bytes(b, c) = Bytes(a, c)
<1> DEFINE u == Bytes(a, b)
           v == Bytes(b, c)
<1>1. /\ u \in Seq(Cells) /\ Len(u) = b - a /\ \A k \in 1..(b - a) : u[k] = [byte |-> a + k]
      /\ v \in Seq(Cells) /\ Len(v) = c - b /\ \A k \in 1..(c - b) : v[k] = [byte |-> b + k]
  BY BytesFacts
<1> HIDE DEF u, v
<1>2. /\ u \o v \in Seq(Cells) /\ Len(u \o v) = (b - a) + (c - b)
      /\ \A i \in 1..((b - a) + (c - b)) :
            (u \o v)[i] = IF i <= b - a THEN u[i] ELSE v[i - (b - a)]
  <2>1. /\ u \o v \in Seq(Cells) /\ Len(u \o v) = Len(u) + Len(v)
        /\ \A i \in 1..(Len(u) + Len(v)) :
              (u \o v)[i] = IF i <= Len(u) THEN u[i] ELSE v[i - Len(u)]
    BY <1>1, ConcatProperties, ZenonT(60)
  <2> QED BY ONLY <2>1, <1>1
<1>3. ASSUME NEW k \in 1..(c - a) PROVE (u \o v)[k] = [byte |-> a + k]
  <2>1. CASE k <= b - a
    BY <1>1, <1>2, <2>1
  <2>2. CASE k > b - a
    <3>1. k - (b - a) \in 1..(c - b) /\ b + (k - (b - a)) = a + k
      BY <2>2
    <3>2. (u \o v)[k] = v[k - (b - a)]
      BY <1>2, <2>2
    <3>3. PICK l \in 1..(c - b) : l = k - (b - a)
      BY <3>1
    <3>4. v[l] = [byte |-> b + l]
      BY <1>1
    <3>5. b + l = a + k
      BY <3>3
    <3>6. (u \o v)[k] = v[l]
      BY ONLY <3>2, <3>3
    <3>7. v[l] = [byte |-> a + k]
      BY ONLY <3>4, <3>5
    <3> QED BY ONLY <3>6, <3>7
  <2>3. k <= b - a \/ k > b - a
    OBVIOUS
  <2> QED BY ONLY <2>1, <2>2, <2>3
<1>4. u \o v = Bytes(a, c)
  <2>1. Len(u \o v) = c - a /\ a <= c
    BY <1>2
  <2> DEFINE w == u \o v
  <2>2. w \in Seq(Cells) /\ Len(w) = c - a /\ \A k \in 1..(c - a) : w[k] = [byte |-> a + k]
    BY <1>2, <1>3, <2>1
  <2> HIDE DEF w
  <2>3. w = Bytes(a, c)
    BY <2>1, <2>2, AreBytes
  <2> QED BY <2>3 DEF w
<1> QED BY <1>4 DEF u, v

\* The chunks of the first n, one after the other.
LEMMA FlattenChunks ==
  ASSUME NEW s \in Nat, NEW n \in Nat \ {0}, NEW seqs,
         seqs = [k \in 1..n |-> Bytes(Ends(s, k - 1), Ends(s, k))]
  PROVE  FlattenSeq(seqs) = Bytes(0, Ends(s, n))
<1>0. ASSUME NEW i \in 1..n
      PROVE  Bytes(0, Ends(s, i - 1)) \o Bytes(Ends(s, i - 1), Ends(s, i)) = Bytes(0, Ends(s, i))
  <2>1. i - 1 \in Nat /\ i \in Nat /\ i - 1 <= i
    OBVIOUS
  <2>2. Ends(s, i - 1) \in Nat /\ Ends(s, i) \in Nat
    BY ONLY <2>1, s \in Nat, EndsFacts
  <2>3. Ends(s, i - 1) <= Ends(s, i)
    BY ONLY <2>1, s \in Nat, EndsGrow
  <2> DEFINE e == Ends(s, i - 1)
             f == Ends(s, i)
  <2>4. e \in Nat /\ f \in Nat /\ e <= f /\ 0 <= e
    BY <2>2, <2>3
  <2> HIDE DEF e, f
  <2>5. Bytes(0, e) \o Bytes(e, f) = Bytes(0, f)
    BY <2>4, BytesConcat
  <2> QED BY <2>5 DEF e, f
<1> DEFINE Rule(f) == f = [i \in 1..n |-> IF i = 1 THEN seqs[i] ELSE f[i - 1] \o seqs[i]]
           g == [i \in 1..n |-> Bytes(0, Ends(s, i))]
           flat == CHOOSE f : Rule(f)
<1>1. Len(seqs) = n
  BY DEF Bytes
<1>2. FlattenSeq(seqs) = flat[n]
  BY <1>1 DEF FlattenSeq
<1>3. ASSUME NEW i \in 1..n
      PROVE  g[i] = IF i = 1 THEN seqs[i] ELSE g[i - 1] \o seqs[i]
  <2>1. CASE i = 1
    BY <2>1, EndsFacts
  <2>2. CASE i # 1
    <3>1. i - 1 \in 1..n /\ i - 1 \in Nat
      BY <2>2
    <3>3. Bytes(0, Ends(s, i - 1)) \o Bytes(Ends(s, i - 1), Ends(s, i)) = Bytes(0, Ends(s, i))
      BY <1>0
    <3> QED BY <2>2, <3>1, <3>3
  <2> QED BY <2>1, <2>2
<1>4. Rule(g)
  BY <1>3
<1>5. Rule(flat)
  BY <1>4
<1> HIDE DEF flat
<1>6. \A i \in 1..n : flat[i] = g[i]
  <2> DEFINE Wrong == {i \in 1..n : flat[i] # g[i]}
  <2>1. SUFFICES ASSUME Wrong # {} PROVE FALSE
    OBVIOUS
  <2>2. PICK i \in Wrong : \A j \in Wrong : i <= j
    <3>1. Wrong \subseteq Nat
      OBVIOUS
    <3> HIDE DEF Wrong
    <3> QED BY <2>1, <3>1, LeastNumber
  <2>3. CASE i = 1
    BY <1>3, <1>5, <2>2, <2>3
  <2>4. CASE i # 1
    <3>1. i - 1 \in 1..n /\ i - 1 \notin Wrong
      BY <2>2, <2>4
    <3>2. flat[i - 1] = g[i - 1]
      BY <3>1
    <3>3. flat[i] = flat[i - 1] \o seqs[i]
      BY <1>5, <2>2, <2>4
    <3> QED BY <1>3, <2>2, <2>4, <3>2, <3>3, ZenonT(60)
  <2> QED BY <2>3, <2>4
<1> QED BY <1>2, <1>6

-----------------------------------------------------------------------------
(* The stream of a file that is sent in chunks, as the cell at each place, and *)
(* the piece of a stream that is on the wire.                                  *)

Length(s, j) == Ends(s, j + 1) - Ends(s, j)
Header(s) == <<Field(101), Field(s), Field(MaxChunk)>>
Cell(h, s, j, i) ==
  IF i = 1 THEN Field(111)
  ELSE IF i = 2 THEN Field(j)
  ELSE IF i = 3 /\ h = 3 THEN Field(Length(s, j))
  ELSE [byte |-> Ends(s, j) + (i - h)]

\* Chunks that are sent; Resolucion3 ends with one that is not full.
HasChunk(h, s, j) == Offset(j) < s \/ (h = 2 /\ Offset(j) = s)

Chunked(h, s) ==
  {q \in Nat \X Cells :
     \/ q[1] \in 1..3 /\ q[2] = Header(s)[q[1]]
     \/ \E j \in Nat : \E i \in 1..(h + Length(s, j)) :
          HasChunk(h, s, j) /\ q[1] = Start(h, s, j) + i /\ q[2] = Cell(h, s, j, i)}

Segment(w, b, D) == \A i \in 1..Len(w) : <<b + i, w[i]>> \in D

LEMMA LengthFacts ==
  ASSUME NEW s \in Nat, NEW j \in Nat
  PROVE  /\ Length(s, j) \in Nat /\ Length(s, j) <= MaxChunk
         /\ Ends(s, j + 1) = Ends(s, j) + Length(s, j)
         /\ Ends(s, j) \in Nat /\ Ends(s, j + 1) \in Nat
<1>1. /\ Ends(s, j) \in Nat /\ Ends(s, j) <= Ends(s, j + 1)
      /\ Ends(s, j + 1) <= Ends(s, j) + MaxChunk
  BY EndsFacts
<1>2. j + 1 \in Nat
  OBVIOUS
<1>3. Ends(s, j + 1) \in Nat
  BY ONLY <1>2, s \in Nat, EndsFacts
<1>4. MaxChunk \in Nat
  BY WidthAssumption
<1> QED BY ONLY <1>1, <1>3, <1>4 DEF Length

LEMMA HeaderPlace ==
  ASSUME NEW h \in {2, 3}, NEW s \in Nat, NEW p \in 1..3, NEW c, <<p, c>> \in Chunked(h, s)
  PROVE  c = Header(s)[p]
<1>1. ASSUME NEW j \in Nat, NEW i \in 1..(h + Length(s, j)), p = Start(h, s, j) + i PROVE FALSE
  <2>1. Start(h, s, j) \in Nat /\ 3 <= Start(h, s, j)
    BY StartFacts
  <2>2. i \in Nat /\ 1 <= i
    BY LengthFacts
  <2> QED BY <1>1, <2>1, <2>2
<1> QED BY <1>1 DEF Chunked

LEMMA ChunkPlace ==
  ASSUME NEW h \in {2, 3}, NEW s \in Nat, NEW n \in Nat, NEW i \in 1..(h + Length(s, n)), NEW c,
         <<Start(h, s, n) + i, c>> \in Chunked(h, s)
  PROVE  HasChunk(h, s, n) /\ c = Cell(h, s, n, i)
<1>0. Length(s, n) \in Nat /\ h \in Nat
  BY LengthFacts
<1>1. Start(h, s, n) \in Nat /\ 3 <= Start(h, s, n) /\ i \in Nat /\ 1 <= i
  <2>1. Start(h, s, n) \in Nat /\ 3 <= Start(h, s, n)
    BY StartType
  <2>2. i \in Nat /\ 1 <= i
    BY <1>0
  <2> QED BY <2>1, <2>2
<1>2. Start(h, s, n) + i \notin 1..3
  BY <1>1
<1>3. PICK j \in Nat : \E l \in 1..(h + Length(s, j)) :
         HasChunk(h, s, j) /\ Start(h, s, n) + i = Start(h, s, j) + l /\ c = Cell(h, s, j, l)
  BY <1>2 DEF Chunked
<1>4. PICK l \in 1..(h + Length(s, j)) :
         HasChunk(h, s, j) /\ Start(h, s, n) + i = Start(h, s, j) + l /\ c = Cell(h, s, j, l)
  BY <1>3
<1>5. Start(h, s, j) \in Nat /\ l \in Nat /\ 1 <= l /\ l <= h + Length(s, j) /\ h \in Nat
      /\ Length(s, j) \in Nat /\ Length(s, n) \in Nat /\ i <= h + Length(s, n)
  <2>1. Length(s, j) \in Nat
    BY LengthFacts
  <2>2. Start(h, s, j) \in Nat
    BY StartType
  <2> QED BY <1>0, <2>1, <2>2
<1>6. /\ Start(h, s, n + 1) = Start(h, s, n) + h + Length(s, n)
      /\ Start(h, s, j + 1) = Start(h, s, j) + h + Length(s, j)
      /\ n < j => Start(h, s, n + 1) <= Start(h, s, j)
      /\ j < n => Start(h, s, j + 1) <= Start(h, s, n)
  <2>1. /\ Start(h, s, n + 1) = Start(h, s, n) + h + Length(s, n)
        /\ n < j => Start(h, s, n + 1) <= Start(h, s, j)
    BY StartFacts, ZenonT(60) DEF Length
  <2>2. /\ Start(h, s, j + 1) = Start(h, s, j) + h + Length(s, j)
        /\ j < n => Start(h, s, j + 1) <= Start(h, s, n)
    BY StartFacts, ZenonT(60) DEF Length
  <2> QED BY <2>1, <2>2
<1>7. ~(n < j)
  BY <1>1, <1>4, <1>5, <1>6
<1>8. ~(j < n)
  BY <1>1, <1>4, <1>5, <1>6
<1>9. j = n
  BY <1>7, <1>8
<1>10. l = i
  BY <1>1, <1>4, <1>5, <1>9
<1> QED BY <1>4, <1>9, <1>10

LEMMA CellType ==
  ASSUME NEW h \in {2, 3}, NEW s \in Nat, NEW j \in Nat, NEW i \in 1..(h + Length(s, j))
  PROVE  Cell(h, s, j, i) \in Cells
<1>1. Length(s, j) \in Nat /\ Ends(s, j) \in Nat /\ i \in Nat \ {0}
  BY LengthFacts
<1>2. CASE i = 1 \/ i = 2 \/ (i = 3 /\ h = 3)
  BY <1>1, <1>2, CellKinds DEF Cell
<1>3. CASE i > h
  <2>1. Ends(s, j) + (i - h) \in Nat
    BY <1>1, <1>3
  <2>2. Cell(h, s, j, i) = [byte |-> Ends(s, j) + (i - h)]
    BY <1>3 DEF Cell
  <2> QED BY <2>1, <2>2, CellKinds
<1> QED BY <1>1, <1>2, <1>3

LEMMA ChunkIsThere ==
  ASSUME NEW h \in {2, 3}, NEW s \in Nat, NEW j \in Nat, NEW i \in 1..(h + Length(s, j)),
         HasChunk(h, s, j)
  PROVE  <<Start(h, s, j) + i, Cell(h, s, j, i)>> \in Chunked(h, s)
<1>0. Length(s, j) \in Nat /\ h \in Nat
  BY LengthFacts
<1>1. Start(h, s, j) \in Nat /\ i \in Nat
  <2>1. Start(h, s, j) \in Nat
    BY StartType
  <2>2. i \in Nat
    BY <1>0
  <2> QED BY <2>1, <2>2
<1>2. <<Start(h, s, j) + i, Cell(h, s, j, i)>> \in Nat \X Cells
  BY <1>1, CellType
<1> QED BY <1>2 DEF Chunked

LEMMA HeaderIsThere ==
  ASSUME NEW h \in {2, 3}, NEW s \in Nat, NEW p \in 1..3
  PROVE  <<p, Header(s)[p]>> \in Chunked(h, s)
<1>1. Header(s)[p] \in Cells
  BY CellKinds, WidthAssumption DEF Header
<1> QED BY <1>1 DEF Chunked

\* What stays on the wire of a segment that is cut, read from or sent to.
LEMMA SegmentCut ==
  ASSUME NEW w \in Seq(Cells), NEW b, NEW D, NEW k \in 0..Len(w), Segment(w, b, D)
  PROVE  SubSeq(w, 1, k) \in Seq(Cells) /\ Segment(SubSeq(w, 1, k), b, D)
<1> DEFINE v == SubSeq(w, 1, k)
<1>1. v \in Seq(Cells) /\ Len(v) = k /\ \A i \in 1..k : v[i] = w[i]
  OBVIOUS
<1> HIDE DEF v
<1>2. Segment(v, b, D)
  BY <1>1 DEF Segment
<1> QED BY <1>1, <1>2 DEF v

LEMMA SegmentRead ==
  ASSUME NEW w \in Seq(Cells), NEW b \in Nat, NEW D, NEW n \in 0..Len(w), Segment(w, b, D)
  PROVE  /\ SubSeq(w, n + 1, Len(w)) \in Seq(Cells)
         /\ Len(SubSeq(w, n + 1, Len(w))) = Len(w) - n
         /\ Segment(SubSeq(w, n + 1, Len(w)), b + n, D)
<1> DEFINE v == SubSeq(w, n + 1, Len(w))
<1>1. v \in Seq(Cells) /\ Len(v) = Len(w) - n /\ \A i \in 1..(Len(w) - n) : v[i] = w[n + i]
  OBVIOUS
<1> HIDE DEF v
<1>2. ASSUME NEW i \in 1..Len(v) PROVE <<(b + n) + i, v[i]>> \in D
  <2>1. n + i \in 1..Len(w) /\ (b + n) + i = b + (n + i) /\ v[i] = w[n + i]
    BY <1>1
  <2> QED BY <2>1 DEF Segment
<1> QED BY <1>1, <1>2 DEF v, Segment

LEMMA SegmentSent ==
  ASSUME NEW w \in Seq(Cells), NEW b \in Nat, NEW D, NEW c \in Seq(Cells), Segment(w, b, D),
         \A i \in 1..Len(c) : <<b + Len(w) + i, c[i]>> \in D
  PROVE  /\ w \o c \in Seq(Cells) /\ Len(w \o c) = Len(w) + Len(c)
         /\ Segment(w \o c, b, D)
<1> DEFINE v == w \o c
<1>1. /\ v \in Seq(Cells) /\ Len(v) = Len(w) + Len(c)
      /\ \A i \in 1..Len(w) + Len(c) : v[i] = IF i <= Len(w) THEN w[i] ELSE c[i - Len(w)]
  BY ConcatProperties, SMTT(30)
<1> HIDE DEF v
<1>2. ASSUME NEW i \in 1..Len(v) PROVE <<b + i, v[i]>> \in D
  <2>1. CASE i <= Len(w)
    <3>1. i \in 1..Len(w) /\ v[i] = w[i]
      BY <1>1, <2>1
    <3> QED BY <3>1 DEF Segment
  <2>2. CASE i > Len(w)
    <3>1. PICK l \in 1..Len(c) : l = i - Len(w)
      BY <1>1, <2>2
    <3>2. b + Len(w) + l = b + i
      BY <3>1
    <3>3. v[i] = c[l]
      BY <1>1, <2>2, <3>1
    <3> QED BY <3>2, <3>3
  <2>3. i <= Len(w) \/ i > Len(w)
    BY <1>1
  <2> QED BY <2>1, <2>2, <2>3
<1> QED BY <1>1, <1>2 DEF v, Segment

\* A chunk as its reader finds it.
LEMMA ChunkRead ==
  ASSUME NEW h \in {2, 3}, NEW s \in Nat, NEW n \in Nat, NEW w \in Seq(Cells),
         Segment(w, Start(h, s, n), Chunked(h, s)), h <= Len(w)
  PROVE  /\ HasChunk(h, s, n)
         /\ w[1] = Field(111) /\ w[2] = Field(n) /\ (h = 3 => w[3] = Field(Length(s, n)))
         /\ h + Length(s, n) <= Len(w) =>
              /\ SubSeq(w, h + 1, h + Length(s, n)) = Bytes(Ends(s, n), Ends(s, n + 1))
              /\ SubSeq(w, h + Length(s, n) + 1, Len(w)) \in Seq(Cells)
              /\ Segment(SubSeq(w, h + Length(s, n) + 1, Len(w)), Start(h, s, n + 1), Chunked(h, s))
<1> DEFINE m == Length(s, n)
           a == Ends(s, n)
           e == Ends(s, n + 1)
           b == Start(h, s, n)
<1>1. m \in Nat /\ a \in Nat /\ e \in Nat /\ e = a + m /\ h \in Nat /\ Len(w) \in Nat
  <2>1. m \in Nat /\ a \in Nat /\ e \in Nat /\ e = a + m
    BY LengthFacts
  <2>2. h \in Nat /\ Len(w) \in Nat
    OBVIOUS
  <2> QED BY <2>1, <2>2
<1>2. b \in Nat
  BY StartType
<1>3. Start(h, s, n + 1) = b + (h + m)
  <2>1. Start(h, s, n + 1) = Start(h, s, n) + h + (Ends(s, n + 1) - Ends(s, n))
    BY StartFacts
  <2> QED BY <2>1, <1>1, <1>2 DEF Length
<1>4. ASSUME NEW i \in 1..(h + m), i <= Len(w)
      PROVE  HasChunk(h, s, n) /\ w[i] = Cell(h, s, n, i)
  <2>1. i \in 1..Len(w)
    BY <1>1, <1>4
  <2>2. <<b + i, w[i]>> \in Chunked(h, s)
    BY <2>1 DEF Segment
  <2> QED BY <2>2, ChunkPlace
<1>5. /\ HasChunk(h, s, n) /\ w[1] = Field(111) /\ w[2] = Field(n)
      /\ h = 3 => w[3] = Field(m)
  <2>1. 1 \in 1..(h + m) /\ 2 \in 1..(h + m) /\ 1 <= Len(w) /\ 2 <= Len(w)
    BY <1>1
  <2>2. h = 3 => 3 \in 1..(h + m) /\ 3 <= Len(w)
    BY <1>1
  <2>3. HasChunk(h, s, n) /\ w[1] = Cell(h, s, n, 1) /\ w[2] = Cell(h, s, n, 2)
    BY <2>1, <1>4
  <2>4. h = 3 => w[3] = Cell(h, s, n, 3)
    BY <2>2, <1>4
  <2> QED BY <2>3, <2>4 DEF Cell
<1>6. ASSUME h + m <= Len(w)
      PROVE  /\ SubSeq(w, h + 1, h + m) = Bytes(a, e)
             /\ SubSeq(w, h + m + 1, Len(w)) \in Seq(Cells)
             /\ Segment(SubSeq(w, h + m + 1, Len(w)), Start(h, s, n + 1), Chunked(h, s))
  <2> DEFINE v == SubSeq(w, h + 1, h + m)
  <2> HIDE DEF m, a, e, b
  <2>1. v \in Seq(Cells) /\ Len(v) = m /\ \A i \in 1..m : v[i] = w[h + i]
    BY <1>1, <1>6
  <2> HIDE DEF v
  <2>2. ASSUME NEW i \in 1..m PROVE v[i] = [byte |-> a + i]
    <3>1. PICK l \in 1..(h + m) : l = h + i
      BY <1>1
    <3>2. l <= Len(w) /\ l > h /\ l - h = i
      BY <1>1, <1>6, <3>1
    <3>3. w[l] = Cell(h, s, n, l)
      BY <1>4, <3>2
    <3>4. l # 1 /\ l # 2 /\ ~(l = 3 /\ h = 3)
      BY <3>2
    <3>5. Cell(h, s, n, l) = [byte |-> a + i]
      BY <3>2, <3>4 DEF Cell, a
    <3> QED BY <2>1, <3>1, <3>3, <3>5
  <2>3. Len(v) = e - a /\ a <= e /\ m = e - a
    BY <1>1, <2>1
  <2>4. v = Bytes(a, e)
    BY <1>1, <2>1, <2>2, <2>3, AreBytes
  <2>5. h + m \in 0..Len(w)
    BY <1>1, <1>6
  <2>6. Segment(w, b, Chunked(h, s))
    BY DEF b
  <2>7. /\ SubSeq(w, h + m + 1, Len(w)) \in Seq(Cells)
        /\ Segment(SubSeq(w, h + m + 1, Len(w)), b + (h + m), Chunked(h, s))
    BY <1>2, <2>5, <2>6, SegmentRead
  <2> QED BY <2>4, <2>7, <1>3 DEF v
<1> QED BY <1>5, <1>6

\* A chunk as its sender puts it.
ChunkMessage(h, s, n) ==
  (IF h = 2 THEN <<Field(111), Field(n)>> ELSE <<Field(111), Field(n), Field(Length(s, n))>>)
    \o Bytes(Ends(s, n), Ends(s, n + 1))

LEMMA ChunkMessageFacts ==
  ASSUME NEW h \in {2, 3}, NEW s \in Nat, NEW n \in Nat
  PROVE  /\ ChunkMessage(h, s, n) \in Seq(Cells)
         /\ Len(ChunkMessage(h, s, n)) = h + Length(s, n)
         /\ \A i \in 1..(h + Length(s, n)) : ChunkMessage(h, s, n)[i] = Cell(h, s, n, i)
<1> DEFINE m == Length(s, n)
           a == Ends(s, n)
           e == Ends(s, n + 1)
           own == IF h = 2 THEN <<Field(111), Field(n)>> ELSE <<Field(111), Field(n), Field(m)>>
           data == Bytes(a, e)
<1>1. m \in Nat /\ a \in Nat /\ e \in Nat /\ e = a + m /\ e - a = m /\ a <= e
  <2>1. m \in Nat /\ a \in Nat /\ e \in Nat /\ e = a + m
    BY LengthFacts
  <2> HIDE DEF m, a, e
  <2> QED BY <2>1
<1>2. /\ own \in Seq(Cells) /\ Len(own) = h
      /\ own[1] = Field(111) /\ own[2] = Field(n) /\ (h = 3 => own[3] = Field(m))
  <2>1. Field(111) \in Cells /\ Field(n) \in Cells /\ Field(m) \in Cells
    BY <1>1, CellKinds
  <2> QED BY <2>1
<1>3. data \in Seq(Cells) /\ Len(data) = m /\ \A k \in 1..m : data[k] = [byte |-> a + k]
  BY <1>1, BytesFacts, ZenonT(60)
<1> HIDE DEF m, a, e, own, data
<1>4. /\ own \o data \in Seq(Cells) /\ Len(own \o data) = h + m
      /\ \A i \in 1..(h + m) : (own \o data)[i] = IF i <= h THEN own[i] ELSE data[i - h]
  <2>1. /\ own \o data \in Seq(Cells) /\ Len(own \o data) = Len(own) + Len(data)
        /\ \A i \in 1..(Len(own) + Len(data)) :
              (own \o data)[i] = IF i <= Len(own) THEN own[i] ELSE data[i - Len(own)]
    BY <1>2, <1>3, ConcatProperties, SMTT(30)
  <2> QED BY ONLY <2>1, <1>2, <1>3
<1>5. ASSUME NEW i \in 1..(h + m) PROVE (own \o data)[i] = Cell(h, s, n, i)
  <2>1. CASE i <= h
    <3>1. i = 1 \/ i = 2 \/ (i = 3 /\ h = 3)
      BY <1>1, <2>1
    <3> QED BY <1>2, <1>4, <2>1, <3>1 DEF Cell, m
  <2>2. CASE i > h
    <3>1. PICK l \in 1..m : l = i - h
      BY <1>1, <2>2
    <3>2. (own \o data)[i] = data[l]
      BY <1>4, <2>2, <3>1
    <3>3. i # 1 /\ i # 2 /\ ~(i = 3 /\ h = 3)
      BY <2>2
    <3>4. Cell(h, s, n, i) = [byte |-> a + l]
      BY <3>1, <3>3 DEF Cell, a
    <3> QED BY <1>3, <3>2, <3>4
  <2>3. i <= h \/ i > h
    BY <1>1
  <2> QED BY <2>1, <2>2, <2>3
<1> QED BY <1>4, <1>5 DEF m, a, e, own, data, ChunkMessage

LEMMA HeaderSent ==
  ASSUME NEW h \in {2, 3}, NEW s \in Nat
  PROVE  /\ <<>> \o Header(s) \in Seq(Cells) /\ Len(<<>> \o Header(s)) = 3
         /\ Segment(<<>> \o Header(s), 0, Chunked(h, s))
         /\ Start(h, s, 0) = 3 /\ Segment(<<>>, 0, Chunked(h, s))
<1>1. Header(s) \in Seq(Cells) /\ Len(Header(s)) = 3
  BY CellKinds, WidthAssumption DEF Header
<1>2. <<>> \o Header(s) = Header(s)
  BY <1>1, ConcatEmptySeq
<1>3. \A i \in 1..3 : <<0 + i, Header(s)[i]>> \in Chunked(h, s)
  <2>1. ASSUME NEW i \in 1..3 PROVE <<0 + i, Header(s)[i]>> \in Chunked(h, s)
    <3>1. <<i, Header(s)[i]>> \in Chunked(h, s)
      BY HeaderIsThere
    <3>2. 0 + i = i
      OBVIOUS
    <3> QED BY <3>1, <3>2
  <2> QED BY <2>1
<1>4. Segment(Header(s), 0, Chunked(h, s))
  BY <1>1, <1>3 DEF Segment
<1>5. Segment(<<>>, 0, Chunked(h, s))
  BY DEF Segment
<1> QED BY <1>1, <1>2, <1>4, <1>5, StartFacts

-----------------------------------------------------------------------------
(* The chunks a reader has put together, the last one first.                   *)

Chunks == [idx : Nat, data : Seq(Cells)]

Gathered(s, cs, n) ==
  /\ cs \in Seq(Chunks) /\ Len(cs) = n
  /\ \A k \in 1..n : cs[k] = [idx |-> n - k, data |-> Bytes(Ends(s, n - k), Ends(s, n - k + 1))]

LEMMA GatheredNext ==
  ASSUME NEW s \in Nat, NEW n \in Nat, NEW cs, Gathered(s, cs, n)
  PROVE  Gathered(s, <<[idx |-> n, data |-> Bytes(Ends(s, n), Ends(s, n + 1))]>> \o cs, n + 1)
<1> DEFINE c == [idx |-> n, data |-> Bytes(Ends(s, n), Ends(s, n + 1))]
<1>1. cs \in Seq(Chunks) /\ Len(cs) = n
  BY DEF Gathered
<1>2. <<c>> \in Seq(Chunks) /\ Len(<<c>>) = 1 /\ <<c>>[1] = c
  <2>1. Bytes(Ends(s, n), Ends(s, n + 1)) \in Seq(Cells)
    BY LengthFacts, EndsFacts, BytesFacts
  <2> QED BY <2>1 DEF Chunks
<1> DEFINE first == <<c>>
<1>3. first \in Seq(Chunks) /\ Len(first) = 1 /\ first[1] = c
  BY <1>2
<1> HIDE DEF first
<1>4. /\ first \o cs \in Seq(Chunks) /\ Len(first \o cs) = n + 1
      /\ \A k \in 1..(n + 1) : (first \o cs)[k] = IF k <= 1 THEN c ELSE cs[k - 1]
  <2>1. /\ first \o cs \in Seq(Chunks) /\ Len(first \o cs) = Len(first) + Len(cs)
        /\ \A k \in 1..(Len(first) + Len(cs)) :
              (first \o cs)[k] = IF k <= Len(first) THEN first[k] ELSE cs[k - Len(first)]
    BY <1>1, <1>3, ConcatProperties, ZenonT(60)
  <2>2. Len(first) + Len(cs) = n + 1
    BY <1>1, <1>3
  <2>3. ASSUME NEW k \in 1..(n + 1) PROVE (first \o cs)[k] = IF k <= 1 THEN c ELSE cs[k - 1]
    BY ONLY <1>3, <2>1, <2>2, <2>3
  <2> QED BY <2>1, <2>2, <2>3
<1>5. ASSUME NEW k \in 1..(n + 1)
      PROVE  (first \o cs)[k] = [idx |-> n + 1 - k,
                                 data |-> Bytes(Ends(s, n + 1 - k), Ends(s, n + 1 - k + 1))]
  <2>1. CASE k = 1
    <3>1. n + 1 - k = n /\ k <= 1
      BY <2>1
    <3> QED BY <1>4, <3>1
  <2>2. CASE k # 1
    <3>1. PICK l \in 1..n : l = k - 1
      BY <2>2
    <3>2. (first \o cs)[k] = cs[l]
      BY <1>4, <2>2, <3>1
    <3>3. cs[l] = [idx |-> n - l, data |-> Bytes(Ends(s, n - l), Ends(s, n - l + 1))]
      BY DEF Gathered
    <3>4. n - l = n + 1 - k
      BY <3>1
    <3> QED BY ONLY <3>2, <3>3, <3>4
  <2> QED BY <2>1, <2>2
<1> QED BY <1>4, <1>5 DEF first, Gathered

InOrder(a, n) == \A j, k \in 1..n : j < k => a[j] < a[k]

\* n numbers below n in increasing order are 0, 1, ..., n - 1.
LEMMA OrderIsCounting ==
  ASSUME NEW n \in Nat, NEW a \in [1..n -> 0..(n - 1)], InOrder(a, n)
  PROVE  \A k \in 1..n : a[k] = k - 1
<1>1. \A k \in 1..n : a[k] >= k - 1
  <2> DEFINE Low == {k \in 1..n : a[k] < k - 1}
  <2>1. SUFFICES ASSUME NEW k \in 1..n, a[k] < k - 1 PROVE FALSE
    <3>1. \A k \in 1..n : a[k] \in 0..(n - 1)
      OBVIOUS
    <3> QED BY <3>1
  <2>2. PICK l \in Low : \A j \in Low : l <= j
    <3>1. Low \subseteq Nat
      OBVIOUS
    <3>2. Low # {}
      BY <2>1
    <3> HIDE DEF Low
    <3> QED BY <3>1, <3>2, LeastNumber
  <2>3. l # 1
    BY <2>2
  <2>4. PICK j \in 1..n : j = l - 1
    BY <2>2, <2>3
  <2>5. a[j] >= j - 1 /\ a[j] < a[l]
    BY <2>2, <2>4 DEF InOrder
  <2>6. a[j] \in 0..(n - 1) /\ a[l] \in 0..(n - 1) /\ a[l] < l - 1
    BY <2>2, <2>4
  <2> QED BY ONLY <2>4, <2>5, <2>6, l \in Nat
<1>2. \A k \in 1..n : a[k] <= k - 1
  <2> DEFINE High == {d \in 0..(n - 1) : a[n - d] > n - d - 1}
  <2>1. SUFFICES ASSUME NEW k \in 1..n, a[k] > k - 1 PROVE FALSE
    OBVIOUS
  <2>2. PICK d \in High : \A e \in High : d <= e
    <3>1. High \subseteq Nat
      OBVIOUS
    <3>2. PICK e \in 0..(n - 1) : e = n - k
      OBVIOUS
    <3>3. n - e = k
      BY <3>2
    <3>4. e \in High
      BY <2>1, <3>3
    <3>5. High # {}
      BY <3>4
    <3> HIDE DEF High
    <3> QED BY <3>1, <3>5, LeastNumber
  <2>3. d # 0
    BY <2>2
  <2>4. PICK e \in 0..(n - 1) : e = d - 1
    BY <2>2, <2>3
  <2>5. PICK i \in 1..n : i = n - d
    BY <2>2
  <2>6. PICK j \in 1..n : j = n - e
    BY <2>4
  <2>7. j = i + 1
    BY <2>4, <2>5, <2>6
  <2>8. a[i] < a[j] /\ a[i] > i - 1
    BY <2>2, <2>5, <2>7 DEF InOrder
  <2>9. ~(a[j] > j - 1)
    <3>1. e \notin High
      <4>1. d \in Nat
        BY <2>2
      <4> HIDE DEF High
      <4>2. ~(d <= e)
        BY <4>1, <2>4
      <4> QED BY <4>2, <2>2
    <3>2. ~(a[n - e] > n - e - 1)
      BY <3>1
    <3> QED BY <3>2, <2>6
  <2>10. a[j] \in 0..(n - 1) /\ a[i] \in 0..(n - 1)
    OBVIOUS
  <2> QED BY ONLY <2>7, <2>8, <2>9, <2>10, i \in 1..n, j \in 1..n, n \in Nat
<1> QED BY <1>1, <1>2

LEMMA GatheredFacts ==
  ASSUME NEW s \in Nat, NEW n \in Nat, NEW cs, Gathered(s, cs, n)
  PROVE  /\ DOMAIN cs = 1..n /\ ToSet(cs) = {cs[k] : k \in 1..n}
         /\ \A k \in 1..n : cs[k] \in ToSet(cs) /\ cs[k].idx = n - k
         /\ \A k, l \in 1..n : cs[k].idx = cs[l].idx => k = l
<1>1. cs \in Seq(Chunks) /\ Len(cs) = n /\ DOMAIN cs = 1..n
  BY DEF Gathered
<1>2. \A k \in 1..n : cs[k].idx = n - k
  BY DEF Gathered
<1>3. \A k, l \in 1..n : cs[k].idx = cs[l].idx => k = l
  BY <1>2
<1> QED BY <1>1, <1>2, <1>3 DEF ToSet

\* assemble_chunks of all the chunks is the file up to the end of the last one.
LEMMA AssembledChunks ==
  ASSUME NEW n \in Nat \ {0}, size \in Nat, Gathered(size, chunks, n)
  PROVE  Assembled = Bytes(0, Ends(size, n))
<1> DEFINE Sorts(f) == \A j, k \in DOMAIN f : j < k => f[j].idx < f[k].idx
           sorted == CHOOSE f \in [DOMAIN chunks -> ToSet(chunks)] : Sorts(f)
           t == [k \in 1..n |-> chunks[n + 1 - k]]
<1>1. /\ DOMAIN chunks = 1..n /\ ToSet(chunks) = {chunks[k] : k \in 1..n}
      /\ \A k \in 1..n : chunks[k] \in ToSet(chunks) /\ chunks[k].idx = n - k
  BY GatheredFacts
<1>2. t \in [DOMAIN chunks -> ToSet(chunks)] /\ Sorts(t)
  <2>1. ASSUME NEW k \in 1..n PROVE n + 1 - k \in 1..n /\ t[k] = chunks[n + 1 - k]
    OBVIOUS
  <2>2. ASSUME NEW k \in 1..n PROVE t[k] \in ToSet(chunks) /\ t[k].idx = k - 1
    <3>1. PICK l \in 1..n : l = n + 1 - k
      BY <2>1
    <3>2. t[k] = chunks[l] /\ n - l = k - 1
      BY <3>1
    <3> QED BY <1>1, <3>2
  <2>3. DOMAIN t = 1..n
    OBVIOUS
  <2> HIDE DEF t
  <2>4. Sorts(t)
    BY <2>2, <2>3
  <2>5. t = [k \in 1..n |-> t[k]]
    BY DEF t
  <2> QED BY <1>1, <2>2, <2>4, <2>5
<1>3. sorted \in [1..n -> ToSet(chunks)] /\ Sorts(sorted)
  BY <1>1, <1>2
<1> HIDE DEF sorted, t
<1>4. \A k \in 1..n : \E l \in 1..n : sorted[k] = chunks[l]
  BY <1>1, <1>3
<1> DEFINE a == [k \in 1..n |-> sorted[k].idx]
<1>5. a \in [1..n -> 0..(n - 1)]
  <2>1. ASSUME NEW k \in 1..n PROVE sorted[k].idx \in 0..(n - 1)
    <3>1. PICK l \in 1..n : sorted[k] = chunks[l]
      BY <1>4
    <3>2. chunks[l].idx = n - l /\ n - l \in 0..(n - 1)
      BY <1>1
    <3> QED BY ONLY <3>1, <3>2
  <2> QED BY <2>1
<1>6. InOrder(a, n)
  BY <1>3 DEF InOrder
<1>7. \A k \in 1..n : a[k] = k - 1
  <2>1. n \in Nat
    OBVIOUS
  <2> HIDE DEF a
  <2> QED BY <1>5, <1>6, <2>1, OrderIsCounting
<1>8. ASSUME NEW k \in 1..n
      PROVE  sorted[k].data = Bytes(Ends(size, k - 1), Ends(size, k))
  <2>1. PICK l \in 1..n : sorted[k] = chunks[l]
    BY <1>4
  <2>2. n - l = k - 1
    BY <1>1, <1>7, <2>1
  <2>3. chunks[l].data = Bytes(Ends(size, n - l), Ends(size, n - l + 1))
    BY DEF Gathered
  <2>4. n - l + 1 = k
    BY <2>2
  <2> QED BY ONLY <2>1, <2>2, <2>3, <2>4
<1> DEFINE seqs == [k \in DOMAIN sorted |-> sorted[k].data]
<1>9. seqs = [k \in 1..n |-> Bytes(Ends(size, k - 1), Ends(size, k))]
  BY <1>3, <1>8
<1>10. Assembled = FlattenSeq(seqs)
  BY DEF Assembled, sorted
<1> HIDE DEF seqs
<1>11. FlattenSeq(seqs) = Bytes(0, Ends(size, n))
  BY <1>9, FlattenChunks
<1> QED BY <1>10, <1>11

\* So is what reconstruir_archivo puts together.
LEMMA RebuiltChunks ==
  ASSUME NEW n \in Nat \ {0}, size \in Nat, Gathered(size, chunks, n)
  PROVE  Rebuilt = Bytes(0, Ends(size, n))
<1> DEFINE piece(i) == {c \in ToSet(chunks) : c.idx = i}
           All == {c \in ToSet(chunks) : \A i \in 0..c.idx : piece(i) # {}}
           m == Cardinality(All)
           seqs == [k \in 1..m |-> (CHOOSE c \in piece(k - 1) : TRUE).data]
<1>1. /\ DOMAIN chunks = 1..n /\ ToSet(chunks) = {chunks[k] : k \in 1..n}
      /\ \A k \in 1..n : chunks[k] \in ToSet(chunks) /\ chunks[k].idx = n - k
      /\ \A k, l \in 1..n : chunks[k].idx = chunks[l].idx => k = l
  BY GatheredFacts
<1>2. ASSUME NEW k \in 1..n PROVE piece(n - k) = {chunks[k]}
  <2>1. chunks[k] \in ToSet(chunks) /\ chunks[k].idx = n - k
    BY <1>1
  <2>2. ASSUME NEW c \in ToSet(chunks), c.idx = n - k PROVE c = chunks[k]
    <3>1. PICK l \in 1..n : c = chunks[l]
      BY <1>1
    <3>2. chunks[l].idx = chunks[k].idx
      BY <2>1, <2>2, <3>1
    <3>3. l = k
      BY <1>1, <3>2
    <3> QED BY <3>1, <3>3
  <2> QED BY <2>1, <2>2
<1>3. All = ToSet(chunks)
  <2>1. ASSUME NEW c \in ToSet(chunks), NEW i \in 0..c.idx PROVE piece(i) # {}
    <3>1. PICK l \in 1..n : c = chunks[l]
      BY <1>1
    <3>2. c.idx = n - l
      BY <1>1, <3>1
    <3>3. PICK k \in 1..n : k = n - i
      BY <3>2
    <3>4. n - k = i
      BY <3>2, <3>3
    <3>5. piece(n - k) # {}
      BY <1>2
    <3> QED BY <3>4, <3>5
  <2> QED BY <2>1
<1>4. m = n
  <2> DEFINE f == [k \in 1..n |-> chunks[k]]
  <2>1. f \in [1..n -> ToSet(chunks)]
    BY <1>1
  <2>2. \A k, l \in 1..n : f[k] = f[l] => k = l
    BY <1>1
  <2>3. \A c \in ToSet(chunks) : \E k \in 1..n : f[k] = c
    BY <1>1
  <2> HIDE DEF f
  <2>4. f \in Bijection(1..n, ToSet(chunks))
    BY <2>1, <2>2, <2>3 DEF Bijection, Injection, Surjection, IsInjective
  <2>5. ExistsBijection(1..n, ToSet(chunks))
    BY <2>4 DEF ExistsBijection
  <2>6. Cardinality(ToSet(chunks)) = n
    BY <2>5, FS_CountingElements
  <2> QED BY <1>3, <2>6
<1>5. ASSUME NEW k \in 1..n
      PROVE  (CHOOSE c \in piece(k - 1) : TRUE).data = Bytes(Ends(size, k - 1), Ends(size, k))
  <2>1. PICK l \in 1..n : l = n + 1 - k
    OBVIOUS
  <2>2. n - l = k - 1 /\ n - l + 1 = k
    BY <2>1
  <2>3. piece(k - 1) = {chunks[l]}
    BY <1>2, <2>2
  <2>4. chunks[l].data = Bytes(Ends(size, n - l), Ends(size, n - l + 1))
    BY DEF Gathered
  <2>5. (CHOOSE c \in piece(k - 1) : TRUE) = chunks[l]
    BY <2>3
  <2> QED BY ONLY <2>2, <2>4, <2>5
<1>6. Rebuilt = FlattenSeq(seqs)
  BY DEF Rebuilt
<1>7. seqs = [k \in 1..n |-> Bytes(Ends(size, k - 1), Ends(size, k))]
  BY <1>4, <1>5
<1> HIDE DEF seqs
<1>8. FlattenSeq(seqs) = Bytes(0, Ends(size, n))
  BY <1>7, FlattenChunks
<1> QED BY <1>6, <1>8

-----------------------------------------------------------------------------
(* What stays as it is, and the steps of each project.                         *)

Steady ==
  /\ size \in Nat /\ shared \in BOOLEAN /\ calm \in BOOLEAN /\ open \in BOOLEAN
  /\ downloads \in {1, 2}
  /\ project \in {"RESOLUCION1", "RESOLUCION2", "Resolucion3", "MARIO"}

Same == size' = size /\ shared' = shared /\ project' = project /\ calm' = calm

LEMMA SteadyInit == InitX => Steady
BY WidthAssumption DEF InitX, Init, Steady

Steps2 == Serve \/ Receive \/ Cut
Steps3 == NotFound3 \/ Header3 \/ Chunk3 \/ ReadCode3 \/ ReadSizes \/ ReadPiece \/ Rebuild \/ Lost3
StepsM == \/ WholeM \/ HeaderM \/ ChunkM \/ CloseM \/ SendNotFound
          \/ CodeLate \/ ReadSizeM \/ ReadSingleM \/ ReadChunkM \/ SecondWithout
          \/ ReadCode \/ ReadStandard \/ Lost
Steps1 == NotFound1 \/ Header1 \/ Whole1 \/ Chunk1 \/ Hear1

LEMMA StepsByProject ==
  ASSUME Steady, NextX
  PROVE  /\ project = "RESOLUCION2" => Steps2 /\ UNCHANGED <<project, calm, downloads>>
         /\ project = "Resolucion3" => Steps3 \/ Cut \/ Again
         /\ project = "MARIO" => StepsM \/ (~calm /\ Cut) \/ Again
         /\ project = "RESOLUCION1" => Steps1 \/ Cut
<1>1. CASE ServeX
  BY <1>1 DEF ServeX, Steps1, Steps2, Steps3, StepsM
<1>2. CASE ReceiveX
  BY <1>2 DEF ReceiveX, Steps1, Steps2, Steps3, StepsM
<1>3. CASE CutX
  BY <1>3 DEF CutX, Steps2
<1>4. CASE Again
  BY <1>4 DEF Again
<1> QED BY <1>1, <1>2, <1>3, <1>4 DEF NextX

LEMMA SteadyNext ==
  ASSUME Steady, [NextX]_varsX
  PROVE  Steady' /\ Same
<1>1. CASE UNCHANGED varsX
  BY <1>1 DEF varsX, vars, Steady, Same
<1>2. CASE Again
  BY <1>2 DEF Again, Steady, Same
<1>3. CASE CutX
  BY <1>3 DEF CutX, Cut, Steady, Same
<1>4. CASE ServeX
  <2>1. CASE Serve /\ UNCHANGED <<project, calm, downloads>>
    BY <2>1 DEF Serve, SendNotFound, SendSingle, SendHeader, SendChunk, Steady, Same
  <2>2. CASE NotFound3 \/ Header3 \/ Chunk3
    BY <2>2 DEF NotFound3, Header3, Chunk3, Serving, Setup, Steady, Same
  <2>3. CASE WholeM \/ HeaderM \/ ChunkM \/ CloseM
    BY <2>3 DEF WholeM, HeaderM, ChunkM, CloseM, Serving, Setup, Steady, Same
  <2>4. CASE NotFound1 \/ Header1 \/ Whole1 \/ Chunk1
    BY <2>4 DEF NotFound1, Header1, Whole1, Chunk1, Serving, Setup, Steady, Same
  <2> QED BY <1>4, <2>1, <2>2, <2>3, <2>4 DEF ServeX, Serve
<1>5. CASE ReceiveX
  <2>1. CASE Receive /\ UNCHANGED <<project, calm, downloads>>
    BY <2>1 DEF Receive, ReadCode, ReadSize, ReadSingle, ReadStandard, ReadChunk, Assemble, Lost,
                Steady, Same
  <2>2. CASE ReadCode3 \/ ReadSizes \/ ReadPiece \/ Rebuild \/ Lost3
    BY <2>2 DEF ReadCode3, ReadSizes, ReadPiece, Rebuild, Lost3, Reading, Setup, Steady, Same
  <2>3. CASE CodeLate \/ ReadSizeM \/ ReadSingleM \/ ReadChunkM \/ SecondWithout
    BY <2>3 DEF CodeLate, ReadSizeM, ReadSingleM, ReadChunkM, SecondWithout, Reading, Setup,
                Steady, Same
  <2>4. CASE Hear1
    BY <2>4 DEF Hear1, Reading, Setup, Steady, Same
  <2> QED BY <1>5, <2>1, <2>2, <2>3, <2>4 DEF ReceiveX, Receive
<1> QED BY <1>1, <1>2, <1>3, <1>4, <1>5 DEF NextX

-----------------------------------------------------------------------------
(* A file that is not there.                                                   *)

Absent ==
  /\ server \in {"request", "sent"} /\ client \in {"code", "not_found", "failed"}
  /\ saved = NoFile
  /\ wire \in {<<>>, <<Field(112)>>, <<Field(102)>>}
  /\ (server = "request" \/ project = "RESOLUCION1") => wire = <<>>

LEMMA AbsentInit == InitX => Absent
BY DEF InitX, Init, Absent

LEMMA AbsentNext ==
  ASSUME Steady, Steady', Same, ~shared, Absent, [NextX]_varsX
  PROVE  Absent'
<1>1. CASE UNCHANGED varsX
  BY <1>1 DEF varsX, vars, Absent
<1>2. CASE Again
  BY <1>2 DEF Again, Absent, Same
<1>3. CASE Cut
  <2>1. PICK k \in 0..Len(wire) : wire' = SubSeq(wire, 1, k)
    BY <1>3 DEF Cut
  <2>2. CASE wire = <<>>
    BY <1>3, <2>1, <2>2 DEF Cut, Absent, serverVars, clientVars
  <2>3. ASSUME NEW c, wire = <<c>> PROVE wire' = <<>> \/ wire' = <<c>>
    <3>1. k = 0 \/ k = 1
      BY <2>1, <2>3
    <3>2. SubSeq(<<c>>, 1, 0) = <<>>
      BY SubSeqEmpty
    <3>3. SubSeq(<<c>>, 1, 1) = <<c>>
      <4>1. <<c>> \in Seq({c}) /\ Len(<<c>>) = 1
        OBVIOUS
      <4> QED BY <4>1, SubSeqFull
    <3> QED BY ONLY <2>1, <2>3, <3>1, <3>2, <3>3
  <2>4. wire' = <<>> \/ wire' = wire
    BY <2>1, <2>2, <2>3 DEF Absent
  <2> QED BY <1>3, <2>2, <2>4, ZenonT(60) DEF Cut, Absent, serverVars, clientVars, Same
<1>4. Field(112) # Field(101) /\ Field(102) # Field(101)
  BY CellKinds
<1>5. ASSUME wire # <<>> PROVE Len(wire) = 1 /\ SubSeq(wire, 2, Len(wire)) = <<>> /\ wire[1] # Field(101)
  <2>1. ASSUME NEW c, wire = <<c>> PROVE Len(wire) = 1 /\ SubSeq(wire, 2, Len(wire)) = <<>> /\ wire[1] = c
    BY <2>1
  <2> QED BY <1>4, <1>5, <2>1 DEF Absent
<1>6. ASSUME NEW c \in {Field(112), Field(102)}, Send(<<c>>), server = "request"
      PROVE  wire' \in {<<>>, <<Field(112)>>, <<Field(102)>>}
  <2>1. <<>> \o <<c>> = <<c>>
    OBVIOUS
  <2> QED BY <1>6, <2>1 DEF Send, Absent
<1>7. CASE SendNotFound /\ project # "RESOLUCION1"
  <2>1. wire' \in {<<>>, <<Field(112)>>, <<Field(102)>>}
    BY <1>6, <1>7 DEF SendNotFound
  <2> QED BY <1>7, <2>1 DEF SendNotFound, Absent, clientVars, Same
<1>8. CASE NotFound3 /\ project # "RESOLUCION1"
  <2>1. wire' \in {<<>>, <<Field(112)>>, <<Field(102)>>}
    BY <1>6, <1>8 DEF NotFound3
  <2> QED BY <1>8, <2>1 DEF NotFound3, Serving, Setup, Absent, clientVars
<1>19. CASE NotFound1
  BY <1>19 DEF NotFound1, Serving, Setup, Absent, clientVars
<1>9. Received(1) => wire # <<>>
  BY DEF Received
<1>10. CASE ReadCode
  BY <1>5, <1>9, <1>10 DEF ReadCode, Consume, Absent, serverVars, Same
<1>11. CASE ReadCode3
  BY <1>5, <1>9, <1>11 DEF ReadCode3, Consume, Absent, serverVars, Reading, Setup
<1>12. CASE CodeLate \/ Lost3 \/ CloseM
  BY <1>12 DEF CodeLate, Lost3, CloseM, Absent, serverVars, clientVars, Reading, Setup
<1>13. CASE Lost
  BY <1>13 DEF Lost, Absent, serverVars, Same
<1>14. CASE project = "RESOLUCION1" /\ Hear1
  BY <1>14 DEF Absent, Hear1
<1>15. CASE project = "RESOLUCION2" /\ Steps2
  BY <1>3, <1>7, <1>10, <1>13, <1>15 DEF Steps2, Serve, Receive, SendSingle, SendHeader, SendChunk,
     ReadSize, ReadSingle, ReadStandard, ReadChunk, Assemble, Absent, Same
<1>16. CASE project = "Resolucion3" /\ Steps3
  BY <1>8, <1>11, <1>12, <1>16 DEF Steps3, Header3, Chunk3, ReadSizes, ReadPiece, Rebuild, Absent
<1>17. CASE project = "MARIO" /\ StepsM
  BY <1>7, <1>10, <1>12, <1>13, <1>17 DEF StepsM, WholeM, HeaderM, ChunkM, ReadSizeM, ReadSingleM,
     ReadChunkM, SecondWithout, ReadStandard, Absent, Same
<1>18. CASE project = "RESOLUCION1" /\ Steps1
  BY <1>14, <1>18, <1>19 DEF Steps1, Header1, Whole1, Chunk1, Absent
<1> QED BY <1>1, <1>2, <1>3, <1>15, <1>16, <1>17, <1>18, StepsByProject DEF Steady

-----------------------------------------------------------------------------
(* A file that is sent whole.                                                  *)

\* The stream is one sequence.
CellsOf(W) == {q \in Nat \X Cells : q[1] \in 1..Len(W) /\ q[2] = W[q[1]]}

LEMMA PartOf ==
  ASSUME NEW W \in Seq(Cells), NEW w \in Seq(Cells), NEW b \in Nat, Segment(w, b, CellsOf(W))
  PROVE  \A i \in 1..Len(w) : b + i \in 1..Len(W) /\ w[i] = W[b + i]
<1> SUFFICES ASSUME NEW i \in 1..Len(w) PROVE b + i \in 1..Len(W) /\ w[i] = W[b + i]
  OBVIOUS
<1>1. <<b + i, w[i]>> \in CellsOf(W)
  BY DEF Segment
<1> QED BY <1>1 DEF CellsOf

LEMMA WholeOf ==
  ASSUME NEW W \in Seq(Cells), NEW b \in Nat, NEW e \in Nat, b <= e, e <= Len(W)
  PROVE  /\ <<>> \o SubSeq(W, b + 1, e) \in Seq(Cells)
         /\ Len(<<>> \o SubSeq(W, b + 1, e)) = e - b
         /\ Segment(<<>> \o SubSeq(W, b + 1, e), b, CellsOf(W))
         /\ Segment(<<>>, b, CellsOf(W))
<1> DEFINE v == SubSeq(W, b + 1, e)
<1>1. v \in Seq(Cells) /\ Len(v) = e - b /\ \A i \in 1..(e - b) : v[i] = W[b + i]
  OBVIOUS
<1> HIDE DEF v
<1>2. <<>> \o v = v
  BY <1>1, ConcatEmptySeq
<1>3. ASSUME NEW i \in 1..Len(v) PROVE <<b + i, v[i]>> \in CellsOf(W)
  <2>1. i \in 1..(e - b) /\ v[i] = W[b + i] /\ b + i \in 1..Len(W) /\ b + i \in Nat
    BY <1>1
  <2>2. W[b + i] \in Cells
    BY <2>1
  <2> QED BY <2>1, <2>2 DEF CellsOf
<1>4. Segment(v, b, CellsOf(W)) /\ Segment(<<>>, b, CellsOf(W))
  BY <1>3 DEF Segment
<1> QED BY <1>1, <1>2, <1>4 DEF v

WholeStream == <<Field(101), Field(size)>> \o File

LEMMA WholeStreamFacts ==
  ASSUME size \in Nat
  PROVE  /\ WholeStream \in Seq(Cells) /\ Len(WholeStream) = 2 + size
         /\ WholeStream[1] = Field(101) /\ WholeStream[2] = Field(size)
         /\ \A k \in 1..size : WholeStream[2 + k] = [byte |-> k]
         /\ File \in Seq(Cells)
<1> DEFINE own == <<Field(101), Field(size)>>
<1>1. own \in Seq(Cells) /\ Len(own) = 2 /\ own[1] = Field(101) /\ own[2] = Field(size)
  BY CellKinds
<1>2. File \in Seq(Cells) /\ Len(File) = size /\ \A k \in 1..size : File[k] = [byte |-> k]
  BY BytesFacts DEF File
<1> HIDE DEF own
<1>3. /\ own \o File \in Seq(Cells) /\ Len(own \o File) = 2 + size
      /\ \A i \in 1..(2 + size) : (own \o File)[i] = IF i <= 2 THEN own[i] ELSE File[i - 2]
  <2>1. /\ own \o File \in Seq(Cells) /\ Len(own \o File) = Len(own) + Len(File)
        /\ \A i \in 1..(Len(own) + Len(File)) :
              (own \o File)[i] = IF i <= Len(own) THEN own[i] ELSE File[i - Len(own)]
    BY <1>1, <1>2, ConcatProperties, ZenonT(60)
  <2> QED BY ONLY <2>1, <1>1, <1>2
<1>4. ASSUME NEW k \in 1..size PROVE (own \o File)[2 + k] = [byte |-> k]
  <2>1. 2 + k \in 1..(2 + size) /\ ~(2 + k <= 2) /\ (2 + k) - 2 = k
    OBVIOUS
  <2> QED BY <1>2, <1>3, <2>1
<1>5. 1 \in 1..(2 + size) /\ 2 \in 1..(2 + size)
  OBVIOUS
<1> QED BY <1>1, <1>2, <1>3, <1>4, <1>5 DEF own, WholeStream

\* RESOLUCION2 and MARIO.
SentWhole ==
  \/ project = "RESOLUCION2" /\ size <= MaxChunk
  \/ project = "MARIO" /\ Small

Read == IF client = "code" THEN 0 ELSE IF client = "size" THEN 1 ELSE 2

WholeInv ==
  /\ server \in {"request", "sent"} /\ client \in {"code", "size", "single"} \cup Ended
  /\ saved \in {NoFile, File} /\ wire \in Seq(Cells)
  /\ server = "request" => wire = <<>> /\ client \in {"code", "failed"}
  /\ client \in {"code", "size", "single"} => Segment(wire, Read, CellsOf(WholeStream))
  /\ client = "single" => remaining = size

LEMMA WholeInit == InitX => WholeInv
BY DEF InitX, Init, WholeInv, Segment

LEMMA WholeServes ==
  ASSUME Steady, Same, Fits, SentWhole, WholeInv,
         Send(<<Field(101), Field(size % SizeField)>> \o File),
         server = "request", server' = "sent", UNCHANGED clientVars
  PROVE  WholeInv'
<1>1. size \in Nat /\ size % SizeField = size
  BY WidthAssumption DEF Steady, Fits
<1>2. wire = <<>> /\ client \in {"code", "failed"}
  BY DEF WholeInv
<1>3. wire' = wire \/ wire' = <<>> \o WholeStream
  BY <1>1, <1>2 DEF Send, WholeStream
<1>4. WholeStream \in Seq(Cells) /\ Len(WholeStream) = 2 + size
  BY <1>1, WholeStreamFacts
<1>5. SubSeq(WholeStream, 0 + 1, 2 + size) = WholeStream
  BY <1>1, <1>4, SubSeqFull
<1>6. /\ <<>> \o WholeStream \in Seq(Cells)
      /\ Segment(<<>> \o WholeStream, 0, CellsOf(WholeStream))
      /\ Segment(<<>>, 0, CellsOf(WholeStream))
  <2>1. 2 + size \in Nat /\ 0 \in Nat /\ 0 <= 2 + size /\ 2 + size <= Len(WholeStream)
    BY <1>1, <1>4
  <2> QED BY <1>4, <1>5, <2>1, WholeOf
<1>7. wire' \in Seq(Cells) /\ Segment(wire', 0, CellsOf(WholeStream))
  BY <1>2, <1>3, <1>6 DEF WholeInv
<1>8. size' = size /\ client' = client /\ remaining' = remaining /\ saved' = saved
  BY DEF Same, clientVars
<1>9. WholeStream' = WholeStream /\ File' = File
  BY <1>8 DEF WholeStream, File
<1> QED BY <1>2, <1>7, <1>8, <1>9 DEF WholeInv, Read, Ended

LEMMA WholeReads ==
  ASSUME Steady, Same, Fits, SentWhole, WholeInv, UNCHANGED serverVars,
         \/ ReadCode \/ (ReadSize /\ project = "RESOLUCION2") \/ (ReadSizeM /\ project = "MARIO")
         \/ ReadSingle \/ ReadSingleM
  PROVE  WholeInv'
<1>1. size \in Nat /\ size' = size
  BY DEF Steady, Same
<1>2. WholeStream' = WholeStream /\ File' = File
  BY <1>1 DEF WholeStream, File
<1>3. client \in {"code", "size", "single"}
  BY DEF ReadCode, ReadSize, ReadSizeM, ReadSingle, ReadSingleM
<1>4. /\ wire \in Seq(Cells) /\ Segment(wire, Read, CellsOf(WholeStream)) /\ Read \in Nat
      /\ server = "sent"
  <2>1. server = "request" => wire = <<>> /\ ReadCode
    BY <1>3 DEF WholeInv, ReadSize, ReadSizeM, ReadSingle, ReadSingleM
  <2>2. server # "request"
    BY <2>1 DEF ReadCode, Received
  <2> QED BY <1>3, <2>2 DEF WholeInv, Read
<1>5. /\ WholeStream \in Seq(Cells) /\ Len(WholeStream) = 2 + size
      /\ WholeStream[1] = Field(101) /\ WholeStream[2] = Field(size)
      /\ \A k \in 1..size : WholeStream[2 + k] = [byte |-> k]
  BY <1>1, WholeStreamFacts
<1>6. \A i \in 1..Len(wire) : Read + i \in 1..(2 + size) /\ wire[i] = WholeStream[Read + i]
  <2> DEFINE W == WholeStream
             b == Read
  <2>1. W \in Seq(Cells) /\ wire \in Seq(Cells) /\ b \in Nat /\ Segment(wire, b, CellsOf(W))
    BY <1>4, <1>5
  <2>2. Len(W) = 2 + size
    BY <1>5
  <2> HIDE DEF W, b
  <2>3. \A i \in 1..Len(wire) : b + i \in 1..Len(W) /\ wire[i] = W[b + i]
    BY <2>1, PartOf
  <2> QED BY <2>2, <2>3 DEF W, b
<1>7. ASSUME Received(1), Consume(1)
      PROVE  /\ wire' \in Seq(Cells) /\ Segment(wire', Read + 1, CellsOf(WholeStream))
             /\ wire[1] = WholeStream[Read + 1]
  <2>1. 1 \in 1..Len(wire) /\ 1 \in 0..Len(wire)
    BY <1>4, <1>7 DEF Received
  <2> QED BY <1>4, <1>6, <1>7, <2>1, SegmentRead DEF Consume
<1>8. CASE ReadCode
  <2>1. client = "code" /\ Received(1) /\ Consume(1)
    BY <1>8 DEF ReadCode
  <2>2. Read = 0 /\ wire[1] = Field(101)
    BY <1>5, <1>7, <2>1 DEF Read
  <2>3. Field(101) # Field(112)
    BY CellKinds
  <2>4. client' = "size"
    BY <1>8, <2>2, <2>3 DEF ReadCode
  <2>5. saved' = saved /\ server' = server
    BY <1>8 DEF ReadCode, serverVars
  <2> QED BY <1>2, <1>4, <1>7, <2>1, <2>2, <2>4, <2>5 DEF WholeInv, Read
<1>9. CASE ReadSize /\ project = "RESOLUCION2"
  <2>1. client = "size" /\ Received(1) /\ Consume(1)
    BY <1>9 DEF ReadSize
  <2>2. Read = 1 /\ wire[1] = Field(size)
    BY <1>5, <1>7, <2>1 DEF Read
  <2>3. remaining' = size
    BY <1>1, <1>9, <2>2, CellKinds DEF ReadSize
  <2>4. size <= MaxChunk
    BY <1>9 DEF SentWhole
  <2>5. client' = "single" /\ saved' = saved /\ server' = server
    BY <1>9, <2>3, <2>4 DEF ReadSize, serverVars
  <2> QED BY <1>1, <1>2, <1>4, <1>7, <2>1, <2>2, <2>3, <2>5 DEF WholeInv, Read
<1>10. CASE ReadSizeM /\ project = "MARIO"
  <2>1. client = "size" /\ Received(1) /\ Consume(1)
    BY <1>10 DEF ReadSizeM
  <2>2. Read = 1 /\ wire[1] = Field(size)
    BY <1>5, <1>7, <2>1 DEF Read
  <2>3. remaining' = size
    BY <1>1, <1>10, <2>2, CellKinds DEF ReadSizeM
  <2>4. ~(size > Whole * MaxChunk)
    <3>1. Whole * MaxChunk \in Nat
      BY WidthAssumption, WholeAssumption
    <3>2. size < Whole * MaxChunk
      BY <1>10 DEF SentWhole, Small
    <3> QED BY <1>1, <3>1, <3>2
  <2>5. client' = "single" /\ saved' = saved /\ server' = server
    BY <1>10, <2>3, <2>4 DEF ReadSizeM, Reading, serverVars
  <2> QED BY <1>1, <1>2, <1>4, <1>7, <2>1, <2>2, <2>3, <2>5 DEF WholeInv, Read
<1>11. ASSUME client = "single" PROVE Read = 2 /\ remaining = size
  BY <1>11 DEF Read, WholeInv
<1>12. ASSUME client = "single", size > 0, Received(size) PROVE SubSeq(wire, 1, size) = File
  <2>1. Len(wire) >= size /\ Len(wire) \in Nat
    BY <1>4, <1>12 DEF Received
  <2> DEFINE v == SubSeq(wire, 1, size)
  <2>2. v \in Seq(Cells) /\ Len(v) = size /\ \A i \in 1..size : v[i] = wire[i]
    BY <1>1, <1>4, <2>1
  <2> HIDE DEF v
  <2>3. ASSUME NEW i \in 1..size PROVE v[i] = [byte |-> 0 + i]
    <3>1. i \in 1..Len(wire) /\ 0 + i = i
      BY <1>1, <2>1
    <3>2. wire[i] = WholeStream[2 + i]
      BY <1>6, <1>11, <1>12, <3>1
    <3> QED BY <1>5, <2>2, <3>1, <3>2
  <2>4. size - 0 = size /\ 0 <= size /\ 0 \in Nat
    BY <1>1
  <2>5. v = Bytes(0, size)
    BY <1>1, <2>2, <2>3, <2>4, AreBytes
  <2> QED BY <2>5 DEF v, File
<1>13. SubSeq(wire, 1, 0) = <<>> /\ <<>> \in Seq(Cells)
  BY SubSeqEmpty
<1>14. ASSUME client = "single", size = 0 PROVE Len(wire) = 0
  <2>1. ASSUME Len(wire) # 0 PROVE FALSE
    <3>1. 1 \in 1..Len(wire)
      BY <1>4, <2>1
    <3>2. Read + 1 \in 1..(2 + size)
      BY <1>6, <3>1
    <3> QED BY <1>11, <1>14, <3>2
  <2> QED BY <2>1
<1>15. ASSUME NEW n \in 0..Len(wire), Consume(n) PROVE wire' \in Seq(Cells)
  BY <1>4, <1>15, SegmentRead DEF Consume
<1>16. CASE ReadSingle
  <2>1. client = "single" /\ remaining = size /\ server' = server
    BY <1>11, <1>16 DEF ReadSingle, serverVars
  <2>2. size > 0
    <3>1. ASSUME size = 0 PROVE FALSE
      BY <1>14, <1>16, <2>1, <3>1 DEF ReadSingle, Received
    <3> QED BY <1>1, <3>1
  <2>3. Received(size) /\ Consume(size) /\ saved' = SubSeq(wire, 1, size) /\ client' = "saved"
    BY <1>16, <2>1, <2>2 DEF ReadSingle
  <2>4. size \in 0..Len(wire)
    BY <1>1, <1>4, <2>3 DEF Received
  <2>5. wire' \in Seq(Cells) /\ saved' = File
    BY <1>12, <1>15, <2>1, <2>2, <2>3, <2>4
  <2> QED BY <1>2, <1>4, <2>1, <2>3, <2>5 DEF WholeInv, Ended
<1>17. CASE ReadSingleM
  <2>1. client = "single" /\ remaining = size /\ server' = server
    BY <1>11, <1>17 DEF ReadSingleM, Reading, serverVars
  <2>2. size > 0
    <3>1. ASSUME size = 0 PROVE FALSE
      BY <1>14, <1>17, <2>1, <3>1 DEF ReadSingleM
    <3> QED BY <1>1, <3>1
  <2>3. Received(size) /\ Consume(size) /\ saved' = SubSeq(wire, 1, size) /\ client' = "saved"
    BY <1>17, <2>1, <2>2 DEF ReadSingleM
  <2>4. size \in 0..Len(wire)
    BY <1>1, <1>4, <2>3 DEF Received
  <2>5. wire' \in Seq(Cells) /\ saved' = File
    BY <1>12, <1>15, <2>1, <2>2, <2>3, <2>4
  <2> QED BY <1>2, <1>4, <2>1, <2>3, <2>5 DEF WholeInv, Ended
<1> QED BY <1>8, <1>9, <1>10, <1>16, <1>17

LEMMA WholeNext ==
  ASSUME Steady, Same, Fits, SentWhole, shared, WholeInv, [NextX]_varsX
  PROVE  WholeInv'
<1>1. size \in Nat /\ size' = size /\ WholeStream' = WholeStream /\ File' = File
  BY DEF Steady, Same, WholeStream, File
<1>2. CASE UNCHANGED varsX
  BY <1>1, <1>2 DEF varsX, vars, WholeInv, Read
<1>3. CASE Again
  <2>1. Segment(<<>>, 0, CellsOf(WholeStream)) /\ <<>> \in Seq(Cells)
    BY DEF Segment
  <2> QED BY <1>1, <1>3, <2>1 DEF Again, WholeInv, Read
<1>4. CASE Cut
  <2>1. PICK k \in 0..Len(wire) : wire' = SubSeq(wire, 1, k)
    BY <1>4 DEF Cut
  <2>2. wire \in Seq(Cells)
    BY DEF WholeInv
  <2>3. wire' \in Seq(Cells)
    BY <2>1, <2>2
  <2>4. ASSUME client \in {"code", "size", "single"}
        PROVE  Segment(wire', Read, CellsOf(WholeStream))
    BY <2>1, <2>2, <2>4, SegmentCut DEF WholeInv
  <2>5. wire = <<>> => wire' = <<>>
    BY <2>1, SubSeqEmpty
  <2> QED BY <1>1, <1>4, <2>3, <2>4, <2>5 DEF Cut, serverVars, clientVars, WholeInv, Read
<1>5. CASE SendSingle \/ WholeM
  BY <1>5, WholeServes DEF SendSingle, WholeM, Serving
<1>6. CASE Lost \/ CodeLate \/ CloseM
  BY <1>1, <1>6 DEF Lost, CodeLate, CloseM, Reading, serverVars, clientVars, WholeInv, Read, Ended
<1>7. CASE ReadCode \/ ReadSingle \/ ReadSingleM
  BY <1>7, WholeReads DEF ReadCode, ReadSingle, ReadSingleM, Reading
<1>8. CASE project = "RESOLUCION2" /\ Steps2
  <2>1. project = "RESOLUCION2" /\ size <= MaxChunk
    BY <1>8 DEF SentWhole
  <2>2. CASE ReadSize
    BY <2>1, <2>2, WholeReads DEF ReadSize
  <2>3. ~SendHeader
    <3>1. ~(size > MaxChunk)
      BY <1>1, <2>1, WidthAssumption
    <3> QED BY <3>1 DEF SendHeader
  <2> QED BY <1>4, <1>5, <1>6, <1>7, <1>8, <2>2, <2>3 DEF Steps2, Serve, Receive, SendNotFound, SendChunk,
          ReadStandard, ReadChunk, Assemble, WholeInv, Ended
<1>9. CASE project = "MARIO" /\ StepsM
  <2>1. project = "MARIO" /\ Small
    BY <1>9 DEF SentWhole
  <2>2. CASE ReadSizeM
    BY <2>1, <2>2, WholeReads DEF ReadSizeM, Reading
  <2> QED BY <1>5, <1>6, <1>7, <1>9, <2>1, <2>2 DEF StepsM, SendNotFound, HeaderM, ChunkM,
          ReadStandard, ReadChunkM, SecondWithout, WholeInv, Ended
<1> QED BY <1>2, <1>3, <1>4, <1>8, <1>9, StepsByProject DEF SentWhole

-----------------------------------------------------------------------------
(* A file that is sent in chunks: what is on its way to a reader that has had  *)
(* b cells of the stream.                                                      *)

OnTheWay(h, b) ==
  /\ wire \in Seq(Cells) /\ Segment(wire, b, Chunked(h, size))
  /\ open /\ server = "chunks" => b + Len(wire) = Start(h, size, index)

LEMMA WayOpens ==
  ASSUME NEW h \in {2, 3}, size \in Nat, size' = size, size < SizeField, wire = <<>>,
         \/ Send(<<Field(101), Field(size % SizeField), Field(MaxChunk)>>)
         \/ Send(<<Field(101), Field(size % SizeField), Field(MaxChunk % SizeField)>>),
         index = 0, index' = 0, open' = open
  PROVE  OnTheWay(h, 0)'
<1>1. size % SizeField = size /\ MaxChunk % SizeField = MaxChunk
  BY WidthAssumption
<1>2. wire' = wire \/ wire' = <<>> \o Header(size)
  BY <1>1 DEF Send, Header
<1>3. open => wire' = <<>> \o Header(size)
  BY <1>1 DEF Send, Header
<1>4. /\ <<>> \o Header(size) \in Seq(Cells) /\ Len(<<>> \o Header(size)) = 3
      /\ Segment(<<>> \o Header(size), 0, Chunked(h, size))
      /\ Start(h, size, 0) = 3 /\ Segment(<<>>, 0, Chunked(h, size)) /\ <<>> \in Seq(Cells)
  BY HeaderSent
<1>5. wire' \in Seq(Cells) /\ Segment(wire', 0, Chunked(h, size))
  BY <1>2, <1>4
<1>6. open => 0 + Len(wire') = 3
  BY <1>3, <1>4
<1> QED BY <1>4, <1>5, <1>6 DEF OnTheWay

LEMMA WayTakesChunk ==
  ASSUME NEW h \in {2, 3}, NEW b \in Nat, size \in Nat, size' = size, index \in Nat,
         OnTheWay(h, b), server = "chunks", HasChunk(h, size, index),
         Send(ChunkMessage(h, size, index)), index' = index + 1, open' = open
  PROVE  OnTheWay(h, b)' /\ (open => b + Len(wire') = Start(h, size, index + 1))
<1> DEFINE w == wire
           c == ChunkMessage(h, size, index)
           m == Length(size, index)
           p == Start(h, size, index)
           D == Chunked(h, size)
<1>1. w \in Seq(Cells) /\ Segment(w, b, D) /\ Len(w) \in Nat
  BY DEF OnTheWay
<1>2. /\ c \in Seq(Cells) /\ Len(c) = h + m
      /\ \A i \in 1..(h + m) : c[i] = Cell(h, size, index, i)
  BY ChunkMessageFacts
<1>3. m \in Nat /\ h \in Nat
  BY LengthFacts
<1>4. \A i \in 1..(h + m) : <<p + i, Cell(h, size, index, i)>> \in D
  BY ChunkIsThere
<1>5. Start(h, size, index + 1) = p + h + m
  BY StartFacts, ZenonT(60) DEF Length
<1>6. p \in Nat
  BY StartType
<1>7. CASE open
  <2>1. b + Len(w) = p
    BY <1>7 DEF OnTheWay
  <2>2. wire' = w \o c
    BY <1>7 DEF Send
  <2> HIDE DEF w, c, m, p, D
  <2>3. \A i \in 1..Len(c) : <<b + Len(w) + i, c[i]>> \in D
    BY <1>2, <1>4, <2>1
  <2>4. /\ w \o c \in Seq(Cells) /\ Len(w \o c) = Len(w) + Len(c)
        /\ Segment(w \o c, b, D)
    BY <1>1, <1>2, <2>3, SegmentSent
  <2>5. b + Len(w \o c) = Start(h, size, index + 1)
    <3>1. b + Len(w \o c) = (b + Len(w)) + (h + m)
      BY <1>1, <1>2, <1>3, <2>4
    <3> QED BY ONLY <3>1, <2>1, <1>3, <1>5, <1>6
  <2> QED BY <2>2, <2>4, <2>5 DEF OnTheWay, D
<1>8. CASE ~open
  <2>1. wire' = wire
    BY <1>8 DEF Send
  <2> QED BY <1>1, <1>8, <2>1 DEF OnTheWay
<1> QED BY <1>7, <1>8

LEMMA WayIsRead ==
  ASSUME NEW h \in {2, 3}, NEW b \in Nat, NEW n \in Nat, size' = size, OnTheWay(h, b),
         Received(n), Consume(n), open' = open, server' = server, index' = index
  PROVE  OnTheWay(h, b + n)'
<1> DEFINE w == wire
<1>1. w \in Seq(Cells) /\ Segment(w, b, Chunked(h, size)) /\ n \in 0..Len(w) /\ Len(w) \in Nat
  BY DEF OnTheWay, Received
<1>2. /\ SubSeq(w, n + 1, Len(w)) \in Seq(Cells)
      /\ Len(SubSeq(w, n + 1, Len(w))) = Len(w) - n
      /\ Segment(SubSeq(w, n + 1, Len(w)), b + n, Chunked(h, size))
  <2> HIDE DEF w
  <2> QED BY <1>1, SegmentRead
<1>3. wire' = SubSeq(w, n + 1, Len(w))
  BY DEF Consume
<1>4. (b + n) + (Len(w) - n) = b + Len(w)
  BY <1>1
<1>5. open /\ server = "chunks" => b + Len(w) = Start(h, size, index)
  BY DEF OnTheWay
<1> HIDE DEF w
<1>6. (b + n) + Len(wire') = b + Len(w)
  BY <1>2, <1>3, <1>4
<1> QED BY <1>2, <1>3, <1>5, <1>6 DEF OnTheWay

LEMMA WayIsCut ==
  ASSUME NEW h \in {2, 3}, NEW b, size' = size, OnTheWay(h, b), Cut
  PROVE  OnTheWay(h, b)'
<1>1. PICK k \in 0..Len(wire) : wire' = SubSeq(wire, 1, k)
  BY DEF Cut
<1>2. wire' \in Seq(Cells) /\ Segment(wire', b, Chunked(h, size))
  BY <1>1, SegmentCut DEF OnTheWay
<1> QED BY <1>2 DEF OnTheWay, Cut

LEMMA WireTyped ==
  ASSUME wire \in Seq(Cells)
  PROVE  /\ Cut => wire' \in Seq(Cells) /\ (wire = <<>> => wire' = <<>>)
         /\ \A n \in Nat : Received(n) /\ Consume(n) => wire' \in Seq(Cells)
         /\ \A c \in Seq(Cells) : Send(c) => wire' \in Seq(Cells)
<1>1. ASSUME Cut PROVE wire' \in Seq(Cells) /\ (wire = <<>> => wire' = <<>>)
  <2>1. PICK k \in 0..Len(wire) : wire' = SubSeq(wire, 1, k)
    BY <1>1 DEF Cut
  <2> QED BY <2>1, SubSeqEmpty
<1>2. ASSUME NEW n \in Nat, Received(n), Consume(n) PROVE wire' \in Seq(Cells)
  BY <1>2 DEF Received, Consume
<1>3. ASSUME NEW c \in Seq(Cells), Send(c) PROVE wire' \in Seq(Cells)
  BY <1>3 DEF Send
<1> QED BY <1>1, <1>2, <1>3

\* The header cells, for a reader that has had fewer than three of them.
LEMMA WayHeader ==
  ASSUME NEW h \in {2, 3}, NEW b \in 0..2, size \in Nat, OnTheWay(h, b), NEW i \in 1..(3 - b), i <= Len(wire)
  PROVE  wire[i] = Header(size)[b + i]
<1>1. i \in 1..Len(wire) /\ b + i \in 1..3
  BY DEF OnTheWay
<1>2. <<b + i, wire[i]>> \in Chunked(h, size)
  BY <1>1 DEF OnTheWay, Segment
<1> QED BY <1>1, <1>2, HeaderPlace

-----------------------------------------------------------------------------
(* RESOLUCION2, a file of more than one chunk.                                 *)

InChunks2 == project = "RESOLUCION2" /\ size > MaxChunk

Reached2 == IF client = "code" THEN 0 ELSE IF client = "size" THEN 1
            ELSE IF client = "standard" THEN 2 ELSE Start(3, size, Len(chunks))

Chunks2Server ==
  /\ server \in {"request", "chunks", "sent"} /\ index \in Nat /\ wire \in Seq(Cells)
  /\ server = "request" =>
       wire = <<>> /\ client \in {"code", "failed"} /\ index = 0 /\ sent = 0
  /\ server = "chunks" => sent = Offset(index) /\ Offset(index) < size

Chunks2Inv ==
  /\ Chunks2Server
  /\ client \in {"code", "size", "standard", "chunk"} \cup Ended
  /\ saved \in {NoFile, File}
  /\ client \in {"code", "size", "standard"} => chunks = <<>>
  /\ client \in {"code", "size", "standard", "chunk"} =>
       Gathered(size, chunks, Len(chunks)) /\ OnTheWay(3, Reached2)
  /\ client \in {"standard", "chunk"} => remaining = size - Ends(size, Len(chunks))

LEMMA GatheredNone == ASSUME NEW s PROVE Gathered(s, <<>>, 0) /\ Len(<<>>) = 0
BY DEF Gathered

LEMMA WayOfNothing ==
  ASSUME NEW h, NEW b, wire = <<>>, server = "request"
  PROVE  OnTheWay(h, b)
BY DEF OnTheWay, Segment

LEMMA Chunks2Init == InitX => Chunks2Inv
BY GatheredNone, WayOfNothing DEF InitX, Init, Chunks2Inv, Chunks2Server, Reached2

LEMMA Chunks2Opens ==
  ASSUME Steady, Same, Fits, InChunks2, Chunks2Inv, SendHeader
  PROVE  Chunks2Inv'
<1>1. size \in Nat /\ size' = size /\ size < SizeField
  BY DEF Steady, Same, Fits
<1>2. /\ wire = <<>> /\ client \in {"code", "failed"} /\ index = 0 /\ sent = 0
      /\ wire \in Seq(Cells)
  BY DEF Chunks2Inv, Chunks2Server, SendHeader
<1>3. /\ server' = "chunks" /\ index' = index /\ sent' = sent /\ open' = open
      /\ client' = client /\ chunks' = chunks /\ saved' = saved
      /\ Send(<<Field(101), Field(size % SizeField), Field(MaxChunk % SizeField)>>)
  BY DEF SendHeader, clientVars
<1>4. OnTheWay(3, 0)'
  BY <1>1, <1>2, <1>3, WayOpens
<1>5. wire' \in Seq(Cells)
  BY <1>4 DEF OnTheWay
<1>6. 0 = Offset(0) /\ 0 < size
  BY <1>1, OffsetNext, WidthAssumption DEF InChunks2
<1>7. File' = File
  BY <1>1 DEF File
<1>8. Chunks2Server'
  BY <1>1, <1>2, <1>3, <1>5, <1>6 DEF Chunks2Server
<1>9. client = "code" => Reached2' = 0
  BY <1>3 DEF Reached2
<1>10. client = "code" => OnTheWay(3, Reached2)'
  BY <1>4, <1>9 DEF OnTheWay
<1> QED BY <1>1, <1>2, <1>3, <1>7, <1>8, <1>10 DEF Chunks2Inv, Ended

LEMMA ChunkCells ==
  ASSUME size \in Nat, size < SizeField, index \in Nat, sent = Offset(index), Offset(index) < size
  PROVE  /\ Lesser(size, sent + MaxChunk) = Ends(size, index + 1)
         /\ sent = Ends(size, index)
         /\ <<Field(111), Field(index % IndexField),
              Field((Lesser(size, sent + MaxChunk) - sent) % SizeField)>>
              \o Bytes(sent, Lesser(size, sent + MaxChunk)) = ChunkMessage(3, size, index)
         /\ (Lesser(size, sent + MaxChunk) - sent) % SizeField = Length(size, index)
         /\ index % IndexField = index
<1>1. /\ Offset(index) <= size /\ Offset(index) \in Nat
  BY OffsetType
<1>2. Ends(size, index) = Offset(index) /\ Ends(size, index + 1) = Lesser(size, Offset(index) + MaxChunk)
  BY <1>1, EndsFacts
<1>3. Length(size, index) \in Nat /\ Length(size, index) <= MaxChunk
  BY LengthFacts
<1>4. Length(size, index) % SizeField = Length(size, index)
  BY <1>3, WidthAssumption
<1>5. index % IndexField = index
  BY IndexFits
<1>6. Lesser(size, sent + MaxChunk) - sent = Length(size, index)
  BY <1>2 DEF Length
<1> QED BY <1>2, <1>4, <1>5, <1>6 DEF ChunkMessage

LEMMA Chunks2Sends ==
  ASSUME Steady, Same, Fits, InChunks2, Chunks2Inv, SendChunk
  PROVE  Chunks2Inv'
<1>1. size \in Nat /\ size' = size /\ size < SizeField
  BY DEF Steady, Same, Fits
<1>2. server = "chunks" /\ index \in Nat /\ sent = Offset(index) /\ Offset(index) < size /\ wire \in Seq(Cells)
  BY DEF Chunks2Inv, Chunks2Server, SendChunk
<1>3. /\ Lesser(size, sent + MaxChunk) = Ends(size, index + 1)
      /\ <<Field(111), Field(index % IndexField),
           Field((Lesser(size, sent + MaxChunk) - sent) % SizeField)>>
           \o Bytes(sent, Lesser(size, sent + MaxChunk)) = ChunkMessage(3, size, index)
  BY <1>1, <1>2, ChunkCells
<1>4. /\ Send(ChunkMessage(3, size, index)) /\ index' = index + 1
      /\ sent' = Ends(size, index + 1) /\ open' = open
      /\ server' = IF Ends(size, index + 1) = size THEN "sent" ELSE "chunks"
      /\ client' = client /\ chunks' = chunks /\ remaining' = remaining /\ saved' = saved
  BY <1>3 DEF SendChunk, clientVars
<1>5. ChunkMessage(3, size, index) \in Seq(Cells)
  BY <1>1, <1>2, ChunkMessageFacts
<1>6. wire' \in Seq(Cells)
  BY <1>2, <1>4, <1>5, WireTyped
<1>7. server' = "chunks" => sent' = Offset(index') /\ Offset(index') < size
  <2>1. Ends(size, index + 1) # size => Ends(size, index + 1) = Offset(index + 1) /\ Offset(index + 1) < size
    <3>1. index + 1 \in Nat /\ Offset(index + 1) \in Nat
      BY <1>2, OffsetType
    <3> QED BY <1>1, <3>1 DEF Ends, Lesser
  <2> QED BY <1>4, <2>1
<1>8. Chunks2Server'
  BY <1>1, <1>2, <1>4, <1>6, <1>7 DEF Chunks2Server
<1>9. Reached2' = Reached2 /\ File' = File
  BY <1>1, <1>4 DEF Reached2, File
<1>10. ASSUME client \in {"code", "size", "standard", "chunk"} PROVE OnTheWay(3, Reached2)'
  <2>1. OnTheWay(3, Reached2) /\ Gathered(size, chunks, Len(chunks))
    BY <1>10 DEF Chunks2Inv
  <2>2. Reached2 \in Nat
    <3>1. Len(chunks) \in Nat
      BY <2>1 DEF Gathered
    <3>2. Start(3, size, Len(chunks)) \in Nat
      BY <1>1, <3>1, StartType
    <3> QED BY <3>2 DEF Reached2
  <2>3. HasChunk(3, size, index)
    BY <1>2 DEF HasChunk
  <2> DEFINE b == Reached2
  <2>4. b \in Nat /\ OnTheWay(3, b)
    BY <2>1, <2>2
  <2>5. OnTheWay(3, b) => /\ wire' \in Seq(Cells) /\ Segment(wire', b, Chunked(3, size))
                          /\ open => b + Len(wire') = Start(3, size, index + 1)
    <3>1. \A d \in Nat : OnTheWay(3, d) => /\ wire' \in Seq(Cells) /\ Segment(wire', d, Chunked(3, size))
                                           /\ open => d + Len(wire') = Start(3, size, index + 1)
      BY <1>1, <1>2, <1>4, <2>3, WayTakesChunk DEF OnTheWay
    <3> QED BY <2>4, <3>1
  <2> QED BY <1>1, <1>4, <1>9, <2>4, <2>5 DEF OnTheWay
<1> QED BY <1>1, <1>4, <1>8, <1>9, <1>10 DEF Chunks2Inv

LEMMA Chunks2Reads ==
  ASSUME Steady, Same, Fits, InChunks2, Chunks2Inv, UNCHANGED serverVars,
         ReadCode \/ ReadSize \/ ReadStandard
  PROVE  Chunks2Inv'
<1>1. size \in Nat /\ size' = size /\ File' = File
  BY DEF Steady, Same, File
<1>2. /\ client \in {"code", "size", "standard"} /\ Received(1) /\ Consume(1)
      /\ open' = open /\ chunks' = chunks /\ saved' = saved
      /\ server' = server /\ index' = index /\ sent' = sent
  BY DEF ReadCode, ReadSize, ReadStandard, serverVars
<1>3. chunks = <<>> /\ Len(chunks) = 0 /\ Gathered(size, chunks, 0) /\ OnTheWay(3, Reached2)
  BY <1>2, GatheredNone DEF Chunks2Inv
<1>4. PICK b \in 0..2 : b = Reached2
  BY <1>2 DEF Reached2
<1>5. b \in Nat /\ 1 \in Nat
  OBVIOUS
<1>6. OnTheWay(3, b + 1)' /\ OnTheWay(3, b)
  <2>1. OnTheWay(3, b)
    BY <1>3, <1>4
  <2> QED BY <1>1, <1>2, <1>5, <2>1, WayIsRead
<1>7. wire[1] = Header(size)[b + 1]
  <2>1. OnTheWay(3, b) /\ 1 \in 1..(3 - b) /\ 1 <= Len(wire)
    BY <1>2, <1>6 DEF Received, OnTheWay
  <2> QED BY <1>1, <2>1, WayHeader
<1>8. server # "request"
  <2>1. server = "request" => wire = <<>>
    BY DEF Chunks2Inv, Chunks2Server
  <2> QED BY <1>2, <2>1 DEF Received
<1>9. wire' \in Seq(Cells)
  BY <1>6 DEF OnTheWay
<1>10. Chunks2Server'
  BY <1>1, <1>2, <1>8, <1>9 DEF Chunks2Inv, Chunks2Server
<1>11. Ends(size, 0) = 0 /\ Start(3, size, 0) = 3
  BY <1>1, EndsFacts, StartFacts
<1>12. CASE ReadCode
  <2>1. client = "code" /\ b = 0
    BY <1>4, <1>12 DEF ReadCode, Reached2
  <2>2. wire[1] = Field(101) /\ Field(101) # Field(112)
    BY <1>7, <2>1, CellKinds DEF Header
  <2>3. client' = "size"
    BY <1>12, <2>2 DEF ReadCode
  <2>4. Reached2' = b + 1
    BY <2>1, <2>3 DEF Reached2
  <2>5. OnTheWay(3, Reached2)'
    BY <1>6, <2>4 DEF OnTheWay
  <2> QED BY <1>1, <1>2, <1>3, <1>10, <2>3, <2>5 DEF Chunks2Inv
<1>13. CASE ReadSize
  <2>1. client = "size" /\ b = 1
    BY <1>4, <1>13 DEF ReadSize, Reached2
  <2>2. wire[1] = Field(size)
    BY <1>7, <2>1 DEF Header
  <2>3. remaining' = size
    BY <1>1, <1>13, <2>2, CellKinds DEF ReadSize
  <2>4. ~(size <= MaxChunk)
    BY <1>1, WidthAssumption DEF InChunks2
  <2>5. client' = "standard"
    BY <1>13, <2>3, <2>4 DEF ReadSize
  <2>6. Reached2' = b + 1
    BY <2>1, <2>5 DEF Reached2
  <2>7. OnTheWay(3, Reached2)'
    BY <1>6, <2>6 DEF OnTheWay
  <2>8. remaining' = size' - Ends(size', Len(chunks'))
    BY <1>1, <1>2, <1>3, <1>11, <2>3
  <2> QED BY <1>1, <1>2, <1>3, <1>10, <2>5, <2>7, <2>8 DEF Chunks2Inv
<1>14. CASE ReadStandard
  <2>1. client = "standard" /\ b = 2 /\ client' = "chunk" /\ remaining' = remaining
    BY <1>4, <1>14 DEF ReadStandard, Reached2
  <2>2. Reached2' = b + 1
    BY <1>1, <1>2, <1>3, <1>11, <2>1 DEF Reached2
  <2>3. OnTheWay(3, Reached2)'
    BY <1>6, <2>2 DEF OnTheWay
  <2>4. remaining' = size' - Ends(size', Len(chunks'))
    BY <1>1, <1>2, <2>1 DEF Chunks2Inv
  <2> QED BY <1>1, <1>2, <1>3, <1>10, <2>1, <2>3, <2>4 DEF Chunks2Inv
<1> QED BY <1>12, <1>13, <1>14

LEMMA Chunks2ReadsChunk ==
  ASSUME Steady, Same, Fits, InChunks2, Chunks2Inv, UNCHANGED serverVars, ReadChunk
  PROVE  Chunks2Inv'
<1>1. size \in Nat /\ size' = size /\ File' = File
  BY DEF Steady, Same, File
<1> DEFINE n == Len(chunks)
           m == Length(size, n)
           b == Start(3, size, n)
           w == wire
<1>2. client = "chunk" /\ Received(3) /\ Received(3 + wire[3].field) /\ Consume(3 + wire[3].field)
  BY DEF ReadChunk, ChunkReceived
<1>3. /\ Gathered(size, chunks, n) /\ OnTheWay(3, b) /\ remaining = size - Ends(size, n)
      /\ saved \in {NoFile, File}
  BY <1>2 DEF Chunks2Inv, Reached2
<1>4. n \in Nat
  BY <1>3 DEF Gathered
<1>5. m \in Nat /\ b \in Nat
  BY <1>1, <1>4, LengthFacts, StartType
<1>6. w \in Seq(Cells) /\ Segment(w, b, Chunked(3, size)) /\ 3 <= Len(w) /\ 3 \in {2, 3}
  BY <1>2, <1>3 DEF OnTheWay, Received
<1>7. /\ wire[1] = Field(111) /\ wire[2] = Field(n) /\ wire[3] = Field(m)
      /\ 3 + m <= Len(w) => SubSeq(w, 3 + 1, 3 + m) = Bytes(Ends(size, n), Ends(size, n + 1))
  <2> HIDE DEF n, w
  <2>1. /\ w[1] = Field(111) /\ w[2] = Field(n) /\ w[3] = Field(m)
        /\ 3 + m <= Len(w) => SubSeq(w, 3 + 1, 3 + m) = Bytes(Ends(size, n), Ends(size, n + 1))
    BY <1>1, <1>4, <1>6, ChunkRead
  <2> QED BY <2>1 DEF w
<1>8. wire[3].field = m /\ wire[2].field = n
  BY <1>4, <1>5, <1>7, CellKinds
<1>9. Received(3 + m) /\ Consume(3 + m) /\ 3 + m <= Len(w)
  BY <1>2, <1>8 DEF Received
<1>10. /\ chunks' = <<[idx |-> n, data |-> Bytes(Ends(size, n), Ends(size, n + 1))]>> \o chunks
       /\ remaining' = remaining - m /\ client' = "chunk" /\ saved' = saved /\ open' = open
       /\ server' = server /\ index' = index /\ sent' = sent
  <2>1. SubSeq(wire, 4, 3 + m) = Bytes(Ends(size, n), Ends(size, n + 1))
    BY <1>7, <1>9
  <2> HIDE DEF n, m
  <2> QED BY <1>2, <1>7, <1>8, <2>1 DEF ReadChunk, serverVars
<1>11. Gathered(size, chunks', n + 1)
  BY <1>1, <1>3, <1>4, <1>10, GatheredNext
<1>12. Len(chunks') = n + 1
  BY <1>11 DEF Gathered
<1>13. Start(3, size, n + 1) = b + (3 + m)
  <2>1. Start(3, size, n + 1) = b + 3 + m
    BY <1>1, <1>4, StartFacts DEF Length
  <2> HIDE DEF b, m
  <2> QED BY <1>5, <2>1
<1>14. /\ wire' \in Seq(Cells) /\ Segment(wire', b + (3 + m), Chunked(3, size'))
       /\ open' /\ server' = "chunks" => (b + (3 + m)) + Len(wire') = Start(3, size', index')
  <2>1. 3 + m \in Nat
    BY <1>5
  <2> DEFINE d == b
             k == 3 + m
  <2>2. d \in Nat /\ k \in Nat /\ OnTheWay(3, d) /\ Received(k) /\ Consume(k)
    BY <1>3, <1>5, <1>9, <2>1
  <2>3. \A e, l \in Nat : OnTheWay(3, e) /\ Received(l) /\ Consume(l) =>
          /\ wire' \in Seq(Cells) /\ Segment(wire', e + l, Chunked(3, size'))
          /\ open' /\ server' = "chunks" => (e + l) + Len(wire') = Start(3, size', index')
    BY <1>1, <1>10, WayIsRead DEF OnTheWay
  <2>4. /\ wire' \in Seq(Cells) /\ Segment(wire', d + k, Chunked(3, size'))
        /\ open' /\ server' = "chunks" => (d + k) + Len(wire') = Start(3, size', index')
    <3> HIDE DEF d, k
    <3> QED BY <2>2, <2>3
  <2> QED BY <2>4
<1>15. client' = "chunk" => Reached2' = b + (3 + m)
  BY <1>1, <1>12, <1>13 DEF Reached2
<1>16. OnTheWay(3, Reached2)'
  <2> HIDE DEF b, m
  <2> QED BY <1>10, <1>14, <1>15 DEF OnTheWay
<1>17. server # "request" /\ Chunks2Server
  BY <1>2 DEF Chunks2Inv, Chunks2Server
<1>18. Chunks2Server'
  BY <1>1, <1>10, <1>14, <1>17 DEF Chunks2Server
<1>19. remaining' = size' - Ends(size', Len(chunks'))
  <2>1. Ends(size, n + 1) = Ends(size, n) + m /\ Ends(size, n) \in Nat
    BY <1>1, <1>4, LengthFacts
  <2>2. remaining' = (size - Ends(size, n)) - m
    BY <1>3, <1>10
  <2> HIDE DEF n, m
  <2>3. remaining' = size - Ends(size, n + 1)
    BY <1>1, <1>5, <2>1, <2>2
  <2> QED BY <1>1, <1>12, <2>3
<1>20. Gathered(size', chunks', Len(chunks')) /\ saved' \in {NoFile, File'}
  BY <1>1, <1>3, <1>10, <1>11, <1>12
<1> HIDE DEF n, m, b, w
<1> QED BY <1>10, <1>16, <1>18, <1>19, <1>20 DEF Chunks2Inv

LEMMA Chunks2Assembles ==
  ASSUME Steady, Same, Fits, InChunks2, Chunks2Inv, UNCHANGED serverVars, Assemble
  PROVE  Chunks2Inv'
<1>1. size \in Nat /\ size' = size /\ File' = File
  BY DEF Steady, Same, File
<1>2. /\ client = "chunk" /\ remaining <= 0 /\ saved' = Assembled /\ client' = "saved"
      /\ wire' = wire /\ server' = server /\ index' = index /\ sent' = sent
  BY DEF Assemble, serverVars
<1>3. /\ Gathered(size, chunks, Len(chunks)) /\ remaining = size - Ends(size, Len(chunks))
  BY <1>2 DEF Chunks2Inv
<1>4. Len(chunks) \in Nat
  BY <1>3 DEF Gathered
<1>5. Ends(size, Len(chunks)) \in Nat /\ Ends(size, Len(chunks)) <= size /\ Ends(size, 0) = 0
  BY <1>1, <1>4, EndsFacts
<1>6. Ends(size, Len(chunks)) = size
  <2> DEFINE e == Ends(size, Len(chunks))
  <2>1. e \in Nat /\ e <= size /\ size - e <= 0
    BY <1>2, <1>3, <1>5
  <2> HIDE DEF e
  <2>2. e = size
    BY <1>1, <2>1
  <2> QED BY <2>2 DEF e
<1>7. Len(chunks) \in Nat \ {0}
  <2>1. 0 < size
    BY <1>1, WidthAssumption DEF InChunks2
  <2> QED BY <1>1, <1>4, <1>5, <1>6, <2>1
<1>8. Assembled = Bytes(0, size)
  BY <1>1, <1>3, <1>6, <1>7, AssembledChunks
<1>9. server # "request" /\ Chunks2Server
  BY <1>2 DEF Chunks2Inv, Chunks2Server
<1>10. Chunks2Server'
  BY <1>1, <1>2, <1>9 DEF Chunks2Server
<1> QED BY <1>1, <1>2, <1>8, <1>10 DEF Chunks2Inv, Ended, File

LEMMA Chunks2Next ==
  ASSUME Steady, Same, Fits, InChunks2, shared, Chunks2Inv, [NextX]_varsX
  PROVE  Chunks2Inv'
<1>1. size \in Nat /\ size' = size /\ File' = File
  BY DEF Steady, Same, File
<1>2. CASE UNCHANGED varsX
  BY <1>1, <1>2 DEF varsX, vars, Chunks2Inv, Chunks2Server, Reached2, OnTheWay
<1>3. CASE Cut
  <2>1. wire' \in Seq(Cells) /\ (wire = <<>> => wire' = <<>>)
    BY <1>3, WireTyped DEF Chunks2Inv, Chunks2Server
  <2>2. /\ server' = server /\ index' = index /\ sent' = sent /\ open' = FALSE
        /\ client' = client /\ chunks' = chunks /\ remaining' = remaining /\ saved' = saved
    BY <1>3 DEF Cut, serverVars, clientVars
  <2>3. \A b : OnTheWay(3, b) => wire' \in Seq(Cells) /\ Segment(wire', b, Chunked(3, size))
    BY <1>1, <1>3, WayIsCut DEF OnTheWay
  <2>4. Reached2' = Reached2
    BY <1>1, <2>2 DEF Reached2
  <2>5. OnTheWay(3, Reached2) => OnTheWay(3, Reached2)'
    BY <1>1, <2>2, <2>3, <2>4 DEF OnTheWay
  <2>6. Chunks2Server'
    BY <1>1, <2>1, <2>2 DEF Chunks2Inv, Chunks2Server
  <2> QED BY <1>1, <2>2, <2>5, <2>6 DEF Chunks2Inv
<1>4. CASE Lost
  <2>1. /\ client' = "failed" /\ wire' = wire /\ saved' = saved
        /\ server' = server /\ index' = index /\ sent' = sent
    BY <1>4 DEF Lost, serverVars
  <2>2. Chunks2Server'
    BY <1>1, <2>1 DEF Chunks2Inv, Chunks2Server
  <2> QED BY <1>1, <2>1, <2>2 DEF Chunks2Inv, Ended
<1>5. CASE ReadCode \/ ReadSize \/ ReadStandard \/ ReadChunk \/ Assemble
  BY <1>5, Chunks2Reads, Chunks2ReadsChunk, Chunks2Assembles
     DEF ReadCode, ReadSize, ReadStandard, ReadChunk, Assemble
<1>6. ~SendNotFound /\ ~SendSingle /\ ~ReadSingle
  <2>1. ~(size <= MaxChunk)
    BY <1>1, WidthAssumption DEF InChunks2
  <2> QED BY <2>1 DEF SendNotFound, SendSingle, ReadSingle, Chunks2Inv, Ended
<1>7. Steps2 \/ UNCHANGED varsX
  BY StepsByProject DEF InChunks2
<1> QED BY <1>2, <1>3, <1>4, <1>5, <1>6, <1>7, Chunks2Opens, Chunks2Sends DEF Steps2, Serve, Receive

-----------------------------------------------------------------------------
(* Resolucion3, which sends every file in chunks.                              *)

Reached3 == IF client = "code" THEN 0 ELSE IF client = "sizes" THEN 1
            ELSE Start(2, size, Len(chunks))

Chunks3Server ==
  /\ server \in {"request", "chunks", "sent"} /\ index \in Nat /\ wire \in Seq(Cells)
  /\ server = "request" =>
       wire = <<>> /\ client \in {"code", "failed"} /\ index = 0 /\ sent = 0
  /\ server = "chunks" => sent = Offset(index) /\ Offset(index) <= size

Chunks3Inv ==
  /\ Chunks3Server
  /\ client \in {"code", "sizes", "pieces"} \cup Ended
  /\ saved \in {NoFile, File}
  /\ client \in {"code", "sizes"} => chunks = <<>>
  /\ client \in {"code", "sizes", "pieces"} =>
       Gathered(size, chunks, Len(chunks)) /\ OnTheWay(2, Reached3)
  /\ client = "pieces" => remaining = size - Ends(size, Len(chunks)) /\ size > 0

LEMMA Chunks3Init == InitX => Chunks3Inv
BY GatheredNone, WayOfNothing DEF InitX, Init, Chunks3Inv, Chunks3Server, Reached3

LEMMA Chunks3Again ==
  ASSUME Same, Chunks3Inv, Again
  PROVE  Chunks3Inv'
<1>1. Gathered(size, <<>>, 0) /\ Len(<<>>) = 0 /\ <<>> \in Seq(Cells)
  BY GatheredNone
<1>2. Segment(<<>>, 0, Chunked(2, size))
  BY DEF Segment
<1>3. /\ server' = "request" /\ sent' = 0 /\ index' = 0 /\ wire' = <<>> /\ client' = "code"
      /\ chunks' = <<>> /\ saved' = saved /\ size' = size
  BY DEF Again
<1>4. Reached3' = 0
  BY <1>3 DEF Reached3
<1>5. OnTheWay(2, Reached3)'
  BY <1>1, <1>2, <1>3, <1>4 DEF OnTheWay
<1>6. Chunks3Server'
  BY <1>1, <1>3 DEF Chunks3Server
<1>7. File' = File
  BY <1>3 DEF File
<1> QED BY <1>1, <1>3, <1>5, <1>6, <1>7 DEF Chunks3Inv

LEMMA Chunks3Opens ==
  ASSUME Steady, Same, Fits, Chunks3Inv, Header3
  PROVE  Chunks3Inv'
<1>1. size \in Nat /\ size' = size /\ size < SizeField
  BY DEF Steady, Same, Fits
<1>2. /\ wire = <<>> /\ client \in {"code", "failed"} /\ index = 0 /\ sent = 0
      /\ wire \in Seq(Cells)
  BY DEF Chunks3Inv, Chunks3Server, Header3
<1>3. /\ server' = "chunks" /\ index' = index /\ sent' = sent /\ open' = open
      /\ client' = client /\ chunks' = chunks /\ saved' = saved
      /\ Send(<<Field(101), Field(size % SizeField), Field(MaxChunk)>>)
  BY DEF Header3, Serving, Setup, clientVars
<1>4. OnTheWay(2, 0)'
  BY <1>1, <1>2, <1>3, WayOpens
<1>5. wire' \in Seq(Cells)
  BY <1>4 DEF OnTheWay
<1>6. 0 = Offset(0) /\ 0 <= size
  BY <1>1, OffsetNext
<1>7. File' = File
  BY <1>1 DEF File
<1>8. Chunks3Server'
  BY <1>1, <1>2, <1>3, <1>5, <1>6 DEF Chunks3Server
<1>9. client = "code" => Reached3' = 0
  BY <1>3 DEF Reached3
<1>10. client = "code" => OnTheWay(2, Reached3)'
  BY <1>4, <1>9 DEF OnTheWay
<1> QED BY <1>1, <1>2, <1>3, <1>7, <1>8, <1>10 DEF Chunks3Inv, Ended

LEMMA Chunks3Sends ==
  ASSUME Steady, Same, Fits, Chunks3Inv, Chunk3
  PROVE  Chunks3Inv'
<1>1. size \in Nat /\ size' = size /\ size < SizeField
  BY DEF Steady, Same, Fits
<1>2. server = "chunks" /\ index \in Nat /\ sent = Offset(index) /\ Offset(index) <= size /\ wire \in Seq(Cells)
  BY DEF Chunks3Inv, Chunks3Server, Chunk3
<1>3. Upto = Ends(size, index + 1) /\ sent = Ends(size, index)
  <2>1. Ends(size, index) = Offset(index) /\ Ends(size, index + 1) = Lesser(size, Offset(index) + MaxChunk)
    BY <1>1, <1>2, EndsFacts
  <2> QED BY <1>2, <2>1 DEF Upto
<1>4. /\ Send(ChunkMessage(2, size, index)) /\ index' = index + 1
      /\ sent' = Upto /\ open' = open
      /\ server' = IF Upto = sent + MaxChunk THEN "chunks" ELSE "sent"
      /\ client' = client /\ chunks' = chunks /\ remaining' = remaining /\ saved' = saved
  BY <1>3 DEF Chunk3, ChunkMessage, Serving, Setup, clientVars
<1>5. ChunkMessage(2, size, index) \in Seq(Cells)
  BY <1>1, <1>2, ChunkMessageFacts
<1>6. wire' \in Seq(Cells)
  BY <1>2, <1>4, <1>5, WireTyped
<1>7. server' = "chunks" => sent' = Offset(index') /\ Offset(index') <= size
  <2>1. Offset(index + 1) = Offset(index) + MaxChunk
    BY <1>2, OffsetNext
  <2>2. Upto <= size
    BY <1>1, <1>2, <1>3, EndsFacts
  <2> QED BY <1>2, <1>4, <2>1, <2>2
<1>8. Chunks3Server'
  BY <1>1, <1>2, <1>4, <1>6, <1>7 DEF Chunks3Server
<1>9. Reached3' = Reached3 /\ File' = File
  BY <1>1, <1>4 DEF Reached3, File
<1>10. ASSUME client \in {"code", "sizes", "pieces"} PROVE OnTheWay(2, Reached3)'
  <2>1. OnTheWay(2, Reached3) /\ Gathered(size, chunks, Len(chunks))
    BY <1>10 DEF Chunks3Inv
  <2>2. Reached3 \in Nat
    <3>1. Len(chunks) \in Nat
      BY <2>1 DEF Gathered
    <3>2. Start(2, size, Len(chunks)) \in Nat
      BY <1>1, <3>1, StartType
    <3> QED BY <3>2 DEF Reached3
  <2>3. HasChunk(2, size, index)
    <3>1. Offset(index) \in Nat
      BY <1>2, OffsetType
    <3> QED BY <1>1, <1>2, <3>1 DEF HasChunk
  <2> DEFINE b == Reached3
  <2>4. b \in Nat /\ OnTheWay(2, b)
    BY <2>1, <2>2
  <2>5. OnTheWay(2, b) => /\ wire' \in Seq(Cells) /\ Segment(wire', b, Chunked(2, size))
                          /\ open => b + Len(wire') = Start(2, size, index + 1)
    <3>1. \A d \in Nat : OnTheWay(2, d) => /\ wire' \in Seq(Cells) /\ Segment(wire', d, Chunked(2, size))
                                           /\ open => d + Len(wire') = Start(2, size, index + 1)
      BY <1>1, <1>2, <1>4, <2>3, WayTakesChunk DEF OnTheWay
    <3> QED BY <2>4, <3>1
  <2> QED BY <1>1, <1>4, <1>9, <2>4, <2>5 DEF OnTheWay
<1> QED BY <1>1, <1>4, <1>8, <1>9, <1>10 DEF Chunks3Inv

LEMMA Chunks3Reads ==
  ASSUME Steady, Same, Fits, Chunks3Inv, ReadCode3 \/ ReadSizes
  PROVE  Chunks3Inv'
<1>1. size \in Nat /\ size' = size /\ File' = File /\ size < SizeField
  BY DEF Steady, Same, File, Fits
<1>2. /\ client \in {"code", "sizes"} /\ Received(1)
      /\ open' = open /\ chunks' = chunks /\ saved' = saved
      /\ server' = server /\ index' = index /\ sent' = sent
  BY DEF ReadCode3, ReadSizes, Reading, Setup, serverVars, Received
<1>3. chunks = <<>> /\ Len(chunks) = 0 /\ Gathered(size, chunks, 0) /\ OnTheWay(2, Reached3)
  BY <1>2, GatheredNone DEF Chunks3Inv
<1>4. PICK b \in {0, 1} : b = Reached3
  BY <1>2 DEF Reached3
<1>5. b \in Nat /\ 1 \in Nat /\ 2 \in Nat /\ b \in 0..2
  OBVIOUS
<1>6. OnTheWay(2, b)
  BY <1>3, <1>4
<1>7. wire[1] = Header(size)[b + 1]
  <2>1. OnTheWay(2, b) /\ 1 \in 1..(3 - b) /\ 1 <= Len(wire)
    BY <1>2, <1>6 DEF Received, OnTheWay
  <2> QED BY <1>1, <1>5, <2>1, WayHeader
<1>8. server # "request"
  <2>1. server = "request" => wire = <<>>
    BY DEF Chunks3Inv, Chunks3Server
  <2> QED BY <1>2, <2>1 DEF Received
<1>10. wire' \in Seq(Cells) => Chunks3Server'
  BY <1>1, <1>2, <1>8 DEF Chunks3Inv, Chunks3Server
<1>11. Ends(size, 0) = 0 /\ Start(2, size, 0) = 3
  BY <1>1, EndsFacts, StartFacts
<1>12. CASE ReadCode3
  <2>1. client = "code" /\ b = 0
    BY <1>4, <1>12 DEF ReadCode3, Reached3
  <2>2. wire[1] = Field(101)
    BY <1>7, <2>1 DEF Header
  <2>3. client' = "sizes" /\ Consume(1)
    BY <1>12, <2>2 DEF ReadCode3
  <2>4. Reached3' = b + 1
    BY <2>1, <2>3 DEF Reached3
  <2>5. OnTheWay(2, b + 1)'
    BY <1>1, <1>2, <1>5, <1>6, <2>3, WayIsRead
  <2>6. OnTheWay(2, Reached3)' /\ wire' \in Seq(Cells)
    BY <2>4, <2>5 DEF OnTheWay
  <2> QED BY <1>1, <1>2, <1>3, <1>10, <2>3, <2>6 DEF Chunks3Inv
<1>13. CASE ReadSizes
  <2>1. client = "sizes" /\ b = 1 /\ Received(2) /\ Consume(2)
    BY <1>4, <1>13 DEF ReadSizes, Reached3
  <2>2. wire[1] = Field(size)
    BY <1>7, <2>1 DEF Header
  <2>3. remaining' = size
    BY <1>1, <1>13, <2>2, CellKinds DEF ReadSizes
  <2>4. client' = IF size = 0 THEN "empty" ELSE "pieces"
    BY <1>13, <2>3 DEF ReadSizes
  <2>5. OnTheWay(2, b + 2)'
    BY <1>1, <1>2, <1>5, <1>6, <2>1, WayIsRead
  <2>6. wire' \in Seq(Cells)
    BY <2>5 DEF OnTheWay
  <2>7. client' = "pieces" => Reached3' = b + 2
    BY <1>1, <1>2, <1>3, <1>11, <2>1 DEF Reached3
  <2>8. client' = "pieces" => OnTheWay(2, Reached3)'
    BY <2>5, <2>7 DEF OnTheWay
  <2>9. remaining' = size' - Ends(size', Len(chunks'))
    BY <1>1, <1>2, <1>3, <1>11, <2>3
  <2> QED BY <1>1, <1>2, <1>3, <1>10, <2>4, <2>6, <2>8, <2>9 DEF Chunks3Inv, Ended
<1> QED BY <1>12, <1>13

LEMMA Chunks3ReadsPiece ==
  ASSUME Steady, Same, Fits, Chunks3Inv, ReadPiece
  PROVE  Chunks3Inv'
<1>1. size \in Nat /\ size' = size /\ File' = File
  BY DEF Steady, Same, File
<1> DEFINE n == Len(chunks)
           m == Length(size, n)
           b == Start(2, size, n)
           w == wire
<1>2. client = "pieces" /\ remaining > 0 /\ Received(2 + PieceLength) /\ Consume(2 + PieceLength)
  BY DEF ReadPiece
<1>3. /\ Gathered(size, chunks, n) /\ OnTheWay(2, b) /\ remaining = size - Ends(size, n)
      /\ saved \in {NoFile, File} /\ size > 0
  BY <1>2 DEF Chunks3Inv, Reached3
<1>4. n \in Nat
  BY <1>3 DEF Gathered
<1>5. m \in Nat /\ b \in Nat
  BY <1>1, <1>4, LengthFacts, StartType
<1>6. PieceLength = m
  <2>1. /\ Ends(size, n) \in Nat /\ Offset(n) \in Nat
        /\ Offset(n) <= size => /\ Ends(size, n) = Offset(n)
                                /\ Ends(size, n + 1) = Lesser(size, Offset(n) + MaxChunk)
        /\ size <= Offset(n) => Ends(size, n) = size
    BY <1>1, <1>4, EndsFacts, OffsetType
  <2> DEFINE e == Ends(size, n)
             o == Offset(n)
             u == Ends(size, n + 1)
  <2>2. remaining = size - e /\ remaining > 0 /\ m = u - e /\ MaxChunk \in Nat
    BY <1>2, <1>3, WidthAssumption DEF Length
  <2> HIDE DEF n, e, o, u, m
  <2>3. e = o /\ u = Lesser(size, o + MaxChunk)
    BY <1>1, <2>1, <2>2 DEF e, o, u
  <2>4. e \in Nat
    BY <2>1 DEF e
  <2> QED BY <1>1, <2>2, <2>3, <2>4 DEF PieceLength, Lesser
<1>7. w \in Seq(Cells) /\ Segment(w, b, Chunked(2, size)) /\ 2 + m <= Len(w) /\ 2 <= Len(w) /\ 2 \in {2, 3}
  <2>1. w \in Seq(Cells) /\ Segment(w, b, Chunked(2, size)) /\ 2 + m <= Len(w)
    BY <1>2, <1>3, <1>6 DEF OnTheWay, Received
  <2> HIDE DEF w, m, b
  <2>2. Len(w) \in Nat
    BY <2>1
  <2> QED BY <1>5, <2>1, <2>2
<1>8. /\ wire[1] = Field(111) /\ wire[2] = Field(n)
      /\ SubSeq(w, 2 + 1, 2 + m) = Bytes(Ends(size, n), Ends(size, n + 1))
  <2> HIDE DEF n, w
  <2>1. /\ w[1] = Field(111) /\ w[2] = Field(n)
        /\ 2 + m <= Len(w) => SubSeq(w, 2 + 1, 2 + m) = Bytes(Ends(size, n), Ends(size, n + 1))
    BY <1>1, <1>4, <1>7, ChunkRead
  <2> QED BY <1>7, <2>1 DEF w
<1>9. wire[2].field = n
  BY <1>4, <1>8, CellKinds
<1>10. /\ chunks' = <<[idx |-> n, data |-> Bytes(Ends(size, n), Ends(size, n + 1))]>> \o chunks
       /\ remaining' = remaining - m /\ client' = "pieces" /\ saved' = saved /\ open' = open
       /\ server' = server /\ index' = index /\ sent' = sent
  <2>1. SubSeq(wire, 3, 2 + m) = Bytes(Ends(size, n), Ends(size, n + 1))
    BY <1>8
  <2> HIDE DEF n, m
  <2> QED BY <1>2, <1>6, <1>8, <1>9, <2>1 DEF ReadPiece, Reading, Setup, serverVars
<1>11. Gathered(size, chunks', n + 1)
  BY <1>1, <1>3, <1>4, <1>10, GatheredNext
<1>12. Len(chunks') = n + 1
  BY <1>11 DEF Gathered
<1>13. Start(2, size, n + 1) = b + (2 + m)
  <2>1. Start(2, size, n + 1) = b + 2 + m
    BY <1>1, <1>4, StartFacts DEF Length
  <2> HIDE DEF b, m
  <2> QED BY <1>5, <2>1
<1>14. /\ wire' \in Seq(Cells) /\ Segment(wire', b + (2 + m), Chunked(2, size'))
       /\ open' /\ server' = "chunks" => (b + (2 + m)) + Len(wire') = Start(2, size', index')
  <2>1. 2 + m \in Nat
    BY <1>5
  <2> DEFINE d == b
             k == 2 + m
  <2>2. d \in Nat /\ k \in Nat /\ OnTheWay(2, d) /\ Received(k) /\ Consume(k)
    BY <1>2, <1>3, <1>5, <1>6, <2>1
  <2>3. \A e, l \in Nat : OnTheWay(2, e) /\ Received(l) /\ Consume(l) =>
          /\ wire' \in Seq(Cells) /\ Segment(wire', e + l, Chunked(2, size'))
          /\ open' /\ server' = "chunks" => (e + l) + Len(wire') = Start(2, size', index')
    BY <1>1, <1>10, WayIsRead DEF OnTheWay
  <2>4. /\ wire' \in Seq(Cells) /\ Segment(wire', d + k, Chunked(2, size'))
        /\ open' /\ server' = "chunks" => (d + k) + Len(wire') = Start(2, size', index')
    <3> HIDE DEF d, k
    <3> QED BY <2>2, <2>3
  <2> QED BY <2>4
<1>15. Reached3' = b + (2 + m)
  BY <1>1, <1>10, <1>12, <1>13 DEF Reached3
<1>16. OnTheWay(2, Reached3)'
  <2> HIDE DEF b, m
  <2> QED BY <1>10, <1>14, <1>15 DEF OnTheWay
<1>17. server # "request" /\ Chunks3Server
  BY <1>2 DEF Chunks3Inv, Chunks3Server
<1>18. Chunks3Server'
  BY <1>1, <1>10, <1>14, <1>17 DEF Chunks3Server
<1>19. remaining' = size' - Ends(size', Len(chunks'))
  <2>1. Ends(size, n + 1) = Ends(size, n) + m /\ Ends(size, n) \in Nat
    BY <1>1, <1>4, LengthFacts
  <2>2. remaining' = (size - Ends(size, n)) - m
    BY <1>3, <1>10
  <2> HIDE DEF n, m
  <2>3. remaining' = size - Ends(size, n + 1)
    BY <1>1, <1>5, <2>1, <2>2
  <2> QED BY <1>1, <1>12, <2>3
<1>20. Gathered(size', chunks', Len(chunks')) /\ saved' \in {NoFile, File'} /\ size' > 0
  BY <1>1, <1>3, <1>10, <1>11, <1>12
<1> HIDE DEF n, m, b, w
<1> QED BY <1>10, <1>16, <1>18, <1>19, <1>20 DEF Chunks3Inv

LEMMA Chunks3Rebuilds ==
  ASSUME Steady, Same, Fits, Chunks3Inv, Rebuild
  PROVE  Chunks3Inv'
<1>1. size \in Nat /\ size' = size /\ File' = File
  BY DEF Steady, Same, File
<1>2. /\ client = "pieces" /\ remaining = 0 /\ saved' = Rebuilt /\ client' = "saved"
      /\ wire' = wire /\ server' = server /\ index' = index /\ sent' = sent
  BY DEF Rebuild, Reading, Setup, serverVars
<1>3. /\ Gathered(size, chunks, Len(chunks)) /\ remaining = size - Ends(size, Len(chunks))
      /\ size > 0
  BY <1>2 DEF Chunks3Inv
<1>4. Len(chunks) \in Nat
  BY <1>3 DEF Gathered
<1>5. Ends(size, Len(chunks)) \in Nat /\ Ends(size, 0) = 0
  BY <1>1, <1>4, EndsFacts
<1>6. Ends(size, Len(chunks)) = size
  <2> DEFINE e == Ends(size, Len(chunks))
  <2>1. e \in Nat /\ size - e = 0
    BY <1>2, <1>3, <1>5
  <2> HIDE DEF e
  <2>2. e = size
    BY <1>1, <2>1
  <2> QED BY <2>2 DEF e
<1>7. Len(chunks) \in Nat \ {0}
  BY <1>1, <1>3, <1>4, <1>5, <1>6
<1>8. Rebuilt = Bytes(0, size)
  BY <1>1, <1>3, <1>6, <1>7, RebuiltChunks
<1>9. server # "request" /\ Chunks3Server
  BY <1>2 DEF Chunks3Inv, Chunks3Server
<1>10. Chunks3Server'
  BY <1>1, <1>2, <1>9 DEF Chunks3Server
<1> QED BY <1>1, <1>2, <1>8, <1>10 DEF Chunks3Inv, Ended, File

LEMMA Chunks3Next ==
  ASSUME Steady, Same, Fits, project = "Resolucion3", shared, Chunks3Inv, [NextX]_varsX
  PROVE  Chunks3Inv'
<1>1. size \in Nat /\ size' = size /\ File' = File
  BY DEF Steady, Same, File
<1>2. CASE UNCHANGED varsX
  BY <1>1, <1>2 DEF varsX, vars, Chunks3Inv, Chunks3Server, Reached3, OnTheWay
<1>3. CASE Cut
  <2>1. wire' \in Seq(Cells) /\ (wire = <<>> => wire' = <<>>)
    BY <1>3, WireTyped DEF Chunks3Inv, Chunks3Server
  <2>2. /\ server' = server /\ index' = index /\ sent' = sent /\ open' = FALSE
        /\ client' = client /\ chunks' = chunks /\ remaining' = remaining /\ saved' = saved
    BY <1>3 DEF Cut, serverVars, clientVars
  <2>3. \A b : OnTheWay(2, b) => wire' \in Seq(Cells) /\ Segment(wire', b, Chunked(2, size))
    BY <1>1, <1>3, WayIsCut DEF OnTheWay
  <2>4. Reached3' = Reached3
    BY <1>1, <2>2 DEF Reached3
  <2>5. OnTheWay(2, Reached3) => OnTheWay(2, Reached3)'
    BY <1>1, <2>2, <2>3, <2>4 DEF OnTheWay
  <2>6. Chunks3Server'
    BY <1>1, <2>1, <2>2 DEF Chunks3Inv, Chunks3Server
  <2> QED BY <1>1, <2>2, <2>5, <2>6 DEF Chunks3Inv
<1>4. CASE Lost3
  <2>1. /\ client' = "failed" /\ wire' = wire /\ saved' = saved
        /\ server' = server /\ index' = index /\ sent' = sent
    BY <1>4 DEF Lost3, Reading, Setup, serverVars
  <2>2. Chunks3Server'
    BY <1>1, <2>1 DEF Chunks3Inv, Chunks3Server
  <2> QED BY <1>1, <2>1, <2>2 DEF Chunks3Inv, Ended
<1>5. ~NotFound3
  BY DEF NotFound3
<1>6. Steps3 \/ Cut \/ Again \/ UNCHANGED varsX
  BY StepsByProject
<1> QED BY <1>2, <1>3, <1>4, <1>5, <1>6, Chunks3Opens, Chunks3Sends, Chunks3Reads, Chunks3ReadsPiece,
           Chunks3Rebuilds, Chunks3Again DEF Steps3

-----------------------------------------------------------------------------
(* MARIO, a file of more than Whole chunks.                                    *)

Joined(i, j) == Bytes(0, i) \o Bytes(0, j)

LEMMA JoinedFacts ==
  ASSUME NEW i \in Nat, NEW j \in Nat
  PROVE  /\ Joined(i, j) # NoFile
         /\ Joined(0, j) = Bytes(0, j) /\ Joined(j, 0) = Bytes(0, j)
         /\ \A k \in Nat : j <= k => Joined(i, j) \o Bytes(j, k) = Joined(i, k)
         /\ <<>> \o Bytes(0, j) = Joined(0, j)
<1> DEFINE u == Bytes(0, i)
           v == Bytes(0, j)
<1>1. /\ u \in Seq(Cells) /\ Len(u) = i /\ \A k \in 1..i : u[k] = [byte |-> k]
      /\ v \in Seq(Cells) /\ Len(v) = j /\ \A k \in 1..j : v[k] = [byte |-> k]
  <2>1. ASSUME NEW e \in Nat
        PROVE  /\ Bytes(0, e) \in Seq(Cells) /\ Len(Bytes(0, e)) = e
               /\ \A k \in 1..e : Bytes(0, e)[k] = [byte |-> k]
    <3>1. /\ Bytes(0, e) \in Seq(Cells) /\ Len(Bytes(0, e)) = e - 0
          /\ \A k \in 1..(e - 0) : Bytes(0, e)[k] = [byte |-> 0 + k]
      <4>1. 0 \in Nat /\ 0 <= e
        OBVIOUS
      <4> QED BY <4>1, BytesFacts
    <3>2. e - 0 = e /\ \A k \in 1..e : 0 + k = k
      OBVIOUS
    <3> QED BY <3>1, <3>2
  <2> QED BY <2>1
<1>2. Bytes(0, 0) = <<>>
  BY DEF Bytes
<1>3. Joined(0, j) = Bytes(0, j) /\ Joined(j, 0) = Bytes(0, j) /\ <<>> \o Bytes(0, j) = Joined(0, j)
  BY <1>1, <1>2, ConcatEmptySeq DEF Joined
<1>4. ASSUME NEW k \in Nat, j <= k PROVE Joined(i, j) \o Bytes(j, k) = Joined(i, k)
  <2>1. Bytes(0, j) \o Bytes(j, k) = Bytes(0, k)
    <3>1. 0 \in Nat /\ 0 <= j
      OBVIOUS
    <3> QED BY <1>4, <3>1, BytesConcat
  <2>2. Bytes(j, k) \in Seq(Cells)
    BY <1>4, BytesFacts
  <2> DEFINE w == Bytes(j, k)
  <2> HIDE DEF u, v, w
  <2>3. (u \o v) \o w = u \o (v \o w)
    BY <1>1, <2>2, ConcatAssociative, SMTT(30) DEF w
  <2> QED BY <2>1, <2>3 DEF Joined, u, v, w
<1>5. Joined(i, j) # NoFile
  <2>1. SUFFICES ASSUME u \o v = <<Field(0)>> PROVE FALSE
    BY DEF Joined, NoFile
  <2> HIDE DEF u, v
  <2>2. /\ Len(u \o v) = Len(u) + Len(v)
        /\ \A k \in 1..(Len(u) + Len(v)) : (u \o v)[k] = IF k <= Len(u) THEN u[k] ELSE v[k - Len(u)]
    BY <1>1, ConcatProperties, ZenonT(60)
  <2>3. i + j = 1 /\ (u \o v)[1] = Field(0)
    BY <1>1, <2>1, <2>2
  <2>6. Field(0) # [byte |-> 1]
    BY CellKinds
  <2>4. CASE i = 1
    <3>1. (u \o v)[1] = u[1]
      BY <1>1, <2>2, <2>3, <2>4
    <3>2. u[1] = [byte |-> 1]
      BY <1>1, <2>4
    <3> QED BY ONLY <2>3, <2>6, <3>1, <3>2
  <2>5. CASE i = 0 /\ j = 1
    <3>1. (u \o v)[1] = v[1]
      BY <1>1, <2>2, <2>3, <2>5
    <3>2. v[1] = [byte |-> 1]
      BY <1>1, <2>5
    <3> QED BY ONLY <2>3, <2>6, <3>1, <3>2
  <2> QED BY <2>3, <2>4, <2>5
<1> QED BY <1>3, <1>4, <1>5

InChunksM == project = "MARIO" /\ size > Whole * MaxChunk

ReachedM == IF client = "code" THEN 0 ELSE IF client = "size" THEN 1 ELSE 2

\* The last chunk is behind a server that has sent all.
AllSent(b) == calm /\ server = "sent" =>
  \E c \in Nat : b + Len(wire) = Start(3, size, c) /\ Ends(size, c) = size

\* What chunks up to the n-th leave, after what an earlier download has left.
SavedUpTo(n) == \E i \in 0..size :
  /\ downloads = 1 => i = 0
  /\ saved = Joined(i, Ends(size, n)) \/ (saved = NoFile /\ n = 0)
SavedSome == saved = NoFile \/ \E i, j \in 0..size :
  (downloads = 1 => i = 0) /\ saved = Joined(i, j)

ChunksMServer ==
  /\ server \in {"request", "chunks", "sent"} /\ index \in Nat /\ wire \in Seq(Cells)
  /\ server = "request" =>
       wire = <<>> /\ client \in {"code", "failed"} /\ index = 0 /\ sent = 0
  /\ server = "chunks" => sent = Offset(index) /\ Offset(index) <= size

ChunksMClient ==
  /\ client \in {"code", "size", "standard"} =>
       OnTheWay(3, ReachedM) /\ AllSent(ReachedM) /\ SavedUpTo(0)
  /\ client = "chunk" => \E n \in Nat :
       OnTheWay(3, Start(3, size, n)) /\ AllSent(Start(3, size, n)) /\ SavedUpTo(n)
  /\ client = "standard" => remaining = size

ChunksMInv ==
  /\ ChunksMServer /\ ChunksMClient
  /\ client \in {"code", "size", "standard", "chunk"} \cup Ended
  /\ calm /\ client \in {"code", "size", "standard", "chunk"} => open
  /\ SavedSome
  /\ calm /\ client = "saved" /\ downloads = 1 => saved \in {NoFile, File}

LEMMA ChunksMInit == InitX => ChunksMInv
<1> SUFFICES ASSUME InitX PROVE ChunksMInv
  OBVIOUS
<1>1. size \in Nat /\ saved = NoFile /\ client = "code" /\ server = "request" /\ open = TRUE
      /\ index = 0 /\ sent = 0 /\ wire = <<>>
  BY WidthAssumption DEF InitX, Init
<1>2. SavedUpTo(0) /\ SavedSome
  BY <1>1 DEF SavedUpTo, SavedSome
<1> QED BY <1>1, <1>2, WayOfNothing DEF ChunksMInv, ChunksMServer, ChunksMClient, AllSent

LEMMA ChunksMAgain ==
  ASSUME Steady, Same, ChunksMInv, Again
  PROVE  ChunksMInv'
<1>1. size \in Nat
  BY DEF Steady
<1>2. Segment(<<>>, 0, Chunked(3, size)) /\ <<>> \in Seq(Cells)
  BY DEF Segment
<1>3. /\ server' = "request" /\ sent' = 0 /\ index' = 0 /\ wire' = <<>> /\ client' = "code"
      /\ saved' = saved /\ size' = size /\ downloads' = 2 /\ downloads = 1 /\ open' = TRUE
  BY DEF Again
<1>4. ReachedM' = 0
  BY <1>3 DEF ReachedM
<1>5. OnTheWay(3, ReachedM)' /\ AllSent(ReachedM)'
  BY <1>2, <1>3, <1>4 DEF OnTheWay, AllSent
<1>6. saved = NoFile \/ \E j \in 0..size : saved = Joined(j, 0)
  <2>1. ASSUME NEW j \in 0..size, saved = Joined(0, j) PROVE saved = Joined(j, 0)
    BY <1>1, <2>1, JoinedFacts
  <2> QED BY <1>3, <2>1 DEF ChunksMInv, SavedSome
<1>7. Ends(size, 0) = 0 /\ 0 \in 0..size
  BY <1>1, EndsFacts
<1>8. SavedUpTo(0)' /\ SavedSome'
  BY <1>3, <1>6, <1>7 DEF SavedUpTo, SavedSome
<1>9. ChunksMServer'
  BY <1>2, <1>3 DEF ChunksMServer
<1>10. ChunksMClient'
  BY <1>3, <1>5, <1>8 DEF ChunksMClient
<1> QED BY <1>3, <1>8, <1>9, <1>10 DEF ChunksMInv

LEMMA ChunksMOpens ==
  ASSUME Steady, Same, Fits, InChunksM, ChunksMInv, HeaderM
  PROVE  ChunksMInv'
<1>1. size \in Nat /\ size' = size /\ size < SizeField /\ calm' = calm
  BY DEF Steady, Same, Fits
<1>2. /\ wire = <<>> /\ client \in {"code", "failed"} /\ index = 0 /\ sent = 0
      /\ wire \in Seq(Cells)
  BY DEF ChunksMInv, ChunksMServer, HeaderM
<1>3. /\ server' = "chunks" /\ index' = index /\ sent' = sent /\ open' = open /\ downloads' = downloads
      /\ client' = client /\ saved' = saved
      /\ Send(<<Field(101), Field(size % SizeField), Field(MaxChunk)>>)
  BY DEF HeaderM, Serving, Setup, clientVars
<1>4. OnTheWay(3, 0)'
  BY <1>1, <1>2, <1>3, WayOpens
<1>5. wire' \in Seq(Cells)
  BY <1>4 DEF OnTheWay
<1>6. 0 = Offset(0) /\ 0 <= size
  BY <1>1, OffsetNext
<1>7. File' = File
  BY <1>1 DEF File
<1>8. ChunksMServer'
  BY <1>1, <1>2, <1>3, <1>5, <1>6 DEF ChunksMServer
<1>9. client = "code" => ReachedM' = 0
  BY <1>3 DEF ReachedM
<1>10. client = "code" => OnTheWay(3, ReachedM)' /\ AllSent(ReachedM)'
  BY <1>3, <1>4, <1>9 DEF OnTheWay, AllSent
<1>11. SavedSome' /\ (client = "code" => SavedUpTo(0)')
  BY <1>1, <1>3 DEF ChunksMInv, ChunksMClient, SavedSome, SavedUpTo
<1>12. ChunksMClient'
  BY <1>2, <1>3, <1>10, <1>11 DEF ChunksMClient
<1> QED BY <1>1, <1>2, <1>3, <1>7, <1>8, <1>11, <1>12 DEF ChunksMInv

\* What a server that has sent a chunk, or had none left, does to its reader.
LEMMA ChunksMSendsTo ==
  ASSUME Steady, Same, Fits, InChunksM, ChunksMInv, ChunkM, NEW b \in Nat,
         OnTheWay(3, b), calm => open
  PROVE  /\ wire' \in Seq(Cells) /\ Segment(wire', b, Chunked(3, size))
         /\ open /\ server' = "chunks" => b + Len(wire') = Start(3, size, index')
         /\ calm /\ server' = "sent" =>
              \E c \in Nat : b + Len(wire') = Start(3, size, c) /\ Ends(size, c) = size
<1>1. size \in Nat /\ size' = size /\ size < SizeField
  BY DEF Steady, Same, Fits
<1>2. server = "chunks" /\ index \in Nat /\ sent = Offset(index) /\ Offset(index) <= size /\ sent \in Nat
  BY OffsetType DEF ChunksMInv, ChunksMServer, ChunkM
<1>3. /\ index' = index + 1 /\ open' = open
      /\ server' = IF Upto = sent + MaxChunk /\ open THEN "chunks" ELSE "sent"
  BY DEF ChunkM, Serving, Setup
<1>4. Upto = Ends(size, index + 1) /\ sent = Ends(size, index)
  <2>1. Ends(size, index) = Offset(index) /\ Ends(size, index + 1) = Lesser(size, Offset(index) + MaxChunk)
    BY <1>1, <1>2, EndsFacts
  <2> QED BY <1>2, <2>1 DEF Upto
<1>5. Upto = sent + MaxChunk \/ Upto = size
  BY <1>1, <1>2 DEF Upto, Lesser
<1>6. CASE sent < size
  <2>1. Send(ChunkMessage(3, size, index))
    <3>1. /\ <<Field(111), Field(index % IndexField),
              Field((Lesser(size, sent + MaxChunk) - sent) % SizeField)>>
              \o Bytes(sent, Lesser(size, sent + MaxChunk)) = ChunkMessage(3, size, index)
          /\ (Lesser(size, sent + MaxChunk) - sent) % SizeField = Length(size, index)
      BY <1>1, <1>2, <1>6, ChunkCells
    <3>2. Upto - sent = Length(size, index)
      BY <1>4 DEF Length
    <3> QED BY <1>6, <3>1, <3>2 DEF ChunkM, Upto
  <2>2. HasChunk(3, size, index)
    BY <1>2, <1>6 DEF HasChunk
  <2>3. /\ wire' \in Seq(Cells) /\ Segment(wire', b, Chunked(3, size))
        /\ open => b + Len(wire') = Start(3, size, index + 1)
    BY <1>1, <1>2, <1>3, <2>1, <2>2, WayTakesChunk DEF OnTheWay
  <2>4. calm /\ server' = "sent" => open /\ Ends(size, index + 1) = size
    BY <1>3, <1>4, <1>5
  <2>5. index + 1 \in Nat
    BY <1>2
  <2> QED BY <1>3, <2>3, <2>4, <2>5
<1>7. CASE ~(sent < size)
  <2>1. wire' = wire
    BY <1>7 DEF ChunkM
  <2>2. sent = size
    BY <1>1, <1>2, <1>7
  <2>3. Upto # sent + MaxChunk
    BY <1>1, <2>2, WidthAssumption DEF Upto, Lesser
  <2>4. server' = "sent" /\ (calm => b + Len(wire) = Start(3, size, index)) /\ Ends(size, index) = size
    BY <1>2, <1>3, <1>4, <2>2, <2>3 DEF OnTheWay
  <2> QED BY <1>2, <2>1, <2>4 DEF OnTheWay
<1> QED BY <1>6, <1>7

LEMMA ChunksMSends ==
  ASSUME Steady, Same, Fits, InChunksM, ChunksMInv, ChunkM
  PROVE  ChunksMInv'
<1>1. size \in Nat /\ size' = size /\ size < SizeField /\ calm' = calm
  BY DEF Steady, Same, Fits
<1>2. server = "chunks" /\ index \in Nat /\ sent = Offset(index) /\ Offset(index) <= size /\ wire \in Seq(Cells)
  BY DEF ChunksMInv, ChunksMServer, ChunkM
<1>3. /\ index' = index + 1 /\ open' = open /\ sent' = Upto /\ downloads' = downloads
      /\ server' = IF Upto = sent + MaxChunk /\ open THEN "chunks" ELSE "sent"
      /\ client' = client /\ remaining' = remaining /\ saved' = saved
  BY DEF ChunkM, Serving, Setup, clientVars
<1>4. wire' \in Seq(Cells)
  <2>1. \A m \in Int : Field(m) \in Cells
    BY CellKinds
  <2>2. sent \in Nat /\ sent <= Upto /\ Upto \in Nat
    <3>1. sent \in Nat
      BY <1>2, OffsetType
    <3> QED BY <1>1, <1>2, <3>1, WidthAssumption DEF Upto, Lesser
  <2>3. Bytes(sent, Upto) \in Seq(Cells)
    BY <2>2, BytesFacts
  <2>4. CASE sent < size
    <3>1. index % IndexField \in Int
      BY <1>1, <1>2, <2>4, IndexFits
    <3>2. <<Field(111), Field(index % IndexField), Field(Upto - sent)>> \in Seq(Cells)
      BY <2>1, <2>2, <3>1
    <3> DEFINE own == <<Field(111), Field(index % IndexField), Field(Upto - sent)>>
               data == Bytes(sent, Upto)
    <3>3. own \in Seq(Cells) /\ data \in Seq(Cells) /\ Send(own \o data)
      BY <2>3, <2>4, <3>2 DEF ChunkM
    <3> HIDE DEF own, data
    <3>4. own \o data \in Seq(Cells)
      BY <3>3, ConcatProperties, SMTT(30)
    <3> QED BY <1>2, <3>3, <3>4, WireTyped
  <2>5. CASE ~(sent < size)
    BY <1>2, <2>5 DEF ChunkM
  <2> QED BY <2>4, <2>5
<1>5. Upto <= size /\ (Upto = sent + MaxChunk => Upto = Offset(index + 1))
  <2>1. Offset(index + 1) = Offset(index) + MaxChunk /\ Offset(index) \in Nat
    BY <1>2, OffsetNext, OffsetType
  <2> QED BY <1>1, <1>2, <2>1, WidthAssumption DEF Upto, Lesser
<1>6. ChunksMServer'
  BY <1>1, <1>2, <1>3, <1>4, <1>5 DEF ChunksMServer
<1>7. ReachedM' = ReachedM /\ ReachedM \in Nat /\ File' = File
  BY <1>1, <1>3 DEF ReachedM, File
<1>8. calm /\ client \in {"code", "size", "standard", "chunk"} => open
  BY DEF ChunksMInv
<1>9. ASSUME NEW b \in Nat, OnTheWay(3, b), client \in {"code", "size", "standard", "chunk"}
      PROVE  /\ wire' \in Seq(Cells) /\ Segment(wire', b, Chunked(3, size'))
             /\ open' /\ server' = "chunks" => b + Len(wire') = Start(3, size', index')
             /\ calm' /\ server' = "sent" =>
                  \E c \in Nat : b + Len(wire') = Start(3, size', c) /\ Ends(size', c) = size'
  BY <1>1, <1>3, <1>8, <1>9, ChunksMSendsTo
<1>10. \A n : SavedUpTo(n) => SavedUpTo(n)'
  BY <1>1, <1>3 DEF SavedUpTo
<1>11. ASSUME client \in {"code", "size", "standard"}
       PROVE  OnTheWay(3, ReachedM)' /\ AllSent(ReachedM)' /\ SavedUpTo(0)'
  <2>1. OnTheWay(3, ReachedM) /\ SavedUpTo(0)
    BY <1>11 DEF ChunksMInv, ChunksMClient
  <2> QED BY <1>7, <1>9, <1>10, <1>11, <2>1 DEF OnTheWay, AllSent
<1>12. ASSUME client = "chunk"
       PROVE  \E n \in Nat : OnTheWay(3, Start(3, size, n))' /\ AllSent(Start(3, size, n))' /\ SavedUpTo(n)'
  <2>1. PICK n \in Nat : OnTheWay(3, Start(3, size, n)) /\ SavedUpTo(n)
    BY <1>12 DEF ChunksMInv, ChunksMClient
  <2>2. Start(3, size, n) \in Nat
    BY <1>1, StartType
  <2>3. OnTheWay(3, Start(3, size, n))' /\ AllSent(Start(3, size, n))'
    BY <1>1, <1>9, <1>12, <2>1, <2>2 DEF OnTheWay, AllSent
  <2> QED BY <1>10, <2>1, <2>3
<1>13. client = "standard" => remaining' = size'
  BY <1>1, <1>3 DEF ChunksMInv, ChunksMClient
<1>14. ChunksMClient'
  BY <1>3, <1>11, <1>12, <1>13 DEF ChunksMClient
<1>15. SavedSome'
  BY <1>1, <1>3 DEF ChunksMInv, SavedSome
<1> QED BY <1>1, <1>3, <1>6, <1>7, <1>14, <1>15 DEF ChunksMInv

\* Reading keeps what is on its way.
LEMMA ChunksMTakes ==
  ASSUME Same, NEW b \in Nat, NEW k \in Nat, OnTheWay(3, b), AllSent(b), Received(k), Consume(k),
         open' = open, server' = server, index' = index
  PROVE  /\ wire' \in Seq(Cells) /\ Segment(wire', b + k, Chunked(3, size'))
         /\ open' /\ server' = "chunks" => (b + k) + Len(wire') = Start(3, size', index')
         /\ calm' /\ server' = "sent" =>
              \E c \in Nat : (b + k) + Len(wire') = Start(3, size', c) /\ Ends(size', c) = size'
<1>1. size' = size /\ calm' = calm
  BY DEF Same
<1>2. OnTheWay(3, b + k)'
  BY <1>1, WayIsRead
<1>3. wire \in Seq(Cells) /\ k <= Len(wire)
  BY DEF OnTheWay, Received
<1>4. (b + k) + Len(wire') = b + Len(wire)
  <2>1. wire' = SubSeq(wire, k + 1, Len(wire))
    BY DEF Consume
  <2>2. Len(wire') = Len(wire) - k
    BY <1>3, <2>1
  <2> QED BY <1>3, <2>2
<1> QED BY <1>1, <1>2, <1>4 DEF OnTheWay, AllSent

LEMMA ChunksMReads ==
  ASSUME Steady, Same, Fits, InChunksM, ChunksMInv, UNCHANGED serverVars, downloads' = downloads,
         ReadCode \/ ReadSizeM \/ ReadStandard
  PROVE  ChunksMInv'
<1>1. size \in Nat /\ size' = size /\ calm' = calm
  BY DEF Steady, Same
<1>2. /\ client \in {"code", "size", "standard"} /\ Received(1) /\ Consume(1)
      /\ open' = open /\ saved' = saved
      /\ server' = server /\ index' = index /\ sent' = sent
  BY DEF ReadCode, ReadSizeM, ReadStandard, serverVars, Reading, Setup
<1>3. OnTheWay(3, ReachedM) /\ AllSent(ReachedM) /\ SavedUpTo(0)
  BY <1>2 DEF ChunksMInv, ChunksMClient
<1>4. PICK b \in 0..2 : b = ReachedM
  BY <1>2 DEF ReachedM
<1>5. b \in Nat /\ 1 \in Nat
  OBVIOUS
<1>6. /\ wire' \in Seq(Cells) /\ Segment(wire', b + 1, Chunked(3, size'))
      /\ open' /\ server' = "chunks" => (b + 1) + Len(wire') = Start(3, size', index')
      /\ calm' /\ server' = "sent" =>
           \E c \in Nat : (b + 1) + Len(wire') = Start(3, size', c) /\ Ends(size', c) = size'
  <2>1. OnTheWay(3, b) /\ AllSent(b)
    BY <1>3, <1>4
  <2> QED BY <1>2, <1>5, <2>1, ChunksMTakes
<1>7. wire[1] = Header(size)[b + 1]
  <2>1. OnTheWay(3, b) /\ 1 \in 1..(3 - b) /\ 1 <= Len(wire)
    BY <1>2, <1>3, <1>4 DEF Received, OnTheWay
  <2> QED BY <1>1, <2>1, WayHeader
<1>8. server # "request"
  <2>1. server = "request" => wire = <<>>
    BY DEF ChunksMInv, ChunksMServer
  <2> QED BY <1>2, <2>1 DEF Received
<1>9. ChunksMServer'
  BY <1>1, <1>2, <1>6, <1>8 DEF ChunksMInv, ChunksMServer
<1>10. SavedUpTo(0)' /\ SavedSome' /\ (calm' /\ client \in {"code", "size", "standard"} => open')
  BY <1>1, <1>2, <1>3 DEF SavedUpTo, SavedSome, ChunksMInv
<1>11. CASE ReadCode
  <2>1. client = "code" /\ b = 0
    BY <1>4, <1>11 DEF ReadCode, ReachedM
  <2>2. wire[1] = Field(101) /\ Field(101) # Field(112)
    BY <1>7, <2>1, CellKinds DEF Header
  <2>3. client' = "size"
    BY <1>11, <2>2 DEF ReadCode
  <2>4. ReachedM' = b + 1
    BY <2>1, <2>3 DEF ReachedM
  <2>5. OnTheWay(3, ReachedM)' /\ AllSent(ReachedM)'
    BY <1>6, <2>4 DEF OnTheWay, AllSent
  <2>6. ChunksMClient'
    BY <1>10, <2>3, <2>5 DEF ChunksMClient
  <2> QED BY <1>2, <1>9, <1>10, <2>3, <2>6 DEF ChunksMInv
<1>12. CASE ReadSizeM
  <2>1. client = "size" /\ b = 1
    BY <1>4, <1>12 DEF ReadSizeM, ReachedM
  <2>2. wire[1] = Field(size)
    BY <1>7, <2>1 DEF Header
  <2>3. remaining' = size
    BY <1>1, <1>12, <2>2, CellKinds DEF ReadSizeM
  <2>4. client' = "standard"
    BY <1>12, <2>3 DEF ReadSizeM, InChunksM
  <2>5. ReachedM' = b + 1
    BY <2>1, <2>4 DEF ReachedM
  <2>6. OnTheWay(3, ReachedM)' /\ AllSent(ReachedM)'
    BY <1>6, <2>5 DEF OnTheWay, AllSent
  <2>7. ChunksMClient'
    BY <1>1, <1>10, <2>3, <2>4, <2>6 DEF ChunksMClient
  <2> QED BY <1>2, <1>9, <1>10, <2>4, <2>7 DEF ChunksMInv
<1>13. CASE ReadStandard
  <2>1. client = "standard" /\ b = 2 /\ client' = "chunk"
    BY <1>4, <1>13 DEF ReadStandard, ReachedM
  <2>2. Start(3, size, 0) = 3 /\ b + 1 = 3
    BY <1>1, <2>1, StartFacts
  <2>3. OnTheWay(3, Start(3, size, 0))' /\ AllSent(Start(3, size, 0))'
    BY <1>1, <1>6, <2>2 DEF OnTheWay, AllSent
  <2>4. ChunksMClient'
    <3>1. 0 \in Nat
      OBVIOUS
    <3> QED BY <1>10, <2>1, <2>3, <3>1 DEF ChunksMClient
  <2> QED BY <1>2, <1>9, <1>10, <2>1, <2>4 DEF ChunksMInv
<1> QED BY <1>11, <1>12, <1>13

LEMMA ChunksMReadsChunk ==
  ASSUME Steady, Same, Fits, InChunksM, ChunksMInv, ReadChunkM
  PROVE  ChunksMInv'
<1>1. size \in Nat /\ size' = size /\ calm' = calm
  BY DEF Steady, Same
<1>2. /\ client = "chunk" /\ Received(3) /\ Received(3 + wire[3].field) /\ Consume(3 + wire[3].field)
      /\ saved' = (IF saved = NoFile THEN <<>> ELSE saved) \o SubSeq(wire, 4, 3 + wire[3].field)
      /\ client' = client /\ server' = server /\ index' = index /\ sent' = sent
      /\ open' = open /\ downloads' = downloads
  BY DEF ReadChunkM, ChunkReceived, Reading, Setup, serverVars
<1>3. PICK n \in Nat :
         OnTheWay(3, Start(3, size, n)) /\ AllSent(Start(3, size, n)) /\ SavedUpTo(n)
  BY <1>2 DEF ChunksMInv, ChunksMClient
<1> DEFINE m == Length(size, n)
           b == Start(3, size, n)
           w == wire
           e == Ends(size, n)
           f == Ends(size, n + 1)
<1>4. m \in Nat /\ b \in Nat /\ e \in Nat /\ f \in Nat /\ f = e + m /\ e <= f /\ n + 1 \in Nat
  <2>1. m \in Nat /\ e \in Nat /\ f \in Nat /\ f = e + m
    BY <1>1, LengthFacts
  <2>2. b \in Nat
    BY <1>1, StartType
  <2> HIDE DEF m, b, e, f
  <2> QED BY <2>1, <2>2
<1>5. w \in Seq(Cells) /\ Segment(w, b, Chunked(3, size)) /\ 3 <= Len(w) /\ 3 \in {2, 3}
  BY <1>2, <1>3 DEF OnTheWay, Received
<1>6. /\ wire[3] = Field(m)
      /\ 3 + m <= Len(w) => SubSeq(w, 3 + 1, 3 + m) = Bytes(e, f)
  <2> HIDE DEF w
  <2>1. /\ w[3] = Field(m)
        /\ 3 + m <= Len(w) => SubSeq(w, 3 + 1, 3 + m) = Bytes(e, f)
    BY <1>1, <1>5, ChunkRead
  <2> QED BY <2>1 DEF w
<1>7. wire[3].field = m
  BY <1>4, <1>6, CellKinds
<1>8. Received(3 + m) /\ Consume(3 + m) /\ 3 + m <= Len(w)
  BY <1>2, <1>7 DEF Received
<1>9. saved' = (IF saved = NoFile THEN <<>> ELSE saved) \o Bytes(e, f)
  <2>1. SubSeq(wire, 4, 3 + m) = Bytes(e, f)
    BY <1>6, <1>8
  <2> HIDE DEF e, f, m
  <2> QED BY <1>2, <1>7, <2>1
<1>10. SavedUpTo(n + 1)'
  <2>1. PICK i \in 0..size : /\ downloads = 1 => i = 0
                             /\ saved = Joined(i, e) \/ (saved = NoFile /\ n = 0)
    BY <1>3 DEF SavedUpTo
  <2>2. CASE saved = Joined(i, e)
    <3>1. i \in Nat
      BY <1>1
    <3>2. saved # NoFile /\ Joined(i, e) \o Bytes(e, f) = Joined(i, f)
      <4> HIDE DEF e, f
      <4>1. e \in Nat /\ f \in Nat /\ e <= f
        BY <1>4
      <4>2. /\ Joined(i, e) # NoFile
            /\ \A k \in Nat : e <= k => Joined(i, e) \o Bytes(e, k) = Joined(i, k)
        BY ONLY <3>1, <4>1, JoinedFacts
      <4> QED BY ONLY <2>2, <4>1, <4>2
    <3>3. saved' = Joined(i, f)
      BY <1>9, <2>2, <3>2
    <3> QED BY <1>1, <1>2, <2>1, <3>3 DEF SavedUpTo
  <2>3. CASE saved = NoFile /\ n = 0
    <3>1. e = 0
      BY <1>1, <2>3, EndsFacts
    <3>2. <<>> \o Bytes(0, f) = Joined(0, f)
      <4> HIDE DEF f
      <4> QED BY <1>4, JoinedFacts
    <3>3. saved' = Joined(0, f)
      BY <1>9, <2>3, <3>1, <3>2
    <3>4. 0 \in 0..size
      BY <1>1
    <3> QED BY <1>1, <3>3, <3>4 DEF SavedUpTo
  <2> QED BY <2>1, <2>2, <2>3
<1>11. SavedSome'
  <2>1. PICK i \in 0..size : /\ downloads' = 1 => i = 0
                             /\ saved' = Joined(i, f) \/ (saved' = NoFile /\ n + 1 = 0)
    BY <1>1, <1>10 DEF SavedUpTo
  <2>2. n + 1 # 0
    OBVIOUS
  <2>3. f \in 0..size
    <3>1. f <= size
      BY <1>1, <1>4, EndsFacts
    <3> HIDE DEF f
    <3> QED BY <1>1, <1>4, <3>1
  <2> QED BY <1>1, <2>1, <2>2, <2>3 DEF SavedSome
<1>12. Start(3, size, n + 1) = b + (3 + m)
  <2>1. Start(3, size, n + 1) = b + 3 + m
    BY <1>1, StartFacts DEF Length
  <2> HIDE DEF b, m
  <2> QED BY <1>4, <2>1
<1>13. /\ wire' \in Seq(Cells) /\ Segment(wire', b + (3 + m), Chunked(3, size'))
       /\ open' /\ server' = "chunks" => (b + (3 + m)) + Len(wire') = Start(3, size', index')
       /\ calm' /\ server' = "sent" =>
            \E c \in Nat : (b + (3 + m)) + Len(wire') = Start(3, size', c) /\ Ends(size', c) = size'
  <2> DEFINE k == 3 + m
  <2>1. k \in Nat /\ OnTheWay(3, b) /\ AllSent(b) /\ Received(k) /\ Consume(k)
    BY <1>3, <1>4, <1>8
  <2>2. \A l \in Nat : OnTheWay(3, b) /\ AllSent(b) /\ Received(l) /\ Consume(l) =>
       /\ wire' \in Seq(Cells) /\ Segment(wire', b + l, Chunked(3, size'))
       /\ open' /\ server' = "chunks" => (b + l) + Len(wire') = Start(3, size', index')
       /\ calm' /\ server' = "sent" =>
            \E c \in Nat : (b + l) + Len(wire') = Start(3, size', c) /\ Ends(size', c) = size'
    BY <1>2, <1>4, ChunksMTakes
  <2> HIDE DEF k, b
  <2>3. /\ wire' \in Seq(Cells) /\ Segment(wire', b + k, Chunked(3, size'))
        /\ open' /\ server' = "chunks" => (b + k) + Len(wire') = Start(3, size', index')
        /\ calm' /\ server' = "sent" =>
            \E c \in Nat : (b + k) + Len(wire') = Start(3, size', c) /\ Ends(size', c) = size'
    BY <2>1, <2>2
  <2> QED BY <2>3 DEF k
<1>14. OnTheWay(3, Start(3, size, n + 1))' /\ AllSent(Start(3, size, n + 1))'
  <2> HIDE DEF b, m
  <2> QED BY <1>1, <1>12, <1>13 DEF OnTheWay, AllSent
<1>15. server # "request" /\ ChunksMServer /\ (calm => open)
  BY <1>2 DEF ChunksMInv, ChunksMServer
<1>16. ChunksMServer'
  BY <1>1, <1>2, <1>13, <1>15 DEF ChunksMServer
<1>17. ChunksMClient'
  BY <1>1, <1>2, <1>4, <1>10, <1>14 DEF ChunksMClient
<1> HIDE DEF m, b, w, e, f
<1> QED BY <1>1, <1>2, <1>11, <1>15, <1>16, <1>17 DEF ChunksMInv

\* The second without a chunk comes, when all is calm, after the last chunk.
LEMMA ChunksMStops ==
  ASSUME Steady, Same, Fits, InChunksM, ChunksMInv, SecondWithout
  PROVE  ChunksMInv'
<1>1. size \in Nat /\ size' = size /\ calm' = calm /\ File' = File
  BY DEF Steady, Same, File
<1>2. /\ client = "chunk" /\ wire = <<>> /\ open /\ (calm => server = "sent")
      /\ client' = "saved" /\ saved' = saved /\ wire' = wire /\ downloads' = downloads
      /\ server' = server /\ index' = index /\ sent' = sent
  BY DEF SecondWithout, Reading, Setup, serverVars
<1>3. PICK n \in Nat :
         OnTheWay(3, Start(3, size, n)) /\ AllSent(Start(3, size, n)) /\ SavedUpTo(n)
  BY <1>2 DEF ChunksMInv, ChunksMClient
<1>4. ASSUME calm, downloads = 1 PROVE saved \in {NoFile, File}
  <2>1. Start(3, size, n) \in Nat
    BY <1>1, StartType
  <2>2. PICK c \in Nat : Start(3, size, n) + Len(wire) = Start(3, size, c) /\ Ends(size, c) = size
    BY <1>2, <1>3, <1>4 DEF AllSent
  <2>3. Start(3, size, n) = Start(3, size, c)
    BY <1>2, <2>1, <2>2
  <2>4. ~(n < c)
    <3>1. SUFFICES ASSUME n < c PROVE FALSE
      OBVIOUS
    <3>2. /\ Start(3, size, n + 1) <= Start(3, size, c)
          /\ Start(3, size, n + 1) = Start(3, size, n) + 3 + Length(size, n)
      BY <1>1, <3>1, StartFacts DEF Length
    <3>3. Length(size, n) \in Nat
      BY <1>1, LengthFacts
    <3> QED BY ONLY <2>1, <2>3, <3>2, <3>3
  <2>5. Ends(size, n) = size
    <3>1. Ends(size, c) <= Ends(size, n)
      BY <1>1, <2>4, EndsGrow
    <3>2. Ends(size, n) \in Nat /\ Ends(size, n) <= size
      BY <1>1, EndsFacts
    <3> QED BY <1>1, <2>2, <3>1, <3>2
  <2>6. saved = Joined(0, size) \/ saved = NoFile
    BY <1>3, <1>4, <2>5 DEF SavedUpTo
  <2> QED BY <1>1, <2>6, JoinedFacts DEF File
<1>5. ChunksMServer'
  BY <1>1, <1>2 DEF ChunksMInv, ChunksMServer
<1>6. ChunksMClient' /\ SavedSome'
  BY <1>1, <1>2 DEF ChunksMClient, ChunksMInv, SavedSome
<1> QED BY <1>1, <1>2, <1>4, <1>5, <1>6 DEF ChunksMInv, Ended

LEMMA ChunksMNext ==
  ASSUME Steady, Same, Fits, InChunksM, shared, ChunksMInv, [NextX]_varsX
  PROVE  ChunksMInv'
<1>1. size \in Nat /\ size' = size /\ calm' = calm /\ File' = File
  BY DEF Steady, Same, File
<1>2. CASE UNCHANGED varsX
  BY <1>1, <1>2 DEF varsX, vars, ChunksMInv, ChunksMServer, ChunksMClient, ReachedM, OnTheWay,
     AllSent, SavedUpTo, SavedSome
<1>3. CASE ~calm /\ Cut /\ downloads' = downloads
  <2>1. wire' \in Seq(Cells) /\ (wire = <<>> => wire' = <<>>)
    BY <1>3, WireTyped DEF ChunksMInv, ChunksMServer
  <2>2. /\ server' = server /\ index' = index /\ sent' = sent /\ open' = FALSE
        /\ client' = client /\ remaining' = remaining /\ saved' = saved
    BY <1>3 DEF Cut, serverVars, clientVars
  <2>3. ReachedM' = ReachedM
    BY <2>2 DEF ReachedM
  <2>4. \A b : OnTheWay(3, b) => wire' \in Seq(Cells) /\ Segment(wire', b, Chunked(3, size))
    BY <1>1, <1>3, WayIsCut DEF OnTheWay
  <2>6. OnTheWay(3, ReachedM) => OnTheWay(3, ReachedM)' /\ AllSent(ReachedM)'
    BY <1>1, <1>3, <2>2, <2>3, <2>4 DEF OnTheWay, AllSent
  <2>7. ASSUME NEW n \in Nat, OnTheWay(3, Start(3, size, n)), SavedUpTo(n)
        PROVE  OnTheWay(3, Start(3, size, n))' /\ AllSent(Start(3, size, n))' /\ SavedUpTo(n)'
    BY <1>1, <1>3, <2>2, <2>4, <2>7 DEF OnTheWay, AllSent, SavedUpTo
  <2>8. SavedUpTo(0) => SavedUpTo(0)'
    BY <1>1, <1>3, <2>2 DEF SavedUpTo
  <2>9. ChunksMServer'
    BY <1>1, <2>1, <2>2 DEF ChunksMInv, ChunksMServer
  <2>10. ChunksMClient'
    <3>1. client \in {"code", "size", "standard"} =>
            OnTheWay(3, ReachedM)' /\ AllSent(ReachedM)' /\ SavedUpTo(0)'
      BY <2>6, <2>8 DEF ChunksMInv, ChunksMClient
    <3>2. client = "chunk" => \E n \in Nat :
            OnTheWay(3, Start(3, size, n))' /\ AllSent(Start(3, size, n))' /\ SavedUpTo(n)'
      BY <2>7 DEF ChunksMInv, ChunksMClient
    <3>3. client = "standard" => remaining = size
      BY DEF ChunksMInv, ChunksMClient
    <3> QED BY <1>1, <2>2, <3>1, <3>2, <3>3 DEF ChunksMClient
  <2> QED BY <1>1, <1>3, <2>2, <2>9, <2>10 DEF ChunksMInv, SavedSome
<1>4. CASE (Lost /\ downloads' = downloads) \/ CodeLate
  <2>1. /\ client' = "failed" /\ wire' = wire /\ saved' = saved /\ downloads' = downloads
        /\ server' = server /\ index' = index /\ sent' = sent
    BY <1>4 DEF Lost, CodeLate, Reading, Setup, serverVars
  <2>2. ChunksMServer'
    BY <1>1, <2>1 DEF ChunksMInv, ChunksMServer
  <2> QED BY <1>1, <2>1, <2>2 DEF ChunksMInv, ChunksMClient, SavedSome, Ended
<1>5. CASE CloseM
  <2>1. /\ server = "sent" /\ open' = FALSE /\ client' = client /\ wire' = wire /\ saved' = saved
        /\ downloads' = downloads /\ remaining' = remaining
        /\ server' = server /\ index' = index /\ sent' = sent
        /\ calm => client \in Ended \cup {"single"}
    BY <1>5 DEF CloseM, serverVars, clientVars
  <2>2. ReachedM' = ReachedM
    BY <2>1 DEF ReachedM
  <2>3. OnTheWay(3, ReachedM) /\ AllSent(ReachedM) => OnTheWay(3, ReachedM)' /\ AllSent(ReachedM)'
    BY <1>1, <2>1, <2>2 DEF OnTheWay, AllSent
  <2>4. ASSUME NEW n \in Nat, OnTheWay(3, Start(3, size, n)), AllSent(Start(3, size, n)), SavedUpTo(n)
        PROVE  OnTheWay(3, Start(3, size, n))' /\ AllSent(Start(3, size, n))' /\ SavedUpTo(n)'
    BY <1>1, <2>1, <2>4 DEF OnTheWay, AllSent, SavedUpTo
  <2>5. SavedUpTo(0) => SavedUpTo(0)'
    BY <1>1, <2>1 DEF SavedUpTo
  <2>6. ChunksMClient'
    <3>1. client \in {"code", "size", "standard"} =>
            OnTheWay(3, ReachedM)' /\ AllSent(ReachedM)' /\ SavedUpTo(0)'
      BY <2>3, <2>5 DEF ChunksMInv, ChunksMClient
    <3>2. client = "chunk" => \E n \in Nat :
            OnTheWay(3, Start(3, size, n))' /\ AllSent(Start(3, size, n))' /\ SavedUpTo(n)'
      BY <2>4 DEF ChunksMInv, ChunksMClient
    <3>3. client = "standard" => remaining = size
      BY DEF ChunksMInv, ChunksMClient
    <3> QED BY <1>1, <2>1, <3>1, <3>2, <3>3 DEF ChunksMClient
  <2>7. ~(calm /\ client \in {"code", "size", "standard", "chunk"})
    BY <2>1 DEF Ended
  <2>8. ChunksMServer'
    BY <1>1, <2>1 DEF ChunksMInv, ChunksMServer
  <2> QED BY <1>1, <2>1, <2>6, <2>7, <2>8 DEF ChunksMInv, SavedSome
<1>6. ~WholeM /\ ~SendNotFound /\ ~ReadSingleM
  <2>1. ~Small
    BY <1>1, WidthAssumption, WholeAssumption DEF InChunksM, Small
  <2> QED BY <2>1 DEF WholeM, SendNotFound, ReadSingleM, ChunksMInv, Ended
<1>7. CASE (ReadCode \/ ReadSizeM \/ ReadStandard) /\ downloads' = downloads
  <2>1. UNCHANGED serverVars
    BY <1>7 DEF ReadCode, ReadSizeM, ReadStandard, Reading
  <2> QED BY <1>7, <2>1, ChunksMReads
<1>8. NextX => downloads' = downloads \/ Again
  BY DEF NextX, ServeX, ReceiveX, CutX, NotFound3, Header3, Chunk3, WholeM, HeaderM, ChunkM, CloseM,
     NotFound1, Header1, Whole1, Chunk1, ReadCode3, ReadSizes, ReadPiece, Rebuild, Lost3, CodeLate,
     ReadSizeM, ReadSingleM, ReadChunkM, SecondWithout, Hear1, Serving, Reading, Setup
<1>9. (StepsM /\ downloads' = downloads) \/ (~calm /\ Cut /\ downloads' = downloads) \/ Again
      \/ UNCHANGED varsX
  BY <1>8, StepsByProject DEF InChunksM
<1> QED BY <1>2, <1>3, <1>4, <1>5, <1>6, <1>7, <1>9, ChunksMAgain, ChunksMOpens, ChunksMSends,
           ChunksMReadsChunk, ChunksMStops DEF StepsM

-----------------------------------------------------------------------------
(* RESOLUCION1, a file of less than Limit bytes: the header, and the file      *)
(* after a text of three cells of its own, the last of which stays with it.    *)

TextOwn == <<Field(101), Field(size), Field(MaxChunk), Field(111), Field(-1), Field(size)>>
TextStream == TextOwn \o File
Says == <<Field(size)>> \o File

InText == project = "RESOLUCION1" /\ Small1
InPart == project = "RESOLUCION1" /\ ~Small1

LEMMA TextFacts ==
  ASSUME size \in Nat
  PROVE  /\ TextStream \in Seq(Cells) /\ Len(TextStream) = 6 + size
         /\ \A i \in 1..6 : TextStream[i] = TextOwn[i]
         /\ \A k \in 1..size : TextStream[6 + k] = [byte |-> k]
         /\ Says \in Seq(Cells) /\ Len(Says) = 1 + size
         /\ \A i \in 1..(1 + size) : Says[i] = TextStream[5 + i]
         /\ File \in Seq(Cells) /\ Len(File) = size
<1> DEFINE own == TextOwn
           one == <<Field(size)>>
<1>1. own \in Seq(Cells) /\ Len(own) = 6 /\ own[6] = Field(size)
  BY CellKinds, WidthAssumption DEF TextOwn
<1>2. one \in Seq(Cells) /\ Len(one) = 1 /\ one[1] = Field(size)
  BY CellKinds
<1>3. File \in Seq(Cells) /\ Len(File) = size /\ \A k \in 1..size : File[k] = [byte |-> k]
  BY BytesFacts DEF File
<1> HIDE DEF own, one
<1>4. /\ own \o File \in Seq(Cells) /\ Len(own \o File) = 6 + size
      /\ \A i \in 1..(6 + size) : (own \o File)[i] = IF i <= 6 THEN own[i] ELSE File[i - 6]
  <2>1. /\ own \o File \in Seq(Cells) /\ Len(own \o File) = Len(own) + Len(File)
        /\ \A i \in 1..(Len(own) + Len(File)) :
              (own \o File)[i] = IF i <= Len(own) THEN own[i] ELSE File[i - Len(own)]
    BY <1>1, <1>3, ConcatProperties, ZenonT(60)
  <2> QED BY ONLY <2>1, <1>1, <1>3
<1>5. /\ one \o File \in Seq(Cells) /\ Len(one \o File) = 1 + size
      /\ \A i \in 1..(1 + size) : (one \o File)[i] = IF i <= 1 THEN one[i] ELSE File[i - 1]
  <2>1. /\ one \o File \in Seq(Cells) /\ Len(one \o File) = Len(one) + Len(File)
        /\ \A i \in 1..(Len(one) + Len(File)) :
              (one \o File)[i] = IF i <= Len(one) THEN one[i] ELSE File[i - Len(one)]
    BY <1>2, <1>3, ConcatProperties, ZenonT(60)
  <2> QED BY ONLY <2>1, <1>2, <1>3
<1>6. ASSUME NEW k \in 1..size PROVE (own \o File)[6 + k] = [byte |-> k]
  <2>1. 6 + k \in 1..(6 + size) /\ ~(6 + k <= 6) /\ (6 + k) - 6 = k
    OBVIOUS
  <2> QED BY <1>3, <1>4, <2>1
<1>7. ASSUME NEW i \in 1..6 PROVE (own \o File)[i] = own[i]
  <2>1. i \in 1..(6 + size) /\ i <= 6
    OBVIOUS
  <2> QED BY <1>4, <2>1
<1>8. ASSUME NEW i \in 1..(1 + size) PROVE (one \o File)[i] = (own \o File)[5 + i]
  <2>1. CASE i = 1
    <3>1. 5 + i = 6 /\ 6 \in 1..6 /\ i <= 1
      BY <2>1
    <3>2. (one \o File)[i] = one[1]
      BY <1>5, <2>1, <3>1
    <3>3. (own \o File)[5 + i] = own[6]
      BY <1>7, <3>1
    <3> QED BY ONLY <1>1, <1>2, <3>2, <3>3
  <2>2. CASE i # 1
    <3>1. PICK k \in 1..size : i = 1 + k
      <4>1. i - 1 \in 1..size /\ i = 1 + (i - 1)
        BY <2>2
      <4> QED BY <4>1
    <3>2. 6 + k = 5 + i /\ ~(i <= 1) /\ i - 1 = k
      BY <3>1
    <3>3. (own \o File)[5 + i] = [byte |-> k]
      BY <1>6, <3>2
    <3>4. (one \o File)[i] = [byte |-> k]
      BY <1>3, <1>5, <3>2
    <3> QED BY ONLY <3>3, <3>4
  <2> QED BY <2>1, <2>2
<1> QED BY <1>3, <1>4, <1>5, <1>6, <1>7, <1>8 DEF own, one, TextStream, Says

\* What is saved is the beginning of what the server says.
SavedSays ==
  saved = NoFile \/ /\ saved \in Seq(Cells) /\ Len(saved) <= 1 + size
                    /\ \A i \in 1..Len(saved) : saved[i] = Says[i]

TextWay(b) ==
  /\ wire \in Seq(Cells) /\ Segment(wire, b, CellsOf(TextStream)) /\ (b = 0 \/ 3 <= b)
  /\ server = "request" => wire = <<>> /\ b = 0
  /\ server = "whole" /\ open => b + Len(wire) = 3

TextInv ==
  /\ client \in {"code", "failed"} /\ server \in {"request", "whole", "sent"}
  /\ client = "code" => \E b \in Nat : TextWay(b)
  /\ SavedSays

LEMMA TextInit == InitX => TextInv
<1>1. InitX => TextWay(0)
  BY DEF InitX, Init, TextWay, Segment
<1> QED BY <1>1 DEF InitX, Init, TextInv, SavedSays

\* The cells of a message are on the stream.
LEMMA TextSent ==
  ASSUME size \in Nat, NEW b \in Nat, NEW c \in Seq(Cells), wire \in Seq(Cells),
         Segment(wire, b, CellsOf(TextStream)), Send(c),
         open => \A i \in 1..Len(c) : /\ b + Len(wire) + i \in 1..Len(TextStream)
                                      /\ c[i] = TextStream[b + Len(wire) + i]
  PROVE  /\ wire' \in Seq(Cells) /\ Segment(wire', b, CellsOf(TextStream))
         /\ open => Len(wire') = Len(wire) + Len(c)
<1>1. CASE open
  <2>1. ASSUME NEW i \in 1..Len(c) PROVE <<b + Len(wire) + i, c[i]>> \in CellsOf(TextStream)
    <3>1. /\ b + Len(wire) + i \in 1..Len(TextStream) /\ c[i] = TextStream[b + Len(wire) + i]
          /\ b + Len(wire) + i \in Nat
      BY <1>1
    <3>2. c[i] \in Cells
      OBVIOUS
    <3> QED BY <3>1, <3>2 DEF CellsOf
  <2>2. wire' = wire \o c
    BY <1>1 DEF Send
  <2> QED BY <2>1, <2>2, SegmentSent
<1>2. CASE ~open
  BY <1>2 DEF Send
<1> QED BY <1>1, <1>2

LEMMA TextServes ==
  ASSUME Steady, Same, InText, TextInv, shared, Header1 \/ Whole1
  PROVE  TextInv'
<1>1. size \in Nat /\ size' = size /\ Says' = Says /\ TextStream' = TextStream
  BY DEF Steady, Same, Says, TextStream, TextOwn, File
<1>2. client' = client /\ saved' = saved /\ open' = open
  BY DEF Header1, Whole1, Serving, Setup, clientVars
<1>3. SavedSays'
  BY <1>1, <1>2 DEF TextInv, SavedSays
<1>4. /\ Len(TextStream) = 6 + size /\ \A i \in 1..6 : TextStream[i] = TextOwn[i]
      /\ \A k \in 1..size : TextStream[6 + k] = [byte |-> k]
  BY <1>1, TextFacts
<1>5. CASE Header1
  <2> DEFINE c == <<Field(101), Field(size), Field(MaxChunk)>>
  <2>1. /\ c \in Seq(Cells) /\ Len(c) = 3
        /\ \A i \in 1..3 : c[i] = TextOwn[i]
    BY <1>1, CellKinds, WidthAssumption DEF TextOwn
  <2>2. server = "request" /\ Send(c) /\ server' = "whole"
    BY <1>5 DEF Header1, InText
  <2> HIDE DEF c
  <2>3. ASSUME client = "code" PROVE TextWay(0)'
    <3>1. wire = <<>> /\ TextWay(0)
      BY <2>2, <2>3 DEF TextInv, TextWay
    <3>2. wire \in Seq(Cells) /\ Segment(wire, 0, CellsOf(TextStream)) /\ Len(wire) = 0
      BY <3>1 DEF TextWay
    <3>3. \A i \in 1..Len(c) : /\ 0 + Len(wire) + i \in 1..Len(TextStream)
                               /\ c[i] = TextStream[0 + Len(wire) + i]
      <4>1. ASSUME NEW i \in 1..3 PROVE 0 + Len(wire) + i = i /\ i \in 1..6 /\ i \in 1..(6 + size)
        BY <1>1, <3>2
      <4> QED BY <1>4, <2>1, <4>1
    <3>4. 0 \in Nat
      OBVIOUS
    <3>5. /\ wire' \in Seq(Cells) /\ Segment(wire', 0, CellsOf(TextStream))
          /\ open => Len(wire') = Len(wire) + Len(c)
      BY <1>1, <2>1, <2>2, <3>2, <3>3, <3>4, TextSent
    <3> QED BY <1>1, <1>2, <2>1, <2>2, <3>2, <3>5 DEF TextWay
  <2> QED BY <1>2, <1>3, <2>2, <2>3 DEF TextInv
<1>6. CASE Whole1
  <2>1. server = "whole" /\ server' = "sent"
    BY <1>6 DEF Whole1
  <2>2. ASSUME NEW b \in Nat, TextWay(b) PROVE TextWay(b)'
    <3>1. /\ wire \in Seq(Cells) /\ Segment(wire, b, CellsOf(TextStream))
          /\ (open => b + Len(wire) = 3) /\ (b = 0 \/ 3 <= b)
      BY <2>1, <2>2 DEF TextWay
    <3>2. CASE size = 0
      <4> DEFINE c == <<>>
      <4>1. Send(c) /\ c \in Seq(Cells) /\ Len(c) = 0
        BY <1>6, <3>2 DEF Whole1
      <4> HIDE DEF c
      <4>2. 1..Len(c) = {}
        BY <4>1
      <4>3. open => \A i \in 1..Len(c) : /\ b + Len(wire) + i \in 1..Len(TextStream)
                                         /\ c[i] = TextStream[b + Len(wire) + i]
        BY ONLY <4>2
      <4>4. wire' \in Seq(Cells) /\ Segment(wire', b, CellsOf(TextStream))
        BY <1>1, <3>1, <4>1, <4>3, TextSent
      <4> QED BY <1>1, <1>2, <2>1, <3>1, <4>4 DEF TextWay
    <3>3. CASE size # 0
      <4> DEFINE own == <<Field(111), Field(-1), Field(size)>>
      <4>1. /\ own \in Seq(Cells) /\ Len(own) = 3
            /\ \A i \in 1..3 : own[i] = TextOwn[3 + i]
        BY <1>1, CellKinds DEF TextOwn
      <4>2. Send(own \o File)
        <5>1. size < Limit /\ Limit <= Whole * MaxChunk /\ Whole * MaxChunk \in Nat
          BY LimitAssumption, WholeAssumption, WidthAssumption DEF InText, Small1
        <5>2. Lesser(size, Whole * MaxChunk) = size
          <6> DEFINE w == Whole * MaxChunk
          <6> HIDE DEF w
          <6>1. size < Limit /\ Limit <= w /\ w \in Nat /\ Limit \in Nat
            BY <5>1, LimitAssumption DEF w
          <6>2. Lesser(size, w) = size
            BY ONLY <1>1, <6>1 DEF Lesser
          <6> QED BY <6>2 DEF w
        <5> QED BY <1>6, <3>3, <5>2 DEF Whole1, File
      <4> HIDE DEF own
      <4>3. /\ File \in Seq(Cells) /\ Len(File) = size /\ \A k \in 1..size : File[k] = [byte |-> k]
        BY <1>1, BytesFacts DEF File
      <4>4. /\ own \o File \in Seq(Cells) /\ Len(own \o File) = 3 + size
            /\ \A i \in 1..(3 + size) : (own \o File)[i] = IF i <= 3 THEN own[i] ELSE File[i - 3]
        <5>1. /\ own \o File \in Seq(Cells) /\ Len(own \o File) = Len(own) + Len(File)
              /\ \A i \in 1..(Len(own) + Len(File)) :
                    (own \o File)[i] = IF i <= Len(own) THEN own[i] ELSE File[i - Len(own)]
          BY <4>1, <4>3, ConcatProperties, ZenonT(60)
        <5> QED BY ONLY <5>1, <4>1, <4>3
      <4>5. ASSUME NEW i \in 1..(3 + size)
            PROVE  3 + i \in 1..(6 + size) /\ (own \o File)[i] = TextStream[3 + i]
        <5>1. CASE i <= 3
          <6>1. i \in 1..3 /\ 3 + i \in 1..6
            BY <1>1, <5>1
          <6> QED BY <1>1, <1>4, <4>1, <4>4, <5>1, <6>1
        <5>2. CASE i > 3
          <6>1. PICK k \in 1..size : k = i - 3
            BY <1>1, <5>2
          <6>2. 6 + k = 3 + i /\ ~(i <= 3)
            BY <1>1, <6>1
          <6>3. (own \o File)[i] = [byte |-> k]
            BY <4>3, <4>4, <6>1, <6>2
          <6>4. TextStream[3 + i] = [byte |-> k]
            BY <1>4, <6>2
          <6>5. 3 + i \in 1..(6 + size)
            BY ONLY <1>1, i \in 1..(3 + size)
          <6> QED BY ONLY <6>3, <6>4, <6>5
        <5>3. i <= 3 \/ i > 3
          BY ONLY <1>1, i \in 1..(3 + size)
        <5> QED BY ONLY <5>1, <5>2, <5>3
      <4> DEFINE c == own \o File
      <4>6. c \in Seq(Cells) /\ Len(c) = 3 + size /\ Send(c)
        BY <4>2, <4>4
      <4>7. open => \A i \in 1..Len(c) : /\ b + Len(wire) + i \in 1..Len(TextStream)
                                         /\ c[i] = TextStream[b + Len(wire) + i]
        BY <1>4, <3>1, <4>5, <4>6
      <4> HIDE DEF c
      <4>8. wire' \in Seq(Cells) /\ Segment(wire', b, CellsOf(TextStream))
        BY <1>1, <3>1, <4>6, <4>7, TextSent
      <4> QED BY <1>1, <1>2, <2>1, <3>1, <4>8 DEF TextWay
    <3> QED BY <3>2, <3>3
  <2> QED BY <1>2, <1>3, <2>1, <2>2 DEF TextInv
<1> QED BY <1>5, <1>6

\* What is written at the beginning of the file.
LEMMA WriteFirst ==
  ASSUME size \in Nat, SavedSays, NEW data \in Seq(Cells), Len(data) <= 1 + size,
         \A i \in 1..Len(data) : data[i] = Says[i]
  PROVE  /\ Pwrite(0, data) \in Seq(Cells) /\ Len(Pwrite(0, data)) <= 1 + size
         /\ \A i \in 1..Len(Pwrite(0, data)) : Pwrite(0, data)[i] = Says[i]
<1> DEFINE old == IF saved = NoFile THEN <<>> ELSE saved
           e == 0 + Len(data)
           top == IF Len(old) > e THEN Len(old) ELSE e
           new == [k \in 1..top |->
                     IF k > 0 /\ k <= e THEN data[k - 0]
                     ELSE IF k <= Len(old) THEN old[k] ELSE Field(0)]
<1>1. /\ old \in Seq(Cells) /\ Len(old) <= 1 + size /\ \A i \in 1..Len(old) : old[i] = Says[i]
  BY DEF SavedSays
<1>2. Pwrite(0, data) = new
  BY DEF Pwrite
<1> HIDE DEF old
<1>3. e = Len(data) /\ e \in Nat /\ Len(old) \in Nat
  BY <1>1
<1>4. top \in Nat /\ top <= 1 + size /\ (\A i \in 1..top : i <= e \/ i <= Len(old))
  BY <1>1, <1>3
<1>5. ASSUME NEW i \in 1..top PROVE new[i] = Says[i]
  <2>1. new[i] = IF i > 0 /\ i <= e THEN data[i - 0]
                 ELSE IF i <= Len(old) THEN old[i] ELSE Field(0)
    OBVIOUS
  <2>2. CASE i <= e
    <3>1. i \in 1..Len(data) /\ i > 0 /\ i - 0 = i
      BY <1>3, <1>4, <2>2
    <3> QED BY <2>1, <2>2, <3>1
  <2>3. CASE ~(i <= e)
    <3>1. i \in 1..Len(old)
      BY <1>3, <1>4, <2>3
    <3> QED BY <1>1, <2>1, <2>3, <3>1
  <2> QED BY <2>2, <2>3
<1>6. Says \in Seq(Cells) /\ Len(Says) = 1 + size
  BY TextFacts
<1> HIDE DEF top
<1>7. new \in [1..top -> Cells]
  <2>1. ASSUME NEW i \in 1..top PROVE new[i] \in Cells
    <3>1. new[i] = Says[i] /\ i \in 1..(1 + size)
      BY <1>4, <1>5
    <3> QED BY <1>6, <3>1
  <2>2. DOMAIN new = 1..top /\ new = [i \in 1..top |-> new[i]]
    OBVIOUS
  <2> HIDE DEF new
  <2> QED BY <2>1, <2>2
<1> HIDE DEF new
<1>8. new \in Seq(Cells) /\ Len(new) = top
  BY <1>4, <1>7
<1> QED BY <1>2, <1>4, <1>5, <1>8

LEMMA TextHears ==
  ASSUME Steady, Same, InText, TextInv, Hear1
  PROVE  TextInv'
<1>1. size \in Nat /\ size' = size /\ Says' = Says /\ TextStream' = TextStream
  BY DEF Steady, Same, Says, TextStream, TextOwn, File
<1>2. client = "code" /\ server' = server /\ open' = open
  BY DEF Hear1, Reading, Setup, serverVars
<1>3. PICK b \in Nat : TextWay(b)
  BY <1>2 DEF TextInv
<1>4. /\ wire \in Seq(Cells) /\ Segment(wire, b, CellsOf(TextStream)) /\ (b = 0 \/ 3 <= b)
      /\ server = "request" => wire = <<>>
      /\ server = "whole" /\ open => b + Len(wire) = 3
  BY <1>3 DEF TextWay
<1>5. /\ TextStream \in Seq(Cells) /\ Len(TextStream) = 6 + size
      /\ \A i \in 1..6 : TextStream[i] = TextOwn[i]
      /\ \A j \in 1..size : TextStream[6 + j] = [byte |-> j]
      /\ \A i \in 1..(1 + size) : Says[i] = TextStream[5 + i]
  BY <1>1, TextFacts
<1>6. \A i \in 1..Len(wire) : b + i \in 1..(6 + size) /\ wire[i] = TextStream[b + i]
  BY <1>4, <1>5, PartOf
<1>7. PICK k \in 1..Len(wire) :
         LET data == SubSeq(wire, 3, k)
             header == k >= 3 /\ wire[1] = Field(101)
             chunk == k >= 3 /\ wire[1] = Field(111) /\ IsNumber(wire[2]) /\ IsNumber(wire[3])
         IN
         /\ Consume(k)
         /\ \/ /\ header
               /\ UNCHANGED <<client, saved>>
            \/ /\ chunk
               /\ saved' = IF wire[2] = Field(-1) THEN Pwrite(0, data)
                           ELSE Pwrite(wire[2].field * wire[3].field, <<wire[3]>>)
               /\ UNCHANGED client
            \/ /\ ~header /\ ~chunk
               /\ client' = "failed" /\ UNCHANGED saved
  BY DEF Hear1
<1>8. Consume(k) /\ server # "request" /\ Len(wire) \in Nat /\ k \in Nat /\ k <= Len(wire) /\ 1 <= k
  BY <1>4, <1>7
<1>9. ASSUME k >= 3 PROVE TextWay(b + k)' /\ b + k \in Nat
  <2>1. wire' = SubSeq(wire, k + 1, Len(wire)) /\ k \in 0..Len(wire)
    BY <1>8 DEF Consume
  <2>2. /\ wire' \in Seq(Cells) /\ Len(wire') = Len(wire) - k
        /\ Segment(wire', b + k, CellsOf(TextStream))
    BY <1>4, <2>1, SegmentRead
  <2>3. 3 <= b + k /\ (b + k) + Len(wire') = b + Len(wire)
    BY <1>8, <1>9, <2>2
  <2>4. wire' \in Seq(Cells) /\ Segment(wire', b + k, CellsOf(TextStream'))
    BY <1>1, <2>2
  <2> QED BY <1>1, <1>2, <1>4, <1>8, <2>3, <2>4 DEF TextWay
<1>10. CASE UNCHANGED <<client, saved>> /\ k >= 3
  BY <1>1, <1>2, <1>9, <1>10 DEF TextInv, SavedSays
<1>11. CASE client' = "failed" /\ UNCHANGED saved
  BY <1>1, <1>2, <1>11 DEF TextInv, SavedSays
<1>12. ASSUME k >= 3, wire[1] = Field(111), IsNumber(wire[2]) PROVE b = 3
  <2>1. /\ b + 1 \in 1..(6 + size) /\ TextStream[b + 1] = Field(111)
        /\ b + 2 \in 1..(6 + size) /\ wire[2] = TextStream[b + 2]
    <3>1. 1 \in 1..Len(wire) /\ 2 \in 1..Len(wire)
      BY <1>8, <1>12
    <3> QED BY <1>6, <1>12, <3>1
  <2>2. /\ TextStream[1] = Field(101) /\ TextStream[5] = Field(-1)
    BY <1>5 DEF TextOwn
  <2>3. b # 0
    BY <2>1, <2>2, CellKinds
  <2>4. b # 4
    BY <2>1, <2>2, CellKinds
  <2>5. b # 5
    <3>1. SUFFICES ASSUME b = 5 PROVE FALSE
      OBVIOUS
    <3>2. 1 \in 1..size /\ b + 2 = 6 + 1
      BY <1>1, <2>1, <3>1
    <3>3. wire[2] = [byte |-> 1]
      BY <1>5, <2>1, <3>2
    <3> QED BY <1>12, <3>3, CellKinds
  <2>6. ~(b >= 6)
    <3>1. SUFFICES ASSUME b >= 6 PROVE FALSE
      OBVIOUS
    <3>2. PICK j \in 1..size : b + 1 = 6 + j
      <4>1. (b + 1) - 6 \in 1..size /\ b + 1 = 6 + ((b + 1) - 6)
        BY <1>1, <2>1, <3>1
      <4> QED BY <4>1
    <3>3. TextStream[b + 1] = [byte |-> j] /\ j \in Nat
      BY <1>5, <3>2
    <3> QED BY <2>1, <3>3, CellKinds
  <2> QED BY <1>4, <2>3, <2>4, <2>5, <2>6
<1>13. CASE /\ k >= 3 /\ wire[1] = Field(111) /\ IsNumber(wire[2]) /\ client' = client
            /\ saved' = IF wire[2] = Field(-1) THEN Pwrite(0, SubSeq(wire, 3, k))
                        ELSE Pwrite(wire[2].field * wire[3].field, <<wire[3]>>)
  <2>1. b = 3
    BY <1>12, <1>13
  <2>2. \A i \in 1..Len(wire) : 3 + i \in 1..(6 + size) /\ wire[i] = TextStream[3 + i]
    BY <1>6, <2>1
  <2>3. wire[2] = Field(-1)
    <3>1. 2 \in 1..Len(wire)
      BY <1>8, <1>13
    <3>2. wire[2] = TextStream[5]
      BY <2>2, <3>1
    <3> QED BY <1>5, <3>2 DEF TextOwn
  <2> DEFINE data == SubSeq(wire, 3, k)
  <2>4. data \in Seq(Cells) /\ Len(data) = k - 2 /\ \A i \in 1..(k - 2) : data[i] = wire[2 + i]
    BY <1>4, <1>8, <1>13
  <2>5. Len(data) <= 1 + size
    <3>1. k \in 1..Len(wire)
      BY <1>8
    <3>2. 3 + k <= 6 + size
      BY <2>2, <3>1
    <3> HIDE DEF data
    <3> QED BY <1>1, <1>8, <2>4, <3>2
  <2>6. ASSUME NEW i \in 1..Len(data) PROVE data[i] = Says[i]
    <3>1. i \in 1..(k - 2) /\ 2 + i \in 1..Len(wire) /\ i \in 1..(1 + size)
      <4> HIDE DEF data
      <4> QED BY <1>1, <1>8, <2>4, <2>5
    <3>2. data[i] = wire[2 + i]
      <4> HIDE DEF data
      <4> QED BY <2>4, <3>1
    <3>3. wire[2 + i] = TextStream[3 + (2 + i)]
      BY <2>2, <3>1
    <3>4. 3 + (2 + i) = 5 + i
      BY <3>1
    <3>5. Says[i] = TextStream[5 + i]
      BY <1>5, <3>1
    <3> HIDE DEF data
    <3> QED BY ONLY <3>2, <3>3, <3>4, <3>5
  <2>7. saved' = Pwrite(0, data)
    BY <1>13, <2>3
  <2> HIDE DEF data
  <2>8. SavedSays
    BY DEF TextInv
  <2>9. /\ saved' \in Seq(Cells) /\ Len(saved') <= 1 + size
        /\ \A i \in 1..Len(saved') : saved'[i] = Says[i]
    BY <1>1, <2>4, <2>5, <2>6, <2>7, <2>8, WriteFirst
  <2>10. SavedSays'
    BY <1>1, <2>9 DEF SavedSays
  <2> QED BY <1>2, <1>9, <1>13, <2>10 DEF TextInv
<1> QED BY <1>7, <1>10, <1>11, <1>13

LEMMA TextNext ==
  ASSUME Steady, Same, InText, shared, TextInv, [NextX]_varsX
  PROVE  TextInv'
<1>1. size \in Nat /\ size' = size /\ Says' = Says /\ TextStream' = TextStream
  BY DEF Steady, Same, Says, TextStream, TextOwn, File
<1>2. CASE UNCHANGED varsX
  <2>1. /\ wire' = wire /\ server' = server /\ open' = open /\ client' = client /\ saved' = saved
    BY <1>2 DEF varsX, vars
  <2>2. ASSUME NEW b \in Nat, TextWay(b) PROVE TextWay(b)'
    BY <1>1, <2>1, <2>2 DEF TextWay
  <2> QED BY <1>1, <2>1, <2>2 DEF TextInv, SavedSays
<1>3. CASE Cut
  <2>1. PICK k \in 0..Len(wire) : wire' = SubSeq(wire, 1, k)
    BY <1>3 DEF Cut
  <2>2. /\ server' = server /\ open' = FALSE /\ client' = client /\ saved' = saved
    BY <1>3 DEF Cut, serverVars, clientVars
  <2>3. ASSUME NEW b \in Nat, TextWay(b) PROVE TextWay(b)'
    <3>1. wire \in Seq(Cells) /\ Segment(wire, b, CellsOf(TextStream)) /\ (b = 0 \/ 3 <= b)
          /\ (server = "request" => wire = <<>> /\ b = 0)
      BY <2>3 DEF TextWay
    <3>2. wire' \in Seq(Cells) /\ Segment(wire', b, CellsOf(TextStream))
      BY <2>1, <3>1, SegmentCut
    <3>3. wire = <<>> => wire' = <<>>
      BY <1>3, <3>1, WireTyped
    <3> QED BY <1>1, <2>2, <3>1, <3>2, <3>3 DEF TextWay
  <2> QED BY <1>1, <2>2, <2>3 DEF TextInv, SavedSays
<1>4. ~NotFound1 /\ ~Chunk1
  BY DEF NotFound1, Chunk1, TextInv
<1>5. Steps1 \/ Cut \/ UNCHANGED varsX
  BY StepsByProject DEF InText
<1> QED BY <1>2, <1>3, <1>4, <1>5, TextServes, TextHears DEF Steps1

-----------------------------------------------------------------------------
(* RESOLUCION1, a longer file: what is taken for a chunk's header is one, once *)
(* p cells of the header are out of the way.                                   *)

Numbers == {Field(n) : n \in Nat}

Headed(w, p) == \A i \in Nat :
  p < i /\ i + 2 <= Len(w) /\ w[i] = Field(111) /\ IsNumber(w[i + 1]) /\ IsNumber(w[i + 2])
    => w[i + 1] \in Numbers /\ w[i + 2] = Field(MaxChunk)

\* Chunks are sent behind a byte or the header.
PartWay(p) ==
  /\ wire \in Seq(Cells) /\ Headed(wire, p)
  /\ p = 3 /\ wire # <<>> => wire[1] = Field(101)
  /\ server = "request" => wire = <<>> /\ p = 3
  /\ open /\ server = "chunks" =>
       p <= Len(wire) /\ (p < Len(wire) => ~IsNumber(wire[Len(wire)]))

Sizes1 == {Field(0), Field(MaxChunk)}

PartInv ==
  /\ client \in {"code", "failed"} /\ server \in {"request", "chunks", "sent"}
  /\ index \in Nat /\ sent \in 0..size
  /\ client = "code" => \E p \in {0, 3} : PartWay(p)
  /\ saved \in Seq(Cells) /\ \A k \in 1..Len(saved) : saved[k] \in Sizes1

LEMMA NumberFacts ==
  /\ \A n \in Nat : Field(n) \in Numbers /\ Field(n).field = n
  /\ \A c \in Numbers : c.field \in Nat /\ c # Field(-1)
  /\ Sizes1 \subseteq Cells
BY CellKinds, WidthAssumption DEF Numbers, Sizes1

LEMMA PartInit == InitX => PartInv
<1> SUFFICES ASSUME InitX PROVE PartInv
  OBVIOUS
<1>1. size \in Nat /\ wire = <<>> /\ server = "request" /\ index = 0 /\ sent = 0 /\ client = "code"
      /\ saved = NoFile
  BY WidthAssumption DEF InitX, Init
<1>2. Headed(<<>>, 3) /\ <<>> \in Seq(Cells)
  BY DEF Headed
<1>3. PartWay(3)
  BY <1>1, <1>2 DEF PartWay
<1>4. Field(0) \in Cells
  BY CellKinds
<1>5. NoFile \in Seq(Cells) /\ \A k \in 1..Len(NoFile) : NoFile[k] \in Sizes1
  BY <1>4 DEF NoFile, Sizes1
<1> QED BY <1>1, <1>3, <1>5 DEF PartInv

LEMMA PartOpens ==
  ASSUME Steady, Same, InPart, PartInv, Header1
  PROVE  PartInv'
<1>1. size \in Nat /\ size' = size
  BY DEF Steady, Same
<1> DEFINE c == <<Field(101), Field(size), Field(MaxChunk)>>
<1>2. /\ server = "request" /\ Send(c) /\ server' = "chunks" /\ index' = index /\ sent' = sent
      /\ client' = client /\ saved' = saved /\ open' = open
  BY DEF Header1, InPart, Serving, Setup, clientVars
<1>3. c \in Seq(Cells) /\ Len(c) = 3 /\ c[1] = Field(101)
  BY <1>1, CellKinds, WidthAssumption
<1> HIDE DEF c
<1>4. ASSUME client = "code" PROVE PartWay(3)'
  <2>1. wire = <<>>
    BY <1>2, <1>4 DEF PartInv, PartWay
  <2>2. <<>> \o c = c
    BY <1>3, ConcatEmptySeq
  <2>3. wire' = <<>> \/ wire' = c
    BY <1>2, <2>1, <2>2 DEF Send
  <2>4. open => wire' = c
    BY <1>2, <2>1, <2>2 DEF Send
  <2>5. Headed(<<>>, 3) /\ Headed(c, 3) /\ <<>> \in Seq(Cells)
    BY <1>3 DEF Headed
  <2>6. wire' \in Seq(Cells) /\ Headed(wire', 3) /\ (wire' # <<>> => wire'[1] = Field(101))
    BY <1>3, <2>3, <2>5
  <2>7. open => Len(wire') = 3
    BY <1>3, <2>4
  <2>8. ASSUME open PROVE 3 <= Len(wire') /\ ~(3 < Len(wire'))
    <3>1. Len(wire') = 3
      BY <2>7, <2>8
    <3> QED BY ONLY <3>1
  <2>9. server' = "chunks" /\ open' = open
    BY <1>2
  <2>10. server' # "request"
    BY <2>9
  <2> QED BY <2>6, <2>8, <2>9, <2>10 DEF PartWay
<1> QED BY <1>1, <1>2, <1>4 DEF PartInv

\* Behind a byte, or where p cells end, a chunk puts no header but its own.
LEMMA HeadedSent ==
  ASSUME NEW w \in Seq(Cells), NEW p \in {0, 3}, Headed(w, p), p <= Len(w),
         p < Len(w) => ~IsNumber(w[Len(w)]),
         NEW c \in Seq(Cells), Headed(c, 0)
  PROVE  w \o c \in Seq(Cells) /\ Headed(w \o c, p)
<1> DEFINE v == w \o c
<1>1. /\ v \in Seq(Cells) /\ Len(v) = Len(w) + Len(c)
      /\ \A i \in 1..(Len(w) + Len(c)) : v[i] = IF i <= Len(w) THEN w[i] ELSE c[i - Len(w)]
  BY ConcatProperties, SMTT(30)
<1> HIDE DEF v
<1>2. ASSUME NEW i \in Nat, p < i, i + 2 <= Len(v), v[i] = Field(111),
             IsNumber(v[i + 1]), IsNumber(v[i + 2])
      PROVE  v[i + 1] \in Numbers /\ v[i + 2] = Field(MaxChunk)
  <2>0. i \in 1..(Len(w) + Len(c)) /\ i + 1 \in 1..(Len(w) + Len(c)) /\ i + 2 \in 1..(Len(w) + Len(c))
        /\ Len(w) \in Nat /\ Len(c) \in Nat
    BY <1>1, <1>2
  <2>1. CASE i + 2 <= Len(w)
    <3>1. v[i] = w[i] /\ v[i + 1] = w[i + 1] /\ v[i + 2] = w[i + 2]
      BY <1>1, <2>0, <2>1
    <3> QED BY <1>2, <2>1, <3>1 DEF Headed
  <2>2. CASE i > Len(w)
    <3>1. PICK l \in Nat : i = Len(w) + l /\ 0 < l
      <4>1. i - Len(w) \in Nat /\ i = Len(w) + (i - Len(w)) /\ 0 < i - Len(w)
        BY <2>0, <2>2
      <4> QED BY <4>1
    <3>2. /\ i - Len(w) = l /\ (i + 1) - Len(w) = l + 1 /\ (i + 2) - Len(w) = l + 2
          /\ ~(i <= Len(w)) /\ ~(i + 1 <= Len(w)) /\ ~(i + 2 <= Len(w))
      BY <2>0, <3>1
    <3>3. v[i] = c[l] /\ v[i + 1] = c[l + 1] /\ v[i + 2] = c[l + 2]
      BY <1>1, <2>0, <3>2
    <3>4. l + 2 <= Len(c)
      BY <1>1, <1>2, <2>0, <3>1
    <3> QED BY <1>2, <3>1, <3>3, <3>4 DEF Headed
  <2>3. CASE i = Len(w)
    <3>1. v[i] = w[Len(w)] /\ p < Len(w)
      BY <1>1, <1>2, <2>0, <2>3
    <3>2. IsNumber(Field(111))
      BY CellKinds
    <3> QED BY <1>2, <3>1, <3>2
  <2>4. CASE i + 1 = Len(w)
    <3>1. v[i + 1] = w[Len(w)] /\ p < Len(w)
      BY <1>1, <1>2, <2>0, <2>4
    <3> QED BY <1>2, <3>1
  <2>5. i + 2 <= Len(w) \/ i > Len(w) \/ i = Len(w) \/ i + 1 = Len(w)
    BY <2>0
  <2> QED BY <2>1, <2>2, <2>3, <2>4, <2>5
<1> QED BY <1>1, <1>2 DEF v, Headed

LEMMA PartSends ==
  ASSUME Steady, Same, InPart, PartInv, Chunk1
  PROVE  PartInv'
<1>1. size \in Nat /\ size' = size /\ MaxChunk \in Nat \ {0}
  BY WidthAssumption DEF Steady, Same
<1>2. /\ server = "chunks" /\ index' = index + 1 /\ sent' = Upto
      /\ server' = IF sent < size /\ open THEN "chunks" ELSE "sent"
      /\ client' = client /\ saved' = saved /\ open' = open
      /\ index \in Nat /\ sent \in 0..size
  BY DEF Chunk1, Serving, Setup, clientVars, PartInv
<1>3. Upto \in 0..size /\ (sent < size => sent < Upto)
  BY <1>1, <1>2 DEF Upto, Lesser
<1> DEFINE c == IF sent = size THEN <<Field(111), Field(-2)>>
                ELSE <<Field(111), Field(index), Field(MaxChunk)>> \o Bytes(sent, Upto)
<1>4. Send(c)
  BY DEF Chunk1
<1>5. /\ c \in Seq(Cells) /\ Headed(c, 0)
      /\ sent < size => 0 < Len(c) /\ ~IsNumber(c[Len(c)])
  <2>1. CASE sent = size
    <3> DEFINE d == <<Field(111), Field(-2)>>
    <3>1. d \in Seq(Cells) /\ Len(d) = 2
      BY CellKinds
    <3> HIDE DEF d
    <3>2. Headed(d, 0)
      BY <3>1 DEF Headed
    <3>3. c = d /\ ~(sent < size)
      BY <1>1, <2>1 DEF d
    <3> HIDE DEF c
    <3> QED BY <3>1, <3>2, <3>3
  <2>2. CASE sent # size
    <3> DEFINE own == <<Field(111), Field(index), Field(MaxChunk)>>
               data == Bytes(sent, Upto)
               m == Upto - sent
    <3>1. /\ own \in Seq(Cells) /\ Len(own) = 3 /\ own[2] = Field(index) /\ own[3] = Field(MaxChunk)
      BY <1>1, <1>2, CellKinds
    <3>2. sent \in Nat /\ Upto \in Nat /\ sent < Upto /\ m \in Nat /\ 0 < m
      BY <1>1, <1>2, <1>3, <2>2
    <3>3. data \in Seq(Cells) /\ Len(data) = m /\ \A k \in 1..m : data[k] = [byte |-> sent + k]
      <4>1. sent \in Nat /\ Upto \in Nat /\ sent <= Upto
        BY <3>2
      <4> QED BY ONLY <4>1, BytesFacts
    <3> HIDE DEF own, data, m
    <3>4. /\ own \o data \in Seq(Cells) /\ Len(own \o data) = 3 + m
          /\ \A i \in 1..(3 + m) : (own \o data)[i] = IF i <= 3 THEN own[i] ELSE data[i - 3]
      <4>1. /\ own \o data \in Seq(Cells) /\ Len(own \o data) = Len(own) + Len(data)
            /\ \A i \in 1..(Len(own) + Len(data)) :
                  (own \o data)[i] = IF i <= Len(own) THEN own[i] ELSE data[i - Len(own)]
        BY <3>1, <3>3, ConcatProperties, ZenonT(60)
      <4> QED BY ONLY <4>1, <3>1, <3>3
    <3> DEFINE v == own \o data
    <3>5. ASSUME NEW i \in 4..(3 + m) PROVE ~IsNumber(v[i])
      <4>1. PICK k \in 1..m : k = i - 3
        BY <3>2
      <4>2. i \in 1..(3 + m) /\ ~(i <= 3)
        BY <3>2
      <4>3. v[i] = [byte |-> sent + k] /\ sent + k \in Nat
        BY <3>2, <3>3, <3>4, <4>1, <4>2
      <4> QED BY <4>3, CellKinds
    <3>6. v[2] = Field(index) /\ v[3] = Field(MaxChunk)
      <4>1. 2 \in 1..(3 + m) /\ 3 \in 1..(3 + m)
        BY <3>2
      <4> QED BY <3>1, <3>4, <4>1
    <3>7. v \in Seq(Cells) /\ Len(v) = 3 + m
      BY <3>4
    <3> HIDE DEF v
    <3>8. ASSUME NEW i \in Nat, 0 < i, i + 2 <= Len(v), IsNumber(v[i + 1]), IsNumber(v[i + 2])
          PROVE  i = 1
      <4>1. i + 2 \notin 4..(3 + m)
        BY <3>5, <3>8
      <4> QED BY <3>2, <3>7, <3>8, <4>1
    <3>9. Headed(v, 0)
      <4>1. 1 + 1 = 2 /\ 1 + 2 = 3
        OBVIOUS
      <4> QED BY <1>2, <3>6, <3>8, <4>1, NumberFacts DEF Headed
    <3>10. c = v
      BY <2>2 DEF v, own, data
    <3>11. Len(v) \in 4..(3 + m) /\ 0 < Len(v)
      BY <3>2, <3>7
    <3> HIDE DEF c
    <3> QED BY <3>5, <3>7, <3>9, <3>10, <3>11
  <2> QED BY <2>1, <2>2
<1> HIDE DEF c
<1>6. ASSUME client = "code", NEW p \in {0, 3}, PartWay(p) PROVE PartWay(p)'
  <2>1. /\ wire \in Seq(Cells) /\ Headed(wire, p)
        /\ p = 3 /\ wire # <<>> => wire[1] = Field(101)
        /\ open => p <= Len(wire) /\ (p < Len(wire) => ~IsNumber(wire[Len(wire)]))
    BY <1>2, <1>6 DEF PartWay
  <2>2. CASE ~open
    BY <1>2, <1>4, <2>1, <2>2 DEF Send, PartWay
  <2>3. CASE open
    <3> DEFINE v == wire \o c
    <3>1. wire' = v
      BY <1>4, <2>3 DEF Send
    <3>2. v \in Seq(Cells) /\ Headed(v, p)
      BY <1>5, <2>1, <2>3, HeadedSent
    <3>3. /\ Len(v) = Len(wire) + Len(c)
          /\ \A i \in 1..(Len(wire) + Len(c)) : v[i] = IF i <= Len(wire) THEN wire[i] ELSE c[i - Len(wire)]
      BY <1>5, <2>1, ConcatProperties, SMTT(30)
    <3> HIDE DEF v
    <3>4. p = 3 /\ v # <<>> => v[1] = Field(101)
      <4>1. SUFFICES ASSUME p = 3 PROVE v[1] = Field(101)
        OBVIOUS
      <4>2. 3 <= Len(wire) /\ wire # <<>>
        BY <2>1, <2>3, <4>1
      <4>3. 1 \in 1..(Len(wire) + Len(c)) /\ 1 <= Len(wire)
        BY <1>5, <2>1, <4>2
      <4> QED BY <2>1, <3>3, <4>1, <4>2, <4>3
    <3>5. p <= Len(v)
      BY <1>5, <2>1, <2>3, <3>3
    <3>6. sent < size => ~IsNumber(v[Len(v)])
      <4>1. SUFFICES ASSUME sent < size PROVE ~IsNumber(v[Len(v)])
        OBVIOUS
      <4>2. Len(v) \in 1..(Len(wire) + Len(c)) /\ ~(Len(v) <= Len(wire)) /\ Len(v) - Len(wire) = Len(c)
        BY <1>5, <2>1, <3>3, <4>1
      <4>3. v[Len(v)] = c[Len(c)]
        BY <3>3, <4>2
      <4> QED BY <1>5, <4>1, <4>3
    <3> QED BY <1>2, <3>1, <3>2, <3>4, <3>5, <3>6 DEF PartWay
  <2> QED BY <2>2, <2>3
<1>7. index' \in Nat /\ sent' \in 0..size'
  BY <1>1, <1>2, <1>3
<1> QED BY <1>2, <1>6, <1>7 DEF PartInv

\* One cell more, and zeros up to its place.
LEMMA WriteOne ==
  ASSUME saved \in Seq(Cells), \A k \in 1..Len(saved) : saved[k] \in Sizes1, NEW place \in Nat
  PROVE  /\ Pwrite(place, <<Field(MaxChunk)>>) \in Seq(Cells)
         /\ \A k \in 1..Len(Pwrite(place, <<Field(MaxChunk)>>)) :
              Pwrite(place, <<Field(MaxChunk)>>)[k] \in Sizes1
<1> DEFINE data == <<Field(MaxChunk)>>
           old == IF saved = NoFile THEN <<>> ELSE saved
           e == place + Len(data)
           top == IF Len(old) > e THEN Len(old) ELSE e
           new == [k \in 1..top |->
                     IF k > place /\ k <= e THEN data[k - place]
                     ELSE IF k <= Len(old) THEN old[k] ELSE Field(0)]
<1>1. old \in Seq(Cells) /\ \A i \in 1..Len(old) : old[i] \in Sizes1
  OBVIOUS
<1>2. Pwrite(place, data) = new
  BY DEF Pwrite
<1>3. Len(data) = 1 /\ data[1] = Field(MaxChunk)
  OBVIOUS
<1> HIDE DEF old, data
<1>4. e = place + 1 /\ e \in Nat /\ Len(old) \in Nat /\ top \in Nat
  BY <1>1, <1>3
<1>5. ASSUME NEW i \in 1..top PROVE new[i] \in Sizes1
  <2>1. new[i] = IF i > place /\ i <= e THEN data[i - place]
                 ELSE IF i <= Len(old) THEN old[i] ELSE Field(0)
    OBVIOUS
  <2>2. i \in Nat /\ 1 <= i
    BY <1>4
  <2>3. CASE i > place /\ i <= e
    <3>1. i - place = 1
      BY <1>4, <2>2, <2>3
    <3> QED BY <1>3, <2>1, <2>3, <3>1 DEF Sizes1
  <2>4. CASE ~(i > place /\ i <= e) /\ i <= Len(old)
    <3>1. i \in 1..Len(old)
      BY <1>4, <2>2, <2>4
    <3>2. new[i] = old[i]
      BY <2>1, <2>4
    <3> QED BY <1>1, <3>1, <3>2
  <2>5. CASE ~(i > place /\ i <= e) /\ ~(i <= Len(old))
    <3>1. new[i] = Field(0)
      BY <2>1, <2>5
    <3> QED BY <3>1 DEF Sizes1
  <2> QED BY <2>3, <2>4, <2>5
<1> HIDE DEF top
<1>6. new \in [1..top -> Cells]
  <2>1. \A i \in 1..top : new[i] \in Cells
    BY <1>5, NumberFacts
  <2>2. DOMAIN new = 1..top /\ new = [i \in 1..top |-> new[i]]
    OBVIOUS
  <2> HIDE DEF new
  <2> QED BY <2>1, <2>2
<1> HIDE DEF new
<1>7. new \in Seq(Cells) /\ Len(new) = top
  BY <1>4, <1>6
<1>8. Pwrite(place, <<Field(MaxChunk)>>) = new
  BY <1>2 DEF data
<1> QED BY <1>5, <1>7, <1>8

LEMMA PartHears ==
  ASSUME Steady, Same, InPart, PartInv, Hear1
  PROVE  PartInv'
<1>1. size' = size
  BY DEF Same
<1>2. /\ client = "code" /\ server' = server /\ open' = open /\ index' = index /\ sent' = sent
  BY DEF Hear1, Reading, Setup, serverVars
<1>3. PICK p \in {0, 3} : PartWay(p)
  BY <1>2 DEF PartInv
<1>4. /\ wire \in Seq(Cells) /\ Headed(wire, p)
      /\ p = 3 /\ wire # <<>> => wire[1] = Field(101)
      /\ server = "request" => wire = <<>>
      /\ open /\ server = "chunks" => (p < Len(wire) => ~IsNumber(wire[Len(wire)]))
  BY <1>3 DEF PartWay
<1>5. PICK k \in 1..Len(wire) :
         LET data == SubSeq(wire, 3, k)
             header == k >= 3 /\ wire[1] = Field(101)
             chunk == k >= 3 /\ wire[1] = Field(111) /\ IsNumber(wire[2]) /\ IsNumber(wire[3])
         IN
         /\ Consume(k)
         /\ \/ /\ header
               /\ UNCHANGED <<client, saved>>
            \/ /\ chunk
               /\ saved' = IF wire[2] = Field(-1) THEN Pwrite(0, data)
                           ELSE Pwrite(wire[2].field * wire[3].field, <<wire[3]>>)
               /\ UNCHANGED client
            \/ /\ ~header /\ ~chunk
               /\ client' = "failed" /\ UNCHANGED saved
  BY DEF Hear1
<1>6. Consume(k) /\ wire # <<>> /\ Len(wire) \in Nat /\ k \in Nat /\ k <= Len(wire)
  BY <1>4, <1>5
<1>7. ASSUME k >= 3 PROVE PartWay(0)'
  <2> DEFINE v == SubSeq(wire, k + 1, Len(wire))
  <2>1. /\ v \in Seq(Cells) /\ Len(v) = Len(wire) - k /\ \A i \in 1..(Len(wire) - k) : v[i] = wire[k + i]
    BY <1>4, <1>6
  <2>2. wire' = v
    BY <1>6 DEF Consume
  <2> HIDE DEF v
  <2>3. ASSUME NEW i \in Nat, 0 < i, i + 2 <= Len(v), v[i] = Field(111), IsNumber(v[i + 1]), IsNumber(v[i + 2])
        PROVE  v[i + 1] \in Numbers /\ v[i + 2] = Field(MaxChunk)
    <3>1. /\ i \in 1..(Len(wire) - k) /\ i + 1 \in 1..(Len(wire) - k) /\ i + 2 \in 1..(Len(wire) - k)
      BY <1>6, <2>1, <2>3
    <3>2. PICK l \in Nat : l = k + i
      BY <1>6
    <3>3. k + (i + 1) = l + 1 /\ k + (i + 2) = l + 2 /\ l + 2 <= Len(wire) /\ p < l
      BY <1>6, <1>7, <2>1, <2>3, <3>2
    <3>4. v[i] = wire[l] /\ v[i + 1] = wire[l + 1] /\ v[i + 2] = wire[l + 2]
      BY <2>1, <3>1, <3>2, <3>3
    <3> QED BY <1>4, <2>3, <3>3, <3>4 DEF Headed
  <2>4. Headed(v, 0)
    BY <2>3 DEF Headed
  <2>5. ASSUME open, server = "chunks", 0 < Len(v) PROVE ~IsNumber(v[Len(v)])
    <3>1. Len(v) \in 1..(Len(wire) - k) /\ k + Len(v) = Len(wire) /\ p < Len(wire)
      BY <1>6, <1>7, <2>1, <2>5
    <3>2. v[Len(v)] = wire[Len(wire)]
      BY <2>1, <3>1
    <3> QED BY <1>4, <2>5, <3>1, <3>2
  <2>6. 0 <= Len(v) /\ 0 # 3
    BY <2>1
  <2> QED BY <1>2, <1>4, <1>6, <2>1, <2>2, <2>4, <2>5, <2>6 DEF PartWay
<1>8. 0 \in {0, 3} /\ PartInv
  OBVIOUS
<1>9. CASE UNCHANGED <<client, saved>> /\ k >= 3
  BY <1>1, <1>2, <1>7, <1>8, <1>9 DEF PartInv
<1>10. CASE client' = "failed" /\ UNCHANGED saved
  BY <1>1, <1>2, <1>8, <1>10 DEF PartInv
<1>11. CASE /\ k >= 3 /\ wire[1] = Field(111) /\ IsNumber(wire[2]) /\ IsNumber(wire[3])
            /\ client' = client
            /\ saved' = IF wire[2] = Field(-1) THEN Pwrite(0, SubSeq(wire, 3, k))
                        ELSE Pwrite(wire[2].field * wire[3].field, <<wire[3]>>)
  <2>1. p = 0
    <3>1. Field(111) # Field(101)
      BY CellKinds
    <3> QED BY <1>4, <1>6, <1>11, <3>1
  <2>2. wire[2] \in Numbers /\ wire[3] = Field(MaxChunk)
    <3>1. 1 \in Nat /\ 1 + 1 = 2 /\ 1 + 2 = 3 /\ 3 <= Len(wire)
      BY <1>6, <1>11
    <3> QED BY <1>4, <1>11, <2>1, <3>1 DEF Headed
  <2>3. wire[2].field * wire[3].field \in Nat /\ wire[2] # Field(-1)
    <3>1. wire[2].field \in Nat /\ wire[3].field = MaxChunk /\ MaxChunk \in Nat
      BY <2>2, NumberFacts, WidthAssumption
    <3> QED BY <2>2, <3>1, NumberFacts
  <2> DEFINE place == wire[2].field * wire[3].field
  <2>4. saved' = Pwrite(place, <<Field(MaxChunk)>>) /\ place \in Nat
    BY <1>11, <2>2, <2>3
  <2> HIDE DEF place
  <2>5. saved' \in Seq(Cells) /\ \A j \in 1..Len(saved') : saved'[j] \in Sizes1
    BY <1>8, <2>4, WriteOne DEF PartInv
  <2> QED BY <1>1, <1>2, <1>7, <1>8, <1>11, <2>5 DEF PartInv
<1> QED BY <1>5, <1>9, <1>10, <1>11

LEMMA PartNext ==
  ASSUME Steady, Same, InPart, shared, PartInv, [NextX]_varsX
  PROVE  PartInv'
<1>1. size' = size /\ PartInv
  BY DEF Same
<1>2. CASE UNCHANGED varsX
  <2>1. /\ wire' = wire /\ server' = server /\ open' = open /\ client' = client /\ saved' = saved
        /\ index' = index /\ sent' = sent
    BY <1>2 DEF varsX, vars
  <2>2. ASSUME NEW p \in {0, 3}, PartWay(p) PROVE PartWay(p)'
    BY <2>1, <2>2 DEF PartWay
  <2> QED BY <1>1, <2>1, <2>2 DEF PartInv
<1>3. CASE Cut
  <2>1. PICK k \in 0..Len(wire) : wire' = SubSeq(wire, 1, k)
    BY <1>3 DEF Cut
  <2>2. /\ server' = server /\ open' = FALSE /\ client' = client /\ saved' = saved
        /\ index' = index /\ sent' = sent
    BY <1>3 DEF Cut, serverVars, clientVars
  <2>3. ASSUME NEW p \in {0, 3}, PartWay(p) PROVE PartWay(p)'
    <3>1. /\ wire \in Seq(Cells) /\ Headed(wire, p)
          /\ p = 3 /\ wire # <<>> => wire[1] = Field(101)
          /\ server = "request" => wire = <<>> /\ p = 3
      BY <2>3 DEF PartWay
    <3> DEFINE v == SubSeq(wire, 1, k)
    <3>2. v \in Seq(Cells) /\ Len(v) = k /\ (\A i \in 1..k : v[i] = wire[i]) /\ wire' = v
          /\ k \in Nat /\ k <= Len(wire)
      BY <2>1, <3>1
    <3> HIDE DEF v
    <3>3. ASSUME NEW i \in Nat, p < i, i + 2 <= Len(v)
          PROVE  v[i] = wire[i] /\ v[i + 1] = wire[i + 1] /\ v[i + 2] = wire[i + 2] /\ i + 2 <= Len(wire)
      <4>1. i \in 1..k /\ i + 1 \in 1..k /\ i + 2 \in 1..k
        BY <3>2, <3>3
      <4> QED BY <3>1, <3>2, <3>3, <4>1
    <3>4. Headed(v, p)
      BY <3>1, <3>3 DEF Headed
    <3>5. v # <<>> => wire # <<>> /\ v[1] = wire[1]
      <4>1. v # <<>> => 1 \in 1..k
        BY <3>2
      <4> QED BY <3>1, <3>2, <4>1
    <3> QED BY <2>2, <3>1, <3>2, <3>4, <3>5 DEF PartWay
  <2> QED BY <1>1, <2>2, <2>3 DEF PartInv
<1>4. ~NotFound1 /\ ~Whole1
  BY <1>1 DEF NotFound1, Whole1, PartInv
<1>5. Steps1 \/ Cut \/ UNCHANGED varsX
  BY StepsByProject DEF InPart
<1> QED BY <1>2, <1>3, <1>4, <1>5, PartOpens, PartSends, PartHears DEF Steps1

-----------------------------------------------------------------------------
(* All four projects.                                                          *)

\* A file of exactly Whole chunks, on whose way MARIO's two ends disagree, has
\* no part here.
TransferInv ==
  /\ Steady
  /\ ~shared => Absent
  /\ Fits /\ shared =>
       /\ SentWhole => WholeInv
       /\ InChunks2 => Chunks2Inv
       /\ project = "Resolucion3" => Chunks3Inv
       /\ InChunksM => ChunksMInv
       /\ InText => TextInv
       /\ InPart => PartInv

LEMMA TransferInit == InitX => TransferInv
BY SteadyInit, AbsentInit, WholeInit, Chunks2Init, Chunks3Init, ChunksMInit, TextInit, PartInit
   DEF TransferInv

LEMMA TransferNext ==
  ASSUME TransferInv, [NextX]_varsX
  PROVE  TransferInv'
<1>1. Steady /\ Steady' /\ Same
  BY SteadyNext DEF TransferInv
<1>2. /\ shared' = shared /\ (Fits' <=> Fits) /\ (SentWhole' <=> SentWhole) /\ (InChunks2' <=> InChunks2)
      /\ project' = project /\ (InChunksM' <=> InChunksM) /\ (InText' <=> InText) /\ (InPart' <=> InPart)
  BY <1>1 DEF Same, Fits, SentWhole, InChunks2, InChunksM, InText, InPart, Small, Small1
<1>3. ~shared => Absent'
  BY <1>1, AbsentNext DEF TransferInv
<1>4. Fits /\ shared /\ SentWhole => WholeInv'
  BY <1>1, WholeNext DEF TransferInv
<1>5. Fits /\ shared /\ InChunks2 => Chunks2Inv'
  BY <1>1, Chunks2Next DEF TransferInv
<1>6. Fits /\ shared /\ project = "Resolucion3" => Chunks3Inv'
  BY <1>1, Chunks3Next DEF TransferInv
<1>7. Fits /\ shared /\ InChunksM => ChunksMInv'
  BY <1>1, ChunksMNext DEF TransferInv
<1>8. Fits /\ shared /\ InText => TextInv'
  BY <1>1, TextNext DEF TransferInv
<1>9. Fits /\ shared /\ InPart => PartInv'
  BY <1>1, PartNext DEF TransferInv
<1> QED BY <1>1, <1>2, <1>3, <1>4, <1>5, <1>6, <1>7, <1>8, <1>9 DEF TransferInv

LEMMA FirstBytes ==
  ASSUME size \in Nat, NEW k \in 0..size
  PROVE  First(k) = Bytes(0, k)
<1>1. File \in Seq(Cells) /\ Len(File) = size /\ \A i \in 1..size : File[i] = [byte |-> 0 + i]
  <2>1. 0 \in Nat /\ size \in Nat /\ 0 <= size /\ size - 0 = size
    OBVIOUS
  <2> QED BY ONLY <2>1, BytesFacts DEF File
<1> DEFINE v == SubSeq(File, 1, k)
<1>2. v \in Seq(Cells) /\ Len(v) = k /\ \A i \in 1..k : v[i] = File[i]
  BY <1>1
<1> HIDE DEF v
<1>3. k \in Nat /\ 0 \in Nat /\ 0 <= k /\ Len(v) = k - 0 /\ 1..(k - 0) \subseteq 1..size
  BY <1>2
<1>4. v = Bytes(0, k)
  BY <1>1, <1>2, <1>3, AreBytes
<1> QED BY <1>4 DEF v, First

LEMMA TransferSaves == TransferInv => WhatIsSaved
<1> SUFFICES ASSUME TransferInv, Fits, saved # NoFile PROVE WhatIsSaved
  BY DEF WhatIsSaved
<1>1. size \in Nat /\ downloads \in {1, 2}
      /\ project \in {"RESOLUCION1", "RESOLUCION2", "Resolucion3", "MARIO"}
  BY DEF TransferInv, Steady
<1>2. shared
  BY DEF TransferInv, Absent
<1>3. CASE project = "RESOLUCION2"
  <2>1. SentWhole \/ InChunks2
    BY <1>1, <1>3, WidthAssumption DEF SentWhole, InChunks2
  <2>2. saved = File
    BY <1>2, <2>1 DEF TransferInv, WholeInv, Chunks2Inv
  <2> QED BY <1>3, <2>2 DEF WhatIsSaved
<1>4. CASE project = "Resolucion3"
  <2>1. saved = File
    BY <1>2, <1>4 DEF TransferInv, Chunks3Inv
  <2> QED BY <1>4, <2>1 DEF WhatIsSaved
<1>5. CASE project = "MARIO"
  <2>1. Whole * MaxChunk \in Nat
    BY WidthAssumption, WholeAssumption
  <2>2. Small \/ size = Whole * MaxChunk \/ InChunksM
    BY <1>1, <1>5, <2>1 DEF Small, InChunksM
  <2>3. CASE Small
    <3>1. saved = File
      BY <1>2, <1>5, <2>3 DEF TransferInv, WholeInv, SentWhole
    <3> QED BY <1>5, <2>3, <3>1 DEF WhatIsSaved, SavedByMario
  <2>4. CASE size = Whole * MaxChunk
    BY <1>5, <2>4 DEF WhatIsSaved, SavedByMario
  <2>5. CASE InChunksM
    <3>1. PICK i, j \in 0..size : (downloads = 1 => i = 0) /\ saved = Joined(i, j)
      BY <1>2, <2>5 DEF TransferInv, ChunksMInv, SavedSome
    <3>2. 0 \in 0..size
      BY <1>1
    <3>3. First(i) = Bytes(0, i) /\ First(j) = Bytes(0, j) /\ First(0) = Bytes(0, 0)
      BY <1>1, <3>2, FirstBytes
    <3>4. \E e, f \in 0..size : saved = First(e) \o First(f) /\ (downloads = 1 => f = 0)
      <4>1. CASE downloads = 1
        <5>1. Joined(0, j) = Bytes(0, j) /\ Joined(j, 0) = Bytes(0, j)
          BY <1>1, JoinedFacts
        <5>2. saved = First(j) \o First(0)
          BY <3>1, <3>3, <4>1, <5>1 DEF Joined
        <5> QED BY <3>2, <5>2
      <4>2. CASE downloads # 1
        BY <3>1, <3>3, <4>2 DEF Joined
      <4> QED BY <4>1, <4>2
    <3>5. SavedByMario
      BY <3>4 DEF SavedByMario
    <3>6. calm /\ client = "saved" /\ downloads = 1 => saved = File
      BY <1>2, <2>5 DEF TransferInv, ChunksMInv
    <3> QED BY <1>5, <3>5, <3>6 DEF WhatIsSaved
  <2> QED BY <2>2, <2>3, <2>4, <2>5
<1>6. CASE project = "RESOLUCION1"
  <2>1. CASE Small1
    <3>1. saved \in Seq(Cells) /\ Len(saved) <= 1 + size /\ \A i \in 1..Len(saved) : saved[i] = Says[i]
      BY <1>2, <1>6, <2>1 DEF TransferInv, TextInv, SavedSays, InText
    <3>2. Says \in Seq(Cells) /\ Len(Says) = 1 + size
      BY <1>1, TextFacts
    <3>3. IsPrefix(saved, Says)
      <4> DEFINE n == Len(saved)
                 u == SubSeq(saved, 1, n)
                 v == SubSeq(Says, 1, n)
      <4>1. n \in Nat /\ n <= Len(Says)
        BY <3>1, <3>2
      <4>2. /\ u \in Seq(Cells) /\ Len(u) = n /\ \A i \in 1..n : u[i] = saved[i]
            /\ v \in Seq(Cells) /\ Len(v) = n /\ \A i \in 1..n : v[i] = Says[i]
        BY <3>1, <3>2, <4>1
      <4>3. u = v
        <5> HIDE DEF u, v
        <5> QED BY <3>1, <4>1, <4>2
      <4> QED BY <4>1, <4>3 DEF IsPrefix
    <3> QED BY <1>6, <2>1, <3>3 DEF WhatIsSaved, Says
  <2>2. CASE ~Small1
    <3>1. saved \in Seq(Cells) /\ \A k \in 1..Len(saved) : saved[k] \in Sizes1
      BY <1>2, <1>6, <2>2 DEF TransferInv, PartInv, InPart
    <3>2. \A k \in DOMAIN saved : saved[k] \in {Field(0), Field(MaxChunk)}
      BY <3>1 DEF Sizes1
    <3> QED BY <1>6, <2>2, <3>2 DEF WhatIsSaved
  <2> QED BY <2>1, <2>2
<1> QED BY <1>1, <1>3, <1>4, <1>5, <1>6

\* What a download leaves is the file, in the four projects as far as each of
\* them saves it, whatever the size of the file and of a chunk and wherever the
\* connection breaks.
THEOREM SavedIsTheFile == SpecX => []WhatIsSaved
<1>1. InitX => TransferInv
  BY TransferInit
<1>2. TransferInv /\ [NextX]_varsX => TransferInv'
  BY TransferNext
<1>3. TransferInv => WhatIsSaved
  BY TransferSaves
<1> QED BY <1>1, <1>2, <1>3, PTL DEF SpecX

=============================================================================
