---------------------------- MODULE HDiff_proofs ----------------------------
(***************************************************************************)
(* Proofs about HDiff, for any patches, old files and buffers.             *)
(***************************************************************************)
EXTENDS HDiff, FiniteSetTheorems, SequenceTheorems, WellFoundedInduction, TLAPS

\* A set of numbers that has a member has a least one.
LEMMA LeastIsThere ==
  ASSUME NEW S \in SUBSET Nat, S # {}
  PROVE  \E m \in S : \A k \in S : m <= k
<1> DEFINE R == OpToRel(<, Nat)
<1>1. \E m \in S : \A k \in S : ~(<<k, m>> \in R)
  <2> HIDE DEF R
  <2>1. IsWellFoundedOn(R, Nat)
    BY NatLessThanWellFounded, Zenon DEF R
  <2> QED
    BY <2>1, WFMin
<1>2. PICK m \in S : \A k \in S : ~(<<k, m>> \in R)
  BY <1>1, Zenon
<1>3. \A u \in S : ~(u < m)
  BY <1>2 DEF OpToRel
<1>4. \A u \in S : m <= u
  BY <1>3
<1> QED
  BY <1>4

-----------------------------------------------------------------------------
(***************************************************************************)
(* Running totals.                                                         *)
(***************************************************************************)
IsSum(s, n, g) == g = [k \in 0 .. n |-> IF k = 0 THEN 0 ELSE g[k - 1] + s[k]]

LEMMA SumExists ==
  ASSUME NEW s, NEW n \in Nat
  PROVE  \E g : IsSum(s, n, g)
<1> DEFINE Bad == {m \in Nat : ~ \E g : IsSum(s, m, g)}
<1> SUFFICES ASSUME Bad # {} PROVE FALSE
  OBVIOUS
<1>1. PICK m \in Bad : \A k \in Bad : m <= k
  <2> HIDE DEF Bad
  <2>1. Bad \in SUBSET Nat
    BY DEF Bad
  <2> QED
    BY <2>1, LeastIsThere
<1>2. m # 0
  <2>1. IsSum(s, 0, [k \in 0 .. 0 |-> 0])
    BY DEF IsSum
  <2> QED
    BY <2>1
<1>3. m - 1 \in Nat /\ m - 1 \notin Bad
  BY <1>1, <1>2
<1>4. PICK g : IsSum(s, m - 1, g)
  BY <1>3
<1> DEFINE h == [k \in 0 .. m |-> IF k < m THEN g[k] ELSE g[m - 1] + s[m]]
<1>5. ASSUME NEW k \in 0 .. m PROVE h[k] = IF k = 0 THEN 0 ELSE h[k - 1] + s[k]
  <2>1. CASE k = 0
    BY <2>1, <1>3, <1>4 DEF IsSum
  <2>2. CASE k # 0 /\ k < m
    <3>1. k \in 0 .. m - 1 /\ k - 1 \in 0 .. m /\ k - 1 < m
      BY <2>2, <1>3
    <3>2. g[k] = g[k - 1] + s[k]
      BY <2>2, <3>1, <1>4 DEF IsSum
    <3> QED
      BY <2>2, <3>1, <3>2
  <2>3. CASE k = m
    BY <2>3, <1>2, <1>3
  <2> QED
    BY <2>1, <2>2, <2>3
<1>6. IsSum(s, m, h)
  BY <1>5, Zenon DEF IsSum
<1> QED
  BY <1>1, <1>6

LEMMA SumsStep ==
  ASSUME NEW s, Len(s) \in Nat
  PROVE  /\ Sums(s)[0] = 0
         /\ \A k \in 1 .. Len(s) : Sums(s)[k] = Sums(s)[k - 1] + s[k]
<1> DEFINE g == CHOOSE g : IsSum(s, Len(s), g)
<1>1. IsSum(s, Len(s), g)
  BY SumExists
<1>2. Sums(s) = g
  BY DEF Sums, IsSum
<1> HIDE DEF g
<1>3. \A k \in 0 .. Len(s) : g[k] = IF k = 0 THEN 0 ELSE g[k - 1] + s[k]
  BY <1>1 DEF IsSum
<1> QED
  BY <1>2, <1>3

\* Induction from a to b, over a set.
LEMMA Induct ==
  ASSUME NEW a \in Int, NEW b \in Int, NEW S \in SUBSET Int, a \in S,
         \A k \in Int : a < k /\ k <= b /\ k - 1 \in S => k \in S
  PROVE  \A k \in Int : a <= k /\ k <= b => k \in S
<1> DEFINE Bad == {n \in Nat : a + n <= b /\ a + n \notin S}
<1> SUFFICES ASSUME NEW x \in Int, a <= x, x <= b, x \notin S PROVE FALSE
  OBVIOUS
<1>1. x - a \in Bad
  BY DEF Bad
<1>2. PICK m \in Bad : \A k \in Bad : m <= k
  <2> HIDE DEF Bad
  <2>1. Bad \in SUBSET Nat
    BY DEF Bad
  <2> QED
    BY <1>1, <2>1, LeastIsThere
<1>3. m # 0
  BY <1>2
<1>4. m - 1 \in Nat /\ m - 1 \notin Bad
  BY <1>2, <1>3
<1>5. a + m - 1 \in S
  BY <1>2, <1>4
<1>6. a + m \in Int /\ a < a + m /\ a + m <= b /\ a + m - 1 = (a + m) - 1
  BY <1>2, <1>3
<1> QED
  BY <1>2, <1>5, <1>6

LEMMA SumsInt ==
  ASSUME NEW s \in Seq(Int)
  PROVE  \A k \in 0 .. Len(s) : Sums(s)[k] \in Int
<1>1. Len(s) \in Nat /\ \A k \in 1 .. Len(s) : s[k] \in Int
  OBVIOUS
<1> DEFINE S == {k \in 0 .. Len(s) : Sums(s)[k] \in Int}
<1>2. 0 \in S
  BY <1>1, SumsStep
<1>3. ASSUME NEW k \in 1 .. Len(s), k - 1 \in S PROVE k \in S
  BY <1>1, <1>3, SumsStep
<1>4. \A k \in Int : 0 < k /\ k <= Len(s) /\ k - 1 \in S => k \in S
  <2> HIDE DEF S
  <2> QED
    BY <1>1, <1>3
<1>5. S \in SUBSET Int /\ Len(s) \in Int
  BY <1>1
<1> HIDE DEF S
<1>6. \A k \in Int : 0 <= k /\ k <= Len(s) => k \in S
  BY <1>2, <1>4, <1>5, Induct, Zenon
<1> QED
  BY <1>1, <1>6 DEF S

\* Totals of numbers that are not negative never fall.
LEMMA SumsNat ==
  ASSUME NEW s \in Seq(Nat)
  PROVE  /\ \A k \in 0 .. Len(s) : Sums(s)[k] \in Nat
         /\ \A j, k \in 0 .. Len(s) : j <= k => Sums(s)[j] <= Sums(s)[k]
<1>1. Len(s) \in Nat /\ \A k \in 1 .. Len(s) : s[k] \in Nat
  OBVIOUS
<1>2. \A k \in 0 .. Len(s) : Sums(s)[k] \in Nat
  <2> DEFINE S == {k \in 0 .. Len(s) : Sums(s)[k] \in Nat}
  <2>2. 0 \in S
    BY <1>1, SumsStep
  <2>3. ASSUME NEW k \in 1 .. Len(s), k - 1 \in S PROVE k \in S
    BY <1>1, <2>3, SumsStep
  <2>4. \A k \in Int : 0 < k /\ k <= Len(s) /\ k - 1 \in S => k \in S
    <3> HIDE DEF S
    <3> QED
      BY <1>1, <2>3
  <2>5. S \in SUBSET Int /\ Len(s) \in Int
    BY <1>1
  <2> HIDE DEF S
  <2>6. \A k \in Int : 0 <= k /\ k <= Len(s) => k \in S
    BY <2>2, <2>4, <2>5, Induct
  <2> QED
    BY <1>1, <2>6 DEF S
<1>3. ASSUME NEW j \in 0 .. Len(s) PROVE \A k \in j .. Len(s) : Sums(s)[j] <= Sums(s)[k]
  <2> DEFINE S == {k \in j .. Len(s) : Sums(s)[j] <= Sums(s)[k]}
  <2>1. j \in S
    BY <1>1, <1>2
  <2>2. ASSUME NEW k \in j + 1 .. Len(s), k - 1 \in S PROVE k \in S
    <3>1. k \in 1 .. Len(s) /\ k \in 0 .. Len(s) /\ k - 1 \in 0 .. Len(s) /\ k \in j .. Len(s)
      BY <1>1
    <3>2. Sums(s)[k] = Sums(s)[k - 1] + s[k] /\ s[k] \in Nat
      BY <3>1, <1>1, SumsStep
    <3>3. Sums(s)[j] \in Nat /\ Sums(s)[k - 1] \in Nat
      BY <3>1, <1>2
    <3>4. Sums(s)[j] <= Sums(s)[k - 1]
      BY <2>2
    <3> QED
      BY <3>1, <3>2, <3>3, <3>4
  <2>3. \A k \in Int : j < k /\ k <= Len(s) /\ k - 1 \in S => k \in S
    <3> HIDE DEF S
    <3> QED
      BY <1>1, <2>2
  <2>4. S \in SUBSET Int /\ Len(s) \in Int /\ j \in Int
    BY <1>1
  <2> HIDE DEF S
  <2>5. \A k \in Int : j <= k /\ k <= Len(s) => k \in S
    BY <2>1, <2>3, <2>4, Induct
  <2> QED
    BY <1>1, <2>5 DEF S
<1> QED
  BY <1>1, <1>2, <1>3
-----------------------------------------------------------------------------
(***************************************************************************)
(* The places of covers.                                                   *)
(***************************************************************************)
\* What a cover is.
LEMMA CoverIs ==
  ASSUME NEW covers \in Seq(CoverRecord)
  PROVE  /\ Len(covers) \in Nat
         /\ \A k \in 1 .. Len(covers) :
               covers[k].gap \in Nat /\ covers[k].len \in Nat /\ covers[k].inc \in Int
<1>1. \A k \in 1 .. Len(covers) : covers[k] \in CoverRecord
  OBVIOUS
<1>2. \A c \in CoverRecord : c.gap \in Nat /\ c.len \in Nat /\ c.inc \in Int
  BY DEF CoverRecord
<1> QED
  BY <1>1, <1>2

LEMMA NewEnds ==
  ASSUME NEW covers \in Seq(CoverRecord)
  PROVE  /\ Len(covers) \in Nat /\ NewEnd(covers, 0) = 0
         /\ \A k \in 1 .. Len(covers) :
               /\ covers[k].gap \in Nat /\ covers[k].len \in Nat /\ covers[k].inc \in Int
               /\ NewEnd(covers, k) = NewEnd(covers, k - 1) + covers[k].gap + covers[k].len
         /\ \A k \in 0 .. Len(covers) : NewEnd(covers, k) \in Nat
         /\ \A j, k \in 0 .. Len(covers) : j <= k => NewEnd(covers, j) <= NewEnd(covers, k)
<1> DEFINE s == [j \in 1 .. Len(covers) |-> covers[j].gap + covers[j].len]
<1>1. /\ Len(covers) \in Nat
      /\ \A k \in 1 .. Len(covers) :
            covers[k].gap \in Nat /\ covers[k].len \in Nat /\ covers[k].inc \in Int
  BY CoverIs
<1>2. s \in Seq(Nat) /\ Len(s) = Len(covers)
  BY <1>1
<1>3. \A k \in 1 .. Len(covers) : s[k] = covers[k].gap + covers[k].len
  OBVIOUS
<1>4. \A k : NewEnd(covers, k) = Sums(s)[k]
  BY DEF NewEnd
<1> HIDE DEF s
<1>5. /\ Sums(s)[0] = 0
      /\ \A k \in 1 .. Len(s) : Sums(s)[k] = Sums(s)[k - 1] + s[k]
  BY <1>1, <1>2, SumsStep
<1>6. /\ \A k \in 0 .. Len(s) : Sums(s)[k] \in Nat
      /\ \A j, k \in 0 .. Len(s) : j <= k => Sums(s)[j] <= Sums(s)[k]
  BY <1>2, SumsNat
<1>7. ASSUME NEW k \in 1 .. Len(covers)
      PROVE  NewEnd(covers, k) = NewEnd(covers, k - 1) + covers[k].gap + covers[k].len
  <2>1. k \in 0 .. Len(s) /\ k - 1 \in 0 .. Len(s)
    BY <1>1, <1>2
  <2>2. Sums(s)[k] = Sums(s)[k - 1] + (covers[k].gap + covers[k].len)
    BY <1>2, <1>3, <1>5
  <2>3. Sums(s)[k - 1] \in Nat /\ covers[k].gap \in Nat /\ covers[k].len \in Nat
    BY <1>1, <1>6, <2>1
  <2> QED
    BY <1>4, <2>2, <2>3
<1>8. NewEnd(covers, 0) = 0 /\ \A k \in 0 .. Len(covers) : NewEnd(covers, k) \in Nat
  BY <1>2, <1>4, <1>5, <1>6
<1>9. \A j, k \in 0 .. Len(covers) : j <= k => NewEnd(covers, j) <= NewEnd(covers, k)
  BY <1>2, <1>4, <1>6
<1> QED
  BY <1>1, <1>7, <1>8, <1>9

LEMMA OldEnds ==
  ASSUME NEW covers \in Seq(CoverRecord)
  PROVE  /\ OldEnd(covers, 0) = 0
         /\ \A k \in 0 .. Len(covers) : OldEnd(covers, k) \in Int
         /\ \A k \in 1 .. Len(covers) :
               OldEnd(covers, k) = OldEnd(covers, k - 1) + covers[k].inc + covers[k].len
<1> DEFINE s == [j \in 1 .. Len(covers) |-> covers[j].inc + covers[j].len]
<1>1. /\ Len(covers) \in Nat
      /\ \A k \in 1 .. Len(covers) : covers[k].inc \in Int /\ covers[k].len \in Nat
  BY CoverIs
<1>2. s \in Seq(Int) /\ Len(s) = Len(covers)
  BY <1>1
<1>3. \A k \in 1 .. Len(covers) : s[k] = covers[k].inc + covers[k].len
  OBVIOUS
<1>4. \A k : OldEnd(covers, k) = Sums(s)[k]
  BY DEF OldEnd
<1> HIDE DEF s
<1>5. /\ Sums(s)[0] = 0
      /\ \A k \in 1 .. Len(s) : Sums(s)[k] = Sums(s)[k - 1] + s[k]
  BY <1>1, <1>2, SumsStep
<1>6. \A k \in 0 .. Len(s) : Sums(s)[k] \in Int
  BY <1>2, SumsInt
<1>7. ASSUME NEW k \in 1 .. Len(covers)
      PROVE  OldEnd(covers, k) = OldEnd(covers, k - 1) + covers[k].inc + covers[k].len
  <2>1. k \in 0 .. Len(s) /\ k - 1 \in 0 .. Len(s)
    BY <1>1, <1>2
  <2>2. Sums(s)[k] = Sums(s)[k - 1] + (covers[k].inc + covers[k].len)
    BY <1>2, <1>3, <1>5
  <2>3. Sums(s)[k - 1] \in Int /\ covers[k].inc \in Int /\ covers[k].len \in Nat
    BY <1>1, <1>6, <2>1
  <2> QED
    BY <1>4, <2>2, <2>3
<1> QED
  BY <1>1, <1>2, <1>4, <1>5, <1>6, <1>7

LEMMA NewPlaces ==
  ASSUME NEW covers \in Seq(CoverRecord), NEW k \in 1 .. Len(covers)
  PROVE  /\ NewPos(covers, k) = NewEnd(covers, k - 1) + covers[k].gap
         /\ NewPos(covers, k) + covers[k].len = NewEnd(covers, k)
         /\ NewPos(covers, k) \in Nat /\ NewEnd(covers, k) \in Nat
         /\ NewEnd(covers, k - 1) \in Nat /\ NewEnd(covers, k - 1) <= NewPos(covers, k)
         /\ NewPos(covers, k) <= NewEnd(covers, k)
<1>1. Len(covers) \in Nat /\ k - 1 \in 0 .. Len(covers) /\ k \in 0 .. Len(covers)
  BY CoverIs
<1>2. covers[k].gap \in Nat /\ covers[k].len \in Nat
  BY CoverIs
<1>3. NewEnd(covers, k) \in Nat /\ NewEnd(covers, k - 1) \in Nat
  BY <1>1, NewEnds
<1>4. NewEnd(covers, k) = NewEnd(covers, k - 1) + covers[k].gap + covers[k].len
  BY NewEnds
<1> QED
  BY <1>2, <1>3, <1>4, SMTT(30) DEF NewPos

LEMMA OldPlaces ==
  ASSUME NEW covers \in Seq(CoverRecord), NEW k \in 1 .. Len(covers)
  PROVE  /\ OldPos(covers, k) = OldEnd(covers, k - 1) + covers[k].inc
         /\ OldPos(covers, k) + covers[k].len = OldEnd(covers, k)
         /\ OldPos(covers, k) \in Int /\ OldEnd(covers, k) \in Int
<1>1. Len(covers) \in Nat /\ k - 1 \in 0 .. Len(covers) /\ k \in 0 .. Len(covers)
  BY CoverIs
<1>2. covers[k].inc \in Int /\ covers[k].len \in Nat
  BY CoverIs
<1>3. OldEnd(covers, k) \in Int /\ OldEnd(covers, k - 1) \in Int
  BY <1>1, OldEnds
<1>4. OldEnd(covers, k) = OldEnd(covers, k - 1) + covers[k].inc + covers[k].len
  BY OldEnds
<1> QED
  BY <1>2, <1>3, <1>4 DEF OldPos

\* Covers do not overlap.
LEMMA CoveredOnce ==
  ASSUME NEW covers \in Seq(CoverRecord), NEW k \in 1 .. Len(covers), NEW i \in Int,
         NewPos(covers, k) <= i, i < NewEnd(covers, k)
  PROVE  Covering(covers, i) = {k}
<1>1. k \in Covering(covers, i)
  BY DEF Covering
<1>2. ASSUME NEW j \in Covering(covers, i), j # k PROVE FALSE
  <2>1. j \in 1 .. Len(covers) /\ NewPos(covers, j) <= i /\ i < NewEnd(covers, j)
    BY <1>2 DEF Covering
  <2>2. Len(covers) \in Nat
    BY CoverIs
  <2>3. \A n \in 1 .. Len(covers) :
           /\ NewPos(covers, n) \in Nat /\ NewEnd(covers, n) \in Nat /\ NewEnd(covers, n - 1) \in Nat
           /\ NewEnd(covers, n - 1) <= NewPos(covers, n)
    BY NewPlaces
  <2>4. CASE j < k
    <3>1. j \in 0 .. Len(covers) /\ k - 1 \in 0 .. Len(covers) /\ j <= k - 1
      BY <2>1, <2>2, <2>4
    <3>2. NewEnd(covers, j) <= NewEnd(covers, k - 1)
      BY <3>1, NewEnds
    <3> QED
      BY <2>1, <2>3, <3>2
  <2>5. CASE k < j
    <3>1. k \in 0 .. Len(covers) /\ j - 1 \in 0 .. Len(covers) /\ k <= j - 1
      BY <2>1, <2>2, <2>5
    <3>2. NewEnd(covers, k) <= NewEnd(covers, j - 1)
      BY <3>1, NewEnds
    <3> QED
      BY <2>1, <2>3, <3>2
  <2> QED
    BY <1>2, <2>1, <2>2, <2>4, <2>5
<1> QED
  BY <1>1, <1>2

\* Between the end of a cover and the next one nothing is covered.
LEMMA NotCovered ==
  ASSUME NEW covers \in Seq(CoverRecord), NEW k \in 0 .. Len(covers), NEW i \in Int,
         NewEnd(covers, k) <= i, k < Len(covers) => i < NewPos(covers, k + 1)
  PROVE  ~IsCovered(covers, i)
<1> SUFFICES ASSUME NEW j \in 1 .. Len(covers), NewPos(covers, j) <= i, i < NewEnd(covers, j)
             PROVE  FALSE
  BY DEF IsCovered, Covering
<1>1. Len(covers) \in Nat
  BY CoverIs
<1>2. \A n \in 1 .. Len(covers) :
         /\ NewPos(covers, n) \in Nat /\ NewEnd(covers, n) \in Nat
         /\ NewPos(covers, n) <= NewEnd(covers, n) /\ NewEnd(covers, n - 1) \in Nat
         /\ NewEnd(covers, n - 1) <= NewPos(covers, n)
  BY NewPlaces
<1>3. NewEnd(covers, k) \in Nat
  BY NewEnds
<1>4. CASE j <= k
  <2>1. j \in 0 .. Len(covers)
    BY <1>1
  <2>2. NewEnd(covers, j) <= NewEnd(covers, k)
    BY <1>4, <2>1, NewEnds
  <2> QED
    BY <1>2, <1>3, <2>2
<1>5. CASE k < j
  <2>1. k + 1 \in 1 .. Len(covers) /\ k + 1 \in 0 .. Len(covers) /\ k < Len(covers)
    BY <1>1, <1>5
  <2>2. i < NewPos(covers, k + 1)
    BY <2>1
  <2>3. CASE j = k + 1
    BY <2>2, <2>3, <1>2
  <2>4. CASE j # k + 1
    <3>1. j - 1 \in 0 .. Len(covers) /\ k + 1 <= j - 1
      BY <1>1, <1>5, <2>4
    <3>2. NewEnd(covers, k + 1) <= NewEnd(covers, j - 1)
      BY <2>1, <3>1, NewEnds
    <3>3. NewPos(covers, k + 1) <= NewEnd(covers, k + 1)
      BY <1>2, <2>1
    <3>4. NewEnd(covers, j - 1) <= NewPos(covers, j) /\ NewPos(covers, j) \in Nat
          /\ NewEnd(covers, j - 1) \in Nat /\ NewEnd(covers, k + 1) \in Nat
          /\ NewPos(covers, k + 1) \in Nat
      BY <1>2, <2>1
    <3> QED
      BY <2>2, <3>2, <3>3, <3>4
  <2> QED
    BY <2>3, <2>4
<1> QED
  BY <1>1, <1>4, <1>5

\* Counting the new bytes.
LEMMA BytesStep ==
  ASSUME NEW covers
  PROVE  /\ NewBytesBelow(covers, 0) = 0
         /\ \A i \in Nat :
               /\ NewBytesBelow(covers, i) \in Nat
               /\ NewBytesBelow(covers, i + 1)
                    = NewBytesBelow(covers, i) + IF IsCovered(covers, i) THEN 0 ELSE 1
<1> DEFINE B(i) == {j \in 0 .. i - 1 : ~IsCovered(covers, j)}
<1>1. B(0) = {}
  OBVIOUS
<1>2. ASSUME NEW i \in Nat PROVE IsFiniteSet(B(i))
  <2>1. IsFiniteSet(0 .. i - 1) /\ B(i) \subseteq 0 .. i - 1
    BY FS_Interval
  <2> QED
    BY <2>1, FS_Subset
<1>3. ASSUME NEW i \in Nat
      PROVE  B(i + 1) = IF IsCovered(covers, i) THEN B(i) ELSE B(i) \cup {i}
  <2>1. 0 .. (i + 1) - 1 = (0 .. i - 1) \cup {i}
    OBVIOUS
  <2> QED
    BY <2>1
<1>4. \A i \in Nat : i \notin B(i)
  OBVIOUS
<1>5. \A i : NewBytesBelow(covers, i) = Cardinality(B(i))
  BY DEF NewBytesBelow
<1> HIDE DEF B
<1>6. ASSUME NEW i \in Nat
      PROVE  /\ Cardinality(B(i)) \in Nat
             /\ Cardinality(B(i + 1)) = Cardinality(B(i)) + IF IsCovered(covers, i) THEN 0 ELSE 1
  <2>1. Cardinality(B(i)) \in Nat
    BY <1>2, FS_CardinalityType
  <2>2. ASSUME IsCovered(covers, i) PROVE Cardinality(B(i + 1)) = Cardinality(B(i))
    BY <1>3, <2>2
  <2>3. ASSUME ~IsCovered(covers, i) PROVE Cardinality(B(i + 1)) = Cardinality(B(i)) + 1
    <3>1. Cardinality(B(i) \cup {i}) = Cardinality(B(i)) + 1
      BY <1>2, <1>4, FS_AddElement
    <3> QED
      BY <1>3, <2>3, <3>1
  <2> QED
    BY <2>1, <2>2, <2>3
<1> QED
  BY <1>1, <1>5, <1>6, FS_EmptySet

LEMMA BytesGrow ==
  ASSUME NEW covers, NEW i \in Nat, NEW j \in Nat, i <= j
  PROVE  /\ NewBytesBelow(covers, i) \in Nat /\ NewBytesBelow(covers, j) \in Nat
         /\ NewBytesBelow(covers, i) <= NewBytesBelow(covers, j)
<1> DEFINE S == {k \in i .. j : NewBytesBelow(covers, i) <= NewBytesBelow(covers, k)}
<1>1. \A k \in Nat : NewBytesBelow(covers, k) \in Nat
  BY BytesStep
<1>2. i \in S
  BY <1>1
<1>3. ASSUME NEW k \in Int, i < k, k <= j, k - 1 \in S PROVE k \in S
  <2>1. k - 1 \in Nat /\ k - 1 + 1 = k
    BY <1>3
  <2>2. NewBytesBelow(covers, k)
          = NewBytesBelow(covers, k - 1) + IF IsCovered(covers, k - 1) THEN 0 ELSE 1
    BY <2>1, BytesStep
  <2> QED
    BY <1>1, <1>3, <2>1, <2>2
<1>4. S \in SUBSET Int
  OBVIOUS
<1>5. j \in S
  <2> HIDE DEF S
  <2> QED
    BY <1>2, <1>3, <1>4, Induct
<1> QED
  BY <1>1, <1>5

LEMMA BytesOfGap ==
  ASSUME NEW covers, NEW i \in Nat, NEW j \in Nat,
         \A k \in i .. j - 1 : ~IsCovered(covers, k)
  PROVE  \A k \in i .. j : NewBytesBelow(covers, k) = NewBytesBelow(covers, i) + (k - i)
<1> DEFINE S == {k \in Int : NewBytesBelow(covers, k) = NewBytesBelow(covers, i) + (k - i)}
<1>1. \A k \in Nat : NewBytesBelow(covers, k) \in Nat
  BY BytesStep
<1>2. i \in S
  BY <1>1
<1>3. ASSUME NEW k \in Int, i < k, k <= j, k - 1 \in S PROVE k \in S
  <2>1. k - 1 \in Nat /\ k - 1 + 1 = k /\ k - 1 \in i .. j - 1
    BY <1>3
  <2>2. NewBytesBelow(covers, k) = NewBytesBelow(covers, k - 1) + 1
    BY <2>1, BytesStep
  <2> QED
    BY <1>1, <1>3, <2>1, <2>2
<1>4. S \in SUBSET Int
  OBVIOUS
<1>5. \A k \in Int : i <= k /\ k <= j => k \in S
  <2> HIDE DEF S
  <2> QED
    BY <1>2, <1>3, <1>4, Induct
<1> QED
  BY <1>5

LEMMA BytesOfCover ==
  ASSUME NEW covers, NEW i \in Nat, NEW j \in Nat,
         \A k \in i .. j - 1 : IsCovered(covers, k)
  PROVE  \A k \in i .. j : NewBytesBelow(covers, k) = NewBytesBelow(covers, i)
<1> DEFINE S == {k \in Int : NewBytesBelow(covers, k) = NewBytesBelow(covers, i)}
<1>1. \A k \in Nat : NewBytesBelow(covers, k) \in Nat
  BY BytesStep
<1>2. i \in S
  BY <1>1
<1>3. ASSUME NEW k \in Int, i < k, k <= j, k - 1 \in S PROVE k \in S
  <2>1. k - 1 \in Nat /\ k - 1 + 1 = k /\ k - 1 \in i .. j - 1
    BY <1>3
  <2>2. NewBytesBelow(covers, k) = NewBytesBelow(covers, k - 1)
    BY <1>1, <2>1, BytesStep
  <2> QED
    BY <1>1, <1>3, <2>1, <2>2
<1>4. S \in SUBSET Int
  OBVIOUS
<1>5. \A k \in Int : i <= k /\ k <= j => k \in S
  <2> HIDE DEF S
  <2> QED
    BY <1>2, <1>3, <1>4, Induct
<1> QED
  BY <1>5
-----------------------------------------------------------------------------
(***************************************************************************)
(* The runs of HDIFF13.                                                    *)
(***************************************************************************)
CodeOf(r) == CASE r.type = 3 -> r.len [] r.type = 2 -> 1 [] OTHER -> 0

LEMMA RunIs ==
  ASSUME NEW runs \in Seq(RunRecord)
  PROVE  /\ Len(runs) \in Nat
         /\ \A r \in 1 .. Len(runs) :
               /\ runs[r].type \in 0 .. 3 /\ runs[r].len \in Nat /\ runs[r].len > 0
               /\ CodeOf(runs[r]) \in Nat
<1>1. \A r \in 1 .. Len(runs) : runs[r] \in RunRecord
  OBVIOUS
<1>2. \A r \in RunRecord : r.type \in 0 .. 3 /\ r.len \in Nat /\ r.len > 0
  BY DEF RunRecord
<1>3. ASSUME NEW r \in RunRecord PROVE CodeOf(r) \in Nat
  <2>1. CASE r.type = 3
    BY <2>1, <1>2 DEF CodeOf
  <2>2. CASE r.type = 2
    BY <2>2 DEF CodeOf
  <2>3. CASE r.type # 2 /\ r.type # 3
    BY <2>3 DEF CodeOf
  <2> QED
    BY <2>1, <2>2, <2>3
<1> QED
  BY <1>1, <1>2, <1>3

LEMMA RunEnds ==
  ASSUME NEW runs \in Seq(RunRecord)
  PROVE  /\ RunEnd(runs, 0) = 0
         /\ \A r \in 0 .. Len(runs) : RunEnd(runs, r) \in Nat
         /\ \A r \in 1 .. Len(runs) : RunEnd(runs, r) = RunEnd(runs, r - 1) + runs[r].len
         /\ \A q, r \in 0 .. Len(runs) : q <= r => RunEnd(runs, q) <= RunEnd(runs, r)
<1> DEFINE s == [q \in 1 .. Len(runs) |-> runs[q].len]
<1>1. Len(runs) \in Nat /\ \A r \in 1 .. Len(runs) : runs[r].len \in Nat
  BY RunIs
<1>2. s \in Seq(Nat) /\ Len(s) = Len(runs)
  BY <1>1
<1>3. \A r \in 1 .. Len(runs) : s[r] = runs[r].len
  OBVIOUS
<1>4. \A r : RunEnd(runs, r) = Sums(s)[r]
  BY DEF RunEnd
<1> HIDE DEF s
<1>5. /\ Sums(s)[0] = 0
      /\ \A r \in 1 .. Len(s) : Sums(s)[r] = Sums(s)[r - 1] + s[r]
  BY <1>1, <1>2, SumsStep
<1>6. /\ \A r \in 0 .. Len(s) : Sums(s)[r] \in Nat
      /\ \A q, r \in 0 .. Len(s) : q <= r => Sums(s)[q] <= Sums(s)[r]
  BY <1>2, SumsNat
<1>7. RunEnd(runs, 0) = 0 /\ \A r \in 0 .. Len(runs) : RunEnd(runs, r) \in Nat
  BY <1>2, <1>4, <1>5, <1>6
<1>8. \A r \in 1 .. Len(runs) : RunEnd(runs, r) = RunEnd(runs, r - 1) + runs[r].len
  BY <1>2, <1>3, <1>4, <1>5
<1>9. \A q, r \in 0 .. Len(runs) : q <= r => RunEnd(runs, q) <= RunEnd(runs, r)
  BY <1>2, <1>4, <1>6
<1> QED
  BY <1>7, <1>8, <1>9

LEMMA CodeEnds ==
  ASSUME NEW runs \in Seq(RunRecord)
  PROVE  /\ CodeUsed(runs, 0) = 0
         /\ \A r \in 0 .. Len(runs) : CodeUsed(runs, r) \in Nat
         /\ \A r \in 1 .. Len(runs) : CodeUsed(runs, r) = CodeUsed(runs, r - 1) + CodeOf(runs[r])
<1> DEFINE s == [q \in 1 .. Len(runs) |-> CodeOf(runs[q])]
<1>1. Len(runs) \in Nat /\ \A r \in 1 .. Len(runs) : CodeOf(runs[r]) \in Nat
  BY RunIs
<1>2. s \in Seq(Nat) /\ Len(s) = Len(runs)
  BY <1>1
<1>3. \A r \in 1 .. Len(runs) : s[r] = CodeOf(runs[r])
  OBVIOUS
<1>4. \A r : CodeUsed(runs, r) = Sums(s)[r]
  BY DEF CodeUsed, CodeOf
<1> HIDE DEF s
<1>5. /\ Sums(s)[0] = 0
      /\ \A r \in 1 .. Len(s) : Sums(s)[r] = Sums(s)[r - 1] + s[r]
  BY <1>1, <1>2, SumsStep
<1>6. \A r \in 0 .. Len(s) : Sums(s)[r] \in Nat
  BY <1>2, SumsNat
<1>7. CodeUsed(runs, 0) = 0 /\ \A r \in 0 .. Len(runs) : CodeUsed(runs, r) \in Nat
  BY <1>2, <1>4, <1>5, <1>6
<1>8. \A r \in 1 .. Len(runs) : CodeUsed(runs, r) = CodeUsed(runs, r - 1) + CodeOf(runs[r])
  BY <1>2, <1>3, <1>4, <1>5
<1> QED
  BY <1>7, <1>8

\* The run a byte lies in.
LEMMA RunAtIs ==
  ASSUME NEW runs \in Seq(RunRecord), NEW r \in 1 .. Len(runs), NEW i \in Int,
         RunEnd(runs, r - 1) <= i, i < RunEnd(runs, r)
  PROVE  RunAt(runs, i) = r
<1>1. Len(runs) \in Nat
  BY RunIs
<1>2. \A q \in 0 .. Len(runs) : RunEnd(runs, q) \in Nat
  BY RunEnds
<1>3. ASSUME NEW q \in 1 .. Len(runs), RunEnd(runs, q - 1) <= i, i < RunEnd(runs, q) PROVE q = r
  <2>0. /\ q \in 0 .. Len(runs) /\ q - 1 \in 0 .. Len(runs)
        /\ r \in 0 .. Len(runs) /\ r - 1 \in 0 .. Len(runs)
    BY <1>1
  <2>1. CASE q < r
    <3>1. RunEnd(runs, q) <= RunEnd(runs, r - 1)
      BY <2>0, <2>1, RunEnds
    <3> QED
      BY <1>2, <1>3, <2>0, <3>1
  <2>2. CASE r < q
    <3>1. RunEnd(runs, r) <= RunEnd(runs, q - 1)
      BY <2>0, <2>2, RunEnds
    <3> QED
      BY <1>2, <1>3, <2>0, <3>1
  <2> QED
    BY <2>1, <2>2
<1> QED
  BY <1>3 DEF RunAt
-----------------------------------------------------------------------------
(***************************************************************************)
(* HDIFF13.  What the bytes are before and after the runs were added.      *)
(***************************************************************************)
Under(p, o, i) ==
    IF IsCovered(p.covers, i) THEN OldByte(p.covers, o, i)
    ELSE p.data[NewBytesBelow(p.covers, i) + 1]
Byte13(p, o, i) == Plus(Added(p, i), Under(p, o, i))

Stage == IF pc = "runs" THEN after ELSE pc
Laid  == Len(out) + Len(cache)     \* bytes laid out
At    == Len(out) + pos            \* bytes the runs have reached

Typed13 ==
    /\ pc \in {"cover", "gap", "old", "runs", "covered", "tail"}
    /\ pc = "runs" => after \in {"old", "covered", "tail"}
    /\ out \in Seq(Int) /\ cache \in Seq(Int)
    /\ pos \in Nat /\ left \in Nat
    /\ run \in [copy : Nat, set : Nat, val : Int]
    /\ read \in [runs : Nat, code : Nat, data : Nat]

\* Where the decoder is among the covers, and how far the cache reaches.
Course13 ==
    LET C == patch.covers  last == NewEnd(C, next - 1) IN
    /\ next \in 1 .. Len(C) + 1
    /\ Stage \in {"gap", "old", "covered"} => next > 1
    /\ Stage = "tail" => next > Len(C)
    /\ cover = IF next = 1 THEN [old |-> 0, new |-> 0, len |-> 0]
               ELSE [old |-> OldPos(C, next - 1), new |-> NewPos(C, next - 1),
                     len |-> C[next - 1].len]
    /\ last <= patch.size
    /\ Stage \in {"gap", "old", "covered"} => newBack = NewEnd(C, next - 2)
    /\ Stage = "cover" => newBack = last \/ (newBack = patch.size /\ next > Len(C))
    /\ Stage \in {"cover", "gap"} => Laid = newBack
    /\ Stage = "old" => Laid = NewPos(C, next - 1)
    /\ Stage = "covered" => Laid = last
    /\ Stage = "tail" => Laid = patch.size
    /\ pos <= Len(cache)
    /\ IF pc = "runs" THEN left = Len(cache) - pos ELSE pos = Len(cache)
    /\ Stage = "cover" /\ next > Len(C) => cache = <<>>

\* The covers up to now lie in the old file.
FromOld(p, o, m, k) ==
    OldPos(p.covers, k) + p.covers[k].len <= Len(o) \/ (~m /\ p.covers[k].len = 0)
Passed13 ==
    /\ \A k \in 1 .. next - 1 : OldPos(patch.covers, k) >= 0
    /\ \A k \in 1 .. next - 1 : (k = next - 1 => Stage \notin {"gap", "old"}) =>
                                    FromOld(patch, old, mapped, k)

Data13 ==
    read.data = NewBytesBelow(patch.covers, Laid) /\ read.data <= Len(patch.data)

\* How the run in progress lies to the bytes the runs have reached.
Runs13 ==
    LET R == read.runs  r == patch.runs[R] IN
    /\ R <= Len(patch.runs) /\ read.code <= Len(patch.code)
    /\ RunEnd(patch.runs, R) = At + run.copy + run.set
    /\ R > 0 => RunEnd(patch.runs, R - 1) <= At
    /\ CodeUsed(patch.runs, R) = read.code + run.copy
    /\ run.copy = 0 \/ run.set = 0
    /\ run.copy > 0 => r.type = 3
    /\ run.set > 0 =>
           /\ r.type # 3
           /\ run.val = IF r.type = 2 THEN patch.code[read.code] ELSE (Base - r.type) % Base
    /\ \A i \in 0 .. At - 1 : CodePlace(patch.runs, i) <= Len(patch.code)

Content13 ==
    /\ \A j \in 1 .. Len(out) : out[j] = Byte13(patch, old, j - 1)
    /\ \A j \in 1 .. Len(cache) :
           cache[j] = IF j <= pos THEN Byte13(patch, old, Len(out) + j - 1)
                      ELSE Under(patch, old, Len(out) + j - 1)

Work13 == Typed13 /\ Course13 /\ Passed13 /\ Data13 /\ Runs13 /\ Content13

\* What the types of a patch say of its parts.
LEMMA PatchIs13 ==
  ASSUME NEW p \in Patch13
  PROVE  /\ p.covers \in Seq(CoverRecord) /\ p.runs \in Seq(RunRecord)
         /\ p.size \in Nat /\ p.oldSize \in Nat
         /\ p.code \in Seq(Int) /\ Len(p.code) \in Nat
         /\ p.data \in Seq(Int) /\ Len(p.data) \in Nat
<1>1. /\ p.covers \in Seq(CoverRecord) /\ p.runs \in Seq(RunRecord)
      /\ p.size \in Nat /\ p.oldSize \in Nat
      /\ p.code \in Seq(Bytes) /\ p.data \in Seq(Bytes)
  BY DEF Patch13
<1>2. Bytes \subseteq Int
  BY DEF Bytes
<1>3. p.code \in Seq(Int) /\ p.data \in Seq(Int)
  BY <1>1, <1>2, SeqMonotonic
<1> QED
  BY <1>1, <1>3

\* The cover that is decoded lies where the patch says.
LEMMA DecodedIs ==
  ASSUME patch \in Patch13, Work13, pc = "cover", ~Core!LastCover
  PROVE  /\ next \in 1 .. Len(patch.covers) /\ newBack = NewEnd(patch.covers, next - 1)
         /\ Core!Decoded = [old |-> OldPos(patch.covers, next), new |-> NewPos(patch.covers, next),
                            len |-> patch.covers[next].len]
<1> DEFINE C == patch.covers
<1>1. C \in Seq(CoverRecord) /\ Len(C) \in Nat
  BY PatchIs13, CoverIs
<1>2. next <= Len(C) /\ next \in 1 .. Len(C)
  BY <1>1 DEF Core!LastCover, Work13, Course13
<1>3. newBack = NewEnd(C, next - 1)
  BY <1>1, <1>2 DEF Work13, Course13, Stage
<1>4. NewPos(C, next) = NewEnd(C, next - 1) + C[next].gap
  BY <1>1, <1>2, NewPlaces
<1>5. OldPos(C, next) = OldEnd(C, next - 1) + C[next].inc
  BY <1>1, <1>2, OldPlaces
<1>6. cover.old + cover.len = OldEnd(C, next - 1)
  <2>1. CASE next = 1
    BY <2>1, <1>1, OldEnds DEF Work13, Course13
  <2>2. CASE next # 1
    <3>1. next - 1 \in 1 .. Len(C)
      BY <1>2, <2>2
    <3>2. cover.old = OldPos(C, next - 1) /\ cover.len = C[next - 1].len
      BY <2>2 DEF Work13, Course13
    <3> QED
      BY <1>1, <3>1, <3>2, OldPlaces
  <2> QED
    BY <2>1, <2>2
<1> QED
  BY <1>2, <1>3, <1>4, <1>5, <1>6 DEF Core!Decoded

LEMMA NextCoverKeeps ==
  ASSUME patch \in Patch13, Work13, Core!NextCover, UNCHANGED inputs
  PROVE  Work13'
<1> DEFINE C == patch.covers
<1>1. C \in Seq(CoverRecord) /\ patch.size \in Nat
  BY PatchIs13
<1>2. /\ pc = "cover" /\ ~Core!LastCover /\ next <= Len(C)
      /\ UNCHANGED <<out, result, after, newBack, cache, pos, left, run, read, patch, old, mapped>>
      /\ next' = next + 1 /\ cover' = Core!Decoded
      /\ pc' = IF newBack < Core!Decoded.new THEN "gap" ELSE "old"
      /\ Core!Decoded.old >= 0 /\ Core!Decoded.new + Core!Decoded.len <= patch.size
  BY <1>1, CoverIs DEF Core!NextCover, Core!Running, Core!LastCover, Work13, Course13, inputs
<1>3. /\ next \in 1 .. Len(C) /\ Len(C) \in Nat /\ newBack = NewEnd(C, next - 1)
      /\ Core!Decoded = [old |-> OldPos(C, next), new |-> NewPos(C, next), len |-> C[next].len]
  BY <1>1, <1>2, DecodedIs, CoverIs
<1>4. /\ NewPos(C, next) + C[next].len = NewEnd(C, next)
      /\ NewPos(C, next) \in Nat /\ NewEnd(C, next) \in Nat
      /\ NewEnd(C, next - 1) \in Nat /\ NewEnd(C, next - 1) <= NewPos(C, next)
  BY <1>1, <1>3, NewPlaces
<1>5. OldPos(C, next) >= 0 /\ NewEnd(C, next) <= patch.size
  BY <1>2, <1>3, <1>4
<1>6. pc' = IF newBack < NewPos(C, next) THEN "gap" ELSE "old"
  BY <1>2, <1>3
<1>7. Typed13'
  BY <1>2, <1>6 DEF Work13, Typed13
<1>8. Course13'
  <2>1. next' \in 1 .. Len(C) + 1 /\ next' # 1 /\ next' > 1 /\ next' - 1 = next /\ next' - 2 = next - 1
    BY <1>2, <1>3
  <2>2. Stage' \in {"gap", "old"} /\ Stage' = pc' /\ pc' # "runs"
    BY <1>6 DEF Stage
  <2>3. Laid' = Laid /\ Laid = newBack /\ pos <= Len(cache) /\ pos = Len(cache)
    BY <1>2 DEF Work13, Course13, Laid, Stage
  <2>4. pc' = "old" => newBack = NewPos(C, next)
    BY <1>3, <1>4, <1>6
  <2>5. cover' = [old |-> OldPos(C, next), new |-> NewPos(C, next), len |-> C[next].len]
    BY <1>2, <1>3
  <2> QED
    BY <1>2, <1>3, <1>5, <2>1, <2>2, <2>3, <2>4, <2>5 DEF Course13
<1>9. Passed13'
  <2>1. Stage' \in {"gap", "old"} /\ next' - 1 = next /\ next' = next + 1
    BY <1>2, <1>3, <1>6 DEF Stage
  <2>2. \A k \in 1 .. next : k = next \/ k \in 1 .. next - 1
    BY <1>3
  <2>3. Stage = "cover"
    BY <1>2 DEF Stage
  <2> QED
    BY <1>2, <1>5, <2>1, <2>2, <2>3 DEF Work13, Passed13
<1>10. Data13' /\ Runs13' /\ Content13'
  BY <1>2 DEF Work13, Data13, Runs13, Content13, Laid, At
<1> QED
  BY <1>7, <1>8, <1>9, <1>10 DEF Work13

\* A part of a sequence.
LEMMA PartIs ==
  ASSUME NEW s \in Seq(Int), NEW m \in Nat, NEW n \in Nat, m + n <= Len(s) \/ n = 0
  PROVE  /\ SubSeq(s, m + 1, m + n) \in Seq(Int)
         /\ Len(SubSeq(s, m + 1, m + n)) = n
         /\ \A j \in 1 .. n : SubSeq(s, m + 1, m + n)[j] = s[m + j]
<1>1. Len(s) \in Nat /\ \A i \in 1 .. Len(s) : s[i] \in Int
  OBVIOUS
<1>2. \A i \in m + 1 .. m + n : s[i] \in Int
  BY <1>1
<1>3. /\ SubSeq(s, m + 1, m + n) \in Seq(Int)
      /\ Len(SubSeq(s, m + 1, m + n)) = IF m + 1 <= m + n THEN (m + n) - (m + 1) + 1 ELSE 0
      /\ \A i \in 1 .. (m + n) - (m + 1) + 1 : SubSeq(s, m + 1, m + n)[i] = s[(m + 1) + i - 1]
  <2>1. m + 1 \in Int /\ m + n \in Int
    OBVIOUS
  <2> QED
    BY <1>2, <2>1, SubSeqProperties
<1>4. (m + n) - (m + 1) + 1 = n /\ \A j \in 1 .. n : (m + 1) + j - 1 = m + j
  OBVIOUS
<1>5. Len(SubSeq(s, m + 1, m + n)) = n
  BY <1>3, <1>4
<1> QED
  BY <1>3, <1>4, <1>5

\* What is put at the end of the cache.
Longer(c, b) == SubSeq(c, 1, Len(c)) \o b \o SubSeq(c, Len(c) + Len(b) + 1, Len(c))

LEMMA PutIs ==
  ASSUME NEW c \in Seq(Int), NEW b \in Seq(Int)
  PROVE  /\ Longer(c, b) \in Seq(Int) /\ Len(Longer(c, b)) = Len(c) + Len(b)
         /\ \A j \in 1 .. Len(c) + Len(b) :
               Longer(c, b)[j] = IF j <= Len(c) THEN c[j] ELSE b[j - Len(c)]
<1>1. Len(c) \in Nat /\ Len(b) \in Nat
  OBVIOUS
<1>2. SubSeq(c, 1, Len(c)) = c
  BY SubSeqFull
<1>3. SubSeq(c, Len(c) + Len(b) + 1, Len(c)) = <<>>
  <2>1. Len(c) + Len(b) + 1 \in Int /\ Len(c) \in Int /\ Len(c) < Len(c) + Len(b) + 1
    BY <1>1
  <2> QED
    BY <2>1, SubSeqEmpty
<1>4. /\ c \o b \in Seq(Int) /\ Len(c \o b) = Len(c) + Len(b)
      /\ \A i \in 1 .. Len(c) + Len(b) : (c \o b)[i] = IF i <= Len(c) THEN c[i] ELSE b[i - Len(c)]
  BY ConcatProperties
<1>5. Longer(c, b) = c \o b
  BY <1>2, <1>3, <1>4, ConcatEmptySeq DEF Longer
<1> QED
  BY <1>4, <1>5

\* Bytes that no run has reached yet are laid out after the others.
LEMMA LaidKeeps ==
  ASSUME patch \in Patch13, Work13, pc # "runs", NEW b \in Seq(Int), Core!Put(b),
         \A j \in 1 .. Len(b) : b[j] = Under(patch, old, Laid + j - 1),
         UNCHANGED <<out, pos, run, patch, old>>,
         read'.runs = read.runs, read'.code = read.code
  PROVE  /\ cache' \in Seq(Int) /\ Len(cache') = Len(cache) + Len(b) /\ pos = Len(cache)
         /\ Laid' = Laid + Len(b) /\ Laid \in Nat /\ At' = At
         /\ Runs13' /\ Content13'
<1>1. /\ pos = Len(cache) /\ cache \in Seq(Int) /\ out \in Seq(Int)
      /\ Len(cache) \in Nat /\ Len(out) \in Nat /\ Len(b) \in Nat
  BY DEF Work13, Typed13, Course13
<1>2. cache' = Longer(cache, b)
  BY <1>1 DEF Core!Put, Longer
<1>3. /\ cache' \in Seq(Int) /\ Len(cache') = Len(cache) + Len(b)
      /\ \A j \in 1 .. Len(cache') :
            cache'[j] = IF j <= Len(cache) THEN cache[j] ELSE b[j - Len(cache)]
  <2>1. /\ Longer(cache, b) \in Seq(Int) /\ Len(Longer(cache, b)) = Len(cache) + Len(b)
        /\ \A j \in 1 .. Len(cache) + Len(b) :
              Longer(cache, b)[j] = IF j <= Len(cache) THEN cache[j] ELSE b[j - Len(cache)]
    BY <1>1, PutIs
  <2>2. Len(cache') = Len(cache) + Len(b)
    BY <1>2, <2>1
  <2> QED
    BY <1>2, <2>1, <2>2
<1>4. Laid' = Laid + Len(b) /\ Laid \in Nat /\ Laid = Len(out) + Len(cache) /\ At' = At
  BY <1>1, <1>3 DEF Laid, At
<1>5. Runs13'
  BY <1>4 DEF Work13, Runs13
<1>6. Content13'
  <2>1. \A j \in 1 .. Len(out) : out[j] = Byte13(patch, old, j - 1)
    BY DEF Work13, Content13
  <2>2. ASSUME NEW j \in 1 .. Len(cache')
        PROVE  cache'[j] = IF j <= pos THEN Byte13(patch, old, Len(out) + j - 1)
                           ELSE Under(patch, old, Len(out) + j - 1)
    <3>1. CASE j <= Len(cache)
      <4>1. j \in 1 .. Len(cache) /\ j <= pos
        BY <1>1, <3>1
      <4> QED
        BY <1>3, <3>1, <4>1 DEF Work13, Content13
    <3>2. CASE ~(j <= Len(cache))
      <4>1. j - Len(cache) \in 1 .. Len(b) /\ ~(j <= pos)
        BY <1>1, <1>3, <3>2
      <4>2. Laid + (j - Len(cache)) - 1 = Len(out) + j - 1
        BY <1>1, <1>4
      <4>3. b[j - Len(cache)] = Under(patch, old, Laid + (j - Len(cache)) - 1)
        BY <4>1
      <4> QED
        BY <1>3, <3>2, <4>1, <4>2, <4>3
    <3> QED
      BY <3>1, <3>2
  <2> QED
    BY <2>1, <2>2 DEF Content13
<1> QED
  BY <1>1, <1>3, <1>4, <1>5, <1>6

\* New bytes are laid out where no cover lies.
LEMMA NewBytesKeep ==
  ASSUME patch \in Patch13, Work13, pc # "runs", NEW n \in Nat, read.data + n <= Len(patch.data),
         \A i \in Laid .. Laid + n - 1 : ~IsCovered(patch.covers, i),
         Core!Put(SubSeq(patch.data, read.data + 1, read.data + n)),
         read' = [read EXCEPT !.data = @ + n],
         left' = n, pc' = "runs", after' \in {"old", "covered", "tail"},
         UNCHANGED <<out, pos, run, patch, old>>
  PROVE  /\ Typed13' /\ Data13' /\ Runs13' /\ Content13'
         /\ Len(cache') = Len(cache) + n /\ pos = Len(cache)
         /\ Len(cache) \in Nat /\ Laid' = Laid + n /\ Laid \in Nat
<1> DEFINE b == SubSeq(patch.data, read.data + 1, read.data + n)
           C == patch.covers
<1>1. patch.data \in Seq(Int) /\ Len(patch.data) \in Nat /\ C \in Seq(CoverRecord)
  BY PatchIs13
<1>2. read \in [runs : Nat, code : Nat, data : Nat] /\ read.data \in Nat
  BY DEF Work13, Typed13
<1>3. b \in Seq(Int) /\ Len(b) = n /\ \A j \in 1 .. n : b[j] = patch.data[read.data + j]
  BY <1>1, <1>2, PartIs, ZenonT(30)
<1>4. read.data = NewBytesBelow(C, Laid)
  BY DEF Work13, Data13
<1>5. Laid \in Nat /\ Len(cache) \in Nat /\ pos \in Nat
  BY DEF Work13, Typed13, Laid
<1>6. \A k \in Laid .. Laid + n : NewBytesBelow(C, k) = read.data + (k - Laid)
  BY <1>4, <1>5, BytesOfGap, SMTT(30)
<1>7. ASSUME NEW j \in 1 .. n PROVE b[j] = Under(patch, old, Laid + j - 1)
  <2>1. Laid + j - 1 \in Laid .. Laid + n /\ Laid + j - 1 \in Laid .. Laid + n - 1
    BY <1>5
  <2>2. NewBytesBelow(C, Laid + j - 1) + 1 = read.data + j
    BY <1>2, <1>5, <1>6, <2>1, SMTT(30)
  <2>3. ~IsCovered(C, Laid + j - 1)
    BY <2>1
  <2> QED
    BY <1>3, <2>2, <2>3 DEF Under
<1> HIDE DEF b
<1>8. Core!Put(b)
  BY DEF b
<1>9. read'.runs = read.runs /\ read'.code = read.code /\ read'.data = read.data + n
      /\ read' \in [runs : Nat, code : Nat, data : Nat]
  BY <1>2
<1>10. /\ cache' \in Seq(Int) /\ Len(cache') = Len(cache) + n /\ pos = Len(cache)
       /\ Laid' = Laid + n /\ Runs13' /\ Content13'
  BY <1>3, <1>7, <1>8, <1>9, LaidKeeps
<1>11. Typed13'
  BY <1>9, <1>10 DEF Work13, Typed13
<1>12. Data13'
  <2>1. Laid + n \in Laid .. Laid + n /\ (Laid + n) - Laid = n
    BY <1>5
  <2>2. NewBytesBelow(C, Laid + n) = read.data + n
    BY <1>6, <2>1
  <2> QED
    BY <1>9, <1>10, <2>2 DEF Data13
<1> QED
  BY <1>5, <1>10, <1>11, <1>12

LEMMA GapKeeps ==
  ASSUME patch \in Patch13, Work13, Core!Gap, result' = "running", UNCHANGED inputs
  PROVE  Work13'
<1> DEFINE C == patch.covers
           n == cover.new - newBack
<1>1. C \in Seq(CoverRecord) /\ patch.size \in Nat
  BY PatchIs13
<1>2. pc = "gap" /\ result = "running" /\ UNCHANGED <<patch, old, mapped>>
  BY DEF Core!Gap, Core!Running, inputs
<1>3. /\ read.data + n <= Len(patch.data)
      /\ Core!Put(SubSeq(patch.data, read.data + 1, read.data + n))
      /\ read' = [read EXCEPT !.data = @ + n]
      /\ left' = n /\ pc' = "runs" /\ after' = "old"
      /\ UNCHANGED <<out, next, cover, newBack, pos, run>>
  BY <1>2 DEF Core!Gap, Core!CopyNew, Core!Fails
<1>4. /\ next \in 1 .. Len(C) + 1 /\ next > 1 /\ Len(C) \in Nat
      /\ newBack = NewEnd(C, next - 2) /\ Laid = newBack
      /\ cover.new = NewPos(C, next - 1)
  BY <1>1, <1>2, CoverIs DEF Work13, Course13, Stage
<1>5. next - 1 \in 1 .. Len(C) /\ (next - 1) - 1 = next - 2 /\ next - 2 \in 0 .. Len(C)
      /\ (next - 2) + 1 = next - 1
  BY <1>4
<1>6. /\ NewEnd(C, next - 2) \in Nat /\ NewPos(C, next - 1) \in Nat
      /\ NewEnd(C, next - 2) <= NewPos(C, next - 1)
  BY <1>1, <1>5, NewPlaces
<1>7. n \in Nat /\ Laid + n = NewPos(C, next - 1)
  BY <1>4, <1>6
<1>8. ASSUME NEW i \in Laid .. Laid + n - 1 PROVE ~IsCovered(C, i)
  <2>1. i \in Int /\ NewEnd(C, next - 2) <= i /\ i < NewPos(C, (next - 2) + 1)
    BY <1>4, <1>5, <1>6, <1>7
  <2> QED
    BY <1>1, <1>5, <2>1, NotCovered
<1> HIDE DEF n
<1>9. /\ Typed13' /\ Data13' /\ Runs13' /\ Content13'
      /\ Len(cache') = Len(cache) + n /\ pos = Len(cache)
      /\ Len(cache) \in Nat /\ Laid' = Laid + n
  BY <1>2, <1>3, <1>7, <1>8, NewBytesKeep
<1>10. Course13'
  <2>1. Stage' = "old" /\ Stage = "gap"
    BY <1>2, <1>3 DEF Stage
  <2> QED
    BY <1>2, <1>3, <1>4, <1>7, <1>9, <2>1 DEF Work13, Course13
<1>11. Passed13'
  BY <1>2, <1>3 DEF Work13, Passed13, Stage
<1> QED
  BY <1>9, <1>10, <1>11 DEF Work13

LEMMA TailKeeps ==
  ASSUME patch \in Patch13, Work13, Core!Tail13, result' = "running", UNCHANGED inputs
  PROVE  Work13'
<1> DEFINE C == patch.covers
           n == patch.size - newBack
<1>1. C \in Seq(CoverRecord) /\ patch.size \in Nat /\ Len(C) \in Nat
  BY PatchIs13, CoverIs
<1>2. pc = "cover" /\ result = "running" /\ UNCHANGED <<patch, old, mapped>>
      /\ next > Len(C) /\ newBack < patch.size
  BY DEF Core!Tail13, Core!LastCover, Core!Running, inputs
<1>3. /\ read.data + n <= Len(patch.data)
      /\ Core!Put(SubSeq(patch.data, read.data + 1, read.data + n))
      /\ read' = [read EXCEPT !.data = @ + n]
      /\ left' = n /\ pc' = "runs" /\ after' = "tail"
      /\ UNCHANGED <<out, next, cover, newBack, pos, run>>
  BY <1>2 DEF Core!Tail13, Core!CopyNew, Core!Fails
<1>4. /\ next = Len(C) + 1 /\ next - 1 = Len(C) /\ Len(C) \in 0 .. Len(C)
      /\ newBack = NewEnd(C, Len(C)) /\ Laid = newBack
  BY <1>1, <1>2 DEF Work13, Course13, Stage
<1>5. NewEnd(C, Len(C)) \in Nat
  BY <1>1, <1>4, NewEnds
<1>6. n \in Nat /\ Laid + n = patch.size
  BY <1>1, <1>2, <1>4, <1>5
<1>7. ASSUME NEW i \in Laid .. Laid + n - 1 PROVE ~IsCovered(C, i)
  <2>1. i \in Int /\ NewEnd(C, Len(C)) <= i
    BY <1>1, <1>4, <1>5
  <2> QED
    BY <1>1, <1>4, <2>1, NotCovered
<1> HIDE DEF n
<1>8. /\ Typed13' /\ Data13' /\ Runs13' /\ Content13'
      /\ Len(cache') = Len(cache) + n /\ pos = Len(cache)
      /\ Len(cache) \in Nat /\ Laid' = Laid + n
  BY <1>2, <1>3, <1>6, <1>7, NewBytesKeep
<1>9. Course13'
  <2>1. Stage' = "tail" /\ Stage = "cover"
    BY <1>2, <1>3 DEF Stage
  <2> QED
    BY <1>2, <1>3, <1>4, <1>6, <1>8, <2>1 DEF Work13, Course13
<1>10. Passed13'
  BY <1>2, <1>3 DEF Work13, Passed13, Stage
<1> QED
  BY <1>8, <1>9, <1>10 DEF Work13

LEMMA CopyOldKeeps ==
  ASSUME patch \in Patch13, old \in Seq(Bytes), Work13, Core!CopyOld, UNCHANGED inputs
  PROVE  Work13'
<1> DEFINE C == patch.covers
           k == next - 1
           m == OldPos(C, k)
           n == C[k].len
           b == SubSeq(old, cover.old + 1, cover.old + cover.len)
<1>1. C \in Seq(CoverRecord) /\ patch.size \in Nat /\ Len(C) \in Nat
  BY PatchIs13, CoverIs
<1>2. old \in Seq(Int) /\ Len(old) \in Nat
  <2>1. Bytes \subseteq Int
    BY DEF Bytes
  <2>2. old \in Seq(Int)
    BY <2>1, SeqMonotonic
  <2> QED
    BY <2>2
<1>3. /\ pc = "old" /\ Core!InOld /\ Core!Put(b)
      /\ left' = cover.len /\ pc' = "runs" /\ after' = "covered"
      /\ UNCHANGED <<out, result, next, cover, newBack, pos, run, read, patch, old, mapped>>
  BY DEF Core!CopyOld, Core!Running, inputs
<1>4. /\ k \in 1 .. Len(C) /\ next \in 1 .. Len(C) + 1 /\ next > 1
      /\ cover = [old |-> OldPos(C, k), new |-> NewPos(C, k), len |-> C[k].len]
      /\ Laid = NewPos(C, k)
  BY <1>1, <1>3 DEF Work13, Course13, Stage
<1> HIDE DEF k
<1>5. /\ NewPos(C, k) \in Nat /\ NewEnd(C, k) \in Nat /\ NewPos(C, k) + n = NewEnd(C, k)
      /\ m \in Int /\ n \in Nat
  BY <1>1, <1>4, NewPlaces, OldPlaces, CoverIs
<1> HIDE DEF m, n
<1>6. m >= 0
  BY <1>4 DEF Work13, Passed13, k, m
<1>7. b \in Seq(Int) /\ Len(b) = n /\ \A j \in 1 .. n : b[j] = old[m + j]
  <2>1. m \in Nat /\ (m + n <= Len(old) \/ n = 0)
    BY <1>3, <1>4, <1>5, <1>6 DEF Core!InOld, m, n
  <2>2. b = SubSeq(old, m + 1, m + n)
    BY <1>4 DEF m, n
  <2> HIDE DEF b
  <2>3. /\ SubSeq(old, m + 1, m + n) \in Seq(Int)
        /\ Len(SubSeq(old, m + 1, m + n)) = n
        /\ \A j \in 1 .. n : SubSeq(old, m + 1, m + n)[j] = old[m + j]
    BY <1>2, <1>5, <2>1, PartIs
  <2> QED
    BY <2>2, <2>3
<1> HIDE DEF b
<1>8. ASSUME NEW i \in Laid .. Laid + n - 1
      PROVE  Covering(C, i) = {k} /\ IsCovered(C, i)
  <2>1. i \in Int /\ NewPos(C, k) <= i /\ i < NewEnd(C, k)
    BY <1>4, <1>5
  <2> QED
    BY <1>1, <1>4, <2>1, CoveredOnce DEF IsCovered
<1>9. ASSUME NEW j \in 1 .. Len(b) PROVE b[j] = Under(patch, old, Laid + j - 1)
  <2>1. Laid + j - 1 \in Laid .. Laid + n - 1
    BY <1>4, <1>5, <1>7, SMTT(30)
  <2>2. Covering(C, Laid + j - 1) = {k} /\ IsCovered(C, Laid + j - 1)
    BY <1>8, <2>1
  <2>3. (CHOOSE x \in {k} : TRUE) = k
    OBVIOUS
  <2>4. OldByte(C, old, Laid + j - 1) = old[m + (Laid + j - 1) - NewPos(C, k) + 1]
    BY <2>2, <2>3 DEF OldByte, m
  <2>5. m + (Laid + j - 1) - NewPos(C, k) + 1 = m + j
    BY <1>4, <1>5, <1>7
  <2> QED
    BY <1>7, <2>2, <2>4, <2>5 DEF Under
<1>10. /\ cache' \in Seq(Int) /\ Len(cache') = Len(cache) + n /\ pos = Len(cache)
       /\ Laid' = Laid + n /\ Runs13' /\ Content13'
  BY <1>3, <1>7, <1>9, LaidKeeps
<1>11. Typed13'
  BY <1>3, <1>4, <1>5, <1>10 DEF Work13, Typed13, n
<1>12. Data13'
  <2>1. Laid \in Nat /\ Laid + n \in Nat
    BY <1>4, <1>5
  <2>2. Laid + n \in Laid .. Laid + n
    BY <1>5, <2>1
  <2>3. \A i \in Laid .. (Laid + n) - 1 : IsCovered(C, i)
    <3>1. (Laid + n) - 1 = Laid + n - 1
      BY <1>5, <2>1
    <3> QED
      BY <1>8, <3>1
  <2>4. \A i \in Laid .. Laid + n : NewBytesBelow(C, i) = NewBytesBelow(C, Laid)
    BY <2>1, <2>3, BytesOfCover
  <2>5. NewBytesBelow(C, Laid + n) = NewBytesBelow(C, Laid)
    BY <2>2, <2>4
  <2> QED
    BY <1>3, <1>10, <2>5 DEF Work13, Data13
<1>13. Course13'
  <2>1. Stage' = "covered" /\ Stage = "old" /\ pc # "runs"
    BY <1>3 DEF Stage
  <2>2. Laid' = NewEnd(C, k) /\ Len(cache) \in Nat
    BY <1>4, <1>5, <1>10 DEF Work13, Typed13
  <2>3. left' = Len(cache') - pos /\ pos <= Len(cache')
    BY <1>3, <1>4, <1>5, <1>10, <2>2, SMTT(30) DEF n
  <2> QED
    BY <1>3, <1>4, <2>1, <2>2, <2>3 DEF Work13, Course13, k
<1>14. Passed13'
  <2>1. FromOld(patch, old, mapped, k)
    BY <1>3, <1>4 DEF Core!InOld, FromOld, m, n
  <2>2. Stage = "old"
    BY <1>3 DEF Stage
  <2> QED
    BY <1>3, <2>1, <2>2 DEF Work13, Passed13, k
<1> QED
  BY <1>10, <1>11, <1>12, <1>13, <1>14 DEF Work13

\* The runs reach n more bytes, a giving what is added to each.
LEMMA ReachKeeps ==
  ASSUME patch \in Patch13, Work13, pc = "runs", NEW n \in Nat, n <= left, NEW a,
         \A j \in 1 .. n : a[j] \in Int /\ a[j] = Added(patch, At + j - 1),
         cache' = [i \in 1 .. Len(cache) |->
                      IF pos < i /\ i <= pos + n THEN Plus(cache[i], a[i - pos]) ELSE cache[i]],
         pos' = pos + n, left' = left - n,
         UNCHANGED <<out, patch, old, mapped, pc, after, next, cover, newBack>>,
         read'.data = read.data
  PROVE  /\ cache' \in Seq(Int) /\ pos' \in Nat /\ left' \in Nat
         /\ Course13' /\ Passed13' /\ Data13' /\ Content13' /\ At' = At + n /\ At \in Nat
<1>1. /\ cache \in Seq(Int) /\ out \in Seq(Int) /\ pos \in Nat /\ left \in Nat
      /\ Len(cache) \in Nat /\ Len(out) \in Nat /\ left = Len(cache) - pos
  BY SMTT(30) DEF Work13, Typed13, Course13
<1>2. At' = At + n /\ At \in Nat /\ At = Len(out) + pos
  BY <1>1 DEF At
<1>3. \A i \in 1 .. Len(cache) : cache[i] \in Int
  BY <1>1
<1>4. ASSUME NEW i \in 1 .. Len(cache) PROVE cache'[i] \in Int
  <2>1. CASE pos < i /\ i <= pos + n
    <3>1. i - pos \in 1 .. n
      BY <1>1, <2>1
    <3>2. a[i - pos] \in Int /\ cache[i] \in Int
      BY <1>3, <3>1
    <3> QED
      BY <2>1, <3>2, BaseAssumption DEF Plus
  <2>2. CASE ~(pos < i /\ i <= pos + n)
    BY <1>3, <2>2
  <2> QED
    BY <2>1, <2>2
<1>5. cache' \in Seq(Int) /\ Len(cache') = Len(cache)
  BY <1>1, <1>4
<1>6. Laid' = Laid
  BY <1>5 DEF Laid
<1>7. Course13'
  <2>1. Stage' = Stage
    BY DEF Stage
  <2>2. Stage # "cover"
    BY DEF Stage, Work13, Typed13
  <2>3. left' = Len(cache') - pos' /\ pos' <= Len(cache')
    BY <1>1, <1>5
  <2> QED
    BY <1>6, <2>1, <2>2, <2>3 DEF Work13, Course13
<1>8. Passed13' /\ Data13'
  BY <1>6 DEF Work13, Passed13, Data13, Stage
<1>9. Content13'
  <2>1. ASSUME NEW j \in 1 .. Len(cache)
        PROVE  cache'[j] = IF j <= pos + n THEN Byte13(patch, old, Len(out) + j - 1)
                           ELSE Under(patch, old, Len(out) + j - 1)
    <3>1. cache[j] = IF j <= pos THEN Byte13(patch, old, Len(out) + j - 1)
                     ELSE Under(patch, old, Len(out) + j - 1)
      BY DEF Work13, Content13
    <3>2. CASE pos < j /\ j <= pos + n
      <4>1. j - pos \in 1 .. n /\ At + (j - pos) - 1 = Len(out) + j - 1
        <5> HIDE DEF At
        <5>1. j \in Nat
          BY <1>1
        <5> QED
          BY <1>1, <1>2, <3>2, <5>1
      <4>2. a[j - pos] \in Int /\ a[j - pos] = Added(patch, Len(out) + j - 1)
        BY <4>1
      <4>3. cache[j] = Under(patch, old, Len(out) + j - 1) /\ cache[j] \in Int
        BY <1>1, <1>3, <3>1, <3>2
      <4>4. cache'[j] = Plus(cache[j], a[j - pos])
        BY <3>2
      <4> HIDE DEF At
      <4>5. cache[j] + a[j - pos] = a[j - pos] + cache[j]
        BY <4>2, <4>3
      <4>6. cache'[j] = Byte13(patch, old, Len(out) + j - 1)
        BY <4>2, <4>3, <4>4, <4>5 DEF Byte13, Plus
      <4> QED
        BY <3>2, <4>6
    <3>3. CASE ~(pos < j /\ j <= pos + n)
      BY <1>1, <3>1, <3>3
    <3> QED
      BY <3>2, <3>3
  <2> QED
    BY <1>5, <2>1 DEF Work13, Content13
<1> QED
  BY <1>1, <1>2, <1>5, <1>7, <1>8, <1>9

LEMMA LeastOf ==
  ASSUME NEW a \in Nat, NEW b \in Nat, NEW c \in Nat
  PROVE  /\ Core!Min({a, b, c}) \in Nat
         /\ Core!Min({a, b, c}) <= a /\ Core!Min({a, b, c}) <= b /\ Core!Min({a, b, c}) <= c
         /\ a > 0 /\ b > 0 /\ c > 0 => Core!Min({a, b, c}) > 0
<1>1. \E x \in {a, b, c} : \A y \in {a, b, c} : x <= y
  <2>1. CASE a <= b /\ a <= c
    BY <2>1
  <2>2. CASE b <= a /\ b <= c
    BY <2>2
  <2>3. CASE c <= a /\ c <= b
    BY <2>3
  <2> QED
    BY <2>1, <2>2, <2>3
<1>2. /\ Core!Min({a, b, c}) \in {a, b, c}
      /\ \A y \in {a, b, c} : Core!Min({a, b, c}) <= y
  BY <1>1 DEF Core!Min
<1> QED
  BY <1>2

LEMMA Remainders ==
  /\ (Base - 0) % Base = 0 /\ (Base - 1) % Base = Base - 1
  /\ \A x \in Int : x % Base \in Bytes
  /\ \A x \in Bytes : x % Base = x
  BY BaseAssumption DEF Bytes

\* A byte between what the runs have reached and the end of the run in progress.
LEMMA RunHere ==
  ASSUME patch \in Patch13, Work13, run.copy > 0 \/ run.set > 0,
         NEW i \in Int, At <= i, i < At + run.copy + run.set
  PROVE  /\ read.runs \in 1 .. Len(patch.runs) /\ RunAt(patch.runs, i) = read.runs
         /\ RunEnd(patch.runs, read.runs - 1) \in Nat
         /\ RunEnd(patch.runs, read.runs) = RunEnd(patch.runs, read.runs - 1)
                                                + patch.runs[read.runs].len
         /\ CodeUsed(patch.runs, read.runs - 1) \in Nat
         /\ CodeUsed(patch.runs, read.runs)
              = CodeUsed(patch.runs, read.runs - 1) + CodeOf(patch.runs[read.runs])
<1> DEFINE R == read.runs
           runs == patch.runs
<1>1. runs \in Seq(RunRecord) /\ Len(runs) \in Nat
  BY PatchIs13, RunIs
<1>2. /\ R \in Nat /\ run.copy \in Nat /\ run.set \in Nat
      /\ R <= Len(runs) /\ RunEnd(runs, R) = At + run.copy + run.set
      /\ R > 0 => RunEnd(runs, R - 1) <= At
      /\ At \in Nat
  BY DEF Work13, Typed13, Runs13, At
<1>3. R # 0
  BY <1>1, <1>2, RunEnds
<1>4. R \in 1 .. Len(runs) /\ R - 1 \in 0 .. Len(runs)
  BY <1>1, <1>2, <1>3
<1>5. RunAt(runs, i) = R
  <2>1. RunEnd(runs, R - 1) \in Nat /\ RunEnd(runs, R - 1) <= At
    BY <1>1, <1>2, <1>3, <1>4, RunEnds
  <2>2. RunEnd(runs, R - 1) <= i /\ i < RunEnd(runs, R)
    <3> HIDE DEF At, R, runs
    <3> QED
      BY <1>2, <2>1
  <2> HIDE DEF R, runs
  <2> QED
    BY <1>1, <1>4, <2>2, RunAtIs
<1> QED
  BY <1>1, <1>4, <1>5, RunEnds, CodeEnds

LEMMA SetRunKeeps ==
  ASSUME patch \in Patch13, Work13, Core!SetRun, UNCHANGED inputs
  PROVE  Work13'
<1> DEFINE n == Core!Min({run.set, left, PoolLen})
           runs == patch.runs
           R == read.runs
<1>1. /\ pc = "runs" /\ left > 0 /\ run.set > 0
      /\ cache' = [i \in 1 .. Len(cache) |->
                     IF pos < i /\ i <= pos + n THEN Core!Plus(cache[i], run.val) ELSE cache[i]]
      /\ pos' = pos + n /\ left' = left - n
      /\ run' = [run EXCEPT !.set = @ - n]
      /\ UNCHANGED <<out, result, pc, after, next, cover, newBack, read, patch, old, mapped>>
  BY DEF Core!SetRun, Core!Running, Core!Reach, inputs
<1>2. /\ run \in [copy : Nat, set : Nat, val : Int] /\ left \in Nat
      /\ read \in [runs : Nat, code : Nat, data : Nat]
      /\ At \in Nat /\ pos \in Nat
  BY DEF Work13, Typed13, At
<1>3. n \in Nat /\ n <= run.set /\ n <= left
  BY <1>2, LeastOf, BufferAssumption
<1> HIDE DEF n
<1>4. /\ run.copy = 0 /\ R <= Len(runs) /\ read.code <= Len(patch.code)
      /\ RunEnd(runs, R) = At + run.set /\ CodeUsed(runs, R) = read.code
      /\ R > 0 => RunEnd(runs, R - 1) <= At
      /\ runs[R].type # 3
      /\ run.val = IF runs[R].type = 2 THEN patch.code[read.code] ELSE (Base - runs[R].type) % Base
      /\ \A i \in 0 .. At - 1 : CodePlace(runs, i) <= Len(patch.code)
  BY <1>1, <1>2, SMTT(30) DEF Work13, Runs13
<1>5. ASSUME NEW i \in Int, At <= i, i < At + run.set
      PROVE  Added(patch, i) = run.val /\ CodePlace(runs, i) <= Len(patch.code)
  <2>1. /\ R \in 1 .. Len(runs) /\ RunAt(runs, i) = R
        /\ CodeUsed(runs, R - 1) \in Nat
        /\ CodeUsed(runs, R) = CodeUsed(runs, R - 1) + CodeOf(runs[R])
    BY <1>1, <1>2, <1>4, <1>5, RunHere, SMTT(30)
  <2>2. runs[R].type \in 0 .. 3
    BY <2>1, PatchIs13, RunIs
  <2>3. CASE runs[R].type = 2
    <3>1. CodePlace(runs, i) = CodeUsed(runs, R - 1) + 1
      BY <2>1, <2>3 DEF CodePlace
    <3>2. CodePlace(runs, i) = read.code
      BY <1>4, <2>1, <2>3, <3>1 DEF CodeOf
    <3>3. Added(patch, i) = patch.code[CodePlace(runs, i)]
      BY <2>1, <2>3 DEF Added
    <3>4. Added(patch, i) = run.val
      BY <1>4, <2>3, <3>2, <3>3
    <3> HIDE DEF R, runs
    <3> QED
      BY <1>4, <3>2, <3>4
  <2>4. CASE runs[R].type # 2
    <3>1. runs[R].type = 0 \/ runs[R].type = 1
      BY <1>4, <2>2, <2>4
    <3>2. CodePlace(runs, i) = 0
      BY <2>1, <3>1 DEF CodePlace
    <3>3. Len(patch.code) \in Nat
      BY PatchIs13
    <3>4. Added(patch, i) = run.val
      <4>1. CASE runs[R].type = 0
        <5>1. (Base - runs[R].type) % Base = 0
          BY <4>1, Remainders
        <5> QED
          BY <1>4, <2>1, <4>1, <5>1 DEF Added
      <4>2. CASE runs[R].type = 1
        <5>1. (Base - runs[R].type) % Base = Base - 1
          BY <4>2, Remainders
        <5> QED
          BY <1>4, <2>1, <4>2, <5>1 DEF Added
      <4> QED
        BY <3>1, <4>1, <4>2
    <3> QED
      BY <3>2, <3>3, <3>4
  <2> QED
    BY <2>3, <2>4
<1> DEFINE a == [j \in 1 .. n |-> run.val]
<1>6. ASSUME NEW j \in 1 .. n PROVE a[j] \in Int /\ a[j] = Added(patch, At + j - 1)
  <2>1. At + j - 1 \in Int /\ At <= At + j - 1 /\ At + j - 1 < At + run.set
    <3> HIDE DEF At
    <3> QED
      BY <1>2, <1>3
  <2> QED
    BY <1>2, <1>5, <2>1
<1>7. cache' = [i \in 1 .. Len(cache) |->
                   IF pos < i /\ i <= pos + n THEN Plus(cache[i], a[i - pos]) ELSE cache[i]]
  <2>1. \A i \in 1 .. Len(cache) : pos < i /\ i <= pos + n => a[i - pos] = run.val
    BY <1>2, <1>3
  <2> QED
    BY <1>1, <2>1 DEF Plus, Core!Plus
<1> HIDE DEF a
<1>8. /\ cache' \in Seq(Int) /\ pos' \in Nat /\ left' \in Nat
      /\ Course13' /\ Passed13' /\ Data13' /\ Content13' /\ At' = At + n
  BY <1>1, <1>3, <1>6, <1>7, ReachKeeps
<1>9. run'.copy = 0 /\ run'.set = run.set - n /\ run'.val = run.val
      /\ run' \in [copy : Nat, set : Nat, val : Int]
  <2>1. run.set \in Nat /\ run.set - n \in Nat
    BY <1>2, <1>3
  <2>2. run' = [run EXCEPT !.set = run.set - n]
    BY <1>1
  <2> QED
    BY <1>2, <1>4, <2>1, <2>2
<1>10. Typed13'
  BY <1>1, <1>8, <1>9 DEF Work13, Typed13
<1>11. Runs13'
  <2>1. RunEnd(runs, R) = (At + n) + 0 + (run.set - n)
    BY <1>2, <1>3, <1>4
  <2>2. R > 0 => RunEnd(runs, R - 1) <= At + n
    <3>1. R > 0 => R - 1 \in 0 .. Len(runs) /\ RunEnd(runs, R - 1) \in Nat
      BY <1>2, <1>4, PatchIs13, RunIs, RunEnds, SMTT(30)
    <3> QED
      BY <1>2, <1>3, <1>4, <3>1
  <2>3. ASSUME NEW i \in 0 .. (At + n) - 1 PROVE CodePlace(runs, i) <= Len(patch.code)
    <3> HIDE DEF At
    <3>1. CASE i < At
      BY <1>2, <1>4, <3>1
    <3>2. CASE At <= i
      <4>1. i < At + run.set
        BY <1>2, <1>3
      <4> QED
        BY <1>5, <3>2, <4>1
    <3> QED
      BY <1>2, <3>1, <3>2
  <2> QED
    BY <1>1, <1>2, <1>4, <1>8, <1>9, <2>1, <2>2, <2>3 DEF Runs13
<1> QED
  BY <1>8, <1>10, <1>11 DEF Work13

\* The bytes of a run of type 3 that are still to be added.
LEMMA CopyPlaces ==
  ASSUME patch \in Patch13, Work13, NEW j \in 1 .. run.copy
  PROVE  /\ CodePlace(patch.runs, At + j - 1) = read.code + j
         /\ Added(patch, At + j - 1) = patch.code[read.code + j]
<1> DEFINE runs == patch.runs
           R == read.runs
           i == At + j - 1
<1>1. /\ run.copy \in Nat /\ run.copy > 0 /\ run.set = 0 /\ At \in Nat
      /\ read.code \in Nat /\ j \in Nat
      /\ runs[R].type = 3
      /\ RunEnd(runs, R) = At + run.copy /\ CodeUsed(runs, R) = read.code + run.copy
  BY SMTT(30) DEF Work13, Typed13, Runs13, At
<1>2. i \in Int /\ At <= i /\ i < At + run.copy + run.set
  <2> HIDE DEF At
  <2> QED
    BY <1>1
<1>3. /\ R \in 1 .. Len(runs) /\ RunAt(runs, i) = R
      /\ RunEnd(runs, R - 1) \in Nat
      /\ RunEnd(runs, R) = RunEnd(runs, R - 1) + runs[R].len
      /\ CodeUsed(runs, R - 1) \in Nat
      /\ CodeUsed(runs, R) = CodeUsed(runs, R - 1) + CodeOf(runs[R])
  BY <1>1, <1>2, RunHere
<1>4. CodeOf(runs[R]) = runs[R].len /\ runs[R].len \in Nat
  BY <1>1, <1>3, PatchIs13, RunIs, SMTT(30) DEF CodeOf
<1>5. Added(patch, i) = patch.code[CodePlace(runs, i)]
  BY <1>1, <1>3, SMTT(30) DEF Added
<1>6. i = At + j - 1
  OBVIOUS
<1> HIDE DEF R, runs, i
<1>7. CodePlace(runs, i) = CodeUsed(runs, R - 1) + i - RunEnd(runs, R - 1) + 1
  BY <1>1, <1>2, <1>3, SMTT(30) DEF CodePlace
<1>8. CodeUsed(runs, R - 1) + i - RunEnd(runs, R - 1) + 1 = read.code + j
  <2> DEFINE u == CodeUsed(runs, R - 1)  v == RunEnd(runs, R - 1)  l == runs[R].len
  <2>1. u + l = read.code + run.copy /\ v + l = At + run.copy /\ u \in Nat /\ v \in Nat /\ l \in Nat
    BY <1>1, <1>3, <1>4
  <2> HIDE DEF u, v, l
  <2>2. u + i - v + 1 = read.code + j
    BY <1>1, <1>6, <2>1
  <2> QED
    BY <2>2 DEF u, v
<1>9. CodePlace(runs, i) = read.code + j
  BY <1>7, <1>8
<1> QED
  BY <1>5, <1>9 DEF i, runs

LEMMA CopyRunKeeps ==
  ASSUME patch \in Patch13, Work13, Core!CopyRun, result' = "running", UNCHANGED inputs
  PROVE  Work13'
<1> DEFINE n == Core!Min({run.copy, left, PoolLen \div 2})
           runs == patch.runs
           R == read.runs
           a == [j \in 1 .. n |-> patch.code[read.code + j]]
<1>0. runs \in Seq(RunRecord) /\ Len(runs) \in Nat
      /\ patch.code \in Seq(Int) /\ Len(patch.code) \in Nat
  BY PatchIs13, RunIs
<1>1. /\ pc = "runs" /\ result = "running" /\ left > 0 /\ run.set = 0 /\ run.copy > 0
      /\ patch' = patch /\ old' = old /\ mapped' = mapped
  BY DEF Core!CopyRun, Core!Running, inputs
<1>2. /\ read.code + n <= Len(patch.code)
      /\ cache' = [i \in 1 .. Len(cache) |->
                     IF pos < i /\ i <= pos + n
                     THEN Core!Plus(cache[i], patch.code[read.code + (i - pos)]) ELSE cache[i]]
      /\ pos' = pos + n /\ left' = left - n
      /\ run' = [run EXCEPT !.copy = @ - n]
      /\ read' = [read EXCEPT !.code = @ + n]
      /\ UNCHANGED <<out, result, pc, after, next, cover, newBack>>
  BY <1>1 DEF Core!CopyRun, Core!Fails, Core!Reach
<1>3. /\ run \in [copy : Nat, set : Nat, val : Int] /\ left \in Nat
      /\ read \in [runs : Nat, code : Nat, data : Nat]
      /\ At \in Nat /\ pos \in Nat
  BY DEF Work13, Typed13, At
<1>4. n \in Nat /\ n <= run.copy /\ n <= left
  <2>1. PoolLen \div 2 \in Nat
    BY BufferAssumption
  <2> QED
    BY <1>3, <2>1, LeastOf
<1>5. /\ R <= Len(runs) /\ read.code <= Len(patch.code)
      /\ RunEnd(runs, R) = At + run.copy /\ CodeUsed(runs, R) = read.code + run.copy
      /\ R > 0 => RunEnd(runs, R - 1) <= At
      /\ runs[R].type = 3
      /\ \A i \in 0 .. At - 1 : CodePlace(runs, i) <= Len(patch.code)
  BY <1>1, <1>3 DEF Work13, Runs13
<1> HIDE DEF n
<1>6. ASSUME NEW j \in 1 .. n PROVE a[j] \in Int /\ a[j] = Added(patch, At + j - 1)
  <2>1. j \in 1 .. run.copy
    BY <1>3, <1>4
  <2>2. Added(patch, At + j - 1) = patch.code[read.code + j]
    BY <2>1, CopyPlaces
  <2>3. read.code + j \in 1 .. Len(patch.code)
    <3>1. read.code \in Nat /\ read.code + n <= Len(patch.code)
      BY <1>2, <1>3
    <3>2. j \in Nat /\ j <= n /\ j > 0
      BY <1>4
    <3> QED
      BY <1>0, <1>4, <3>1, <3>2
  <2>4. patch.code[read.code + j] \in Int
    BY <1>0, <2>3
  <2> QED
    BY <2>2, <2>4
<1>7. cache' = [i \in 1 .. Len(cache) |->
                   IF pos < i /\ i <= pos + n THEN Plus(cache[i], a[i - pos]) ELSE cache[i]]
  <2>1. \A i \in 1 .. Len(cache) : pos < i /\ i <= pos + n => a[i - pos] = patch.code[read.code + (i - pos)]
    BY <1>3, <1>4
  <2> HIDE DEF a
  <2> QED
    BY <1>2, <2>1 DEF Plus, Core!Plus
<1> HIDE DEF a
<1>8. read'.data = read.data /\ read'.runs = R /\ read'.code = read.code + n
      /\ read' \in [runs : Nat, code : Nat, data : Nat]
  <2>1. read.code \in Nat /\ read.code + n \in Nat
    BY <1>3, <1>4
  <2>2. read' = [read EXCEPT !.code = read.code + n]
    BY <1>2
  <2> QED
    BY <1>3, <2>1, <2>2
<1>9. /\ cache' \in Seq(Int) /\ pos' \in Nat /\ left' \in Nat
      /\ Course13' /\ Passed13' /\ Data13' /\ Content13' /\ At' = At + n
  BY <1>1, <1>2, <1>4, <1>6, <1>7, <1>8, ReachKeeps
<1>10. run'.copy = run.copy - n /\ run'.set = 0 /\ run'.val = run.val
       /\ run' \in [copy : Nat, set : Nat, val : Int]
  <2>1. run.copy \in Nat /\ run.copy - n \in Nat
    BY <1>3, <1>4
  <2>2. run' = [run EXCEPT !.copy = run.copy - n]
    BY <1>2
  <2> QED
    BY <1>1, <1>3, <2>1, <2>2
<1>11. Typed13'
  BY <1>2, <1>8, <1>9, <1>10 DEF Work13, Typed13
<1>12. Runs13'
  <2>1. RunEnd(runs, R) = (At + n) + (run.copy - n) + 0
        /\ CodeUsed(runs, R) = (read.code + n) + (run.copy - n)
    <3> HIDE DEF At, R, runs
    <3> QED
      BY <1>3, <1>4, <1>5, SMTT(30)
  <2>2. R > 0 => RunEnd(runs, R - 1) <= At + n
    <3>1. R > 0 => R - 1 \in 0 .. Len(runs) /\ RunEnd(runs, R - 1) \in Nat
      <4>1. R \in Nat /\ R <= Len(runs)
        BY <1>3, <1>5
      <4>2. R > 0 => R - 1 \in 0 .. Len(runs)
        BY <1>0, <4>1
      <4> QED
        BY <1>0, <4>2, RunEnds
    <3> HIDE DEF At, R, runs
    <3> QED
      BY <1>3, <1>4, <1>5, <3>1
  <2>3. ASSUME NEW i \in 0 .. (At + n) - 1 PROVE CodePlace(runs, i) <= Len(patch.code)
    <3> HIDE DEF At
    <3>1. CASE i < At
      BY <1>3, <1>5, <3>1
    <3>2. CASE At <= i
      <4>1. i - At + 1 \in 1 .. n /\ i - At + 1 \in 1 .. run.copy /\ At + (i - At + 1) - 1 = i
        BY <1>3, <1>4, <3>2
      <4>2. CodePlace(runs, At + (i - At + 1) - 1) = read.code + (i - At + 1)
        BY <4>1, CopyPlaces
      <4>3. read.code + (i - At + 1) <= Len(patch.code)
        <5>1. read.code \in Nat /\ read.code + n <= Len(patch.code)
          BY <1>2, <1>3
        <5>2. i - At + 1 \in Nat /\ i - At + 1 <= n
          BY <1>4, <4>1
        <5> QED
          BY <1>0, <1>4, <5>1, <5>2
      <4> QED
        BY <4>1, <4>2, <4>3
    <3> QED
      BY <1>3, <3>1, <3>2
  <2>4. run'.set = 0 /\ (run'.copy = 0 \/ run'.set = 0) /\ ~(run'.set > 0)
    BY <1>10
  <2> QED
    BY <1>1, <1>2, <1>5, <1>8, <1>9, <1>10, <2>1, <2>2, <2>3, <2>4 DEF Runs13
<1> QED
  BY <1>9, <1>11, <1>12 DEF Work13

LEMMA NextRunKeeps ==
  ASSUME patch \in Patch13, Work13, Core!NextRun, result' = "running", UNCHANGED inputs
  PROVE  Work13'
<1> DEFINE runs == patch.runs
           R == read.runs
           r == runs[R + 1]
<1>0. runs \in Seq(RunRecord) /\ Len(runs) \in Nat
      /\ patch.code \in Seq(Int) /\ Len(patch.code) \in Nat
  BY PatchIs13, RunIs
<1>1. /\ pc = "runs" /\ result = "running" /\ left > 0 /\ run.set = 0 /\ run.copy = 0
      /\ patch' = patch /\ old' = old /\ mapped' = mapped
  BY DEF Core!NextRun, Core!Running, inputs
<1>2. /\ R < Len(runs)
      /\ r.type = 2 => read.code < Len(patch.code)
      /\ run' = CASE r.type = 3 -> [run EXCEPT !.copy = r.len]
                  [] r.type = 2 -> [run EXCEPT !.set = r.len, !.val = patch.code[read.code + 1]]
                  [] OTHER -> [run EXCEPT !.set = r.len, !.val = (Base - r.type) % Base]
      /\ read' = [read EXCEPT !.runs = @ + 1, !.code = IF r.type = 2 THEN @ + 1 ELSE @]
      /\ UNCHANGED <<out, result, pc, after, next, cover, newBack, cache, pos, left>>
  BY <1>1 DEF Core!NextRun, Core!Fails
<1>3. /\ run \in [copy : Nat, set : Nat, val : Int]
      /\ read \in [runs : Nat, code : Nat, data : Nat]
      /\ R \in Nat /\ read.code \in Nat /\ At \in Nat
  BY DEF Work13, Typed13, At
<1>4. /\ read.code <= Len(patch.code) /\ RunEnd(runs, R) = At /\ CodeUsed(runs, R) = read.code
      /\ \A i \in 0 .. At - 1 : CodePlace(runs, i) <= Len(patch.code)
  <2>1. /\ read.code <= Len(patch.code) /\ RunEnd(runs, R) = At + run.copy + run.set
        /\ CodeUsed(runs, R) = read.code + run.copy
        /\ \A i \in 0 .. At - 1 : CodePlace(runs, i) <= Len(patch.code)
    BY DEF Work13, Runs13
  <2> HIDE DEF runs, R
  <2>2. At + run.copy + run.set = At /\ read.code + run.copy = read.code
    BY <1>1, <1>3
  <2> QED
    BY <2>1, <2>2
<1>5. R + 1 \in 1 .. Len(runs) /\ (R + 1) - 1 = R
  <2> HIDE DEF runs, R, r
  <2> QED
    BY <1>0, <1>2, <1>3
<1>6. /\ r.type \in 0 .. 3 /\ r.len \in Nat /\ r.len > 0
      /\ RunEnd(runs, R + 1) = At + r.len
      /\ CodeUsed(runs, R + 1) = read.code + CodeOf(r)
  <2>1. /\ RunEnd(runs, R + 1) = RunEnd(runs, (R + 1) - 1) + r.len
        /\ CodeUsed(runs, R + 1) = CodeUsed(runs, (R + 1) - 1) + CodeOf(r)
    BY <1>0, <1>5, RunEnds, CodeEnds
  <2> QED
    BY <1>0, <1>4, <1>5, <2>1, RunIs
<1> HIDE DEF runs, R, r
<1>7. Course13' /\ Passed13' /\ Data13' /\ Content13' /\ At' = At
  <2>1. read'.data = read.data
    BY <1>2, <1>3
  <2>2. Stage' = Stage /\ Laid' = Laid /\ At' = At
    BY <1>2 DEF Stage, Laid, At
  <2> QED
    BY <1>1, <1>2, <2>1, <2>2 DEF Work13, Course13, Passed13, Data13, Content13
<1>8. /\ read' \in [runs : Nat, code : Nat, data : Nat]
      /\ read'.runs = R + 1 /\ read'.code = IF r.type = 2 THEN read.code + 1 ELSE read.code
  <2> DEFINE c == IF r.type = 2 THEN read.code + 1 ELSE read.code
  <2>1. R + 1 \in Nat /\ c \in Nat
    BY <1>3
  <2>2. read' = [read EXCEPT !.runs = R + 1, !.code = c]
    BY <1>2 DEF R
  <2> HIDE DEF c
  <2>3. read' \in [runs : Nat, code : Nat, data : Nat] /\ read'.runs = R + 1 /\ read'.code = c
    BY <1>3, <2>1, <2>2
  <2> QED
    BY <2>3 DEF c
<1>9. /\ run' \in [copy : Nat, set : Nat, val : Int]
      /\ read'.code <= Len(patch.code)
      /\ At + r.len = At + run'.copy + run'.set
      /\ read.code + CodeOf(r) = read'.code + run'.copy
      /\ run'.copy = 0 \/ run'.set = 0
      /\ run'.copy > 0 => r.type = 3
      /\ run'.set > 0 => /\ r.type # 3
                         /\ run'.val = IF r.type = 2 THEN patch.code[read'.code]
                                       ELSE (Base - r.type) % Base
  <2>1. CASE r.type = 3
    <3>1. run' = [run EXCEPT !.copy = r.len] /\ read'.code = read.code
      BY <1>2, <1>8, <2>1
    <3>2. run'.copy = r.len /\ run'.set = 0 /\ run' \in [copy : Nat, set : Nat, val : Int]
      BY <1>1, <1>3, <1>6, <3>1
    <3> QED
      BY <1>3, <1>4, <1>6, <2>1, <3>1, <3>2, SMTT(30) DEF CodeOf
  <2>2. CASE r.type = 2
    <3>1. run' = [run EXCEPT !.set = r.len, !.val = patch.code[read.code + 1]]
          /\ read'.code = read.code + 1 /\ read.code < Len(patch.code)
      BY <1>2, <1>8, <2>2
    <3>2. patch.code[read.code + 1] \in Int
      <4>1. read.code + 1 \in 1 .. Len(patch.code)
        BY <1>0, <1>3, <3>1
      <4> QED
        BY <1>0, <4>1
    <3>3. /\ run'.copy = 0 /\ run'.set = r.len /\ run'.val = patch.code[read.code + 1]
          /\ run' \in [copy : Nat, set : Nat, val : Int]
      BY <1>1, <1>3, <1>6, <3>1, <3>2
    <3>4. CodeOf(r) = 1
      BY <2>2 DEF CodeOf
    <3>5. read'.code <= Len(patch.code)
      BY <1>0, <1>3, <3>1
    <3> QED
      BY <1>3, <1>6, <2>2, <3>1, <3>3, <3>4, <3>5, SMTT(30)
  <2>3. CASE r.type # 2 /\ r.type # 3
    <3>1. run' = [run EXCEPT !.set = r.len, !.val = (Base - r.type) % Base]
          /\ read'.code = read.code
      BY <1>2, <1>8, <2>3
    <3>2. (Base - r.type) % Base \in Int
      BY <1>6, BaseAssumption
    <3>3. /\ run'.copy = 0 /\ run'.set = r.len /\ run'.val = (Base - r.type) % Base
          /\ run' \in [copy : Nat, set : Nat, val : Int]
      BY <1>1, <1>3, <1>6, <3>1, <3>2
    <3>4. CodeOf(r) = 0
      BY <2>3 DEF CodeOf
    <3> QED
      BY <1>3, <1>4, <1>6, <2>3, <3>1, <3>3, <3>4, SMTT(30)
  <2> QED
    BY <2>1, <2>2, <2>3
<1>10. Typed13'
  BY <1>2, <1>8, <1>9 DEF Work13, Typed13
<1>11. Runs13'
  <2>1. runs' = runs
    BY <1>1 DEF runs
  <2>2. read'.runs <= Len(runs) /\ RunEnd(runs, read'.runs) = At' + run'.copy + run'.set
        /\ CodeUsed(runs, read'.runs) = read'.code + run'.copy
    BY <1>5, <1>6, <1>7, <1>8, <1>9
  <2>3. read'.runs > 0 => RunEnd(runs, read'.runs - 1) <= At'
    BY <1>3, <1>4, <1>5, <1>7, <1>8
  <2> QED
    BY <1>1, <1>4, <1>7, <1>8, <1>9, <2>2, <2>3 DEF Runs13, runs, r
<1> QED
  BY <1>7, <1>10, <1>11 DEF Work13

LEMMA RunsReachKeeps ==
  ASSUME patch \in Patch13, Work13, Core!RunsReach, UNCHANGED inputs
  PROVE  Work13'
<1>1. /\ pc = "runs" /\ left = 0 /\ pc' = after
      /\ UNCHANGED <<out, result, after, next, cover, newBack, cache, pos, left, run, read>>
      /\ UNCHANGED <<patch, old, mapped>>
  BY DEF Core!RunsReach, Core!Running, inputs
<1>2. /\ Stage' = Stage /\ Laid' = Laid /\ At' = At /\ Stage = after /\ after # "runs"
      /\ after \in {"old", "covered", "tail"}
  BY <1>1 DEF Stage, Laid, At, Work13, Typed13
<1>3. Course13'
  <2>1. pos = Len(cache)
    BY <1>1 DEF Work13, Typed13, Course13
  <2> QED
    BY <1>1, <1>2, <2>1 DEF Work13, Course13
<1> QED
  BY <1>1, <1>2, <1>3 DEF Work13, Typed13, Passed13, Data13, Runs13, Content13

\* The cache is written out.
LEMMA WrittenKeeps ==
  ASSUME Work13, pc # "runs", Core!WriteCache, UNCHANGED <<run, read, patch, old>>
  PROVE  /\ out' \in Seq(Int) /\ cache' = <<>> /\ pos' = 0
         /\ Laid' = Laid /\ At' = At /\ Runs13' /\ Content13'
<1>1. /\ out \in Seq(Int) /\ cache \in Seq(Int) /\ pos = Len(cache)
      /\ Len(out) \in Nat /\ Len(cache) \in Nat
  BY DEF Work13, Typed13, Course13
<1>2. out' = out \o cache /\ cache' = <<>> /\ pos' = 0
  BY DEF Core!WriteCache
<1>3. /\ out' \in Seq(Int) /\ Len(out') = Len(out) + Len(cache)
      /\ \A j \in 1 .. Len(out) + Len(cache) :
            out'[j] = IF j <= Len(out) THEN out[j] ELSE cache[j - Len(out)]
  BY <1>1, <1>2, ConcatProperties
<1>4. Len(cache') = 0 /\ cache' \in Seq(Int)
  BY <1>2
<1>5. Laid' = Laid /\ At' = At
  BY <1>1, <1>2, <1>3, <1>4 DEF Laid, At
<1>6. Runs13'
  BY <1>5 DEF Work13, Runs13
<1>7. Content13'
  <2>1. ASSUME NEW j \in 1 .. Len(out') PROVE out'[j] = Byte13(patch, old, j - 1)
    <3>1. CASE j <= Len(out)
      <4>1. j \in 1 .. Len(out)
        BY <1>1, <1>3, <3>1
      <4> QED
        BY <1>3, <3>1, <4>1 DEF Work13, Content13
    <3>2. CASE ~(j <= Len(out))
      <4>1. j - Len(out) \in 1 .. Len(cache) /\ j - Len(out) <= pos
            /\ Len(out) + (j - Len(out)) - 1 = j - 1
        BY <1>1, <1>3, <3>2
      <4>2. cache[j - Len(out)] = Byte13(patch, old, Len(out) + (j - Len(out)) - 1)
        BY <4>1 DEF Work13, Content13
      <4> QED
        BY <1>3, <3>2, <4>1, <4>2
    <3> QED
      BY <3>1, <3>2
  <2>2. \A j \in 1 .. Len(cache') : FALSE
    BY <1>4
  <2> QED
    BY <2>1, <2>2 DEF Content13
<1> QED
  BY <1>2, <1>3, <1>5, <1>6, <1>7

LEMMA CoveredKeeps ==
  ASSUME patch \in Patch13, Work13, Core!Covered, UNCHANGED inputs
  PROVE  Work13'
<1> DEFINE C == patch.covers
<1>1. C \in Seq(CoverRecord) /\ Len(C) \in Nat
  BY PatchIs13, CoverIs
<1>2. /\ pc = "covered" /\ pc' = "cover" /\ newBack' = cover.new + cover.len
      /\ IF Len(cache) > BufferLimit \/ next > Len(C) THEN Core!WriteCache
         ELSE UNCHANGED <<out, cache, pos>>
      /\ UNCHANGED <<result, after, next, cover, left, run, read, patch, old, mapped>>
  BY DEF Core!Covered, Core!Running, Core!LastCover, inputs
<1>3. Stage = "covered" /\ Stage' = "cover"
  BY <1>2 DEF Stage
<1>4. /\ next \in 1 .. Len(C) + 1 /\ next > 1 /\ Laid = NewEnd(C, next - 1)
      /\ cover.new = NewPos(C, next - 1) /\ cover.len = C[next - 1].len
      /\ pos = Len(cache)
  BY <1>2, <1>3 DEF Work13, Course13
<1>5. next - 1 \in 1 .. Len(C)
  BY <1>1, <1>4
<1>6. newBack' = NewEnd(C, next - 1)
  BY <1>1, <1>2, <1>4, <1>5, NewPlaces
<1>7. /\ out' \in Seq(Int) /\ cache' \in Seq(Int) /\ pos' \in Nat
      /\ Laid' = Laid /\ Runs13' /\ Content13' /\ pos' = Len(cache')
      /\ next > Len(C) => cache' = <<>>
  <2>1. CASE Len(cache) > BufferLimit \/ next > Len(C)
    <3>1. /\ out' \in Seq(Int) /\ cache' = <<>> /\ pos' = 0
          /\ Laid' = Laid /\ At' = At /\ Runs13' /\ Content13'
      BY <1>2, <2>1, WrittenKeeps
    <3>2. Len(<<>>) = 0 /\ <<>> \in Seq(Int)
      OBVIOUS
    <3> QED
      BY <3>1, <3>2
  <2>2. CASE ~(Len(cache) > BufferLimit \/ next > Len(C))
    <3>1. UNCHANGED <<out, cache, pos>>
      BY <1>2, <2>2
    <3>2. Laid' = Laid /\ At' = At
      BY <3>1 DEF Laid, At
    <3> QED
      BY <1>2, <1>4, <2>2, <3>1, <3>2 DEF Work13, Typed13, Runs13, Content13
  <2> QED
    BY <2>1, <2>2
<1>8. Typed13'
  BY <1>2, <1>7 DEF Work13, Typed13
<1>9. Course13'
  BY <1>2, <1>3, <1>4, <1>6, <1>7 DEF Work13, Course13
<1>10. Passed13' /\ Data13'
  BY <1>2, <1>3, <1>7 DEF Work13, Passed13, Data13
<1> QED
  BY <1>7, <1>8, <1>9, <1>10 DEF Work13

LEMMA TailDoneKeeps ==
  ASSUME patch \in Patch13, Work13, Core!TailDone, UNCHANGED inputs
  PROVE  Work13'
<1>1. /\ pc = "tail" /\ pc' = "cover" /\ newBack' = patch.size /\ Core!WriteCache
      /\ UNCHANGED <<result, after, next, cover, left, run, read, patch, old, mapped>>
  BY DEF Core!TailDone, Core!Running, inputs
<1>2. Stage = "tail" /\ Stage' = "cover"
  BY <1>1 DEF Stage
<1>3. /\ out' \in Seq(Int) /\ cache' = <<>> /\ pos' = 0
      /\ Laid' = Laid /\ Runs13' /\ Content13'
  BY <1>1, WrittenKeeps
<1>4. Len(cache') = 0 /\ cache' \in Seq(Int)
  BY <1>3
<1>5. Typed13'
  BY <1>1, <1>3, <1>4 DEF Work13, Typed13
<1>6. Course13'
  BY <1>1, <1>2, <1>3, <1>4 DEF Work13, Course13
<1>7. Passed13' /\ Data13'
  BY <1>1, <1>2, <1>3 DEF Work13, Passed13, Data13
<1> QED
  BY <1>3, <1>5, <1>6, <1>7 DEF Work13

\* All covers and the tail are laid out, written and reached by the runs.
LEMMA Finished13 ==
  ASSUME version = 13, patch \in Patch13, old \in Seq(Bytes), Len(old) = patch.oldSize,
         Work13, Core!Finish13
  PROVE  Describes /\ out = Patched13(patch, old) /\ cache = <<>>
<1> DEFINE C == patch.covers
           runs == patch.runs
<1>1. /\ C \in Seq(CoverRecord) /\ Len(C) \in Nat /\ patch.size \in Nat
      /\ runs \in Seq(RunRecord) /\ Len(runs) \in Nat
  BY PatchIs13, CoverIs, RunIs
<1>2. pc = "cover" /\ next > Len(C) /\ newBack = patch.size /\ Stage = "cover"
  BY DEF Core!Finish13, Core!LastCover, Core!Running, Stage
<1>3. /\ next = Len(C) + 1 /\ next - 1 = Len(C)
      /\ NewEnd(C, next - 1) <= patch.size /\ cache = <<>> /\ pos = Len(cache)
      /\ Laid = patch.size
  <2>1. /\ next \in 1 .. Len(C) + 1 /\ NewEnd(C, next - 1) <= patch.size
        /\ cache = <<>> /\ pos = Len(cache) /\ Laid = newBack
    BY <1>2 DEF Work13, Course13
  <2>2. next = Len(C) + 1 /\ next - 1 = Len(C)
    <3> HIDE DEF C
    <3> QED
      BY <1>1, <1>2, <2>1
  <2> QED
    BY <1>2, <2>1, <2>2
<1>4. out \in Seq(Int) /\ Len(out) = patch.size /\ At = patch.size
  <2>1. out \in Seq(Int) /\ Len(out) \in Nat /\ Len(cache) = 0
    BY <1>3 DEF Work13, Typed13
  <2> QED
    BY <1>3, <2>1 DEF Laid, At
<1>5. Fits(C, old, patch.size)
  <2>1. NewEnd(C, Len(C)) <= patch.size
    BY <1>3
  <2>2. ASSUME NEW k \in 1 .. Len(C)
        PROVE  OldPos(C, k) >= 0 /\ (C[k].len > 0 => OldPos(C, k) + C[k].len <= Len(old))
    <3>1. k \in 1 .. next - 1
      BY <1>3
    <3>2. OldPos(C, k) >= 0 /\ FromOld(patch, old, mapped, k)
      BY <1>2, <3>1 DEF Work13, Passed13
    <3> QED
      BY <3>2 DEF FromOld
  <2> QED
    BY <2>1, <2>2 DEF Fits
<1>6. mapped => \A k \in 1 .. Len(C) : OldPos(C, k) + C[k].len <= Len(old)
  BY <1>2, <1>3 DEF Work13, Passed13, FromOld
<1>7. NewBytesBelow(C, patch.size) <= Len(patch.data)
  BY <1>3 DEF Work13, Data13
<1>8. RunEnd(runs, Len(runs)) >= patch.size
  <2>1. /\ read.runs \in Nat /\ read.runs <= Len(runs) /\ run.copy \in Nat /\ run.set \in Nat
        /\ RunEnd(runs, read.runs) = patch.size + run.copy + run.set
    BY <1>4 DEF Work13, Typed13, Runs13
  <2>2. read.runs \in 0 .. Len(runs) /\ Len(runs) \in 0 .. Len(runs)
    BY <1>1, <2>1
  <2>3. /\ RunEnd(runs, read.runs) <= RunEnd(runs, Len(runs))
        /\ RunEnd(runs, Len(runs)) \in Nat
    BY <1>1, <2>1, <2>2, RunEnds
  <2> HIDE DEF runs
  <2> QED
    BY <1>1, <2>1, <2>3
<1>9. \A i \in 0 .. patch.size - 1 : CodePlace(runs, i) <= Len(patch.code)
  BY <1>4 DEF Work13, Runs13
<1>10. Describes13(patch, old)
  BY <1>5, <1>7, <1>8, <1>9 DEF Describes13
<1>11. Describes
  BY <1>6, <1>10 DEF Describes
<1>12. out = Patched13(patch, old)
  <2>1. out = [n \in 1 .. patch.size |-> out[n]]
    BY <1>4
  <2>2. \A n \in 1 .. patch.size : out[n] = Byte13(patch, old, n - 1)
    BY <1>4 DEF Work13, Content13
  <2>3. Patched13(patch, old) = [n \in 1 .. patch.size |-> Byte13(patch, old, n - 1)]
    BY DEF Patched13, Byte13, Under
  <2> QED
    BY <2>1, <2>2, <2>3
<1> QED
  BY <1>3, <1>11, <1>12
-----------------------------------------------------------------------------
(***************************************************************************)
(* A patch that HDIFF13 refuses describes no new file for this old one.    *)
(***************************************************************************)
LEMMA LaidFits ==
  ASSUME patch \in Patch13, Work13
  PROVE  /\ Laid \in Nat /\ Laid <= patch.size /\ patch.size \in Nat
         /\ pc = "runs" => At + left = Laid /\ At \in Nat /\ left \in Nat
<1> DEFINE C == patch.covers
<1>1. C \in Seq(CoverRecord) /\ Len(C) \in Nat /\ patch.size \in Nat
  BY PatchIs13, CoverIs
<1>2. /\ Len(out) \in Nat /\ Len(cache) \in Nat /\ pos \in Nat /\ left \in Nat
      /\ Stage \in {"cover", "gap", "old", "covered", "tail"}
  BY DEF Work13, Typed13, Stage
<1>3. Laid \in Nat /\ Laid = Len(out) + Len(cache)
  BY <1>2 DEF Laid
<1>4. pc = "runs" => At + left = Laid /\ At \in Nat
  <2>1. pc = "runs" => left = Len(cache) - pos
    BY DEF Work13, Course13
  <2>2. At = Len(out) + pos
    BY DEF At
  <2> QED
    BY <1>2, <1>3, <2>1, <2>2
<1>5. Laid <= patch.size
  <2>1. NewEnd(C, next - 1) <= patch.size /\ next \in 1 .. Len(C) + 1
    BY DEF Work13, Course13
  <2>2. CASE Stage \in {"gap", "old", "covered"}
    <3>1. next - 1 \in 1 .. Len(C) /\ (next - 1) - 1 = next - 2
      BY <1>1, <2>1, <2>2 DEF Work13, Course13
    <3>2. /\ NewEnd(C, next - 2) <= NewPos(C, next - 1) /\ NewPos(C, next - 1) \in Nat
          /\ NewPos(C, next - 1) + C[next - 1].len = NewEnd(C, next - 1)
          /\ NewEnd(C, next - 2) \in Nat /\ NewEnd(C, next - 1) \in Nat
          /\ C[next - 1].len \in Nat
      BY <1>1, <3>1, NewPlaces, CoverIs
    <3>3. \/ Laid = NewEnd(C, next - 2) \/ Laid = NewPos(C, next - 1)
          \/ Laid = NewEnd(C, next - 1)
      BY <2>2 DEF Work13, Course13
    <3> HIDE DEF C
    <3> QED
      BY <1>1, <2>1, <3>2, <3>3, SMTT(30)
  <2>3. CASE Stage = "cover"
    BY <1>1, <2>1, <2>3 DEF Work13, Course13
  <2>4. CASE Stage = "tail"
    BY <1>1, <2>4 DEF Work13, Course13
  <2> QED
    BY <1>2, <2>2, <2>3, <2>4
<1> QED
  BY <1>1, <1>2, <1>3, <1>4, <1>5

LEMMA BadCoverIsRight ==
  ASSUME version = 13, patch \in Patch13, Work13, Core!BadCover
  PROVE  ~Describes
<1> DEFINE C == patch.covers
<1>1. C \in Seq(CoverRecord) /\ Len(C) \in Nat /\ patch.size \in Nat
  BY PatchIs13, CoverIs
<1>2. pc = "cover" /\ ~Core!LastCover
      /\ (Core!Decoded.old < 0 \/ Core!Decoded.new + Core!Decoded.len > patch.size)
  BY DEF Core!BadCover, Core!Running
<1>3. /\ next \in 1 .. Len(C)
      /\ Core!Decoded = [old |-> OldPos(C, next), new |-> NewPos(C, next), len |-> C[next].len]
  BY <1>2, DecodedIs
<1>4. /\ NewPos(C, next) + C[next].len = NewEnd(C, next) /\ OldPos(C, next) \in Int
      /\ NewEnd(C, next) <= NewEnd(C, Len(C)) /\ NewEnd(C, next) \in Nat /\ NewEnd(C, Len(C)) \in Nat
  <2>1. next \in 0 .. Len(C) /\ Len(C) \in 0 .. Len(C) /\ next <= Len(C)
    BY <1>1, <1>3
  <2> QED
    BY <1>1, <1>3, <2>1, NewPlaces, OldPlaces, NewEnds
<1>5. OldPos(C, next) < 0 \/ NewEnd(C, next) > patch.size
  BY <1>2, <1>3, <1>4
<1>6. ~Fits(C, old, patch.size)
  <2>1. CASE OldPos(C, next) < 0
    BY <1>3, <1>4, <2>1 DEF Fits
  <2>2. CASE NewEnd(C, next) > patch.size
    BY <1>1, <1>4, <2>2 DEF Fits
  <2> QED
    BY <1>5, <2>1, <2>2
<1> QED
  BY <1>6 DEF Describes, Describes13

\* The new bytes give out.
LEMMA NoNewBytes ==
  ASSUME version = 13, patch \in Patch13, Work13, NEW n \in Nat, Laid + n <= patch.size,
         \A i \in Laid .. Laid + n - 1 : ~IsCovered(patch.covers, i),
         ~(read.data + n <= Len(patch.data))
  PROVE  ~Describes
<1> DEFINE C == patch.covers
<1>1. C \in Seq(CoverRecord) /\ patch.size \in Nat /\ Len(patch.data) \in Nat
  BY PatchIs13
<1>2. Laid \in Nat /\ read.data \in Nat /\ read.data = NewBytesBelow(C, Laid)
  BY LaidFits DEF Work13, Typed13, Data13
<1>3. Laid + n \in Nat /\ Laid + n \in Laid .. Laid + n /\ (Laid + n) - Laid = n
  BY <1>2
<1>4. NewBytesBelow(C, Laid + n) = read.data + n
  BY <1>2, <1>3, BytesOfGap
<1>5. NewBytesBelow(C, Laid + n) <= NewBytesBelow(C, patch.size)
  BY <1>1, <1>3, BytesGrow
<1>6. NewBytesBelow(C, patch.size) \in Nat
  BY <1>1, BytesStep
<1>7. ~(NewBytesBelow(C, patch.size) <= Len(patch.data))
  BY <1>1, <1>2, <1>4, <1>5, <1>6
<1> QED
  BY <1>7 DEF Describes, Describes13

LEMMA GapIsRight ==
  ASSUME version = 13, patch \in Patch13, Work13, Core!Gap, result' = "error"
  PROVE  ~Describes
<1> DEFINE C == patch.covers
           n == cover.new - newBack
<1>1. C \in Seq(CoverRecord) /\ Len(C) \in Nat
  BY PatchIs13, CoverIs
<1>2. pc = "gap" /\ result = "running"
  BY DEF Core!Gap, Core!Running
<1>3. ~(read.data + n <= Len(patch.data))
  BY <1>2 DEF Core!Gap, Core!CopyNew
<1>4. /\ next \in 1 .. Len(C) + 1 /\ next > 1
      /\ newBack = NewEnd(C, next - 2) /\ Laid = newBack
      /\ cover.new = NewPos(C, next - 1) /\ NewEnd(C, next - 1) <= patch.size
  BY <1>2 DEF Work13, Course13, Stage
<1>5. next - 1 \in 1 .. Len(C) /\ (next - 1) - 1 = next - 2 /\ next - 2 \in 0 .. Len(C)
      /\ (next - 2) + 1 = next - 1
  BY <1>1, <1>4
<1>6. /\ NewEnd(C, next - 2) \in Nat /\ NewPos(C, next - 1) \in Nat
      /\ NewEnd(C, next - 2) <= NewPos(C, next - 1)
      /\ NewPos(C, next - 1) + C[next - 1].len = NewEnd(C, next - 1)
      /\ C[next - 1].len \in Nat
  BY <1>1, <1>5, NewPlaces, CoverIs
<1>7. n \in Nat /\ Laid + n = NewPos(C, next - 1) /\ Laid + n <= patch.size
  <2>1. n \in Nat /\ Laid + n = NewPos(C, next - 1)
    BY <1>4, <1>6
  <2> QED
    BY <1>4, <1>6, <2>1, LaidFits, SMTT(30)
<1>8. ASSUME NEW i \in Laid .. Laid + n - 1 PROVE ~IsCovered(C, i)
  <2>1. i \in Int /\ NewEnd(C, next - 2) <= i /\ i < NewPos(C, (next - 2) + 1)
    BY <1>4, <1>5, <1>6, <1>7
  <2> QED
    BY <1>1, <1>5, <2>1, NotCovered
<1> HIDE DEF n
<1> QED
  BY <1>3, <1>7, <1>8, NoNewBytes

LEMMA TailIsRight ==
  ASSUME version = 13, patch \in Patch13, Work13, Core!Tail13, result' = "error"
  PROVE  ~Describes
<1> DEFINE C == patch.covers
           n == patch.size - newBack
<1>1. C \in Seq(CoverRecord) /\ Len(C) \in Nat /\ patch.size \in Nat
  BY PatchIs13, CoverIs
<1>2. pc = "cover" /\ result = "running" /\ next > Len(C) /\ newBack < patch.size
  BY DEF Core!Tail13, Core!LastCover, Core!Running
<1>3. ~(read.data + n <= Len(patch.data))
  BY <1>2 DEF Core!Tail13, Core!CopyNew
<1>4. /\ next = Len(C) + 1 /\ next - 1 = Len(C) /\ Len(C) \in 0 .. Len(C)
      /\ newBack = NewEnd(C, Len(C)) /\ Laid = newBack
  BY <1>1, <1>2 DEF Work13, Course13, Stage
<1>5. NewEnd(C, Len(C)) \in Nat
  BY <1>1, <1>4, NewEnds
<1>6. n \in Nat /\ Laid + n = patch.size /\ Laid + n <= patch.size
  BY <1>1, <1>2, <1>4, <1>5
<1>7. ASSUME NEW i \in Laid .. Laid + n - 1 PROVE ~IsCovered(C, i)
  <2>1. i \in Int /\ NewEnd(C, Len(C)) <= i
    BY <1>1, <1>4, <1>5
  <2> QED
    BY <1>1, <1>4, <2>1, NotCovered
<1> HIDE DEF n
<1> QED
  BY <1>3, <1>6, <1>7, NoNewBytes

LEMMA PastOldIsRight ==
  ASSUME version = 13, patch \in Patch13, old \in Seq(Bytes), mapped \in BOOLEAN,
         Work13, Core!PastOld
  PROVE  ~Describes
<1> DEFINE C == patch.covers
           k == next - 1
<1>1. C \in Seq(CoverRecord) /\ Len(C) \in Nat
  BY PatchIs13, CoverIs
<1>2. pc = "old" /\ ~(cover.old + cover.len <= Len(old) \/ (~mapped /\ cover.len = 0))
  BY DEF Core!PastOld, Core!InOld, Core!Running
<1>3. /\ k \in 1 .. Len(C) /\ cover.old = OldPos(C, k) /\ cover.len = C[k].len
  BY <1>1, <1>2 DEF Work13, Course13, Stage
<1>4. ~(OldPos(C, k) + C[k].len <= Len(old)) /\ (mapped \/ C[k].len > 0)
  BY <1>1, <1>2, <1>3, CoverIs
<1>5. CASE mapped
  BY <1>3, <1>4, <1>5 DEF Describes
<1>6. CASE C[k].len > 0
  BY <1>3, <1>4, <1>6 DEF Describes, Describes13, Fits
<1> QED
  BY <1>4, <1>5, <1>6

\* The byte the runs have reached, when more are laid out.
LEMMA ReachedByte ==
  ASSUME patch \in Patch13, Work13, pc = "runs", NEW n \in Nat, n > 0, n <= left
  PROVE  At + n - 1 \in 0 .. patch.size - 1
  BY LaidFits

LEMMA CopyRunIsRight ==
  ASSUME version = 13, patch \in Patch13, Work13, Core!CopyRun, result' = "error"
  PROVE  ~Describes
<1> DEFINE n == Core!Min({run.copy, left, PoolLen \div 2})
<1>1. /\ pc = "runs" /\ result = "running" /\ left > 0 /\ run.copy > 0
  BY DEF Core!CopyRun, Core!Running
<1>2. ~(read.code + n <= Len(patch.code))
  BY <1>1 DEF Core!CopyRun
<1>3. run.copy \in Nat /\ left \in Nat
  BY DEF Work13, Typed13
<1>4. n \in Nat /\ n > 0 /\ n <= run.copy /\ n <= left
  <2>1. PoolLen \div 2 \in Nat /\ PoolLen \div 2 > 0
    BY BufferAssumption
  <2> QED
    BY <1>1, <1>3, <2>1, LeastOf
<1> HIDE DEF n
<1>5. n \in 1 .. run.copy
  BY <1>3, <1>4
<1>6. CodePlace(patch.runs, At + n - 1) = read.code + n
  BY <1>5, CopyPlaces
<1>7. At + n - 1 \in 0 .. patch.size - 1
  BY <1>1, <1>4, ReachedByte
<1> QED
  BY <1>2, <1>6, <1>7 DEF Describes, Describes13

LEMMA NextRunIsRight ==
  ASSUME version = 13, patch \in Patch13, Work13, Core!NextRun, result' = "error"
  PROVE  ~Describes
<1> DEFINE runs == patch.runs
           R == read.runs
<1>1. /\ runs \in Seq(RunRecord) /\ Len(runs) \in Nat /\ Len(patch.code) \in Nat
      /\ patch.size \in Nat
  BY PatchIs13, RunIs
<1>2. /\ pc = "runs" /\ result = "running" /\ left > 0 /\ run.set = 0 /\ run.copy = 0
  BY DEF Core!NextRun, Core!Running
<1>3. ~(R < Len(runs) /\ (runs[R + 1].type = 2 => read.code < Len(patch.code)))
  BY <1>2 DEF Core!NextRun
<1>4. /\ R \in Nat /\ read.code \in Nat /\ At \in Nat /\ left \in Nat
      /\ run.copy \in Nat /\ run.set \in Nat
  BY DEF Work13, Typed13, At
<1>5. R <= Len(runs) /\ read.code <= Len(patch.code)
      /\ RunEnd(runs, R) = At /\ CodeUsed(runs, R) = read.code
  <2>1. /\ R <= Len(runs) /\ read.code <= Len(patch.code)
        /\ RunEnd(runs, R) = At + run.copy + run.set /\ CodeUsed(runs, R) = read.code + run.copy
    BY DEF Work13, Runs13
  <2> HIDE DEF runs, R
  <2> QED
    BY <1>2, <1>4, <2>1
<1>6. At \in 0 .. patch.size - 1
  <2>1. At + 1 - 1 \in 0 .. patch.size - 1
    BY <1>2, <1>4, ReachedByte
  <2> QED
    BY <1>4, <2>1
<1> HIDE DEF runs, R
<1>7. CASE ~(R < Len(runs))
  <2>1. RunEnd(runs, Len(runs)) = At
    BY <1>1, <1>4, <1>5, <1>7
  <2>2. ~(RunEnd(runs, Len(runs)) >= patch.size)
    BY <1>1, <1>4, <1>6, <2>1
  <2> QED
    BY <2>2 DEF Describes, Describes13, runs
<1>8. CASE R < Len(runs) /\ runs[R + 1].type = 2 /\ ~(read.code < Len(patch.code))
  <2>1. R + 1 \in 1 .. Len(runs) /\ (R + 1) - 1 = R
    BY <1>1, <1>4, <1>8
  <2>2. runs[R + 1].len \in Nat /\ runs[R + 1].len > 0
    BY <1>1, <2>1, RunIs
  <2>3. RunEnd(runs, R + 1) = At + runs[R + 1].len
    BY <1>1, <1>5, <2>1, RunEnds
  <2>4. RunEnd(runs, (R + 1) - 1) <= At /\ At < RunEnd(runs, R + 1)
    BY <1>4, <1>5, <2>1, <2>2, <2>3
  <2>5. RunAt(runs, At) = R + 1
    BY <1>1, <1>4, <2>1, <2>4, RunAtIs
  <2>6. CodePlace(runs, At) = read.code + 1
    BY <1>5, <1>8, <2>1, <2>5 DEF CodePlace
  <2>7. ~(CodePlace(runs, At) <= Len(patch.code))
    BY <1>1, <1>4, <1>8, <2>6
  <2> QED
    BY <1>6, <2>7 DEF Describes, Describes13, runs
<1> QED
  BY <1>3, <1>7, <1>8 DEF runs, R
-----------------------------------------------------------------------------
(***************************************************************************)
(* The bytes that run lengths stand for.                                   *)
(***************************************************************************)
\* What run lengths stand for from place p on, when g says it for what follows.
FromHere(rle0, p, g) ==
    IF p > Len(rle0) THEN <<>>
    ELSE Zeros(rle0[p]) \o
         (IF p + 1 > Len(rle0) \/ p + 1 + rle0[p + 1] > Len(rle0) THEN <<>>
          ELSE SubSeq(rle0, p + 2, p + 1 + rle0[p + 1]) \o g[p + 2 + rle0[p + 1]])
IsExpansion(rle0, m, g) == g = [p \in m .. Len(rle0) + 1 |-> FromHere(rle0, p, g)]

\* Only what follows matters.
LEMMA WhatFollows ==
  ASSUME NEW b \in Seq(Nat), NEW p \in Nat, p >= 1, NEW g, NEW h,
         \A q \in p + 1 .. Len(b) + 1 : g[q] = h[q]
  PROVE  FromHere(b, p, g) = FromHere(b, p, h)
<1>1. Len(b) \in Nat /\ \A i \in 1 .. Len(b) : b[i] \in Nat
  OBVIOUS
<1>2. CASE p > Len(b) \/ p + 1 > Len(b) \/ p + 1 + b[p + 1] > Len(b)
  BY <1>2 DEF FromHere
<1>3. CASE ~(p > Len(b) \/ p + 1 > Len(b) \/ p + 1 + b[p + 1] > Len(b))
  <2>1. b[p + 1] \in Nat
    BY <1>1, <1>3
  <2>2. p + 2 + b[p + 1] \in p + 1 .. Len(b) + 1
    BY <1>1, <1>3, <2>1, SMTT(30)
  <2>3. g[p + 2 + b[p + 1]] = h[p + 2 + b[p + 1]]
    BY <2>2
  <2> QED
    BY <2>3, ZenonT(30) DEF FromHere
<1> QED
  BY <1>2, <1>3

LEMMA ExpansionExists ==
  ASSUME NEW b \in Seq(Nat)
  PROVE  \E g : IsExpansion(b, 1, g)
<1> DEFINE L == Len(b)
           Bad == {n \in Nat : n <= L /\ ~ \E g : IsExpansion(b, L + 1 - n, g)}
<1>1. L \in Nat /\ L + 1 - L = 1
  OBVIOUS
<1> SUFFICES ASSUME Bad # {} PROVE FALSE
  BY <1>1
<1>2. PICK m \in Bad : \A k \in Bad : m <= k
  <2> HIDE DEF Bad
  <2>1. Bad \in SUBSET Nat
    BY DEF Bad
  <2> QED
    BY <2>1, LeastIsThere
<1>3. m # 0
  <2>1. IsExpansion(b, L + 1, [p \in L + 1 .. L + 1 |-> <<>>])
    <3>1. \A p \in L + 1 .. L + 1 : FromHere(b, p, [q \in L + 1 .. L + 1 |-> <<>>]) = <<>>
      BY <1>1 DEF FromHere
    <3> QED
      BY <1>1, <3>1 DEF IsExpansion
  <2>2. L + 1 - 0 = L + 1
    BY <1>1
  <2> QED
    BY <2>1, <2>2
<1>4. m \in Nat /\ m <= L /\ m - 1 \in Nat /\ m - 1 <= L /\ m - 1 \notin Bad
  <2>1. m \in Nat /\ m <= L
    BY <1>2
  <2> HIDE DEF Bad, L
  <2> QED
    BY <1>1, <1>2, <1>3, <2>1
<1> DEFINE a == L + 1 - m
<1>5. a \in Nat /\ a >= 1 /\ a <= L /\ L + 1 - (m - 1) = a + 1
  BY <1>1, <1>4
<1>6. PICK g : IsExpansion(b, a + 1, g)
  BY <1>4, <1>5
<1> DEFINE h == [p \in a .. L + 1 |-> IF p > a THEN g[p] ELSE FromHere(b, a, g)]
<1>7. ~ \E x : IsExpansion(b, a, x)
  BY <1>2
<1> HIDE DEF a, Bad
<1>8. ASSUME NEW p \in a .. L + 1 PROVE h[p] = FromHere(b, p, h)
  <2>1. p \in Nat /\ p >= 1
    BY <1>5
  <2>2. \A q \in p + 1 .. L + 1 : g[q] = h[q]
    BY <1>5, <2>1
  <2>3. FromHere(b, p, g) = FromHere(b, p, h)
    <3> HIDE DEF h
    <3> QED
      BY <2>1, <2>2, WhatFollows
  <2>4. CASE p > a
    <3>1. p \in a + 1 .. L + 1
      BY <1>1, <1>5, <2>4
    <3>2. g[p] = FromHere(b, p, g)
      BY <1>6, <3>1 DEF IsExpansion
    <3>3. h[p] = g[p]
      BY <2>4
    <3> HIDE DEF h
    <3> QED
      BY <2>3, <3>2, <3>3
  <2>5. CASE ~(p > a)
    <3>1. p = a
      BY <1>1, <1>5, <2>5
    <3>2. h[p] = FromHere(b, p, g)
      BY <2>5, <3>1
    <3> HIDE DEF h
    <3> QED
      BY <2>3, <3>2
  <2> QED
    BY <2>4, <2>5
<1>9. IsExpansion(b, a, h)
  BY <1>8, Zenon DEF IsExpansion
<1> QED
  BY <1>7, <1>9

LEMMA ExpansionStep ==
  ASSUME NEW b \in Seq(Nat)
  PROVE  \A p \in 1 .. Len(b) + 1 : Expansion(b)[p] = FromHere(b, p, Expansion(b))
<1> DEFINE g == CHOOSE g : IsExpansion(b, 1, g)
<1>1. IsExpansion(b, 1, g)
  BY ExpansionExists
<1>2. Expansion(b) = g
  BY DEF Expansion, IsExpansion, FromHere
<1> HIDE DEF g
<1>3. \A p \in 1 .. Len(b) + 1 : g[p] = FromHere(b, p, g)
  BY <1>1 DEF IsExpansion
<1> QED
  BY <1>2, <1>3

LEMMA ZerosAre ==
  ASSUME NEW n \in Nat
  PROVE  Zeros(n) \in Seq(Nat) /\ Len(Zeros(n)) = n /\ \A j \in 1 .. n : Zeros(n)[j] = 0
BY DEF Zeros

LEMMA PartOf ==
  ASSUME NEW b \in Seq(Nat), NEW p \in Nat, NEW n \in Nat, p + n <= Len(b)
  PROVE  /\ SubSeq(b, p + 1, p + n) \in Seq(Nat) /\ Len(SubSeq(b, p + 1, p + n)) = n
         /\ \A j \in 1 .. n : SubSeq(b, p + 1, p + n)[j] = b[p + j]
<1>1. Len(b) \in Nat /\ b \in Seq(Int)
  <2>1. Nat \subseteq Int
    OBVIOUS
  <2>2. b \in Seq(Int)
    BY <2>1, SeqMonotonic
  <2> QED
    BY <2>2
<1>2. /\ Len(SubSeq(b, p + 1, p + n)) = n
      /\ \A j \in 1 .. n : SubSeq(b, p + 1, p + n)[j] = b[p + j]
  BY <1>1, PartIs
<1>3. SubSeq(b, p + 1, p + n) \in Seq(Nat)
  <2>1. \A i \in p + 1 .. p + n : b[i] \in Nat
    BY <1>1
  <2>2. p + 1 \in Int /\ p + n \in Int
    OBVIOUS
  <2> QED
    BY <2>1, <2>2, SubSeqProperties
<1> QED
  BY <1>2, <1>3

LEMMA ExpansionIn ==
  ASSUME NEW b \in Seq(Nat)
  PROVE  \A p \in 1 .. Len(b) + 1 : Expansion(b)[p] \in Seq(Nat)
<1> DEFINE L == Len(b)
           X == Expansion(b)
           S == {n \in 0 .. L : \A p \in L + 1 - n .. L + 1 : X[p] \in Seq(Nat)}
<1>1. L \in Nat /\ \A i \in 1 .. L : b[i] \in Nat
  OBVIOUS
<1>2. \A p \in 1 .. L + 1 : X[p] = FromHere(b, p, X)
  BY ExpansionStep
<1>3. <<>> \in Seq(Nat)
  OBVIOUS
<1> HIDE DEF X
<1>4. X[L + 1] = <<>>
  <2>1. L + 1 \in 1 .. L + 1 /\ L + 1 > L
    BY <1>1
  <2>2. X[L + 1] = FromHere(b, L + 1, X)
    BY <1>2, <2>1
  <2> QED
    BY <2>1, <2>2 DEF FromHere
<1>5. 0 \in S
  <2>1. 0 \in 0 .. L /\ \A p \in L + 1 - 0 .. L + 1 : p = L + 1
    BY <1>1
  <2> HIDE DEF L
  <2> QED
    BY <1>3, <1>4, <2>1
<1>6. ASSUME NEW n \in Int, 0 < n, n <= L, n - 1 \in S PROVE n \in S
  <2> DEFINE p == L + 1 - n
  <2>1. p \in 1 .. L /\ p \in 1 .. L + 1 /\ L + 1 - (n - 1) = p + 1 /\ ~(p > L)
    BY <1>1, <1>6
  <2>2. \A q \in p + 1 .. L + 1 : X[q] \in Seq(Nat)
    BY <1>6, <2>1
  <2>3. X[p] = FromHere(b, p, X)
    BY <1>2, <2>1
  <2> HIDE DEF p
  <2>4. Zeros(b[p]) \in Seq(Nat)
    BY <1>1, <2>1, ZerosAre
  <2>5. X[p] \in Seq(Nat)
    <3>1. CASE p + 1 > L \/ p + 1 + b[p + 1] > L
      BY <1>3, <2>1, <2>3, <2>4, <3>1, ConcatProperties DEF FromHere
    <3>2. CASE ~(p + 1 > L \/ p + 1 + b[p + 1] > L)
      <4> DEFINE m == b[p + 1]
      <4>1. m \in Nat /\ p \in Nat /\ p + 1 \in Nat /\ (p + 1) + m <= Len(b)
        BY <1>1, <2>1, <3>2
      <4>2. SubSeq(b, (p + 1) + 1, (p + 1) + m) \in Seq(Nat)
        <5> HIDE DEF m
        <5> QED
          BY <4>1, PartOf
      <4>3. (p + 1) + 1 = p + 2 /\ (p + 1) + m = p + 1 + m
        BY <4>1
      <4>4. p + 2 + m \in p + 1 .. L + 1
        BY <1>1, <2>1, <4>1, SMTT(30)
      <4>5. X[p + 2 + m] \in Seq(Nat)
        BY <2>2, <4>4
      <4>6. SubSeq(b, p + 2, p + 1 + m) \o X[p + 2 + m] \in Seq(Nat)
        BY <4>2, <4>3, <4>5, ConcatProperties
      <4>7. X[p] = Zeros(b[p]) \o (SubSeq(b, p + 2, p + 1 + m) \o X[p + 2 + m])
        BY <2>1, <2>3, <3>2 DEF FromHere
      <4> DEFINE t == SubSeq(b, p + 2, p + 1 + m) \o X[p + 2 + m]
      <4>8. t \in Seq(Nat) /\ X[p] = Zeros(b[p]) \o t
        BY <4>6, <4>7
      <4> HIDE DEF t
      <4> QED
        BY <2>4, <4>8, ConcatProperties
    <3> QED
      BY <3>1, <3>2
  <2>6. \A q \in p .. L + 1 : q = p \/ q \in p + 1 .. L + 1
    BY <1>1, <2>1
  <2>7. n \in 0 .. L /\ \A q \in p .. L + 1 : X[q] \in Seq(Nat)
    BY <1>1, <1>6, <2>2, <2>5, <2>6
  <2>8. L + 1 - n = p
    BY DEF p
  <2> HIDE DEF L
  <2> QED
    BY <2>7, <2>8
<1>7. S \in SUBSET Int /\ 0 \in Int /\ L \in Int
  BY <1>1
<1>8. L \in S
  <2> HIDE DEF S, L
  <2>1. \A k \in Int : 0 <= k /\ k <= L => k \in S
    BY <1>5, <1>6, <1>7, Induct
  <2> QED
    BY <1>1, <2>1
<1>9. L + 1 - L = 1
  BY <1>1
<1> QED
  BY <1>8, <1>9 DEF X

\* What is left of run lengths: literals that begin after place p, then zeros
\* and literals in turn.
Literals(b, p, n) ==
    IF p + n > Len(b) THEN <<>> ELSE SubSeq(b, p + 1, p + n) \o Expansion(b)[p + n + 1]
Unread(d) ==
    IF d.need0 THEN Literals(d.buf, d.pos, d.lenv)
    ELSE Zeros(d.len0) \o (IF d.pos + 1 > Len(d.buf) THEN <<>>
                           ELSE Literals(d.buf, d.pos + 1, d.buf[d.pos + 1]))

Decoders == {d \in [buf : Seq(Nat), pos : Nat, len0 : Nat, lenv : Nat, need0 : BOOLEAN] :
                /\ d.pos <= Len(d.buf)
                /\ IF d.need0 THEN d.len0 = 0 ELSE d.lenv = 0}

LEMMA LiteralsAre ==
  ASSUME NEW b \in Seq(Nat), NEW p \in Nat, NEW n \in Nat
  PROVE  /\ Literals(b, p, n) \in Seq(Nat)
         /\ p + n <= Len(b) =>
               /\ Expansion(b)[p + n + 1] \in Seq(Nat)
               /\ Len(Literals(b, p, n)) = n + Len(Expansion(b)[p + n + 1])
               /\ \A j \in 1 .. Len(Literals(b, p, n)) :
                     Literals(b, p, n)[j] = IF j <= n THEN b[p + j]
                                            ELSE Expansion(b)[p + n + 1][j - n]
         /\ p + n > Len(b) => Literals(b, p, n) = <<>>
<1>1. Len(b) \in Nat
  OBVIOUS
<1>2. CASE p + n > Len(b)
  <2>1. Literals(b, p, n) = <<>> /\ <<>> \in Seq(Nat) /\ ~(p + n <= Len(b))
    BY <1>1, <1>2 DEF Literals
  <2> QED
    BY <2>1
<1>3. CASE ~(p + n > Len(b))
  <2> DEFINE s == SubSeq(b, p + 1, p + n)
             t == Expansion(b)[p + n + 1]
  <2>1. p + n <= Len(b) /\ p + n + 1 \in 1 .. Len(b) + 1
    BY <1>1, <1>3
  <2>2. s \in Seq(Nat) /\ Len(s) = n /\ \A j \in 1 .. n : s[j] = b[p + j]
    BY <2>1, PartOf
  <2>3. t \in Seq(Nat)
    BY <2>1, ExpansionIn
  <2>4. Literals(b, p, n) = s \o t
    BY <1>3 DEF Literals
  <2> HIDE DEF s, t
  <2>5. /\ s \o t \in Seq(Nat) /\ Len(s \o t) = n + Len(t) /\ Len(t) \in Nat
        /\ \A j \in 1 .. n + Len(t) : (s \o t)[j] = IF j <= n THEN s[j] ELSE t[j - n]
    <3>1. /\ s \o t \in Seq(Nat) /\ Len(s \o t) = Len(s) + Len(t)
          /\ \A j \in 1 .. Len(s) + Len(t) : (s \o t)[j] = IF j <= Len(s) THEN s[j] ELSE t[j - Len(s)]
      BY <2>2, <2>3, ConcatProperties
    <3> QED
      BY <2>2, <2>3, <3>1
  <2>6. \A j \in 1 .. n + Len(t) : (s \o t)[j] = IF j <= n THEN b[p + j] ELSE t[j - n]
    BY <2>2, <2>5
  <2> QED
    BY <1>3, <2>3, <2>4, <2>5, <2>6 DEF t
<1> QED
  BY <1>2, <1>3

\* From place p of b on there are n literals, and then t.
Begins(t, b, p, n) ==
    /\ Len(Literals(b, p, n)) = n + Len(t)
    /\ \A j \in 1 .. Len(Literals(b, p, n)) :
          Literals(b, p, n)[j] = IF j <= n THEN b[p + j] ELSE t[j - n]

LEMMA LiteralsFit ==
  ASSUME NEW b \in Seq(Nat), NEW p \in Nat, NEW n \in Nat, NEW t,
         p + n <= Len(b), Expansion(b)[p + n + 1] = t
  PROVE  Begins(t, b, p, n)
<1>1. Begins(Expansion(b)[p + n + 1], b, p, n)
  BY LiteralsAre, ZenonT(30) DEF Begins
<1> QED
  BY <1>1

\* t is s without its first n members.
Without(s, n, t) == Len(s) = n + Len(t) /\ \A j \in 1 .. Len(t) : t[j] = s[n + j]

LEMMA DecoderIs ==
  ASSUME NEW d \in Decoders
  PROVE  /\ d \in [buf : Seq(Nat), pos : Nat, len0 : Nat, lenv : Nat, need0 : BOOLEAN]
         /\ d.buf \in Seq(Nat) /\ Len(d.buf) \in Nat
         /\ d.pos \in Nat /\ d.pos <= Len(d.buf)
         /\ d.len0 \in Nat /\ d.lenv \in Nat /\ d.need0 \in BOOLEAN
         /\ d.need0 => d.len0 = 0
         /\ ~d.need0 => d.lenv = 0
BY DEF Decoders

LEMMA UnreadIs ==
  ASSUME NEW d \in Decoders
  PROVE  /\ Unread(d) \in Seq(Nat)
         /\ ~d.need0 =>
               LET t == IF d.pos + 1 > Len(d.buf) THEN <<>>
                        ELSE Literals(d.buf, d.pos + 1, d.buf[d.pos + 1])
               IN  /\ t \in Seq(Nat) /\ Unread(d) = Zeros(d.len0) \o t
                   /\ Len(Unread(d)) = d.len0 + Len(t)
                   /\ \A j \in 1 .. Len(Unread(d)) :
                         Unread(d)[j] = IF j <= d.len0 THEN 0 ELSE t[j - d.len0]
<1> DEFINE t == IF d.pos + 1 > Len(d.buf) THEN <<>>
                ELSE Literals(d.buf, d.pos + 1, d.buf[d.pos + 1])
<1>1. /\ d.buf \in Seq(Nat) /\ Len(d.buf) \in Nat /\ d.pos \in Nat /\ d.len0 \in Nat /\ d.lenv \in Nat
      /\ d.need0 \in BOOLEAN
  BY DecoderIs
<1>2. CASE d.need0
  BY <1>1, <1>2, LiteralsAre DEF Unread
<1>3. CASE ~d.need0
  <2>1. t \in Seq(Nat)
    <3>1. CASE d.pos + 1 > Len(d.buf)
      BY <3>1
    <3>2. CASE ~(d.pos + 1 > Len(d.buf))
      <4>1. d.pos + 1 \in Nat /\ d.pos + 1 \in 1 .. Len(d.buf)
        BY <1>1, <3>2
      <4>2. d.buf[d.pos + 1] \in Nat
        BY <1>1, <4>1
      <4> QED
        BY <1>1, <3>2, <4>1, <4>2, LiteralsAre
    <3> QED
      BY <3>1, <3>2
  <2>2. Unread(d) = Zeros(d.len0) \o t
    BY <1>3 DEF Unread
  <2> HIDE DEF t
  <2>3. Zeros(d.len0) \in Seq(Nat) /\ Len(Zeros(d.len0)) = d.len0
        /\ \A j \in 1 .. d.len0 : Zeros(d.len0)[j] = 0
    BY <1>1, ZerosAre
  <2> DEFINE z == Zeros(d.len0)
  <2> HIDE DEF z
  <2>4. /\ z \o t \in Seq(Nat) /\ Len(z \o t) = Len(z) + Len(t)
        /\ \A j \in 1 .. Len(z) + Len(t) : (z \o t)[j] = IF j <= Len(z) THEN z[j] ELSE t[j - Len(z)]
    BY <2>1, <2>3, ConcatProperties DEF z
  <2>5. /\ Unread(d) \in Seq(Nat) /\ Len(Unread(d)) = d.len0 + Len(t)
        /\ \A j \in 1 .. Len(Unread(d)) : Unread(d)[j] = IF j <= d.len0 THEN 0 ELSE t[j - d.len0]
    BY <1>1, <2>2, <2>3, <2>4 DEF z
  <2> QED
    BY <1>3, <2>1, <2>2, <2>5 DEF t
<1> QED
  BY <1>1, <1>2, <1>3

\* A decoder that is new gives all.
LEMMA NewDecoder ==
  ASSUME NEW b \in Seq(Nat)
  PROVE  SF!Decoder(b) \in Decoders /\ SF!Decoder(b).buf = b /\ Unread(SF!Decoder(b)) = Expanded(b)
<1>1. Len(b) \in Nat
  OBVIOUS
<1>2. SF!Decoder(b) = [buf |-> b, pos |-> 0, len0 |-> 0, lenv |-> 0, need0 |-> TRUE]
  BY DEF SF!Decoder
<1>3. SF!Decoder(b) \in Decoders
  BY <1>1, <1>2 DEF Decoders
<1>4. Unread(SF!Decoder(b)) = Literals(b, 0, 0)
  BY <1>2 DEF Unread
<1>5. Literals(b, 0, 0) = SubSeq(b, 1, 0) \o Expansion(b)[1]
  <2>1. ~(0 + 0 > Len(b)) /\ 0 + 1 = 1 /\ 0 + 0 = 0 /\ 0 + 0 + 1 = 1
    BY <1>1
  <2> QED
    BY <2>1 DEF Literals
<1>6. SubSeq(b, 1, 0) = <<>>
  BY SubSeqEmpty
<1>7. Expansion(b)[1] \in Seq(Nat)
  BY <1>1, ExpansionIn
<1>8. <<>> \o Expansion(b)[1] = Expansion(b)[1]
  BY <1>7, ConcatEmptySeq
<1>9. Unread(SF!Decoder(b)) = Expansion(b)[1] /\ SF!Decoder(b).buf = b
  <2>1. Unread(SF!Decoder(b)) = Expansion(b)[1]
    BY <1>4, <1>5, <1>6, <1>8
  <2> QED
    BY <1>2, <2>1
<1> QED
  BY <1>3, <1>9 DEF Expanded

\* The next number is read: nothing that is still to come changes.
LEMMA NumberRead ==
  ASSUME NEW d \in Decoders, d.len0 = 0, d.lenv = 0
  PROVE  /\ d.pos >= Len(d.buf) => Unread(d) = <<>>
         /\ d.pos < Len(d.buf) =>
               LET n == d.buf[d.pos + 1]
                   e == IF d.need0 THEN [d EXCEPT !.pos = d.pos + 1, !.len0 = n, !.need0 = FALSE]
                        ELSE [d EXCEPT !.pos = d.pos + 1, !.lenv = n, !.need0 = TRUE]
               IN  e \in Decoders /\ Unread(e) = Unread(d)
<1> DEFINE b == d.buf
           p == d.pos
           n == b[p + 1]
           e == IF d.need0 THEN [d EXCEPT !.pos = p + 1, !.len0 = n, !.need0 = FALSE]
                ELSE [d EXCEPT !.pos = p + 1, !.lenv = n, !.need0 = TRUE]
<1>1. /\ d \in [buf : Seq(Nat), pos : Nat, len0 : Nat, lenv : Nat, need0 : BOOLEAN]
      /\ b \in Seq(Nat) /\ Len(b) \in Nat /\ p \in Nat /\ p <= Len(b) /\ d.need0 \in BOOLEAN
  BY DecoderIs
<1>2. p + 1 \in 1 .. Len(b) + 1 /\ p + 1 \in Nat
  BY <1>1
<1>3. Expansion(b)[p + 1] \in Seq(Nat)
  BY <1>1, <1>2, ExpansionIn
<1>4. Literals(b, p, 0) = Expansion(b)[p + 1]
  <2>1. ~(p + 0 > Len(b)) /\ p + 0 = p /\ p + 0 + 1 = p + 1
    BY <1>1
  <2>2. SubSeq(b, p + 1, p) = <<>>
    BY <1>1, SubSeqEmpty
  <2>3. Literals(b, p, 0) = <<>> \o Expansion(b)[p + 1]
    BY <2>1, <2>2 DEF Literals
  <2> QED
    BY <1>3, <2>3, ConcatEmptySeq
<1>5. Zeros(0) = <<>>
  BY DEF Zeros
<1>6. ASSUME p >= Len(b) PROVE Unread(d) = <<>>
  <2>1. p = Len(b) /\ p + 1 > Len(b)
    BY <1>1, <1>6
  <2>2. CASE d.need0
    <3>1. Expansion(b)[p + 1] = FromHere(b, p + 1, Expansion(b))
      BY <1>1, <1>2, ExpansionStep
    <3>2. Expansion(b)[p + 1] = <<>>
      BY <2>1, <3>1 DEF FromHere
    <3> QED
      BY <1>4, <2>2, <3>2 DEF Unread
  <2>3. CASE ~d.need0
    <3>1. Unread(d) = <<>> \o <<>>
      BY <1>5, <2>1, <2>3 DEF Unread
    <3> QED
      BY <3>1
  <2> QED
    BY <2>2, <2>3
<1>7. ASSUME p < Len(b) PROVE e \in Decoders /\ Unread(e) = Unread(d)
  <2>1. p + 1 \in 1 .. Len(b) /\ p + 1 <= Len(b) /\ ~(p + 1 > Len(b))
    BY <1>1, <1>7
  <2>2. n \in Nat
    BY <1>1, <2>1
  <2>3. CASE d.need0
    <3>1. e = [d EXCEPT !.pos = p + 1, !.len0 = n, !.need0 = FALSE]
      BY <2>3
    <3> HIDE DEF e, n, b, p
    <3>2. /\ e.buf = b /\ e.pos = p + 1 /\ e.len0 = n /\ e.lenv = 0 /\ e.need0 = FALSE
          /\ e \in [buf : Seq(Nat), pos : Nat, len0 : Nat, lenv : Nat, need0 : BOOLEAN]
      BY <1>1, <1>2, <2>2, <3>1 DEF b
    <3>3. e \in Decoders
      BY <2>1, <3>2 DEF Decoders
    <3>4. Unread(d) = Expansion(b)[p + 1]
      BY <1>4, <2>3 DEF Unread, b, p
    <3>5. Expansion(b)[p + 1] = FromHere(b, p + 1, Expansion(b))
      BY <1>1, <1>2, ExpansionStep
    <3>6. FromHere(b, p + 1, Expansion(b)) =
             Zeros(n) \o (IF (p + 1) + 1 > Len(b) THEN <<>> ELSE Literals(b, (p + 1) + 1, b[(p + 1) + 1]))
      <4>1. CASE (p + 1) + 1 > Len(b)
        BY <2>1, <4>1 DEF FromHere, n
      <4>2. CASE ~((p + 1) + 1 > Len(b))
        <5> DEFINE m == b[(p + 1) + 1]
        <5>1. m \in Nat
          BY <1>1, <4>2
        <5>2. /\ (p + 1) + 2 = ((p + 1) + 1) + 1 /\ (p + 1) + 1 + m = ((p + 1) + 1) + m
              /\ (p + 1) + 2 + m = ((p + 1) + 1) + m + 1
          <6> HIDE DEF m
          <6> QED
            BY <1>1, <5>1
        <5> QED
          BY <2>1, <4>2, <5>2 DEF FromHere, Literals, n
      <4> QED
        BY <4>1, <4>2
    <3>7. Unread(e) = FromHere(b, p + 1, Expansion(b))
      BY <3>2, <3>6 DEF Unread
    <3> QED
      BY <3>3, <3>4, <3>5, <3>7
  <2>4. CASE ~d.need0
    <3>1. e = [d EXCEPT !.pos = p + 1, !.lenv = n, !.need0 = TRUE]
      BY <2>4
    <3>2. Unread(d) = <<>> \o Literals(b, p + 1, n)
      BY <1>5, <2>1, <2>4 DEF Unread
    <3> HIDE DEF e, n, b, p
    <3>3. /\ e.buf = b /\ e.pos = p + 1 /\ e.len0 = 0 /\ e.lenv = n /\ e.need0 = TRUE
          /\ e \in [buf : Seq(Nat), pos : Nat, len0 : Nat, lenv : Nat, need0 : BOOLEAN]
      BY <1>1, <1>2, <2>2, <3>1 DEF b
    <3>4. e \in Decoders
      BY <2>1, <3>3 DEF Decoders
    <3>5. Literals(b, p + 1, n) \in Seq(Nat)
      BY <1>1, <1>2, <2>2, LiteralsAre
    <3>6. Unread(e) = Literals(b, p + 1, n)
      BY <3>3 DEF Unread
    <3> QED
      BY <3>2, <3>4, <3>5, <3>6, ConcatEmptySeq
  <2> QED
    BY <1>1, <2>3, <2>4
<1> QED
  BY <1>6, <1>7

LEMMA ZerosUsed ==
  ASSUME NEW d \in Decoders, ~d.need0, NEW n \in Nat, n <= d.len0
  PROVE  /\ [d EXCEPT !.len0 = d.len0 - n] \in Decoders
         /\ Without(Unread(d), n, Unread([d EXCEPT !.len0 = d.len0 - n]))
         /\ \A j \in 1 .. n : Unread(d)[j] = 0
<1> DEFINE e == [d EXCEPT !.len0 = d.len0 - n]
           t == IF d.pos + 1 > Len(d.buf) THEN <<>>
                ELSE Literals(d.buf, d.pos + 1, d.buf[d.pos + 1])
<1>1. /\ d \in [buf : Seq(Nat), pos : Nat, len0 : Nat, lenv : Nat, need0 : BOOLEAN]
      /\ d.pos <= Len(d.buf) /\ d.len0 \in Nat /\ d.lenv = 0 /\ d.len0 - n \in Nat
  BY DecoderIs
<1>2. /\ e.buf = d.buf /\ e.pos = d.pos /\ e.len0 = d.len0 - n /\ e.lenv = 0 /\ ~e.need0
      /\ e \in [buf : Seq(Nat), pos : Nat, len0 : Nat, lenv : Nat, need0 : BOOLEAN]
  BY <1>1
<1> HIDE DEF e
<1>3. e \in Decoders
  BY <1>1, <1>2 DEF Decoders
<1>4. /\ t \in Seq(Nat) /\ Len(Unread(d)) = d.len0 + Len(t)
      /\ \A j \in 1 .. Len(Unread(d)) : Unread(d)[j] = IF j <= d.len0 THEN 0 ELSE t[j - d.len0]
  BY UnreadIs
<1>5. /\ Len(Unread(e)) = e.len0 + Len(t)
      /\ \A j \in 1 .. Len(Unread(e)) : Unread(e)[j] = IF j <= e.len0 THEN 0 ELSE t[j - e.len0]
  BY <1>2, <1>3, UnreadIs
<1> HIDE DEF t
<1>6. Len(t) \in Nat
  BY <1>4
<1>7. Len(Unread(d)) = n + Len(Unread(e))
  BY <1>1, <1>2, <1>4, <1>5, <1>6
<1>8. ASSUME NEW j \in 1 .. Len(Unread(e)) PROVE Unread(e)[j] = Unread(d)[n + j]
  <2>1. n + j \in 1 .. Len(Unread(d)) /\ (n + j) - d.len0 = j - e.len0 /\ (n + j <= d.len0 <=> j <= e.len0)
    BY <1>1, <1>2, <1>5, <1>6, <1>7, SMTT(30)
  <2> QED
    BY <1>4, <1>5, <2>1
<1>9. ASSUME NEW j \in 1 .. n PROVE Unread(d)[j] = 0
  <2>1. j \in 1 .. Len(Unread(d)) /\ j <= d.len0
    BY <1>1, <1>4, <1>6
  <2> QED
    BY <1>4, <2>1
<1> QED
  BY <1>3, <1>7, <1>8, <1>9 DEF Without, e

LEMMA LiteralsUsed ==
  ASSUME NEW d \in Decoders, d.need0, NEW n \in Nat, n <= d.lenv
  PROVE  /\ d.lenv > Len(d.buf) - d.pos => Unread(d) = <<>>
         /\ ~(d.lenv > Len(d.buf) - d.pos) =>
               /\ [d EXCEPT !.pos = d.pos + n, !.lenv = d.lenv - n] \in Decoders
               /\ Without(Unread(d), n, Unread([d EXCEPT !.pos = d.pos + n, !.lenv = d.lenv - n]))
               /\ \A j \in 1 .. n : Unread(d)[j] = d.buf[d.pos + j]
<1> DEFINE e == [d EXCEPT !.pos = d.pos + n, !.lenv = d.lenv - n]
           b == d.buf
           p == d.pos
           m == d.lenv
           t == Expansion(b)[p + m + 1]
<1>1. /\ d \in [buf : Seq(Nat), pos : Nat, len0 : Nat, lenv : Nat, need0 : BOOLEAN]
      /\ b \in Seq(Nat) /\ Len(b) \in Nat /\ p \in Nat /\ p <= Len(b) /\ m \in Nat
      /\ d.len0 = 0 /\ m - n \in Nat /\ p + n \in Nat
  BY DecoderIs
<1>2. Unread(d) = Literals(b, p, m)
  BY DEF Unread
<1>3. ASSUME m > Len(b) - p PROVE Unread(d) = <<>>
  <2>1. p + m > Len(b)
    BY <1>1, <1>3
  <2> QED
    BY <1>1, <1>2, <2>1, LiteralsAre
<1>4. ASSUME ~(m > Len(b) - p)
      PROVE  e \in Decoders /\ Without(Unread(d), n, Unread(e))
             /\ \A j \in 1 .. n : Unread(d)[j] = b[p + j]
  <2>1. p + m <= Len(b) /\ (p + n) + (m - n) = p + m /\ p + n <= Len(b)
        /\ (p + n) + (m - n) + 1 = p + m + 1
    <3> HIDE DEF p, m, b
    <3> QED
      BY <1>1, <1>4
  <2>2. /\ e.buf = b /\ e.pos = p + n /\ e.len0 = 0 /\ e.lenv = m - n /\ e.need0 = TRUE
        /\ e \in [buf : Seq(Nat), pos : Nat, len0 : Nat, lenv : Nat, need0 : BOOLEAN]
    <3>1. d.need0 = TRUE
      BY DecoderIs
    <3> QED
      BY <1>1, <3>1
  <2> HIDE DEF e, b, p, m
  <2>3. e \in Decoders
    BY <2>1, <2>2 DEF Decoders
  <2>4. Unread(e) = Literals(b, p + n, m - n)
    BY <2>2 DEF Unread
  <2>5. /\ t \in Seq(Nat) /\ Len(Literals(b, p, m)) = m + Len(t)
        /\ \A j \in 1 .. Len(Literals(b, p, m)) :
              Literals(b, p, m)[j] = IF j <= m THEN b[p + j] ELSE t[j - m]
    BY <1>1, <2>1, LiteralsAre
  <2>6. /\ Len(Literals(b, p + n, m - n)) = (m - n) + Len(t)
        /\ \A j \in 1 .. Len(Literals(b, p + n, m - n)) :
              Literals(b, p + n, m - n)[j] = IF j <= m - n THEN b[(p + n) + j] ELSE t[j - (m - n)]
    <3>1. /\ b \in Seq(Nat) /\ p + n \in Nat /\ m - n \in Nat /\ (p + n) + (m - n) <= Len(b)
          /\ Expansion(b)[(p + n) + (m - n) + 1] = t
      BY <1>1, <2>1
    <3> HIDE DEF t
    <3>2. Begins(t, b, p + n, m - n)
      BY <3>1, LiteralsFit
    <3> QED
      BY <3>2 DEF Begins
  <2> HIDE DEF t
  <2>7. Len(t) \in Nat
    BY <2>5
  <2>8. Len(Literals(b, p, m)) = n + Len(Literals(b, p + n, m - n))
    BY <1>1, <2>5, <2>6, <2>7
  <2>9. ASSUME NEW j \in 1 .. Len(Literals(b, p + n, m - n))
        PROVE  Literals(b, p + n, m - n)[j] = Literals(b, p, m)[n + j]
    <3>1. /\ n + j \in 1 .. Len(Literals(b, p, m)) /\ (n + j) - m = j - (m - n)
          /\ (n + j <= m <=> j <= m - n) /\ (p + n) + j = p + (n + j)
      <4> DEFINE x == Len(Literals(b, p + n, m - n))  y == Len(Literals(b, p, m))
      <4>1. y = n + x /\ j \in 1 .. x /\ x \in Nat
        BY <1>1, <2>6, <2>7, <2>8
      <4> HIDE DEF x, y
      <4>2. /\ n + j \in 1 .. y /\ (n + j) - m = j - (m - n)
            /\ (n + j <= m <=> j <= m - n) /\ (p + n) + j = p + (n + j)
        BY <1>1, <4>1
      <4> QED
        BY <4>2 DEF y
    <3> QED
      BY <2>5, <2>6, <3>1
  <2>10. ASSUME NEW j \in 1 .. n PROVE Literals(b, p, m)[j] = b[p + j]
    <3>1. j \in 1 .. Len(Literals(b, p, m)) /\ j <= m
      BY <1>1, <2>5, <2>7
    <3> QED
      BY <2>5, <3>1
  <2> QED
    BY <1>2, <2>3, <2>4, <2>8, <2>9, <2>10 DEF Without
<1> QED
  BY <1>3, <1>4
-----------------------------------------------------------------------------
(***************************************************************************)
(* The covers of the steps of HDIFF20.                                     *)
(***************************************************************************)
LEMMA PatchIs20 ==
  ASSUME NEW p \in Patch20
  PROVE  /\ Len(p.steps) \in Nat
         /\ \A s \in 1 .. Len(p.steps) :
               /\ p.steps[s].covers \in Seq(CoverRecord) /\ Len(p.steps[s].covers) \in Nat
               /\ p.steps[s].rle \in Seq(Nat) /\ p.steps[s].bytes \in Nat
         /\ p.count \in Nat /\ p.size \in Nat /\ p.oldSize \in Nat
         /\ p.data \in Seq(Int) /\ Len(p.data) \in Nat
<1>1. /\ p.steps \in Seq([covers : Seq(CoverRecord), rle : Seq(Nat), bytes : Nat])
      /\ p.count \in Nat /\ p.size \in Nat /\ p.oldSize \in Nat /\ p.data \in Seq(Bytes)
  BY DEF Patch20
<1>2. Bytes \subseteq Int
  BY DEF Bytes
<1>3. p.data \in Seq(Int)
  BY <1>1, <1>2, SeqMonotonic
<1> DEFINE StepRecord == [covers : Seq(CoverRecord), rle : Seq(Nat), bytes : Nat]
<1>4. \A s \in 1 .. Len(p.steps) : p.steps[s] \in StepRecord
  <2>1. p.steps \in Seq(StepRecord)
    BY <1>1
  <2> HIDE DEF StepRecord
  <2> QED
    BY <2>1
<1>5. \A s \in 1 .. Len(p.steps) :
          /\ p.steps[s].covers \in Seq(CoverRecord) /\ p.steps[s].rle \in Seq(Nat)
          /\ p.steps[s].bytes \in Nat
  BY <1>4
<1>6. \A s \in 1 .. Len(p.steps) : Len(p.steps[s].covers) \in Nat
  BY <1>5, CoverIs
<1> QED
  BY <1>1, <1>3, <1>5, <1>6, SMTT(30)

LEMMA CoverCounts ==
  ASSUME NEW p \in Patch20
  PROVE  /\ CoversUpTo(p, 0) = 0
         /\ \A s \in 0 .. Len(p.steps) : CoversUpTo(p, s) \in Nat
         /\ \A s \in 1 .. Len(p.steps) :
               CoversUpTo(p, s) = CoversUpTo(p, s - 1) + Len(p.steps[s].covers)
         /\ \A q, s \in 0 .. Len(p.steps) : q <= s => CoversUpTo(p, q) <= CoversUpTo(p, s)
<1> DEFINE t == [q \in 1 .. Len(p.steps) |-> Len(p.steps[q].covers)]
<1>1. Len(p.steps) \in Nat /\ \A s \in 1 .. Len(p.steps) : Len(p.steps[s].covers) \in Nat
  BY PatchIs20
<1>2. t \in Seq(Nat) /\ Len(t) = Len(p.steps)
  BY <1>1
<1>3. \A s \in 1 .. Len(p.steps) : t[s] = Len(p.steps[s].covers)
  OBVIOUS
<1>4. \A s : CoversUpTo(p, s) = Sums(t)[s]
  BY DEF CoversUpTo
<1> HIDE DEF t
<1>5. /\ Sums(t)[0] = 0
      /\ \A s \in 1 .. Len(t) : Sums(t)[s] = Sums(t)[s - 1] + t[s]
  BY <1>1, <1>2, SumsStep
<1>6. /\ \A s \in 0 .. Len(t) : Sums(t)[s] \in Nat
      /\ \A q, s \in 0 .. Len(t) : q <= s => Sums(t)[q] <= Sums(t)[s]
  BY <1>2, SumsNat
<1>7. CoversUpTo(p, 0) = 0 /\ \A s \in 0 .. Len(p.steps) : CoversUpTo(p, s) \in Nat
  BY <1>2, <1>4, <1>5, <1>6
<1>8. \A s \in 1 .. Len(p.steps) :
          CoversUpTo(p, s) = CoversUpTo(p, s - 1) + Len(p.steps[s].covers)
  BY <1>2, <1>3, <1>4, <1>5
<1>9. \A q, s \in 0 .. Len(p.steps) : q <= s => CoversUpTo(p, q) <= CoversUpTo(p, s)
  BY <1>2, <1>4, <1>6
<1> QED
  BY <1>7, <1>8, <1>9

\* The step of a cover.
LEMMA StepOfIs ==
  ASSUME NEW p \in Patch20, NEW s \in 1 .. Len(p.steps), NEW k \in Int,
         CoversUpTo(p, s - 1) < k, k <= CoversUpTo(p, s)
  PROVE  StepOf(p, k) = s
<1>1. Len(p.steps) \in Nat
  BY PatchIs20
<1>2. \A q \in 0 .. Len(p.steps) : CoversUpTo(p, q) \in Nat
  BY CoverCounts
<1>3. ASSUME NEW q \in 1 .. Len(p.steps), CoversUpTo(p, q - 1) < k, k <= CoversUpTo(p, q)
      PROVE  q = s
  <2>0. /\ q \in 0 .. Len(p.steps) /\ q - 1 \in 0 .. Len(p.steps)
        /\ s \in 0 .. Len(p.steps) /\ s - 1 \in 0 .. Len(p.steps)
    BY <1>1
  <2>1. CASE q < s
    <3>1. CoversUpTo(p, q) <= CoversUpTo(p, s - 1)
      BY <2>0, <2>1, CoverCounts
    <3> QED
      BY <1>2, <1>3, <2>0, <3>1
  <2>2. CASE s < q
    <3>1. CoversUpTo(p, s) <= CoversUpTo(p, q - 1)
      BY <2>0, <2>2, CoverCounts
    <3> QED
      BY <1>2, <1>3, <2>0, <3>1
  <2> QED
    BY <2>1, <2>2
<1> QED
  BY <1>3 DEF StepOf

LEMMA StepOfThere ==
  ASSUME NEW p \in Patch20, NEW k \in 1 .. CoversUpTo(p, Len(p.steps))
  PROVE  /\ StepOf(p, k) \in 1 .. Len(p.steps)
         /\ CoversUpTo(p, StepOf(p, k) - 1) < k /\ k <= CoversUpTo(p, StepOf(p, k))
<1> DEFINE L == Len(p.steps)
           Late == {s \in 0 .. L : k <= CoversUpTo(p, s)}
<1>1. L \in Nat /\ \A s \in 0 .. L : CoversUpTo(p, s) \in Nat
  BY PatchIs20, CoverCounts
<1>2. L \in Late
  BY <1>1
<1>3. PICK m \in Late : \A s \in Late : m <= s
  <2>1. Late \in SUBSET Nat
    BY <1>1
  <2> HIDE DEF Late
  <2> QED
    BY <1>2, <2>1, LeastIsThere
<1>4. m \in 0 .. L /\ k <= CoversUpTo(p, m) /\ k \in Nat /\ k > 0
  BY <1>1
<1>5. m # 0
  BY <1>4, CoverCounts
<1>6. m \in 1 .. L /\ m - 1 \in 0 .. L /\ ~(m <= m - 1)
  BY <1>1, <1>4, <1>5
<1>7. m - 1 \notin Late
  <2> HIDE DEF Late
  <2> QED
    BY <1>3, <1>6
<1>8. CoversUpTo(p, m - 1) < k
  BY <1>1, <1>4, <1>6, <1>7
<1> HIDE DEF Late
<1>9. StepOf(p, k) = m
  BY <1>4, <1>6, <1>8, StepOfIs
<1> QED
  BY <1>4, <1>6, <1>8, <1>9

LEMMA LeastOfTwo ==
  ASSUME NEW a \in Nat, NEW b \in Nat
  PROVE  /\ Min({a, b}) \in Nat /\ Min({a, b}) <= a /\ Min({a, b}) <= b
         /\ Min({a, b}) = a \/ Min({a, b}) = b
<1>1. \E x \in {a, b} : \A y \in {a, b} : x <= y
  <2>1. CASE a <= b
    BY <2>1
  <2>2. CASE b <= a
    BY <2>2
  <2> QED
    BY <2>1, <2>2
<1>2. Min({a, b}) \in {a, b} /\ \A y \in {a, b} : Min({a, b}) <= y
  BY <1>1 DEF Min
<1> QED
  BY <1>2

\* The covers that are used.
LEMMA UsedIs ==
  ASSUME NEW p \in Patch20
  PROVE  /\ Used(p) \in Seq(CoverRecord) /\ Len(Used(p)) \in Nat
         /\ Len(Used(p)) <= p.count /\ Len(Used(p)) <= CoversUpTo(p, Len(p.steps))
         /\ Len(Used(p)) = p.count \/ Len(Used(p)) = CoversUpTo(p, Len(p.steps))
         /\ \A s \in 1 .. Len(p.steps) : \A j \in 1 .. Len(p.steps[s].covers) :
               CoversUpTo(p, s - 1) + j <= p.count =>
                   /\ CoversUpTo(p, s - 1) + j \in 1 .. Len(Used(p))
                   /\ StepOf(p, CoversUpTo(p, s - 1) + j) = s
                   /\ Used(p)[CoversUpTo(p, s - 1) + j] = p.steps[s].covers[j]
<1> DEFINE L == Len(p.steps)
           T == CoversUpTo(p, L)
           n == Min({p.count, T})
           At0(k) == p.steps[StepOf(p, k)].covers[k - CoversUpTo(p, StepOf(p, k) - 1)]
<1>1. /\ L \in Nat /\ p.count \in Nat
      /\ \A s \in 1 .. L : p.steps[s].covers \in Seq(CoverRecord) /\ Len(p.steps[s].covers) \in Nat
  BY PatchIs20
<1>2. /\ \A s \in 0 .. L : CoversUpTo(p, s) \in Nat
      /\ \A s \in 1 .. L : CoversUpTo(p, s) = CoversUpTo(p, s - 1) + Len(p.steps[s].covers)
  BY CoverCounts
<1>3. T \in Nat
  BY <1>1, <1>2
<1>4. n \in Nat /\ n <= p.count /\ n <= T /\ (n = p.count \/ n = T)
  <2> HIDE DEF T
  <2> QED
    BY <1>1, <1>3, LeastOfTwo
<1>5. Used(p) = [k \in 1 .. n |-> At0(k)]
  BY DEF Used
<1> HIDE DEF n
<1>6. ASSUME NEW k \in 1 .. n PROVE At0(k) \in CoverRecord
  <2> DEFINE s == StepOf(p, k)
  <2>1. k \in 1 .. T
    BY <1>3, <1>4
  <2>2. s \in 1 .. L /\ CoversUpTo(p, s - 1) < k /\ k <= CoversUpTo(p, s)
    BY <2>1, StepOfThere
  <2> HIDE DEF s
  <2>3. s - 1 \in 0 .. L
    BY <1>1, <2>2
  <2>4. k - CoversUpTo(p, s - 1) \in 1 .. Len(p.steps[s].covers)
    BY <1>1, <1>2, <2>2, <2>3, SMTT(30)
  <2>5. p.steps[s].covers[k - CoversUpTo(p, s - 1)] \in CoverRecord
    BY <1>1, <2>2, <2>4
  <2> QED
    BY <2>5 DEF s
<1>7. Used(p) \in Seq(CoverRecord) /\ Len(Used(p)) = n
  <2> HIDE DEF At0
  <2> QED
    BY <1>4, <1>5, <1>6
<1>8. ASSUME NEW s \in 1 .. L, NEW j \in 1 .. Len(p.steps[s].covers),
             CoversUpTo(p, s - 1) + j <= p.count
      PROVE  /\ CoversUpTo(p, s - 1) + j \in 1 .. n
             /\ StepOf(p, CoversUpTo(p, s - 1) + j) = s
             /\ Used(p)[CoversUpTo(p, s - 1) + j] = p.steps[s].covers[j]
  <2> DEFINE c == CoversUpTo(p, s - 1)
             k == c + j
  <2>1. s - 1 \in 0 .. L /\ s \in 0 .. L /\ L \in 0 .. L /\ s <= L /\ Len(p.steps[s].covers) \in Nat
    BY <1>1
  <2>2. c \in Nat /\ CoversUpTo(p, s) = c + Len(p.steps[s].covers) /\ CoversUpTo(p, s) <= T
    BY <1>2, <2>1, CoverCounts
  <2> HIDE DEF c, T
  <2>3. k \in Int /\ k >= 1 /\ c < k /\ k <= CoversUpTo(p, s) /\ k <= T /\ k - c = j
    BY <1>3, <2>1, <2>2
  <2>4. k <= p.count
    BY <1>8 DEF c
  <2>5. k \in 1 .. n
    BY <1>1, <1>3, <1>4, <2>3, <2>4
  <2>6. StepOf(p, k) = s
    <3> HIDE DEF k
    <3>1. CoversUpTo(p, s - 1) < k
      BY <2>3 DEF c
    <3> QED
      BY <2>3, <3>1, StepOfIs
  <2>7. Used(p)[k] = p.steps[s].covers[j]
    <3>1. Used(p)[k] = At0(k)
      BY <1>5, <2>5
    <3> QED
      BY <2>3, <2>6, <3>1 DEF c
  <2> QED
    BY <2>5, <2>6, <2>7 DEF c
<1> QED
  BY <1>4, <1>7, <1>8

LEMMA TakenIs ==
  ASSUME NEW p \in Patch20
  PROVE  /\ Taken(p, 0) = 0
         /\ \A k \in 0 .. Len(Used(p)) : Taken(p, k) \in Nat
         /\ \A k \in 1 .. Len(Used(p)) : Taken(p, k) = Taken(p, k - 1) + Used(p)[k].len
         /\ \A j, k \in 0 .. Len(Used(p)) : j <= k => Taken(p, j) <= Taken(p, k)
<1> DEFINE C == Used(p)
           t == [j \in 1 .. Len(C) |-> C[j].len]
<1>1. C \in Seq(CoverRecord)
  BY UsedIs
<1>2. Len(C) \in Nat /\ \A k \in 1 .. Len(C) : C[k].len \in Nat
  <2> HIDE DEF C
  <2> QED
    BY <1>1, CoverIs
<1>3. t \in Seq(Nat) /\ Len(t) = Len(C)
  BY <1>2
<1>4. \A k \in 1 .. Len(C) : t[k] = C[k].len
  OBVIOUS
<1>5. \A k : Taken(p, k) = Sums(t)[k]
  BY DEF Taken
<1> HIDE DEF t
<1>6. /\ Sums(t)[0] = 0
      /\ \A k \in 1 .. Len(t) : Sums(t)[k] = Sums(t)[k - 1] + t[k]
  BY <1>2, <1>3, SumsStep
<1>7. /\ \A k \in 0 .. Len(t) : Sums(t)[k] \in Nat
      /\ \A j, k \in 0 .. Len(t) : j <= k => Sums(t)[j] <= Sums(t)[k]
  BY <1>3, SumsNat
<1>8. Taken(p, 0) = 0 /\ \A k \in 0 .. Len(C) : Taken(p, k) \in Nat
  BY <1>3, <1>5, <1>6, <1>7
<1>9. \A k \in 1 .. Len(C) : Taken(p, k) = Taken(p, k - 1) + C[k].len
  BY <1>3, <1>4, <1>5, <1>6
<1>10. \A j, k \in 0 .. Len(C) : j <= k => Taken(p, j) <= Taken(p, k)
  BY <1>3, <1>5, <1>7
<1> QED
  BY <1>8, <1>9, <1>10
-----------------------------------------------------------------------------
(***************************************************************************)
(* HDIFF20.                                                                *)
(***************************************************************************)
Byte20(p, o, i) ==
    IF ~IsCovered(Used(p), i) THEN p.data[NewBytesBelow(Used(p), i) + 1]
    ELSE LET k == CHOOSE k \in Covering(Used(p), i) : TRUE
         IN  Plus(OldByte(Used(p), o, i),
                  Expanded(p.steps[StepOf(p, k)].rle)
                      [UsedBefore(p, k) + i - NewPos(Used(p), k) + 1])

Done  == patch.count - count             \* covers decoded
Made  == Len(out) + Len(io)              \* bytes made
First == CoversUpTo(patch, step - 1)     \* covers of the steps before
\* The bytes of the run lengths of the step that were used.
Spent == Taken(patch, Done) - Taken(patch, First) - rest + Len(io)

Typed20 ==
    /\ step \in 0 .. Len(patch.steps) /\ count \in 0 .. patch.count
    /\ todo \in Seq(CoverRecord) /\ oldEnd \in Int /\ newEnd \in Nat
    /\ rle \in Decoders
    /\ rest \in Nat /\ io \in Seq(Int) /\ take \in Nat /\ seen \in Nat
    /\ out \in Seq(Int)

\* Where the decoder is among the covers and in the cover in work.
Course20 ==
    LET C == Used(patch) IN
    /\ Done <= Len(C)
    /\ step = 0 => Done = 0 /\ todo = <<>>
    /\ step > 0 =>
           /\ First <= Done /\ Len(todo) = CoversUpTo(patch, step) - Done
           /\ \A j \in 1 .. Len(todo) : todo[j] = patch.steps[step].covers[Done - First + j]
    /\ oldEnd = OldEnd(C, Done)
    /\ \/ newEnd = NewEnd(C, Done)
       \/ count = 0 /\ rest = 0 /\ newEnd = patch.size /\ NewEnd(C, Done) <= newEnd
    /\ Len(out) = newEnd - rest
    /\ take <= rest /\ Len(io) <= take
    /\ rest > 0 => /\ step > 0 /\ First < Done /\ rest <= C[Done].len
                   /\ place = OldPos(C, Done) + Made - NewPos(C, Done)

\* The covers up to now lie in the old file, and their run lengths go as far.
Passed20 ==
    LET C == Used(patch) IN
    /\ \A k \in 1 .. Done :
           OldPos(C, k) >= 0 /\ (C[k].len > 0 => OldPos(C, k) + C[k].len <= Len(old))
    /\ \A k \in 1 .. Done : C[k].len > 0 /\ (k = Done => rest = 0) =>
           UsedBefore(patch, k) + C[k].len
               <= Len(Expanded(patch.steps[StepOf(patch, k)].rle))

Data20 == seen = NewBytesBelow(Used(patch), newEnd) /\ seen <= Len(patch.data)

\* What the decoder of run lengths still gives.
Runs20 == step > 0 =>
    /\ rle.buf = patch.steps[step].rle /\ Spent \in Nat
    /\ Without(Expanded(rle.buf), Spent, Unread(rle))

Content20 ==
    /\ \A j \in 1 .. Len(out) : out[j] = Byte20(patch, old, j - 1)
    /\ \A j \in 1 .. Len(io) : io[j] = Byte20(patch, old, Len(out) + j - 1)

Work20 == Typed20 /\ Course20 /\ Passed20 /\ Data20 /\ Runs20 /\ Content20

\* What is so of all parts of the work.
LEMMA WorkIs20 ==
  ASSUME patch \in Patch20, Work20
  PROVE  /\ Used(patch) \in Seq(CoverRecord) /\ Len(Used(patch)) \in Nat
         /\ patch.count \in Nat /\ patch.size \in Nat /\ Len(patch.steps) \in Nat
         /\ Done \in 0 .. Len(Used(patch)) /\ count \in Nat /\ Done = patch.count - count
         /\ Len(out) \in Nat /\ Len(io) \in Nat /\ Made \in Nat /\ Made = Len(out) + Len(io)
         /\ NewEnd(Used(patch), Done) \in Nat /\ OldEnd(Used(patch), Done) \in Int
         /\ step > 0 =>
               /\ step \in 1 .. Len(patch.steps) /\ step - 1 \in 0 .. Len(patch.steps)
               /\ First \in 0 .. Done /\ First \in 0 .. Len(Used(patch))
               /\ Done <= CoversUpTo(patch, step) /\ CoversUpTo(patch, step) \in Nat
               /\ CoversUpTo(patch, step) = First + Len(patch.steps[step].covers)
               /\ Taken(patch, First) \in Nat /\ Taken(patch, Done) \in Nat
<1> DEFINE C == Used(patch)
           K == Done
<1>1. /\ C \in Seq(CoverRecord) /\ Len(C) \in Nat /\ patch.count \in Nat /\ patch.size \in Nat
      /\ Len(patch.steps) \in Nat
  BY UsedIs, PatchIs20
<1>2. K \in 0 .. Len(C) /\ count \in Nat /\ K = patch.count - count
  <2>1. count \in 0 .. patch.count /\ K = patch.count - count /\ K <= Len(C)
    BY DEF Work20, Typed20, Course20, Done
  <2> HIDE DEF C, K
  <2> QED
    BY <1>1, <2>1
<1>3. Len(out) \in Nat /\ Len(io) \in Nat /\ Made \in Nat /\ Made = Len(out) + Len(io)
  BY DEF Work20, Typed20, Made
<1>4. NewEnd(C, K) \in Nat /\ OldEnd(C, K) \in Int
  <2> HIDE DEF C, K
  <2> QED
    BY <1>1, <1>2, NewEnds, OldEnds
<1>5. ASSUME step > 0
      PROVE  /\ step \in 1 .. Len(patch.steps) /\ step - 1 \in 0 .. Len(patch.steps)
             /\ First \in 0 .. K /\ First \in 0 .. Len(C)
             /\ K <= CoversUpTo(patch, step) /\ CoversUpTo(patch, step) \in Nat
             /\ CoversUpTo(patch, step) = First + Len(patch.steps[step].covers)
             /\ Taken(patch, First) \in Nat /\ Taken(patch, K) \in Nat
  <2>1. step \in 0 .. Len(patch.steps) /\ Len(todo) \in Nat
    BY DEF Work20, Typed20
  <2>2. step \in 1 .. Len(patch.steps) /\ step - 1 \in 0 .. Len(patch.steps)
    BY <1>1, <1>5, <2>1
  <2>3. First <= K /\ Len(todo) = CoversUpTo(patch, step) - K
    BY <1>5 DEF Work20, Course20
  <2>4. First \in Nat /\ CoversUpTo(patch, step) \in Nat
        /\ CoversUpTo(patch, step) = First + Len(patch.steps[step].covers)
    BY <2>1, <2>2, CoverCounts DEF First
  <2> HIDE DEF C, K
  <2>5. First \in 0 .. K /\ First \in 0 .. Len(C) /\ K <= CoversUpTo(patch, step)
    <3>1. K \in Nat /\ K <= Len(C)
      BY <1>1, <1>2
    <3>2. First \in 0 .. K /\ First \in 0 .. Len(C)
      BY <1>1, <2>3, <2>4, <3>1
    <3>3. K <= CoversUpTo(patch, step)
      BY <2>1, <2>3, <2>4, <3>1
    <3> QED
      BY <3>2, <3>3
  <2> QED
    BY <1>2, <2>2, <2>4, <2>5, TakenIs DEF C, K
<1> QED
  BY <1>1, <1>2, <1>3, <1>4, <1>5

\* The old file and the run lengths are read where the cover in work needs them.
LEMMA InWork ==
  ASSUME patch \in Patch20, Work20, rest > 0
  PROVE  /\ Done \in 1 .. Len(Used(patch)) /\ step > 0 /\ StepOf(patch, Done) = step
         /\ newEnd = NewEnd(Used(patch), Done) /\ Len(out) = newEnd - rest
         /\ NewPos(Used(patch), Done) <= Made /\ place \in Nat
         /\ NewPos(Used(patch), Done) \in Nat /\ OldPos(Used(patch), Done) \in Nat
         /\ Used(patch)[Done].len \in Nat /\ rest <= Used(patch)[Done].len
         /\ NewPos(Used(patch), Done) + Used(patch)[Done].len = NewEnd(Used(patch), Done)
         /\ place = OldPos(Used(patch), Done) + Made - NewPos(Used(patch), Done)
         /\ place + rest <= Len(old) + Len(io)
         /\ UsedBefore(patch, Done) + Made - NewPos(Used(patch), Done) = Spent
         /\ UsedBefore(patch, Done) + Used(patch)[Done].len = Spent + rest - Len(io)
         /\ UsedBefore(patch, Done) \in Int
<1> DEFINE C == Used(patch)
           K == Done
           len == C[K].len
<1>1. /\ C \in Seq(CoverRecord) /\ Len(C) \in Nat /\ K \in 0 .. Len(C)
      /\ Len(out) \in Nat /\ Len(io) \in Nat /\ Made \in Nat /\ Made = Len(out) + Len(io)
  BY WorkIs20
<1>2. /\ step > 0 /\ First < K /\ rest <= len /\ rest \in Nat
      /\ place = OldPos(C, K) + Made - NewPos(C, K)
      /\ newEnd = NewEnd(C, K) /\ Len(out) = newEnd - rest
  BY DEF Work20, Course20, Typed20
<1>3. /\ step \in 1 .. Len(patch.steps) /\ First \in 0 .. K /\ First \in 0 .. Len(C)
      /\ K <= CoversUpTo(patch, step)
      /\ Taken(patch, First) \in Nat /\ Taken(patch, K) \in Nat
  BY <1>2, WorkIs20
<1> HIDE DEF K
<1>4. K \in 1 .. Len(C) /\ K \in Int
  <2> HIDE DEF C
  <2> QED
    BY <1>1, <1>2, <1>3
<1>5. StepOf(patch, K) = step
  <2>1. CoversUpTo(patch, step - 1) < K
    BY <1>2 DEF First
  <2> QED
    BY <1>3, <1>4, <2>1, StepOfIs
<1>6. /\ NewPos(C, K) \in Nat /\ NewPos(C, K) + len = NewEnd(C, K) /\ NewEnd(C, K) \in Nat
      /\ len \in Nat /\ OldPos(C, K) \in Int
  BY <1>1, <1>4, NewPlaces, OldPlaces, CoverIs
<1>7. OldPos(C, K) >= 0 /\ (len > 0 => OldPos(C, K) + len <= Len(old))
  <2>1. K \in 1 .. Done
    BY <1>4 DEF K
  <2> QED
    BY <2>1 DEF Work20, Passed20
<1>8. UsedBefore(patch, K) = Taken(patch, K - 1) - Taken(patch, First)
  BY <1>5 DEF UsedBefore, First
<1>9. Taken(patch, K) = Taken(patch, K - 1) + len /\ Taken(patch, K - 1) \in Nat
  <2>1. K - 1 \in 0 .. Len(C)
    BY <1>1, <1>4
  <2> QED
    BY <1>4, <2>1, TakenIs
<1>10. Spent = Taken(patch, K) - Taken(patch, First) - rest + Len(io)
  BY DEF Spent, K
<1> DEFINE n == NewPos(C, K)  o == OldPos(C, K)  e == NewEnd(C, K)  t == Taken(patch, K - 1)
           u == UsedBefore(patch, K)  x == Len(out)  y == Len(io)  f == Taken(patch, First)
           tk == Taken(patch, K)
<1> SUFFICES /\ n <= Made /\ place \in Nat /\ o \in Nat /\ place + rest <= Len(old) + y
             /\ u + Made - n = Spent /\ u + len = Spent + rest - y /\ u \in Int
  BY <1>2, <1>4, <1>5, <1>6 DEF K
<1>11. /\ n \in Nat /\ o \in Int /\ e \in Nat /\ t \in Nat /\ f \in Nat /\ x \in Nat /\ y \in Nat /\ len \in Nat
       /\ n + len = e /\ x = e - rest /\ Made = x + y /\ rest <= len /\ rest \in Nat /\ rest > 0
       /\ place = o + Made - n /\ o >= 0 /\ (len > 0 => o + len <= Len(old))
       /\ u = t - f /\ tk = t + len /\ Spent = tk - f - rest + y /\ tk \in Nat
  BY <1>1, <1>2, <1>3, <1>6, <1>7, <1>8, <1>9, <1>10
<1>12. Made - n = (len - rest) + y /\ Made \in Nat
  <2> HIDE DEF n, o, e, t, u, x, y, f, len, tk
  <2> QED
    BY <1>11
<1>13. place = o + ((len - rest) + y)
  <2> HIDE DEF n, o, e, t, u, x, y, f, len, tk
  <2> QED
    BY <1>11, <1>12
<1>14. n <= Made /\ place \in Nat /\ o \in Nat
  <2> HIDE DEF n, o, e, t, u, x, y, f, len, tk
  <2> QED
    BY <1>11, <1>12, <1>13
<1>15. place + rest <= Len(old) + y
  <2> HIDE DEF n, o, e, t, u, x, y, f, len, tk
  <2>1. place + rest = (o + len) + y /\ o + len <= Len(old)
    BY <1>11, <1>13
  <2> QED
    BY <1>11, <2>1
<1>16. u + Made - n = Spent /\ u + len = Spent + rest - y /\ u \in Int
  <2> HIDE DEF n, o, e, t, u, x, y, f, len, tk
  <2>1. u + ((len - rest) + y) = ((t + len) - f) - rest + y
    BY <1>11
  <2>2. u + Made - n = u + (Made - n) /\ u \in Int
    BY <1>11, <1>12
  <2> QED
    BY <1>11, <1>12, <2>1, <2>2
<1> QED
  BY <1>14, <1>15, <1>16

LEMMA ByteInWork ==
  ASSUME patch \in Patch20, Work20, rest > 0, NEW j \in 1 .. rest - Len(io)
  PROVE  Byte20(patch, old, Made + j - 1) = Plus(old[place + j], Expanded(rle.buf)[Spent + j])
<1> DEFINE C == Used(patch)
           K == Done
           i == Made + j - 1
           n == NewPos(C, K)
           u == UsedBefore(patch, K)
           o == OldPos(C, K)
<1>1. /\ C \in Seq(CoverRecord) /\ Len(out) \in Nat /\ Len(io) \in Nat /\ Made \in Nat
      /\ Made = Len(out) + Len(io) /\ NewEnd(C, K) \in Nat /\ rest \in Nat
  BY WorkIs20 DEF Work20, Typed20
<1>2. /\ K \in 1 .. Len(C) /\ step > 0 /\ StepOf(patch, K) = step
      /\ newEnd = NewEnd(C, K) /\ Len(out) = newEnd - rest /\ n <= Made
      /\ place = o + Made - n /\ o \in Nat /\ n \in Nat /\ place \in Nat
      /\ u + Made - n = Spent /\ u \in Int
  BY InWork
<1>3. /\ i \in Int /\ n <= i /\ i < NewEnd(C, K)
      /\ o + i - n + 1 = place + j /\ u + i - n + 1 = Spent + j
  <2> DEFINE m == Made  x == Len(out)  y == Len(io)  e == NewEnd(C, K)  s == Spent
  <2>1. j \in Nat /\ j > 0 /\ j <= rest - y /\ i = m + (j - 1)
    BY <1>1
  <2>2. /\ m \in Nat /\ x \in Nat /\ y \in Nat /\ e \in Nat /\ rest \in Nat /\ n \in Nat
        /\ o \in Nat /\ u \in Int
    BY <1>1, <1>2
  <2>3. m = x + y /\ x = e - rest /\ n <= m /\ place = o + (m - n) /\ s = u + (m - n)
    BY <1>1, <1>2
  <2> SUFFICES /\ i \in Int /\ n <= i /\ i < e
               /\ o + (i - n) + 1 = place + j /\ u + (i - n) + 1 = s + j
    OBVIOUS
  <2> HIDE DEF i, n, u, o, m, x, y, e, s
  <2> QED
    BY <2>1, <2>2, <2>3
<1> HIDE DEF i
<1>4. Covering(C, i) = {K} /\ IsCovered(C, i)
  <2> HIDE DEF C, K
  <2>1. NewPos(C, K) <= i
    BY <1>3
  <2> QED
    BY <1>1, <1>2, <1>3, <2>1, CoveredOnce DEF IsCovered
<1>5. (CHOOSE k \in {K} : TRUE) = K
  OBVIOUS
<1>6. OldByte(C, old, i) = old[place + j]
  <2>1. OldByte(C, old, i) = old[o + i - n + 1]
    BY <1>4, <1>5 DEF OldByte
  <2> QED
    BY <1>3, <2>1
<1>7. patch.steps[step].rle = rle.buf
  BY <1>2 DEF Work20, Runs20
<1>8. Byte20(patch, old, i) =
         Plus(OldByte(C, old, i), Expanded(patch.steps[StepOf(patch, K)].rle)[u + i - n + 1])
  BY <1>4, <1>5 DEF Byte20
<1>9. Byte20(patch, old, i) = Plus(old[place + j], Expanded(rle.buf)[Spent + j])
  BY <1>2, <1>3, <1>6, <1>7, <1>8
<1> QED
  BY <1>9 DEF i

\* Only the decoder of run lengths moves, and what it gives stays.
LEMMA NumberReadKeeps ==
  ASSUME patch \in Patch20, Work20, rle' \in Decoders, rle'.buf = rle.buf,
         Unread(rle') = Unread(rle),
         UNCHANGED <<patch, old, out, step, todo, count, oldEnd, newEnd, place, rest, io, take, seen>>
  PROVE  Work20'
<1>1. Done' = Done /\ Made' = Made /\ First' = First /\ Spent' = Spent
  BY DEF Done, Made, First, Spent
<1>2. Typed20' /\ Course20' /\ Passed20'
  BY <1>1 DEF Work20, Typed20, Course20, Passed20
<1>3. Data20' /\ Runs20' /\ Content20'
  BY <1>1 DEF Work20, Data20, Runs20, Content20
<1> QED
  BY <1>2, <1>3 DEF Work20

LEMMA ReadZerosKeeps ==
  ASSUME patch \in Patch20, Work20, SF!ReadZeros, result' = "running", UNCHANGED inputs
  PROVE  Work20'
<1> DEFINE n == rle.buf[rle.pos + 1]
           e == [rle EXCEPT !.pos = rle.pos + 1, !.len0 = n, !.need0 = FALSE]
<1>1. rle \in Decoders
  BY DEF Work20, Typed20
<1>2. /\ rle.len0 = 0 /\ rle.lenv = 0 /\ rle.need0 /\ ~(rle.pos >= Len(rle.buf)) /\ rle' = e
      /\ UNCHANGED <<patch, old, out, step, todo, count, oldEnd, newEnd, place, rest, io, take, seen>>
  BY DEF SF!ReadZeros, SF!AtZeros, SF!AtNumber, SF!Exhausted, SF!NextNumber, SF!Fails, SF!Running, inputs
<1>3. rle.pos < Len(rle.buf) /\ rle \in [buf : Seq(Nat), pos : Nat, len0 : Nat, lenv : Nat, need0 : BOOLEAN]
  BY <1>1, <1>2, DecoderIs
<1>4. e \in Decoders /\ Unread(e) = Unread(rle)
  BY <1>1, <1>2, <1>3, NumberRead
<1>5. e.buf = rle.buf
  BY <1>3
<1> HIDE DEF e
<1> QED
  BY <1>2, <1>4, <1>5, NumberReadKeeps

LEMMA ReadLiteralsKeeps ==
  ASSUME patch \in Patch20, Work20, SF!ReadLiterals, result' = "running", UNCHANGED inputs
  PROVE  Work20'
<1> DEFINE n == rle.buf[rle.pos + 1]
           e == [rle EXCEPT !.pos = rle.pos + 1, !.lenv = n, !.need0 = TRUE]
<1>1. rle \in Decoders
  BY DEF Work20, Typed20
<1>2. /\ rle.len0 = 0 /\ rle.lenv = 0 /\ ~rle.need0 /\ ~(rle.pos >= Len(rle.buf)) /\ rle' = e
      /\ UNCHANGED <<patch, old, out, step, todo, count, oldEnd, newEnd, place, rest, io, take, seen>>
  BY DEF SF!ReadLiterals, SF!AtZeros, SF!AtNumber, SF!Exhausted, SF!NextNumber, SF!Fails, SF!Running, inputs
<1>3. rle.pos < Len(rle.buf) /\ rle \in [buf : Seq(Nat), pos : Nat, len0 : Nat, lenv : Nat, need0 : BOOLEAN]
  BY <1>1, <1>2, DecoderIs
<1>4. e \in Decoders /\ Unread(e) = Unread(rle)
  BY <1>1, <1>2, <1>3, NumberRead
<1>5. e.buf = rle.buf
  BY <1>3
<1> HIDE DEF e
<1> QED
  BY <1>2, <1>4, <1>5, NumberReadKeeps

LEMMA LeastLength ==
  ASSUME NEW a \in Nat, NEW b \in Nat
  PROVE  /\ SF!Min({a, b}) \in Nat /\ SF!Min({a, b}) <= a /\ SF!Min({a, b}) <= b
         /\ a > 0 /\ b > 0 => SF!Min({a, b}) > 0
<1>1. Min({a, b}) \in Nat /\ Min({a, b}) <= a /\ Min({a, b}) <= b
      /\ (Min({a, b}) = a \/ Min({a, b}) = b)
  BY LeastOfTwo
<1>2. SF!Min({a, b}) = Min({a, b})
  BY DEF SF!Min, Min
<1> QED
  BY <1>1, <1>2

LEMMA FillBufferKeeps ==
  ASSUME patch \in Patch20, Work20, SF!FillBuffer, UNCHANGED inputs
  PROVE  Work20'
<1>1. /\ rest > 0 /\ take = 0 /\ take' = SF!Min({IoLen, rest})
      /\ UNCHANGED <<patch, old, out, step, todo, count, oldEnd, newEnd, rle, place, rest, io, seen>>
  BY DEF SF!FillBuffer, SF!Running, inputs
<1>2. rest \in Nat /\ Len(io) \in Nat /\ Len(io) <= take
  BY DEF Work20, Typed20, Course20
<1>3. take' \in Nat /\ take' <= rest /\ Len(io) <= take'
  <2>1. take' \in Nat /\ take' <= rest
    BY <1>1, <1>2, LeastLength, BufferAssumption
  <2> QED
    BY <1>1, <1>2, <2>1
<1>4. Done' = Done /\ Made' = Made /\ First' = First /\ Spent' = Spent
  BY <1>1 DEF Done, Made, First, Spent
<1>5. Typed20' /\ Course20' /\ Passed20'
  BY <1>1, <1>3, <1>4 DEF Work20, Typed20, Course20, Passed20
<1>6. Data20' /\ Runs20' /\ Content20'
  BY <1>1, <1>4 DEF Work20, Data20, Runs20, Content20
<1> QED
  BY <1>5, <1>6 DEF Work20

\* What is left of what is left.
LEMMA WithoutMore ==
  ASSUME NEW s \in Seq(Nat), NEW t \in Seq(Nat), NEW u \in Seq(Nat), NEW a \in Nat, NEW b \in Nat,
         Without(s, a, t), Without(t, b, u)
  PROVE  Without(s, a + b, u)
<1>1. Len(s) \in Nat /\ Len(t) \in Nat /\ Len(u) \in Nat /\ Len(s) = a + Len(t) /\ Len(t) = b + Len(u)
  BY DEF Without
<1>2. Len(s) = (a + b) + Len(u)
  BY <1>1
<1>3. ASSUME NEW j \in 1 .. Len(u) PROVE u[j] = s[(a + b) + j]
  <2>1. b + j \in 1 .. Len(t) /\ a + (b + j) = (a + b) + j
    BY <1>1
  <2>2. u[j] = t[b + j] /\ t[b + j] = s[a + (b + j)]
    BY <2>1 DEF Without
  <2> QED
    BY <2>1, <2>2
<1> QED
  BY <1>2, <1>3 DEF Without

\* Bytes of the cover in work go to the buffer.
LEMMA BufferedKeeps ==
  ASSUME patch \in Patch20, Work20, rest > 0, NEW n \in Nat, n <= take - Len(io),
         NEW b \in Seq(Int), Len(b) = n,
         \A j \in 1 .. n : b[j] = Plus(old[place + j], Expanded(rle.buf)[Spent + j]),
         io' = io \o b, place' = place + n,
         rle' \in Decoders, rle'.buf = rle.buf, Without(Unread(rle), n, Unread(rle')),
         UNCHANGED <<patch, old, out, step, todo, count, oldEnd, newEnd, rest, take, seen>>
  PROVE  Work20'
<1>1. /\ io \in Seq(Int) /\ Len(io) \in Nat /\ take \in Nat /\ rest \in Nat /\ Len(out) \in Nat
      /\ take <= rest /\ Len(io) <= take /\ rle \in Decoders
  BY DEF Work20, Typed20, Course20
<1>2. /\ io' \in Seq(Int) /\ Len(io') = Len(io) + n
      /\ \A j \in 1 .. Len(io) + n : io'[j] = IF j <= Len(io) THEN io[j] ELSE b[j - Len(io)]
  BY <1>1, ConcatProperties
<1>3. Done' = Done /\ First' = First
  BY DEF Done, First
<1>4. Made' = Made + n /\ Made \in Nat /\ Made = Len(out) + Len(io)
  BY <1>1, <1>2 DEF Made
<1>5. /\ step > 0 /\ Spent \in Nat /\ Without(Expanded(rle.buf), Spent, Unread(rle))
      /\ rle.buf = patch.steps[step].rle
  BY InWork DEF Work20, Runs20
<1>6. Spent' = Spent + n
  <2> DEFINE t == Taken(patch, Done) - Taken(patch, First)
  <2>1. Spent = t - rest + Len(io) /\ Spent' = t - rest + Len(io')
    BY <1>3 DEF Spent
  <2>2. t \in Int
    BY <1>5, WorkIs20
  <2> HIDE DEF t
  <2> QED
    BY <1>1, <1>2, <2>1, <2>2, SMTT(30)
<1>7. Runs20'
  <2>1. Expanded(rle.buf) \in Seq(Nat)
    <3>1. rle.buf \in Seq(Nat) /\ Len(rle.buf) \in Nat
      BY <1>1, DecoderIs
    <3> QED
      BY <3>1, ExpansionIn DEF Expanded
  <2>2. Unread(rle) \in Seq(Nat) /\ Unread(rle') \in Seq(Nat)
    BY <1>1, UnreadIs
  <2>3. Without(Expanded(rle.buf), Spent + n, Unread(rle'))
    BY <1>5, <2>1, <2>2, WithoutMore
  <2>4. Spent + n \in Nat
    BY <1>5
  <2> QED
    BY <1>5, <1>6, <2>3, <2>4 DEF Runs20
<1>8. Content20'
  <2>1. ASSUME NEW j \in 1 .. Len(io') PROVE io'[j] = Byte20(patch, old, Len(out) + j - 1)
    <3>1. CASE j <= Len(io)
      <4>1. j \in 1 .. Len(io)
        BY <1>1, <1>2, <3>1
      <4> QED
        BY <1>2, <3>1, <4>1 DEF Work20, Content20
    <3>2. CASE ~(j <= Len(io))
      <4>1. /\ j - Len(io) \in 1 .. n /\ j - Len(io) \in 1 .. rest - Len(io)
            /\ Made + (j - Len(io)) - 1 = Len(out) + j - 1
        <5> DEFINE x == Len(out)  y == Len(io)
        <5>1. j \in Nat /\ j <= y + n /\ j > y /\ Made = x + y /\ x \in Nat /\ y \in Nat /\ n <= take - y
          BY <1>1, <1>2, <1>4, <3>2
        <5> HIDE DEF x, y
        <5>2. j - y \in 1 .. n /\ j - y \in 1 .. rest - y /\ Made + (j - y) - 1 = x + j - 1
          BY <1>1, <5>1
        <5> QED
          BY <5>2 DEF x, y
      <4>2. Byte20(patch, old, Made + (j - Len(io)) - 1)
               = Plus(old[place + (j - Len(io))], Expanded(rle.buf)[Spent + (j - Len(io))])
        BY <4>1, ByteInWork
      <4>3. io'[j] = b[j - Len(io)]
        BY <1>2, <3>2
      <4> QED
        BY <4>1, <4>2, <4>3
    <3> QED
      BY <3>1, <3>2
  <2> QED
    BY <2>1 DEF Work20, Content20
<1>9. Typed20'
  BY <1>2 DEF Work20, Typed20
<1>10. Course20'
  <2>1. Len(io') <= take
    BY <1>1, <1>2
  <2>2. place' = OldPos(Used(patch), Done) + Made' - NewPos(Used(patch), Done)
    <3> DEFINE p == OldPos(Used(patch), Done)  q == NewPos(Used(patch), Done)
    <3>1. p \in Nat /\ q \in Nat /\ place = p + Made - q
      BY InWork
    <3> HIDE DEF p, q
    <3>2. place + n = p + (Made + n) - q
      BY <1>4, <3>1
    <3> QED
      BY <1>4, <3>2 DEF p, q
  <2> QED
    BY <1>3, <2>1, <2>2 DEF Work20, Course20
<1>11. Passed20' /\ Data20'
  BY <1>3 DEF Work20, Passed20, Data20
<1> QED
  BY <1>7, <1>8, <1>9, <1>10, <1>11 DEF Work20

\* What the run lengths add to the bytes of the cover in work.
LEMMA AddedInWork ==
  ASSUME patch \in Patch20, Work20, rest > 0, NEW n \in Nat, NEW d \in Decoders,
         Without(Unread(rle), n, Unread(d))
  PROVE  /\ \A j \in 1 .. n : Expanded(rle.buf)[Spent + j] = Unread(rle)[j]
         /\ Spent \in Nat /\ Spent + n <= Len(Expanded(rle.buf))
         /\ Expanded(rle.buf) \in Seq(Nat)
<1>1. /\ step > 0 /\ Spent \in Nat /\ Without(Expanded(rle.buf), Spent, Unread(rle))
      /\ rle \in Decoders
  BY InWork DEF Work20, Runs20, Typed20
<1>2. Unread(rle) \in Seq(Nat) /\ Unread(d) \in Seq(Nat)
  BY <1>1, UnreadIs
<1>3. Len(Unread(rle)) = n + Len(Unread(d)) /\ Len(Unread(d)) \in Nat
  BY <1>2 DEF Without
<1>4. Expanded(rle.buf) \in Seq(Nat)
  <2>1. rle.buf \in Seq(Nat) /\ Len(rle.buf) \in Nat
    BY <1>1, DecoderIs
  <2> QED
    BY <2>1, ExpansionIn DEF Expanded
<1>5. ASSUME NEW j \in 1 .. n PROVE Expanded(rle.buf)[Spent + j] = Unread(rle)[j]
  <2>1. j \in 1 .. Len(Unread(rle))
    BY <1>3
  <2> QED
    BY <1>1, <2>1 DEF Without
<1>6. Spent + n <= Len(Expanded(rle.buf))
  <2>1. Len(Expanded(rle.buf)) = Spent + (n + Len(Unread(d)))
    BY <1>1, <1>3 DEF Without
  <2> QED
    BY <1>1, <1>3, <2>1
<1> QED
  BY <1>1, <1>4, <1>5, <1>6

\* The next bytes of the old file.
LEMMA OldInWork ==
  ASSUME patch \in Patch20, old \in Seq(Bytes), Work20, rest > 0,
         NEW n \in Nat, n <= rest - Len(io)
  PROVE  /\ SF!OldBytes(n) \in Seq(Int) /\ Len(SF!OldBytes(n)) = n
         /\ \A j \in 1 .. n : /\ SF!OldBytes(n)[j] = old[place + j]
                              /\ old[place + j] \in Bytes /\ old[place + j] \in Int
<1>1. Bytes \subseteq Int /\ Len(old) \in Nat
  BY DEF Bytes
<1>2. old \in Seq(Int)
  BY <1>1, SeqMonotonic
<1>3. place \in Nat /\ place + rest <= Len(old) + Len(io) /\ Len(io) \in Nat /\ rest \in Nat
  BY InWork DEF Work20, Typed20
<1>4. place + n <= Len(old)
  <2> DEFINE x == Len(old)  y == Len(io)
  <2>1. x \in Nat /\ y \in Nat /\ place + rest <= x + y /\ n <= rest - y
    BY <1>1, <1>3
  <2> HIDE DEF x, y
  <2>2. place + n <= x
    BY <1>3, <2>1
  <2> QED
    BY <2>2 DEF x
<1>5. /\ SubSeq(old, place + 1, place + n) \in Seq(Int)
      /\ Len(SubSeq(old, place + 1, place + n)) = n
      /\ \A j \in 1 .. n : SubSeq(old, place + 1, place + n)[j] = old[place + j]
  BY <1>2, <1>3, <1>4, PartIs
<1>6. ASSUME NEW j \in 1 .. n PROVE old[place + j] \in Bytes
  <2>1. place + j \in 1 .. Len(old)
    BY <1>1, <1>3, <1>4
  <2> QED
    BY <2>1
<1> QED
  BY <1>1, <1>5, <1>6 DEF SF!OldBytes

LEMMA AddZerosKeeps ==
  ASSUME patch \in Patch20, old \in Seq(Bytes), Work20, SF!AddZeros, UNCHANGED inputs
  PROVE  Work20'
<1> DEFINE n == SF!Min({rle.len0, take - Len(io)})
           d == [rle EXCEPT !.len0 = rle.len0 - n]
           b == SF!OldBytes(n)
<1>1. /\ take > 0 /\ take - Len(io) > 0 /\ rle.len0 > 0
      /\ io' = io \o b /\ place' = place + n /\ rle' = d
      /\ UNCHANGED <<patch, old, out, step, todo, count, oldEnd, newEnd, rest, take, seen>>
  BY DEF SF!AddZeros, SF!Wanted, SF!Running, inputs
<1>2. /\ rle \in Decoders /\ take \in Nat /\ rest \in Nat /\ Len(io) \in Nat /\ take <= rest
      /\ rest > 0
  BY <1>1 DEF Work20, Typed20, Course20
<1>3. rle.len0 \in Nat /\ ~rle.need0
      /\ rle \in [buf : Seq(Nat), pos : Nat, len0 : Nat, lenv : Nat, need0 : BOOLEAN]
  BY <1>1, <1>2, DecoderIs
<1>4. n \in Nat /\ n <= rle.len0 /\ n <= take - Len(io)
  <2>1. take - Len(io) \in Nat
    BY <1>1, <1>2
  <2> QED
    BY <1>3, <2>1, LeastLength
<1> HIDE DEF n
<1>5. d \in Decoders /\ Without(Unread(rle), n, Unread(d)) /\ \A j \in 1 .. n : Unread(rle)[j] = 0
  BY <1>2, <1>3, <1>4, ZerosUsed
<1>6. d.buf = rle.buf
  BY <1>3
<1> HIDE DEF d
<1>7. \A j \in 1 .. n : Expanded(rle.buf)[Spent + j] = 0
  BY <1>2, <1>4, <1>5, AddedInWork
<1>8. /\ b \in Seq(Int) /\ Len(b) = n
      /\ \A j \in 1 .. n : b[j] = old[place + j] /\ old[place + j] \in Bytes /\ old[place + j] \in Int
  <2>1. n <= rest - Len(io)
    BY <1>2, <1>4
  <2> QED
    BY <1>2, <1>4, <2>1, OldInWork
<1> HIDE DEF b
<1>9. ASSUME NEW j \in 1 .. n PROVE b[j] = Plus(old[place + j], Expanded(rle.buf)[Spent + j])
  <2>1. old[place + j] + 0 = old[place + j] /\ old[place + j] % Base = old[place + j]
    BY <1>8, Remainders
  <2> QED
    BY <1>7, <1>8, <2>1 DEF Plus
<1> QED
  BY <1>1, <1>2, <1>4, <1>5, <1>6, <1>8, <1>9, BufferedKeeps

LEMMA AddLiteralsKeeps ==
  ASSUME patch \in Patch20, old \in Seq(Bytes), Work20, SF!AddLiterals, result' = "running",
         UNCHANGED inputs
  PROVE  Work20'
<1> DEFINE n == SF!Min({rle.lenv, take - Len(io)})
           d == [rle EXCEPT !.pos = rle.pos + n, !.lenv = rle.lenv - n]
           b == [i \in 1 .. n |-> SF!Plus(old[place + i], rle.buf[rle.pos + i])]
<1>1. /\ take > 0 /\ take - Len(io) > 0 /\ rle.len0 = 0 /\ rle.lenv > 0
      /\ ~(rle.lenv > Len(rle.buf) - rle.pos)
      /\ io' = io \o b /\ place' = place + n /\ rle' = d
      /\ UNCHANGED <<patch, old, out, step, todo, count, oldEnd, newEnd, rest, take, seen>>
  BY DEF SF!AddLiterals, SF!Literal, SF!Wanted, SF!Fails, SF!Running, inputs
<1>2. /\ rle \in Decoders /\ take \in Nat /\ rest \in Nat /\ Len(io) \in Nat /\ take <= rest
      /\ rest > 0
  BY <1>1 DEF Work20, Typed20, Course20
<1>3. rle.lenv \in Nat /\ rle.need0
      /\ rle \in [buf : Seq(Nat), pos : Nat, len0 : Nat, lenv : Nat, need0 : BOOLEAN]
  BY <1>1, <1>2, DecoderIs
<1>4. n \in Nat /\ n <= rle.lenv /\ n <= take - Len(io)
  <2>1. take - Len(io) \in Nat
    BY <1>1, <1>2
  <2> QED
    BY <1>3, <2>1, LeastLength
<1> HIDE DEF n
<1>5. d \in Decoders /\ Without(Unread(rle), n, Unread(d))
      /\ \A j \in 1 .. n : Unread(rle)[j] = rle.buf[rle.pos + j]
  BY <1>1, <1>2, <1>3, <1>4, LiteralsUsed
<1>6. d.buf = rle.buf
  BY <1>3
<1> HIDE DEF d
<1>7. /\ \A j \in 1 .. n : Expanded(rle.buf)[Spent + j] = rle.buf[rle.pos + j]
      /\ Spent \in Nat /\ Spent + n <= Len(Expanded(rle.buf)) /\ Expanded(rle.buf) \in Seq(Nat)
  BY <1>2, <1>4, <1>5, AddedInWork
<1>8. \A j \in 1 .. n : old[place + j] \in Int
  <2>1. n <= rest - Len(io)
    BY <1>2, <1>4
  <2> QED
    BY <1>2, <1>4, <2>1, OldInWork
<1>9. ASSUME NEW j \in 1 .. n
      PROVE  b[j] = Plus(old[place + j], Expanded(rle.buf)[Spent + j]) /\ b[j] \in Int
  <2>1. b[j] = Plus(old[place + j], Expanded(rle.buf)[Spent + j])
    BY <1>7 DEF Plus, SF!Plus
  <2>2. Expanded(rle.buf)[Spent + j] \in Nat
    <3>1. Spent + j \in 1 .. Len(Expanded(rle.buf))
      BY <1>4, <1>7
    <3> QED
      BY <1>7, <3>1
  <2>3. Plus(old[place + j], Expanded(rle.buf)[Spent + j]) \in Int
    BY <1>8, <2>2, BaseAssumption DEF Plus
  <2> QED
    BY <2>1, <2>3
<1>10. b \in Seq(Int) /\ Len(b) = n
  <2>1. \A j \in 1 .. n : b[j] \in Int
    BY <1>9
  <2>2. b = [j \in 1 .. n |-> b[j]]
    OBVIOUS
  <2> QED
    BY <1>4, <2>1, <2>2
<1> HIDE DEF b
<1> QED
  BY <1>1, <1>2, <1>4, <1>5, <1>6, <1>9, <1>10, BufferedKeeps

\* With the cover in work its last byte done, its run lengths went far enough.
LEMMA PassedGrows ==
  ASSUME patch \in Patch20, Work20, rest > 0, UNCHANGED <<patch, old, count>>,
         Spent + rest - Len(io) <= Len(Expanded(rle.buf))
  PROVE  Passed20'
<1> DEFINE C == Used(patch)
           E(k) == Len(Expanded(patch.steps[StepOf(patch, k)].rle))
<1>1. Done' = Done /\ Used(patch)' = C
  BY DEF Done
<1>2. /\ step > 0 /\ StepOf(patch, Done) = step
      /\ UsedBefore(patch, Done) + C[Done].len = Spent + rest - Len(io)
  BY InWork
<1>3. rle.buf = patch.steps[step].rle
  BY <1>2 DEF Work20, Runs20
<1>4. UsedBefore(patch, Done) + C[Done].len <= E(Done)
  BY <1>2, <1>3
<1>5. /\ \A k \in 1 .. Done : OldPos(C, k) >= 0 /\ (C[k].len > 0 => OldPos(C, k) + C[k].len <= Len(old))
      /\ \A k \in 1 .. Done : C[k].len > 0 /\ k # Done => UsedBefore(patch, k) + C[k].len <= E(k)
  BY DEF Work20, Passed20
<1>6. \A k \in 1 .. Done : C[k].len > 0 => UsedBefore(patch, k) + C[k].len <= E(k)
  <2> HIDE DEF C, E
  <2> QED
    BY <1>4, <1>5
<1> QED
  BY <1>1, <1>5, <1>6 DEF Passed20

LEMMA SkipCoverKeeps ==
  ASSUME patch \in Patch20, old \in Seq(Bytes), Work20, SF!SkipCover, UNCHANGED inputs
  PROVE  Work20'
<1> DEFINE d == [rle EXCEPT !.len0 = rle.len0 - rest]
           b == SF!OldBytes(rest)
<1>1. /\ rest > 0 /\ take = 0 /\ ~SF!AtZeros /\ rle.len0 >= rest
      /\ out' = out \o b /\ rle' = d /\ rest' = 0
      /\ UNCHANGED <<patch, old, step, todo, count, oldEnd, newEnd, place, io, take, seen>>
  BY DEF SF!SkipCover, SF!Running, inputs
<1>2. /\ rle \in Decoders /\ rest \in Nat /\ io \in Seq(Int) /\ Len(io) \in Nat /\ Len(io) <= take
      /\ out \in Seq(Int) /\ Len(out) \in Nat
  BY DEF Work20, Typed20, Course20
<1>3. Len(io) = 0
  BY <1>1, <1>2
<1>4. rle.len0 \in Nat /\ ~rle.need0
      /\ rle \in [buf : Seq(Nat), pos : Nat, len0 : Nat, lenv : Nat, need0 : BOOLEAN]
  BY <1>1, <1>2, DecoderIs
<1>5. d \in Decoders /\ Without(Unread(rle), rest, Unread(d)) /\ \A j \in 1 .. rest : Unread(rle)[j] = 0
  BY <1>1, <1>2, <1>4, ZerosUsed
<1>6. d.buf = rle.buf
  BY <1>4
<1> HIDE DEF d
<1>7. /\ \A j \in 1 .. rest : Expanded(rle.buf)[Spent + j] = 0
      /\ Spent \in Nat /\ Spent + rest <= Len(Expanded(rle.buf)) /\ Expanded(rle.buf) \in Seq(Nat)
  BY <1>1, <1>2, <1>5, AddedInWork
<1>8. /\ b \in Seq(Int) /\ Len(b) = rest
      /\ \A j \in 1 .. rest : b[j] = old[place + j] /\ old[place + j] \in Bytes /\ old[place + j] \in Int
  <2>1. rest <= rest - Len(io)
    BY <1>2, <1>3
  <2> QED
    BY <1>1, <1>2, <2>1, OldInWork
<1> HIDE DEF b
<1>9. /\ step > 0 /\ newEnd = NewEnd(Used(patch), Done) /\ Len(out) = newEnd - rest
      /\ rle.buf = patch.steps[step].rle /\ Without(Expanded(rle.buf), Spent, Unread(rle))
      /\ newEnd \in Nat
  BY <1>1, InWork DEF Work20, Runs20, Typed20
<1>10. ASSUME NEW j \in 1 .. rest PROVE b[j] = Byte20(patch, old, Len(out) + j - 1)
  <2>1. j \in 1 .. rest - Len(io) /\ Made = Len(out)
    BY <1>2, <1>3 DEF Made
  <2>2. Byte20(patch, old, Made + j - 1) = Plus(old[place + j], Expanded(rle.buf)[Spent + j])
    BY <1>1, <2>1, ByteInWork
  <2>3. old[place + j] + 0 = old[place + j] /\ old[place + j] % Base = old[place + j]
    BY <1>8, Remainders
  <2> QED
    BY <1>7, <1>8, <2>1, <2>2, <2>3 DEF Plus
<1>11. /\ out' \in Seq(Int) /\ Len(out') = Len(out) + rest
       /\ \A j \in 1 .. Len(out) + rest :
             out'[j] = IF j <= Len(out) THEN out[j] ELSE b[j - Len(out)]
  BY <1>1, <1>2, <1>8, ConcatProperties
<1>12. Done' = Done /\ First' = First
  BY <1>1 DEF Done, First
<1>13. Spent' = Spent + rest
  <2> DEFINE t == Taken(patch, Done) - Taken(patch, First)
  <2>1. Spent = t - rest + Len(io) /\ Spent' = t - rest' + Len(io)
    BY <1>1, <1>12 DEF Spent
  <2>2. t \in Int
    BY <1>9, WorkIs20
  <2> HIDE DEF t
  <2> QED
    BY <1>1, <1>2, <2>1, <2>2
<1>14. Content20'
  <2>1. ASSUME NEW j \in 1 .. Len(out') PROVE out'[j] = Byte20(patch, old, j - 1)
    <3>1. CASE j <= Len(out)
      <4>1. j \in 1 .. Len(out)
        BY <1>2, <1>11, <3>1
      <4> QED
        BY <1>11, <3>1, <4>1 DEF Work20, Content20
    <3>2. CASE ~(j <= Len(out))
      <4>1. j - Len(out) \in 1 .. rest /\ Len(out) + (j - Len(out)) - 1 = j - 1
        BY <1>2, <1>11, <3>2
      <4>2. out'[j] = b[j - Len(out)]
        BY <1>11, <3>2
      <4> QED
        BY <1>10, <4>1, <4>2
    <3> QED
      BY <3>1, <3>2
  <2>2. Len(io') = 0
    BY <1>1, <1>3
  <2> QED
    BY <1>1, <2>1, <2>2 DEF Content20
<1>15. Typed20'
  BY <1>1, <1>5, <1>11 DEF Work20, Typed20
<1>16. Course20'
  <2>1. Len(out') = newEnd' - rest' /\ take' <= rest' /\ Len(io') <= take'
    BY <1>1, <1>2, <1>3, <1>9, <1>11
  <2> QED
    BY <1>1, <1>9, <1>12, <2>1 DEF Work20, Course20
<1>17. Passed20'
  <2>1. Spent + rest - Len(io) <= Len(Expanded(rle.buf))
    BY <1>2, <1>3, <1>7
  <2> QED
    BY <1>1, <2>1, PassedGrows
<1>18. Data20'
  BY <1>1 DEF Work20, Data20
<1>19. Runs20'
  <2>1. Unread(rle) \in Seq(Nat) /\ Unread(d) \in Seq(Nat)
    BY <1>2, <1>5, UnreadIs
  <2>2. Without(Expanded(rle.buf), Spent + rest, Unread(d)) /\ Spent + rest \in Nat
    BY <1>2, <1>5, <1>7, <1>9, <2>1, WithoutMore
  <2> QED
    BY <1>1, <1>6, <1>9, <1>13, <2>2 DEF Runs20
<1> QED
  BY <1>14, <1>15, <1>16, <1>17, <1>18, <1>19 DEF Work20

\* The part of the cover in the buffer goes out.
LEMMA EmptyBufferKeeps ==
  ASSUME patch \in Patch20, Work20, SF!EmptyBuffer, UNCHANGED inputs
  PROVE  Work20'
<1>1. /\ take > 0 /\ take - Len(io) = 0
      /\ out' = out \o io /\ io' = <<>> /\ rest' = rest - take
      /\ take' = SF!Min({IoLen, rest - take})
      /\ UNCHANGED <<patch, old, step, todo, count, oldEnd, newEnd, rle, place, seen>>
  BY DEF SF!EmptyBuffer, SF!Running, SF!Wanted, inputs
<1>2. /\ rle \in Decoders /\ rest \in Nat /\ io \in Seq(Int) /\ Len(io) \in Nat /\ take \in Nat
      /\ out \in Seq(Int) /\ Len(out) \in Nat /\ take <= rest
  BY DEF Work20, Typed20, Course20
<1>3. Len(io) = take /\ rest > 0
  BY <1>1, <1>2
<1>4. /\ out' \in Seq(Int) /\ Len(out') = Len(out) + Len(io)
      /\ \A j \in 1 .. Len(out) + Len(io) :
            out'[j] = IF j <= Len(out) THEN out[j] ELSE io[j - Len(out)]
  BY <1>1, <1>2, ConcatProperties
<1>5. Len(io') = 0 /\ io' \in Seq(Int) /\ rest' \in Nat /\ take' \in Nat /\ take' <= rest'
  <2>1. rest - take \in Nat
    BY <1>2
  <2>2. take' \in Nat /\ take' <= rest - take
    BY <1>1, <2>1, LeastLength, BufferAssumption
  <2> QED
    BY <1>1, <2>1, <2>2
<1>6. Done' = Done /\ First' = First
  BY <1>1 DEF Done, First
<1>7. Made' = Made
  BY <1>2, <1>4, <1>5 DEF Made
<1>8. /\ step > 0 /\ Len(out) = newEnd - rest /\ newEnd = NewEnd(Used(patch), Done) /\ newEnd \in Nat
      /\ Spent \in Nat /\ Without(Expanded(rle.buf), Spent, Unread(rle))
      /\ rest <= Used(patch)[Done].len /\ Used(patch)[Done].len \in Nat
  BY <1>3, InWork DEF Work20, Runs20, Typed20
<1>9. Spent' = Spent
  <2> DEFINE t == Taken(patch, Done) - Taken(patch, First)
  <2>1. Spent = t - rest + Len(io) /\ Spent' = t - rest' + Len(io')
    BY <1>6, <1>1 DEF Spent
  <2>2. t \in Int
    BY <1>8, WorkIs20
  <2> HIDE DEF t
  <2> QED
    BY <1>1, <1>2, <1>3, <1>5, <2>1, <2>2
<1>10. Typed20'
  BY <1>1, <1>4, <1>5 DEF Work20, Typed20
<1>11. Course20'
  <2>1. Len(out') = newEnd - rest'
    BY <1>1, <1>2, <1>3, <1>4, <1>8
  <2>2. rest' <= Used(patch)[Done].len
    BY <1>1, <1>2, <1>5, <1>8
  <2>3. Len(io') <= take'
    BY <1>5
  <2> QED
    BY <1>1, <1>3, <1>5, <1>6, <1>7, <1>8, <2>1, <2>2, <2>3 DEF Work20, Course20
<1>12. Passed20'
  <2>1. CASE rest' = 0
    <3>1. Spent <= Len(Expanded(rle.buf))
      <4>1. Len(Unread(rle)) \in Nat
        BY <1>2, UnreadIs
      <4> QED
        BY <1>8, <4>1 DEF Without
    <3>2. Spent + rest - Len(io) <= Len(Expanded(rle.buf))
      BY <1>1, <1>2, <1>3, <1>8, <2>1, <3>1
    <3> QED
      BY <1>1, <1>3, <3>2, PassedGrows
  <2>2. CASE rest' # 0
    BY <1>1, <1>3, <1>6, <2>2 DEF Work20, Passed20
  <2> QED
    BY <2>1, <2>2
<1>13. Data20' /\ Runs20'
  BY <1>1, <1>9 DEF Work20, Data20, Runs20
<1>14. Content20'
  <2>1. ASSUME NEW j \in 1 .. Len(out') PROVE out'[j] = Byte20(patch, old, j - 1)
    <3>1. CASE j <= Len(out)
      <4>1. j \in 1 .. Len(out)
        BY <1>2, <1>4, <3>1
      <4> QED
        BY <1>4, <3>1, <4>1 DEF Work20, Content20
    <3>2. CASE ~(j <= Len(out))
      <4>1. j - Len(out) \in 1 .. Len(io) /\ Len(out) + (j - Len(out)) - 1 = j - 1
        BY <1>2, <1>4, <3>2
      <4>2. out'[j] = io[j - Len(out)]
        BY <1>4, <3>2
      <4> QED
        BY <4>1, <4>2 DEF Work20, Content20
    <3> QED
      BY <3>1, <3>2
  <2> QED
    BY <1>1, <1>5, <2>1 DEF Content20
<1> QED
  BY <1>10, <1>11, <1>12, <1>13, <1>14 DEF Work20

\* The covers of the steps that were read are done.
LEMMA StepDone ==
  ASSUME patch \in Patch20, Work20, todo = <<>>
  PROVE  step \in 0 .. Len(patch.steps) /\ CoversUpTo(patch, step) = Done
<1>1. step \in 0 .. Len(patch.steps) /\ Done \in Nat
  BY WorkIs20 DEF Work20, Typed20
<1>2. CASE step > 0
  <2>1. Len(todo) = 0 /\ Len(todo) = CoversUpTo(patch, step) - Done
    BY <1>2 DEF Work20, Course20
  <2>2. CoversUpTo(patch, step) \in Nat
    BY <1>1, CoverCounts
  <2> QED
    BY <1>1, <2>1, <2>2
<1>3. CASE ~(step > 0)
  <2>1. step = 0
    BY <1>1, <1>3
  <2> QED
    BY <1>1, <2>1, CoverCounts DEF Work20, Course20
<1> QED
  BY <1>1, <1>2, <1>3

LEMMA ReadStepKeeps ==
  ASSUME patch \in Patch20, Work20, SF!ReadStep, result' = "running", UNCHANGED inputs
  PROVE  Work20'
<1> DEFINE s == step + 1
           b == patch.steps[s].rle
           v == patch.steps[s].covers
<1>1. /\ rest = 0 /\ todo = <<>> /\ step < Len(patch.steps)
      /\ step' = s /\ todo' = v /\ rle' = SF!Decoder(b)
      /\ UNCHANGED <<patch, old, out, count, oldEnd, newEnd, place, rest, io, take, seen>>
  BY DEF SF!ReadStep, SF!AtStep, SF!Between, SF!Running, SF!Fails, inputs
<1>2. /\ step \in 0 .. Len(patch.steps) /\ Len(patch.steps) \in Nat
      /\ CoversUpTo(patch, step) = Done /\ take = 0 /\ Len(io) = 0
      /\ Done \in 0 .. Len(Used(patch)) /\ Done \in Nat
  <2>1. step \in 0 .. Len(patch.steps) /\ CoversUpTo(patch, step) = Done
    BY <1>1, StepDone
  <2>2. Len(patch.steps) \in Nat /\ Done \in 0 .. Len(Used(patch)) /\ Done \in Nat
    BY WorkIs20
  <2>3. take \in Nat /\ take <= rest /\ Len(io) \in Nat /\ Len(io) <= take
    BY DEF Work20, Typed20, Course20
  <2> QED
    BY <1>1, <2>1, <2>2, <2>3
<1>3. s \in 1 .. Len(patch.steps) /\ s - 1 = step /\ s > 0 /\ s \in 0 .. Len(patch.steps)
  BY <1>1, <1>2
<1>4. /\ v \in Seq(CoverRecord) /\ Len(v) \in Nat /\ b \in Seq(Nat)
      /\ CoversUpTo(patch, s) = Done + Len(v)
  <2>1. v \in Seq(CoverRecord) /\ Len(v) \in Nat /\ b \in Seq(Nat)
    BY <1>3, PatchIs20
  <2>2. CoversUpTo(patch, s) = CoversUpTo(patch, s - 1) + Len(v)
    BY <1>3, CoverCounts
  <2> QED
    BY <1>2, <1>3, <2>1, <2>2
<1> DEFINE d == SF!Decoder(b)
<1>5. d \in Decoders /\ d.buf = b /\ Unread(d) = Expanded(b)
  BY <1>4, NewDecoder
<1> HIDE DEF d
<1>6. Done' = Done /\ First' = Done
  BY <1>1, <1>2, <1>3 DEF Done, First
<1>7. Spent' = 0
  <2>1. Spent' = Taken(patch, Done) - Taken(patch, Done) - 0 + 0
    BY <1>1, <1>2, <1>6 DEF Spent
  <2>2. Taken(patch, Done) \in Nat
    BY <1>2, TakenIs
  <2> QED
    BY <2>1, <2>2
<1>8. Typed20'
  BY <1>1, <1>3, <1>4, <1>5 DEF Work20, Typed20, d
<1>9. Course20'
  <2>1. /\ Len(todo') = CoversUpTo(patch, step') - Done'
        /\ First' <= Done'
    BY <1>1, <1>2, <1>4, <1>6
  <2>2. ASSUME NEW j \in 1 .. Len(todo') PROVE todo'[j] = patch.steps[step'].covers[Done' - First' + j]
    <3>1. Done - Done + j = j
      BY <1>2, <1>4
    <3> QED
      BY <1>1, <1>6, <3>1
  <2>3. step' # 0 /\ ~(rest' > 0)
    BY <1>1, <1>3
  <2> HIDE DEF s, v
  <2> QED
    BY <1>1, <1>6, <2>1, <2>2, <2>3 DEF Work20, Course20
<1>10. Passed20' /\ Data20'
  BY <1>1, <1>6 DEF Work20, Passed20, Data20
<1>11. Content20'
  BY <1>1 DEF Work20, Content20
<1>12. Runs20'
  <2>1. rle'.buf = patch.steps[step'].rle /\ Unread(rle') = Expanded(rle'.buf)
    BY <1>1, <1>5 DEF d
  <2>2. Expanded(b) \in Seq(Nat)
    BY <1>5, UnreadIs
  <2> DEFINE e == Expanded(b)
  <2>3. Without(e, 0, e)
    <3> HIDE DEF e
    <3>1. Len(e) \in Nat
      BY <2>2 DEF e
    <3> QED
      BY <3>1 DEF Without
  <2>4. Expanded(rle'.buf) = e
    BY <1>1, <1>5 DEF d
  <2>5. Unread(rle') = e /\ Without(Expanded(rle'.buf), Spent', Unread(rle')) /\ Spent' \in Nat
    <3>1. Unread(rle') = e
      BY <2>1, <2>4
    <3> HIDE DEF e
    <3> QED
      BY <1>7, <2>3, <2>4, <3>1
  <2> QED
    BY <1>1, <2>1, <2>5 DEF Runs20
<1> QED
  BY <1>8, <1>9, <1>10, <1>11, <1>12 DEF Work20

\* The cover that comes next lies in a later step, if there is one.
LEMMA StepsAhead ==
  ASSUME patch \in Patch20, Work20, todo = <<>>, count > 0, Len(Used(patch)) = patch.count
  PROVE  /\ step \in 0 .. Len(patch.steps) /\ Done + 1 \in 1 .. patch.count
         /\ StepOf(patch, Done + 1) \in 1 .. Len(patch.steps) /\ step < StepOf(patch, Done + 1)
<1> DEFINE k == Done + 1
           L == Len(patch.steps)
<1>1. /\ step \in 0 .. L /\ CoversUpTo(patch, step) = Done /\ L \in Nat
      /\ Done = patch.count - count /\ Done \in Nat /\ count \in Nat /\ patch.count \in Nat
  BY StepDone, WorkIs20
<1>2. Len(Used(patch)) <= CoversUpTo(patch, L) /\ CoversUpTo(patch, L) \in Nat
  BY <1>1, UsedIs, CoverCounts
<1>3. k \in 1 .. patch.count /\ k \in 1 .. CoversUpTo(patch, L)
  <2> HIDE DEF Done, L
  <2> QED
    BY <1>1, <1>2
<1>4. StepOf(patch, k) \in 1 .. L /\ k <= CoversUpTo(patch, StepOf(patch, k))
  BY <1>3, StepOfThere
<1>5. ASSUME ~(step < StepOf(patch, k)) PROVE FALSE
  <2>1. StepOf(patch, k) \in 0 .. L /\ StepOf(patch, k) <= step
    BY <1>1, <1>4, <1>5
  <2>2. CoversUpTo(patch, StepOf(patch, k)) <= CoversUpTo(patch, step)
    BY <1>1, <2>1, CoverCounts
  <2>3. CoversUpTo(patch, StepOf(patch, k)) \in Nat
    BY <2>1, CoverCounts
  <2> HIDE DEF Done
  <2> QED
    BY <1>1, <1>4, <2>2, <2>3
<1> QED
  BY <1>1, <1>3, <1>4, <1>5

\* A step is asked for, and there is none, or it is too long.
LEMMA NoStepIsRight ==
  ASSUME version = 20, patch \in Patch20, Work20, SF!ReadStep, result' = "error"
  PROVE  ~(Describes /\ WithinLimits)
<1>1. /\ rest = 0 /\ todo = <<>> /\ count > 0
      /\ ~(step < Len(patch.steps) /\ patch.steps[step + 1].bytes <= MaxStep)
  <2>1. SF!Running => result = "running"
    BY DEF SF!Running
  <2>2. "running" # "error"
    OBVIOUS
  <2> QED
    BY <2>1, <2>2 DEF SF!ReadStep, SF!AtStep, SF!Between
<1> SUFFICES ASSUME Describes, WithinLimits PROVE FALSE
  OBVIOUS
<1>2. Len(Used(patch)) = patch.count
  BY DEF Describes, Describes20
<1> DEFINE k == Done + 1
<1>3. /\ step \in 0 .. Len(patch.steps) /\ k \in 1 .. patch.count
      /\ StepOf(patch, k) \in 1 .. Len(patch.steps) /\ step < StepOf(patch, k)
      /\ Len(patch.steps) \in Nat
  BY <1>1, <1>2, StepsAhead, PatchIs20
<1> HIDE DEF k
<1>4. step < Len(patch.steps) /\ step + 1 \in 1 .. StepOf(patch, k)
  BY <1>3
<1>5. patch.steps[step + 1].bytes <= MaxStep
  BY <1>3, <1>4 DEF WithinLimits
<1> QED
  BY <1>1, <1>4, <1>5

\* All steps up to those of the covers decoded are read.
LEMMA StepsRead ==
  ASSUME patch \in Patch20, Work20, NEW k \in 1 .. Done
  PROVE  StepOf(patch, k) \in 1 .. step
<1> DEFINE L == Len(patch.steps)
<1>1. /\ Done \in Nat /\ Done <= Len(Used(patch)) /\ L \in Nat /\ step \in 0 .. L
      /\ Len(Used(patch)) \in Nat
  BY WorkIs20 DEF Work20, Typed20
<1>2. step > 0
  BY <1>1 DEF Work20, Course20
<1>3. /\ step \in 1 .. L /\ Done <= CoversUpTo(patch, step) /\ CoversUpTo(patch, step) \in Nat
  BY <1>2, WorkIs20
<1>4. Len(Used(patch)) <= CoversUpTo(patch, L) /\ CoversUpTo(patch, L) \in Nat
  BY <1>1, UsedIs, CoverCounts
<1>5. k \in 1 .. CoversUpTo(patch, L) /\ k <= Done
  <2> HIDE DEF L, Done
  <2> QED
    BY <1>1, <1>4
<1> DEFINE s == StepOf(patch, k)
<1>6. s \in 1 .. L /\ CoversUpTo(patch, s - 1) < k
  BY <1>5, StepOfThere
<1> HIDE DEF s
<1>7. s - 1 \in 0 .. L
  BY <1>1, <1>6
<1>8. ASSUME s > step PROVE FALSE
  <2>1. step <= s - 1
    BY <1>3, <1>6, <1>8
  <2>2. CoversUpTo(patch, step) <= CoversUpTo(patch, s - 1) /\ CoversUpTo(patch, s - 1) \in Nat
    BY <1>1, <1>7, <2>1, CoverCounts
  <2> HIDE DEF Done
  <2> QED
    BY <1>1, <1>3, <1>5, <1>6, <2>2
<1>9. s \in 1 .. step
  BY <1>3, <1>6, <1>8
<1> QED
  BY <1>9 DEF s

\* The cover that is decoded next lies where the patch says.
LEMMA NextInWork ==
  ASSUME patch \in Patch20, Work20, todo # <<>>, count > 0, rest = 0
  PROVE  /\ step > 0 /\ Done + 1 \in 1 .. Len(Used(patch)) /\ Done \in Nat
         /\ StepOf(patch, Done + 1) = step /\ Used(patch)[Done + 1] = Head(todo)
         /\ Head(todo).gap \in Nat /\ Head(todo).len \in Nat /\ Head(todo).inc \in Int
         /\ newEnd = NewEnd(Used(patch), Done) /\ newEnd \in Nat
         /\ Len(out) = newEnd /\ take = 0 /\ Len(io) = 0
         /\ NewPos(Used(patch), Done + 1) = newEnd + Head(todo).gap
         /\ NewEnd(Used(patch), Done + 1) = newEnd + Head(todo).gap + Head(todo).len
         /\ oldEnd = OldEnd(Used(patch), Done)
         /\ OldPos(Used(patch), Done + 1) = oldEnd + Head(todo).inc
         /\ OldEnd(Used(patch), Done + 1) = oldEnd + Head(todo).inc + Head(todo).len
         /\ oldEnd \in Int
<1> DEFINE C == Used(patch)
           K == Done
           c == Head(todo)
           v == patch.steps[step].covers
<1>1. /\ C \in Seq(CoverRecord) /\ Len(C) \in Nat /\ patch.count \in Nat
      /\ K \in 0 .. Len(C) /\ count \in Nat /\ K = patch.count - count
      /\ Len(out) \in Nat /\ Len(io) \in Nat
      /\ NewEnd(C, K) \in Nat /\ OldEnd(C, K) \in Int
  BY WorkIs20
<1>2. todo \in Seq(CoverRecord) /\ Len(todo) \in Nat /\ Len(todo) > 0 /\ c = todo[1]
  <2>1. todo \in Seq(CoverRecord)
    BY DEF Work20, Typed20
  <2> QED
    BY <2>1
<1>3. step > 0
  <2>1. step \in Nat /\ (step = 0 => todo = <<>>)
    BY DEF Work20, Typed20, Course20
  <2> QED
    BY <2>1
<1>4. /\ step \in 1 .. Len(patch.steps) /\ First \in 0 .. K /\ CoversUpTo(patch, step) \in Nat
      /\ CoversUpTo(patch, step) = First + Len(v)
      /\ Len(todo) = CoversUpTo(patch, step) - K
      /\ \A j \in 1 .. Len(todo) : todo[j] = v[K - First + j]
  BY <1>3, WorkIs20 DEF Work20, Course20
<1>5. Len(v) \in Nat
  BY <1>4, PatchIs20
<1> DEFINE f == First  t == CoversUpTo(patch, step)
<1>6. /\ K - f + 1 \in 1 .. Len(v) /\ f + (K - f + 1) = K + 1 /\ K + 1 <= patch.count
      /\ 1 \in 1 .. Len(todo)
  <2>1. f \in Nat /\ f <= K /\ K \in Nat /\ t \in Nat /\ t = f + Len(v) /\ Len(todo) = t - K
    BY <1>1, <1>4
  <2> DEFINE n == Len(v)  x == Len(todo)  y == patch.count
  <2>2. n \in Nat /\ x \in Nat /\ x > 0 /\ y \in Nat /\ count \in Nat /\ K = y - count
        /\ t = f + n /\ x = t - K
    BY <1>1, <1>2, <1>5, <2>1
  <2> HIDE DEF f, t, K, v, n, x, y
  <2>3. K - f + 1 \in 1 .. n /\ f + (K - f + 1) = K + 1 /\ K + 1 <= y /\ 1 \in 1 .. x
    BY <2>1, <2>2
  <2> QED
    BY <2>3 DEF n, x, y
<1>7. c = v[K - f + 1]
  BY <1>2, <1>4, <1>6
<1>8. K + 1 \in 1 .. Len(C) /\ StepOf(patch, K + 1) = step /\ C[K + 1] = v[K - f + 1]
  <2> DEFINE j == K - f + 1
  <2>1. j \in 1 .. Len(v) /\ CoversUpTo(patch, step - 1) + j = K + 1 /\ K + 1 <= patch.count
    BY <1>6 DEF First
  <2> HIDE DEF j
  <2>2. /\ CoversUpTo(patch, step - 1) + j \in 1 .. Len(C)
        /\ StepOf(patch, CoversUpTo(patch, step - 1) + j) = step
        /\ C[CoversUpTo(patch, step - 1) + j] = v[j]
    BY <1>4, <2>1, UsedIs
  <2> QED
    BY <2>1, <2>2 DEF j
<1>9. c.gap \in Nat /\ c.len \in Nat /\ c.inc \in Int
  BY <1>2, CoverIs
<1>10. /\ oldEnd = OldEnd(C, K) /\ newEnd = NewEnd(C, K) /\ Len(out) = newEnd - rest
       /\ take \in Nat /\ take <= rest /\ Len(io) <= take
  <2>1. count # 0
    OBVIOUS
  <2> QED
    BY <2>1 DEF Work20, Course20, Typed20
<1> HIDE DEF K
<1>11. /\ NewPos(C, K + 1) = NewEnd(C, (K + 1) - 1) + C[K + 1].gap
       /\ NewPos(C, K + 1) + C[K + 1].len = NewEnd(C, K + 1)
       /\ OldPos(C, K + 1) = OldEnd(C, (K + 1) - 1) + C[K + 1].inc
       /\ OldPos(C, K + 1) + C[K + 1].len = OldEnd(C, K + 1)
  BY <1>1, <1>8, NewPlaces, OldPlaces
<1>12. (K + 1) - 1 = K /\ K \in Nat /\ C[K + 1] = c
  BY <1>1, <1>7, <1>8
<1>13. /\ NewPos(C, K + 1) = newEnd + c.gap /\ NewEnd(C, K + 1) = newEnd + c.gap + c.len
       /\ OldPos(C, K + 1) = oldEnd + c.inc /\ OldEnd(C, K + 1) = oldEnd + c.inc + c.len
  BY <1>10, <1>11, <1>12
<1>14. Len(out) = newEnd /\ take = 0 /\ Len(io) = 0
  BY <1>1, <1>10
<1> QED
  BY <1>1, <1>3, <1>8, <1>9, <1>10, <1>12, <1>13, <1>14 DEF K

\* The new bytes before it, and their count up to its end.
LEMMA NewInWork ==
  ASSUME patch \in Patch20, Work20, todo # <<>>, count > 0, rest = 0
  PROVE  /\ \A i \in newEnd .. (newEnd + Head(todo).gap) - 1 : ~IsCovered(Used(patch), i)
         /\ \A i \in newEnd .. newEnd + Head(todo).gap :
               NewBytesBelow(Used(patch), i) = seen + (i - newEnd)
         /\ NewBytesBelow(Used(patch), newEnd + Head(todo).gap + Head(todo).len)
               = seen + Head(todo).gap
<1> DEFINE C == Used(patch)
           K == Done
           g == Head(todo).gap
           l == Head(todo).len
           m == newEnd + g
<1>1. /\ C \in Seq(CoverRecord) /\ Len(C) \in Nat /\ K \in 0 .. Len(C) /\ K + 1 \in 1 .. Len(C)
      /\ K \in Nat
  BY WorkIs20, NextInWork
<1>2. /\ g \in Nat /\ l \in Nat /\ newEnd \in Nat /\ newEnd = NewEnd(C, K)
      /\ NewPos(C, K + 1) = m /\ NewEnd(C, K + 1) = m + l
  BY NextInWork
<1>3. seen = NewBytesBelow(C, newEnd) /\ seen \in Nat
  BY DEF Work20, Data20, Typed20
<1> HIDE DEF C, K, g, l
<1>4. ASSUME NEW i \in newEnd .. m - 1 PROVE ~IsCovered(C, i)
  <2>1. i \in Int /\ NewEnd(C, K) <= i /\ i < NewPos(C, K + 1)
    BY <1>2
  <2> QED
    BY <1>1, <2>1, NotCovered
<1>5. m \in Nat
  BY <1>2
<1>6. \A i \in newEnd .. m : NewBytesBelow(C, i) = seen + (i - newEnd)
  <2> HIDE DEF m
  <2>1. \A i \in newEnd .. m : NewBytesBelow(C, i) = NewBytesBelow(C, newEnd) + (i - newEnd)
    BY <1>2, <1>4, <1>5, BytesOfGap
  <2> QED
    BY <1>3, <2>1
<1>7. ASSUME NEW i \in m .. (m + l) - 1 PROVE IsCovered(C, i)
  <2>1. i \in Int /\ NewPos(C, K + 1) <= i /\ i < NewEnd(C, K + 1)
    BY <1>2, <1>5
  <2> QED
    BY <1>1, <2>1, CoveredOnce DEF IsCovered
<1>8. NewBytesBelow(C, m + l) = NewBytesBelow(C, m)
  <2> HIDE DEF m
  <2>1. m + l \in Nat /\ m + l \in m .. m + l
    BY <1>2, <1>5
  <2> QED
    BY <1>5, <1>7, <2>1, BytesOfCover
<1>9. NewBytesBelow(C, m) = seen + g
  <2>1. m \in newEnd .. m /\ m - newEnd = g
    BY <1>2
  <2> QED
    BY <1>6, <2>1
<1> QED
  BY <1>4, <1>6, <1>8, <1>9 DEF C, g, l

\* New bytes go out as they are.
LEMMA CopiedInWork ==
  ASSUME patch \in Patch20, Work20, NEW i \in Nat, NEW n \in Nat, Len(out) = i,
         \A j \in i .. (i + n) - 1 : ~IsCovered(Used(patch), j),
         \A j \in i .. i + n : NewBytesBelow(Used(patch), j) = seen + (j - i),
         seen + n <= Len(patch.data), out' = out \o SF!Copied(n)
  PROVE  /\ out' \in Seq(Int) /\ Len(out') = i + n
         /\ \A j \in 1 .. Len(out') : out'[j] = Byte20(patch, old, j - 1)
<1> DEFINE b == SubSeq(patch.data, seen + 1, seen + n)
<1>1. /\ out \in Seq(Int) /\ seen \in Nat /\ patch.data \in Seq(Int) /\ Len(patch.data) \in Nat
      /\ \A j \in 1 .. Len(out) : out[j] = Byte20(patch, old, j - 1)
  BY PatchIs20 DEF Work20, Typed20, Content20
<1>2. /\ b \in Seq(Int) /\ Len(b) = n
      /\ \A j \in 1 .. n : b[j] = patch.data[seen + j]
  BY <1>1, PartIs
<1>3. out' = out \o b
  BY DEF SF!Copied
<1> HIDE DEF b
<1>4. /\ out' \in Seq(Int) /\ Len(out') = i + n
      /\ \A j \in 1 .. i + n : out'[j] = IF j <= i THEN out[j] ELSE b[j - i]
  BY <1>1, <1>2, <1>3, ConcatProperties
<1>5. ASSUME NEW j \in 1 .. i + n PROVE out'[j] = Byte20(patch, old, j - 1)
  <2>1. CASE j <= i
    <3>1. j \in 1 .. Len(out) /\ out'[j] = out[j]
      BY <1>4, <2>1
    <3> QED
      BY <1>1, <3>1
  <2>2. CASE ~(j <= i)
    <3>1. /\ out'[j] = b[j - i] /\ j - i \in 1 .. n /\ j - 1 \in i .. (i + n) - 1
          /\ j - 1 \in i .. i + n /\ (seen + ((j - 1) - i)) + 1 = seen + (j - i)
      BY <1>1, <1>4, <2>2, SMTT(30)
    <3>2. out'[j] = patch.data[seen + (j - i)]
      BY <1>2, <3>1
    <3>3. Byte20(patch, old, j - 1) = patch.data[NewBytesBelow(Used(patch), j - 1) + 1]
      <4>1. ~IsCovered(Used(patch), j - 1)
        BY <3>1
      <4> QED
        BY <4>1 DEF Byte20
    <3>4. NewBytesBelow(Used(patch), j - 1) + 1 = seen + (j - i)
      BY <3>1
    <3> QED
      BY <3>2, <3>3, <3>4
  <2> QED
    BY <2>1, <2>2
<1> QED
  BY <1>4, <1>5

LEMMA ReadCoverKeeps ==
  ASSUME patch \in Patch20, Work20, SF!ReadCover, result' = "running", UNCHANGED inputs
  PROVE  Work20'
<1> DEFINE c == Head(todo)
           C == Used(patch)
           K == Done
<1>1. /\ rest = 0 /\ count > 0 /\ todo # <<>>
      /\ oldEnd + c.inc >= 0 /\ seen + c.gap <= Len(patch.data)
      /\ c.len > 0 => (oldEnd + c.inc) + c.len <= Len(old)
      /\ out' = out \o SF!Copied(c.gap) /\ seen' = seen + c.gap
      /\ oldEnd' = (oldEnd + c.inc) + c.len /\ newEnd' = newEnd + c.gap + c.len
      /\ count' = count - 1 /\ todo' = Tail(todo)
      /\ place' = oldEnd + c.inc /\ rest' = c.len
      /\ UNCHANGED <<patch, old, step, rle, io, take>>
  BY DEF SF!ReadCover, SF!AtCover, SF!Between, SF!Running, SF!Fails, inputs
<1>2. /\ step > 0 /\ K + 1 \in 1 .. Len(C) /\ K \in Nat
      /\ StepOf(patch, K + 1) = step /\ C[K + 1] = c
      /\ c.gap \in Nat /\ c.len \in Nat /\ c.inc \in Int
      /\ newEnd = NewEnd(C, K) /\ newEnd \in Nat
      /\ Len(out) = newEnd /\ take = 0 /\ Len(io) = 0
      /\ NewPos(C, K + 1) = newEnd + c.gap /\ NewEnd(C, K + 1) = newEnd + c.gap + c.len
      /\ oldEnd = OldEnd(C, K) /\ OldPos(C, K + 1) = oldEnd + c.inc
      /\ OldEnd(C, K + 1) = oldEnd + c.inc + c.len /\ oldEnd \in Int
  BY <1>1, NextInWork
<1>3. /\ \A i \in newEnd .. (newEnd + c.gap) - 1 : ~IsCovered(C, i)
      /\ \A i \in newEnd .. newEnd + c.gap : NewBytesBelow(C, i) = seen + (i - newEnd)
      /\ NewBytesBelow(C, newEnd + c.gap + c.len) = seen + c.gap
  BY <1>1, NewInWork
<1> DEFINE g == c.gap  l == c.len  x == c.inc
<1>0. /\ oldEnd + x >= 0 /\ (l > 0 => (oldEnd + x) + l <= Len(old))
      /\ seen' = seen + g /\ oldEnd' = (oldEnd + x) + l /\ newEnd' = newEnd + g + l
      /\ place' = oldEnd + x /\ rest' = l
      /\ C[K + 1] = c /\ C[K + 1].len = l /\ g \in Nat /\ l \in Nat /\ x \in Int
      /\ NewPos(C, K + 1) = newEnd + g /\ NewEnd(C, K + 1) = newEnd + g + l
      /\ OldPos(C, K + 1) = oldEnd + x /\ OldEnd(C, K + 1) = oldEnd + x + l
      /\ NewBytesBelow(C, newEnd + g + l) = seen + g
  BY <1>1, <1>2, <1>3
<1> HIDE DEF c
<1>4. /\ out' \in Seq(Int) /\ Len(out') = newEnd + g
      /\ \A j \in 1 .. Len(out') : out'[j] = Byte20(patch, old, j - 1)
  BY <1>1, <1>2, <1>3, CopiedInWork
<1> HIDE DEF g, l, x
<1>5. /\ count \in Nat /\ patch.count \in Nat /\ K = patch.count - count /\ count <= patch.count
      /\ seen \in Nat /\ todo \in Seq(CoverRecord) /\ Len(C) \in Nat
      /\ First \in 0 .. K /\ CoversUpTo(patch, step) \in Nat
      /\ Len(todo) = CoversUpTo(patch, step) - K
      /\ \A j \in 1 .. Len(todo) : todo[j] = patch.steps[step].covers[K - First + j]
      /\ Taken(patch, K) \in Nat /\ Taken(patch, First) \in Nat
  <2>1. /\ count \in Nat /\ patch.count \in Nat /\ K = patch.count - count /\ Len(C) \in Nat
        /\ First \in 0 .. K /\ CoversUpTo(patch, step) \in Nat
        /\ Taken(patch, K) \in Nat /\ Taken(patch, First) \in Nat
    BY <1>2, WorkIs20
  <2>2. /\ count \in 0 .. patch.count /\ seen \in Nat /\ todo \in Seq(CoverRecord)
        /\ Len(todo) = CoversUpTo(patch, step) - K
        /\ \A j \in 1 .. Len(todo) : todo[j] = patch.steps[step].covers[K - First + j]
    BY <1>2 DEF Work20, Typed20, Course20
  <2>3. count <= patch.count
    BY <2>1, <2>2
  <2> QED
    BY <2>1, <2>2, <2>3
<1>6. count' \in 0 .. patch.count /\ Done' = K + 1 /\ First' = First
  <2>1. Done' = patch.count - (count - 1) /\ First' = First
    BY <1>1 DEF Done, First
  <2> DEFINE n == patch.count
  <2>2. /\ count \in Nat /\ n \in Nat /\ K = n - count /\ count <= n /\ count > 0
        /\ count' = count - 1 /\ Done' = n - (count - 1)
    BY <1>1, <1>5, <2>1
  <2> HIDE DEF K, n
  <2>3. count' \in 0 .. n /\ n - (count - 1) = K + 1
    BY <2>2
  <2> QED
    BY <2>1, <2>2, <2>3 DEF n
<1>7. /\ todo' \in Seq(CoverRecord) /\ Len(todo') = Len(todo) - 1
      /\ \A j \in 1 .. Len(todo') : todo'[j] = todo[j + 1] /\ j + 1 \in 1 .. Len(todo)
  <2>1. /\ Tail(todo) \in Seq(CoverRecord) /\ Len(Tail(todo)) = Len(todo) - 1
        /\ \A j \in 1 .. Len(Tail(todo)) : Tail(todo)[j] = todo[j + 1]
    BY <1>1, <1>5, HeadTailProperties
  <2>2. Len(todo) \in Nat
    BY <1>5
  <2> QED
    BY <1>1, <2>1, <2>2
<1>8. oldEnd' = OldEnd(C, K + 1) /\ newEnd' = NewEnd(C, K + 1) /\ oldEnd' \in Int /\ newEnd' \in Nat
      /\ seen' \in Nat /\ rest' \in Nat
  <2>1. /\ oldEnd \in Int /\ newEnd \in Nat /\ seen \in Nat
    BY <1>2, <1>5
  <2> QED
    BY <1>0, <2>1
<1>9. Typed20'
  BY <1>1, <1>4, <1>6, <1>7, <1>8 DEF Work20, Typed20
<1>10. Spent' = Spent
  <2> DEFINE t == Taken(patch, K)  f == Taken(patch, First)  t1 == Taken(patch, K + 1)
  <2>1. t1 = t + l
    <3>1. Taken(patch, K + 1) = Taken(patch, (K + 1) - 1) + C[K + 1].len /\ (K + 1) - 1 = K
      BY <1>2, TakenIs
    <3> QED
      BY <1>0, <3>1
  <2>2. Spent = t - f - 0 + 0 /\ Spent' = t1 - f - l + 0
    BY <1>0, <1>1, <1>2, <1>6 DEF Spent
  <2>3. t \in Nat /\ f \in Nat /\ l \in Nat
    BY <1>0, <1>5
  <2> HIDE DEF t, f, t1
  <2> QED
    BY <2>1, <2>2, <2>3
<1>11. Course20'
  <2>1. First <= K + 1 /\ Len(todo') = CoversUpTo(patch, step) - (K + 1)
    <3> DEFINE f == First  n == Len(todo)  m == Len(todo')  t == CoversUpTo(patch, step)
    <3>1. f \in Nat /\ f <= K /\ n \in Nat /\ K \in Nat /\ t \in Nat /\ n = t - K /\ m = n - 1
      BY <1>2, <1>5, <1>7
    <3> HIDE DEF K, f, n, m, t
    <3>2. f <= K + 1 /\ m = t - (K + 1)
      BY <3>1
    <3> QED
      BY <3>2 DEF f, m, t
  <2>2. ASSUME NEW j \in 1 .. Len(todo')
        PROVE  todo'[j] = patch.steps[step].covers[(K + 1) - First + j]
    <3>1. K - First + (j + 1) = (K + 1) - First + j
      <4>1. First \in Nat /\ j \in Int
        BY <1>5
      <4> HIDE DEF K
      <4> QED
        BY <1>2, <4>1
    <3>2. todo'[j] = patch.steps[step].covers[K - First + (j + 1)]
      BY <1>5, <1>7
    <3> QED
      BY <3>1, <3>2
  <2>3. /\ Len(out') = newEnd' - rest' /\ take' <= rest' /\ Len(io') <= take'
    <3> DEFINE n == Len(out')
    <3>1. n = newEnd + g /\ newEnd' = newEnd + g + l /\ rest' = l /\ newEnd \in Nat /\ g \in Nat /\ l \in Nat
      BY <1>0, <1>2, <1>4
    <3>2. take' = 0 /\ Len(io') = 0
      BY <1>1, <1>2
    <3> HIDE DEF n
    <3>3. n = newEnd' - rest' /\ 0 <= rest'
      BY <3>1
    <3> QED
      BY <3>2, <3>3 DEF n
  <2>4. First < K + 1 /\ rest' <= C[K + 1].len /\ K + 1 <= Len(C)
    <3>1. First \in Nat /\ First <= K
      BY <1>5
    <3>2. rest' <= C[K + 1].len
      BY <1>0
    <3> HIDE DEF C, K
    <3> QED
      BY <1>2, <1>5, <3>1, <3>2, SMTT(30)
  <2>5. place' = OldPos(C, K + 1) + Made' - NewPos(C, K + 1)
    <3>1. Made' = newEnd + g
      BY <1>0, <1>1, <1>2, <1>4 DEF Made
    <3> HIDE DEF C, K
    <3> QED
      BY <1>0, <1>2, <3>1
  <2>6. step' = step /\ step' # 0 /\ step' > 0 /\ patch' = patch
    BY <1>1, <1>2
  <2>8. Done' <= Len(C) /\ First' <= Done'
    BY <1>6, <2>1, <2>4
  <2> HIDE DEF C, K
  <2>7. /\ Used(patch') = C /\ Done' = K + 1 /\ First' = First
    BY <1>6, <2>6 DEF C
  <2> QED
    BY <1>8, <2>1, <2>2, <2>3, <2>4, <2>5, <2>6, <2>7, <2>8 DEF Course20
<1>12. Passed20'
  <2>1. ASSUME NEW k \in 1 .. K + 1
        PROVE  OldPos(C, k) >= 0 /\ (C[k].len > 0 => OldPos(C, k) + C[k].len <= Len(old))
    <3>1. CASE k = K + 1
      BY <1>0, <3>1
    <3>2. CASE k # K + 1
      <4>1. k \in 1 .. K
        BY <1>2, <3>2
      <4> QED
        BY <4>1 DEF Work20, Passed20
    <3> QED
      BY <3>1, <3>2
  <2>2. ASSUME NEW k \in 1 .. K + 1, C[k].len > 0, k = K + 1 => rest' = 0
        PROVE  UsedBefore(patch, k) + C[k].len
                  <= Len(Expanded(patch.steps[StepOf(patch, k)].rle))
    <3>1. k # K + 1
      <4> SUFFICES ASSUME k = K + 1 PROVE FALSE
        OBVIOUS
      <4>1. l = 0 /\ l > 0
        BY <1>0, <2>2
      <4> QED
        BY <4>1
    <3>2. k \in 1 .. K
      BY <1>2, <3>1
    <3> QED
      BY <1>1, <2>2, <3>2 DEF Work20, Passed20
  <2> HIDE DEF C, K
  <2>3. Used(patch') = C /\ Done' = K + 1 /\ patch' = patch /\ old' = old
    BY <1>1, <1>6 DEF C
  <2> QED
    BY <2>1, <2>2, <2>3 DEF Passed20
<1>13. Data20'
  <2>1. seen' <= Len(patch.data) /\ seen' = seen + g /\ NewBytesBelow(C, newEnd') = seen + g
    BY <1>0, <1>1 DEF g
  <2> QED
    BY <1>1, <2>1 DEF Data20
<1>14. Runs20'
  BY <1>1, <1>10 DEF Work20, Runs20
<1>15. Content20'
  <2>1. Len(io') = 0
    BY <1>1, <1>2
  <2> QED
    BY <1>1, <1>4, <2>1 DEF Content20
<1> QED
  BY <1>9, <1>11, <1>12, <1>13, <1>14, <1>15 DEF Work20

\* The covers are all done.
LEMMA TailInWork ==
  ASSUME patch \in Patch20, Work20, count = 0, rest = 0
  PROVE  /\ Done = Len(Used(patch)) /\ Len(Used(patch)) = patch.count /\ Len(Used(patch)) \in Nat
         /\ take = 0 /\ Len(io) = 0 /\ Len(out) = newEnd /\ newEnd \in Nat
         /\ NewEnd(Used(patch), Done) \in Nat /\ NewEnd(Used(patch), Done) <= newEnd
         /\ newEnd = NewEnd(Used(patch), Done) \/ newEnd = patch.size
         /\ \A i \in Int : NewEnd(Used(patch), Done) <= i => ~IsCovered(Used(patch), i)
<1> DEFINE C == Used(patch)
           K == Done
<1>1. /\ C \in Seq(CoverRecord) /\ Len(C) \in Nat /\ patch.count \in Nat /\ K \in 0 .. Len(C)
      /\ K = patch.count - count /\ NewEnd(C, K) \in Nat /\ Len(C) <= patch.count
      /\ Len(io) \in Nat /\ Len(out) \in Nat
  BY WorkIs20, UsedIs
<1>2. /\ Len(out) = newEnd - rest /\ newEnd \in Nat
      /\ take \in Nat /\ take <= rest /\ Len(io) <= take
      /\ newEnd = NewEnd(C, K) \/ (newEnd = patch.size /\ NewEnd(C, K) <= newEnd)
  BY DEF Work20, Typed20, Course20
<1> HIDE DEF C, K
<1>3. K = Len(C) /\ Len(C) = patch.count
  BY <1>1
<1>4. take = 0 /\ Len(io) = 0 /\ Len(out) = newEnd /\ NewEnd(C, K) <= newEnd
  BY <1>1, <1>2
<1>5. ASSUME NEW i \in Int, NewEnd(C, K) <= i PROVE ~IsCovered(C, i)
  <2>1. ~(K < Len(C))
    BY <1>1, <1>3
  <2> QED
    BY <1>1, <1>5, <2>1, NotCovered
<1> QED
  BY <1>1, <1>2, <1>3, <1>4, <1>5 DEF C, K

LEMMA TailBytes ==
  ASSUME patch \in Patch20, Work20, count = 0, rest = 0, newEnd < patch.size
  PROVE  /\ patch.size - newEnd \in Nat /\ newEnd + (patch.size - newEnd) = patch.size
         /\ \A i \in newEnd .. patch.size - 1 : ~IsCovered(Used(patch), i)
         /\ \A i \in newEnd .. patch.size :
               NewBytesBelow(Used(patch), i) = seen + (i - newEnd)
<1> DEFINE C == Used(patch)
           m == patch.size
<1>1. m \in Nat /\ newEnd \in Nat /\ newEnd < m
  BY TailInWork, PatchIs20
<1>2. \A i \in newEnd .. m - 1 : ~IsCovered(C, i)
  <2>1. newEnd = NewEnd(C, Done)
    BY <1>1, TailInWork
  <2>2. \A i \in newEnd .. m - 1 : i \in Int /\ newEnd <= i
    BY <1>1
  <2> QED
    BY <2>1, <2>2, TailInWork
<1>3. seen = NewBytesBelow(C, newEnd)
  BY DEF Work20, Data20
<1> HIDE DEF C, m
<1>4. \A i \in newEnd .. m : NewBytesBelow(C, i) = NewBytesBelow(C, newEnd) + (i - newEnd)
  BY <1>1, <1>2, BytesOfGap
<1>5. m - newEnd \in Nat /\ newEnd + (m - newEnd) = m
  BY <1>1
<1> QED
  BY <1>2, <1>3, <1>4, <1>5 DEF C, m

LEMMA Tail20Keeps ==
  ASSUME patch \in Patch20, Work20, SF!Tail20, result' = "running", UNCHANGED inputs
  PROVE  Work20'
<1> DEFINE C == Used(patch)
           n == patch.size - newEnd
<1>1. /\ rest = 0 /\ count = 0 /\ newEnd < patch.size /\ seen + n <= Len(patch.data)
      /\ out' = out \o SF!Copied(n) /\ seen' = seen + n /\ newEnd' = patch.size
      /\ UNCHANGED <<patch, old, step, todo, count, oldEnd, rle, place, rest, io, take>>
  BY DEF SF!Tail20, SF!Between, SF!Running, SF!Fails, inputs
<1>2. /\ take = 0 /\ Len(io) = 0 /\ Len(out) = newEnd /\ newEnd \in Nat
      /\ NewEnd(C, Done) \in Nat /\ NewEnd(C, Done) <= newEnd
  BY <1>1, TailInWork
<1>3. /\ n \in Nat /\ newEnd + n = patch.size /\ patch.size \in Nat /\ seen \in Nat
      /\ \A i \in newEnd .. patch.size - 1 : ~IsCovered(C, i)
      /\ \A i \in newEnd .. patch.size : NewBytesBelow(C, i) = seen + (i - newEnd)
  BY <1>1, TailBytes, PatchIs20 DEF Work20, Typed20
<1>4. /\ out' \in Seq(Int) /\ Len(out') = patch.size
      /\ \A j \in 1 .. Len(out') : out'[j] = Byte20(patch, old, j - 1)
  <2> HIDE DEF n, C
  <2>1. /\ \A j \in newEnd .. (newEnd + n) - 1 : ~IsCovered(C, j)
        /\ \A j \in newEnd .. newEnd + n : NewBytesBelow(C, j) = seen + (j - newEnd)
    BY <1>3
  <2>2. /\ out' \in Seq(Int) /\ Len(out') = newEnd + n
        /\ \A j \in 1 .. Len(out') : out'[j] = Byte20(patch, old, j - 1)
    BY <1>1, <1>2, <1>3, <2>1, CopiedInWork DEF C
  <2> QED
    BY <1>3, <2>2
<1>5. Done' = Done /\ First' = First /\ Spent' = Spent
  BY <1>1 DEF Done, First, Spent
<1>6. Typed20'
  <2>1. newEnd' \in Nat /\ seen' \in Nat
    BY <1>1, <1>3
  <2> QED
    BY <1>1, <1>4, <2>1 DEF Work20, Typed20
<1>7. Course20'
  <2>1. NewEnd(C, Done) <= newEnd' /\ Len(out') = newEnd' - rest' /\ ~(rest' > 0)
    BY <1>1, <1>2, <1>3, <1>4, SMTT(30)
  <2> QED
    BY <1>1, <1>5, <2>1 DEF Work20, Course20
<1>8. Passed20' /\ Runs20'
  BY <1>1, <1>5 DEF Work20, Passed20, Runs20
<1>9. Data20'
  <2>1. patch.size \in newEnd .. patch.size /\ patch.size - newEnd = n
    BY <1>1, <1>2, <1>3
  <2>2. NewBytesBelow(C, patch.size) = seen + n
    BY <1>3, <2>1
  <2> QED
    BY <1>1, <2>2 DEF Data20
<1>10. Content20'
  <2>1. Len(io') = 0
    BY <1>1, <1>2
  <2> QED
    BY <1>1, <1>4, <2>1, SMTT(30) DEF Content20
<1> QED
  BY <1>6, <1>7, <1>8, <1>9, <1>10 DEF Work20

LEMMA TailShortIsRight ==
  ASSUME version = 20, patch \in Patch20, Work20, SF!Tail20, result' = "error"
  PROVE  ~Describes
<1> DEFINE n == patch.size - newEnd
<1>1. rest = 0 /\ count = 0 /\ newEnd < patch.size /\ ~(seen + n <= Len(patch.data))
  BY DEF SF!Tail20, SF!Between, SF!Running
<1>2. /\ n \in Nat /\ newEnd \in Nat /\ patch.size \in Nat
      /\ \A i \in newEnd .. patch.size : NewBytesBelow(Used(patch), i) = seen + (i - newEnd)
  BY <1>1, TailBytes, TailInWork, PatchIs20
<1>3. NewBytesBelow(Used(patch), patch.size) = seen + n
  <2>1. patch.size \in newEnd .. patch.size
    BY <1>1, <1>2
  <2> QED
    BY <1>2, <2>1
<1> QED
  BY <1>1, <1>3 DEF Describes, Describes20

LEMMA CoverFailsIsRight ==
  ASSUME version = 20, patch \in Patch20, Work20, SF!ReadCover, result' = "error"
  PROVE  ~Describes
<1> DEFINE c == Head(todo)
           C == Used(patch)
           K == Done
           g == c.gap
           l == c.len
<1>1. /\ rest = 0 /\ count > 0 /\ todo # <<>>
      /\ ~ /\ oldEnd + c.inc >= 0 /\ seen + g <= Len(patch.data)
           /\ l > 0 => (oldEnd + c.inc) + l <= Len(old)
  BY DEF SF!ReadCover, SF!AtCover, SF!Between, SF!Running
<1>2. /\ K + 1 \in 1 .. Len(C) /\ C[K + 1] = c /\ OldPos(C, K + 1) = oldEnd + c.inc
      /\ g \in Nat /\ l \in Nat /\ newEnd \in Nat
      /\ NewEnd(C, K + 1) = newEnd + g + l
  BY <1>1, NextInWork
<1>3. \A i \in newEnd .. newEnd + g : NewBytesBelow(C, i) = seen + (i - newEnd)
  BY <1>1, NewInWork
<1>4. CASE ~(oldEnd + c.inc >= 0)
  <2>1. ~(OldPos(C, K + 1) >= 0)
    BY <1>2, <1>4
  <2> QED
    BY <1>2, <2>1 DEF Describes, Describes20, Fits
<1>5. CASE l > 0 /\ ~((oldEnd + c.inc) + l <= Len(old))
  <2>1. C[K + 1].len > 0 /\ ~(OldPos(C, K + 1) + C[K + 1].len <= Len(old))
    BY <1>2, <1>5
  <2> QED
    BY <1>2, <2>1 DEF Describes, Describes20, Fits
<1>6. CASE ~(seen + g <= Len(patch.data))
  <2> SUFFICES ASSUME NewEnd(C, Len(C)) <= patch.size,
                      NewBytesBelow(C, patch.size) <= Len(patch.data)
               PROVE  FALSE
    BY DEF Describes, Describes20, Fits
  <2>1. /\ C \in Seq(CoverRecord) /\ Len(C) \in Nat /\ patch.size \in Nat /\ seen \in Nat
        /\ Len(patch.data) \in Nat
    BY WorkIs20, PatchIs20 DEF Work20, Typed20
  <2> HIDE DEF C, K, c, g, l
  <2>2. K + 1 \in 0 .. Len(C) /\ Len(C) \in 0 .. Len(C) /\ K + 1 <= Len(C)
    BY <1>2, <2>1
  <2>3. NewEnd(C, K + 1) <= NewEnd(C, Len(C)) /\ NewEnd(C, Len(C)) \in Nat
    BY <2>1, <2>2, NewEnds
  <2>4. newEnd + g \in Nat /\ newEnd + g <= patch.size
    BY <1>2, <2>1, <2>3
  <2>5. /\ NewBytesBelow(C, newEnd + g) <= NewBytesBelow(C, patch.size)
        /\ NewBytesBelow(C, patch.size) \in Nat
    BY <2>1, <2>4, BytesGrow
  <2>6. NewBytesBelow(C, newEnd + g) = seen + g
    <3>1. newEnd + g \in newEnd .. newEnd + g /\ (newEnd + g) - newEnd = g
      BY <1>2
    <3> QED
      BY <1>3, <3>1
  <2> QED
    BY <1>2, <1>6, <2>1, <2>5, <2>6
<1> QED
  BY <1>1, <1>4, <1>5, <1>6

\* The run lengths of the step end before the bytes of its covers.
LEMMA RunsOutIsRight ==
  ASSUME version = 20, patch \in Patch20, Work20, rest > 0, take > 0 => take - Len(io) > 0,
         Unread(rle) = <<>>
  PROVE  ~Describes
<1> DEFINE C == Used(patch)
           K == Done
<1>1. /\ K \in 1 .. Len(C) /\ step > 0 /\ StepOf(patch, K) = step
      /\ C[K].len \in Nat /\ rest <= C[K].len
      /\ UsedBefore(patch, K) + C[K].len = Spent + rest - Len(io)
      /\ rle.buf = patch.steps[step].rle /\ Spent \in Nat
      /\ Without(Expanded(rle.buf), Spent, Unread(rle))
  BY InWork DEF Work20, Runs20
<1>2. rest \in Nat /\ take \in Nat /\ Len(io) \in Nat /\ take <= rest /\ Len(io) <= take
  BY DEF Work20, Typed20, Course20
<1>3. Len(Expanded(rle.buf)) = Spent
  <2>1. Len(Unread(rle)) = 0
    OBVIOUS
  <2> QED
    BY <1>1, <2>1 DEF Without
<1>4. rest - Len(io) > 0
  BY <1>2
<1>5. Spent + rest - Len(io) > Spent /\ C[K].len > 0
  <2> HIDE DEF C, K
  <2> QED
    BY <1>1, <1>2, <1>4
<1>6. ~(UsedBefore(patch, K) + C[K].len <= Len(Expanded(patch.steps[StepOf(patch, K)].rle)))
  <2>1. Expanded(patch.steps[StepOf(patch, K)].rle) = Expanded(rle.buf)
    BY <1>1
  <2> HIDE DEF C, K
  <2> QED
    BY <1>1, <1>2, <1>3, <1>5, <2>1
<1>7. K \in 1 .. patch.count
  <2>1. Len(C) <= patch.count /\ Len(C) \in Nat /\ patch.count \in Nat
    BY UsedIs, PatchIs20
  <2> HIDE DEF C, K
  <2> QED
    BY <1>1, <2>1
<1> QED
  BY <1>5, <1>6, <1>7 DEF Describes, Describes20

LEMMA RunsEndIsRight ==
  ASSUME version = 20, patch \in Patch20, Work20, result' = "error",
         SF!ReadZeros \/ SF!ReadLiterals \/ SF!AddLiterals
  PROVE  ~Describes
<1>1. rle \in Decoders /\ take \in Nat /\ rest \in Nat /\ take <= rest
  BY DEF Work20, Typed20, Course20
<1>2. /\ rle.len0 \in Nat /\ rle.lenv \in Nat /\ rle.need0 \in BOOLEAN
      /\ (rle.need0 => rle.len0 = 0) /\ (~rle.need0 => rle.lenv = 0)
  BY <1>1, DecoderIs
<1>3. /\ rest > 0 /\ (take > 0 => take - Len(io) > 0)
      /\ \/ rle.len0 = 0 /\ rle.lenv = 0 /\ rle.pos >= Len(rle.buf)
         \/ rle.len0 = 0 /\ rle.lenv > 0 /\ rle.lenv > Len(rle.buf) - rle.pos
  <2>1. CASE SF!ReadZeros
    BY <2>1 DEF SF!ReadZeros, SF!Running, SF!AtZeros, SF!AtNumber, SF!Exhausted, SF!Wanted
  <2>2. CASE SF!ReadLiterals
    <3>1. take > 0 /\ take - Len(io) > 0 /\ rle.len0 = 0 /\ rle.lenv = 0 /\ rle.pos >= Len(rle.buf)
      BY <2>2 DEF SF!ReadLiterals, SF!Running, SF!AtZeros, SF!AtNumber, SF!Exhausted, SF!Wanted
    <3> QED
      BY <1>1, <3>1
  <2>3. CASE SF!AddLiterals
    <3>1. /\ take > 0 /\ take - Len(io) > 0 /\ rle.len0 = 0 /\ rle.lenv > 0
          /\ rle.lenv > Len(rle.buf) - rle.pos
      BY <2>3 DEF SF!AddLiterals, SF!Running, SF!Literal, SF!Wanted
    <3> QED
      BY <1>1, <3>1
  <2> QED
    BY <2>1, <2>2, <2>3
<1>4. Unread(rle) = <<>>
  <2>1. CASE rle.len0 = 0 /\ rle.lenv = 0 /\ rle.pos >= Len(rle.buf)
    BY <1>1, <2>1, NumberRead
  <2>2. CASE rle.len0 = 0 /\ rle.lenv > 0 /\ rle.lenv > Len(rle.buf) - rle.pos
    <3>1. rle.need0 /\ 0 <= rle.lenv /\ 0 \in Nat
      BY <1>2, <2>2
    <3> QED
      BY <1>1, <2>2, <3>1, LiteralsUsed
  <2> QED
    BY <1>3, <2>1, <2>2
<1> QED
  BY <1>3, <1>4, RunsOutIsRight

LEMMA Finished20 ==
  ASSUME version = 20, patch \in Patch20, old \in Seq(Bytes), Len(old) = patch.oldSize,
         Work20, SF!Finish20
  PROVE  IF Len(out) <= patch.size THEN Describes /\ out = Patched20(patch, old)
         ELSE ~Describes
<1> DEFINE C == Used(patch)
           K == Done
<1>1. rest = 0 /\ count = 0 /\ newEnd >= patch.size
  BY DEF SF!Finish20, SF!Between
<1>2. /\ K = Len(C) /\ Len(C) = patch.count /\ Len(C) \in Nat /\ patch.size \in Nat
      /\ Len(out) = newEnd /\ newEnd \in Nat /\ NewEnd(C, K) \in Nat /\ NewEnd(C, K) <= newEnd
      /\ newEnd = NewEnd(C, K) \/ newEnd = patch.size
  BY <1>1, TailInWork, PatchIs20
<1>3. CASE Len(out) <= patch.size
  <2>1. newEnd = patch.size /\ NewEnd(C, Len(C)) <= patch.size
    <3> HIDE DEF C, K
    <3> QED
      BY <1>1, <1>2, <1>3
  <2>2. \A k \in 1 .. Len(C) :
            OldPos(C, k) >= 0 /\ (C[k].len > 0 => OldPos(C, k) + C[k].len <= Len(old))
    BY <1>2 DEF Work20, Passed20
  <2>3. \A k \in 1 .. patch.count : C[k].len > 0 =>
            UsedBefore(patch, k) + C[k].len <= Len(Expanded(patch.steps[StepOf(patch, k)].rle))
    BY <1>1, <1>2 DEF Work20, Passed20
  <2>4. NewBytesBelow(C, patch.size) <= Len(patch.data)
    BY <2>1 DEF Work20, Data20
  <2>5. Describes
    BY <1>2, <2>1, <2>2, <2>3, <2>4 DEF Describes, Describes20, Fits
  <2>6. out = Patched20(patch, old)
    <3>1. /\ out \in Seq(Int) /\ Len(out) = patch.size
          /\ \A j \in 1 .. Len(out) : out[j] = Byte20(patch, old, j - 1)
      BY <1>2, <2>1 DEF Work20, Typed20, Content20
    <3>2. out = [j \in 1 .. patch.size |-> Byte20(patch, old, j - 1)]
      BY <3>1
    <3>3. Patched20(patch, old) = [j \in 1 .. patch.size |-> Byte20(patch, old, j - 1)]
      BY DEF Patched20, Byte20
    <3> QED
      BY <3>2, <3>3
  <2> QED
    BY <1>3, <2>5, <2>6
<1>4. CASE ~(Len(out) <= patch.size)
  <2>1. ~(NewEnd(C, Len(C)) <= patch.size)
    <3> HIDE DEF C, K
    <3> QED
      BY <1>1, <1>2, <1>4
  <2> QED
    BY <1>4, <2>1 DEF Describes, Describes20, Fits
<1> QED
  BY <1>3, <1>4
-----------------------------------------------------------------------------
(***************************************************************************)
(* Both decoders: the inductive invariant.                                 *)
(***************************************************************************)
Given ==
    /\ version \in {13, 20} /\ old \in Seq(Bytes) /\ mapped \in BOOLEAN
    /\ version = 13 => patch \in Patch13
    /\ version = 20 => patch \in Patch20
Working == result \in {"new", "running"} => IF version = 13 THEN Work13 ELSE Work20
Lengths == result \in {"running", "decoded", "true"} => Len(old) = patch.oldSize
Emptied == version = 20 \/ result = "decoded" => cache = <<>>

\* The patch describes a new file, and it was written.
Right ==
    /\ Describes
    /\ out = IF version = 20 THEN Patched20(patch, old) ELSE Patched13(patch, old)
Judged ==
    /\ result = "decoded" => IF Len(out) <= patch.size THEN Right ELSE ~Describes
    /\ result = "true" => Right
    /\ result \in {"error", "refused"} => ~(Describes /\ WithinLimits)
\* The limits of what was read up to now, and then of all.
Limited ==
    /\ result \in {"new", "running"} /\ version = 20 =>
           \A s \in 1 .. step : patch.steps[s].bytes <= MaxStep
    /\ result = "running" /\ version = 13 => ~TooMany
    /\ result \in {"decoded", "true"} => WithinLimits
Inv == Given /\ Working /\ Lengths /\ Emptied /\ Judged /\ Limited

LEMMA StartsCore ==
  ASSUME patch \in Patch13, out = <<>>, Core!CoreInit
  PROVE  Work13
<1> DEFINE C == patch.covers
<1>1. /\ C \in Seq(CoverRecord) /\ patch.size \in Nat /\ Len(patch.data) \in Nat
      /\ Len(patch.code) \in Nat /\ Len(C) \in Nat /\ patch.runs \in Seq(RunRecord)
  BY PatchIs13, CoverIs
<1>2. /\ pc = "cover" /\ after = "cover" /\ next = 1 /\ newBack = 0
      /\ cover = [old |-> 0, new |-> 0, len |-> 0] /\ cache = <<>> /\ pos = 0 /\ left = 0
      /\ run = [copy |-> 0, set |-> 0, val |-> 0]
      /\ read = [runs |-> 0, code |-> 0, data |-> 0]
  BY DEF Core!CoreInit
<1>3. NewEnd(C, 0) = 0 /\ NewBytesBelow(C, 0) = 0
  BY <1>1, NewEnds, BytesStep
<1>4. RunEnd(patch.runs, 0) = 0 /\ CodeUsed(patch.runs, 0) = 0 /\ Len(patch.runs) \in Nat
  BY <1>1, RunEnds, CodeEnds, RunIs
<1>5. Stage = "cover" /\ Laid = 0 /\ At = 0
  BY <1>2 DEF Stage, Laid, At
<1>6. Typed13
  BY <1>2 DEF Typed13
<1>7. Course13
  <2>1. next - 1 = 0 /\ next \in 1 .. Len(C) + 1
    BY <1>1, <1>2
  <2> QED
    BY <1>1, <1>2, <1>3, <1>5, <2>1 DEF Course13
<1>8. Passed13
  BY <1>2 DEF Passed13
<1>9. Data13
  BY <1>1, <1>2, <1>3, <1>5 DEF Data13
<1>10. Runs13
  BY <1>1, <1>2, <1>4, <1>5 DEF Runs13
<1>11. Content13
  BY <1>2 DEF Content13
<1> QED
  BY <1>6, <1>7, <1>8, <1>9, <1>10, <1>11 DEF Work13

LEMMA StartsSF ==
  ASSUME patch \in Patch20, out = <<>>, SF!SFInit(patch.count)
  PROVE  Work20
<1> DEFINE C == Used(patch)
<1>1. /\ C \in Seq(CoverRecord) /\ Len(C) \in Nat /\ patch.count \in Nat
      /\ Len(patch.steps) \in Nat /\ Len(patch.data) \in Nat
  BY UsedIs, PatchIs20
<1>2. /\ step = 0 /\ todo = <<>> /\ count = patch.count /\ oldEnd = 0 /\ newEnd = 0
      /\ rle = SF!Decoder(<<>>) /\ place = 0 /\ rest = 0 /\ io = <<>> /\ take = 0 /\ seen = 0
  BY DEF SF!SFInit
<1>3. NewEnd(C, 0) = 0 /\ OldEnd(C, 0) = 0 /\ NewBytesBelow(C, 0) = 0
  BY <1>1, NewEnds, OldEnds, BytesStep
<1>4. Done = 0
  BY <1>1, <1>2 DEF Done
<1>5. rle \in Decoders
  <2>1. <<>> \in Seq(Nat)
    OBVIOUS
  <2> QED
    BY <1>2, <2>1, NewDecoder
<1>6. Typed20
  BY <1>1, <1>2, <1>5 DEF Typed20
<1>7. Course20
  BY <1>1, <1>2, <1>3, <1>4 DEF Course20
<1>8. Passed20
  BY <1>4 DEF Passed20
<1>9. Data20 /\ Runs20
  BY <1>1, <1>2, <1>3 DEF Data20, Runs20
<1>10. Content20
  BY <1>2 DEF Content20
<1> QED
  BY <1>6, <1>7, <1>8, <1>9, <1>10 DEF Work20

LEMMA InvInit == Init => Inv
<1> SUFFICES ASSUME Init PROVE Inv
  OBVIOUS
<1>1. out = <<>> /\ result = "new" /\ Core!CoreInit /\ cache = <<>>
  BY DEF Init, Core!CoreInit
<1>2. Given
  BY InputsAssumption DEF Init, Given
<1>3. Working
  <2>1. CASE version = 13
    BY <1>1, <1>2, <2>1, StartsCore DEF Given, Working
  <2>2. CASE version = 20
    <3>1. SF!SFInit(patch.count)
      BY <2>2 DEF Init
    <3> QED
      BY <1>1, <1>2, <2>2, <3>1, StartsSF DEF Given, Working
  <2> QED
    BY <1>2, <2>1, <2>2 DEF Given
<1>4. Limited
  <2>1. version = 20 => step = 0
    BY DEF Init, SF!SFInit
  <2> QED
    BY <1>1, <2>1 DEF Limited
<1> QED
  BY <1>1, <1>2, <1>3, <1>4 DEF Inv, Lengths, Emptied, Judged

\* A step of the decoder of HDIFF13.
LEMMA CoreSteps ==
  ASSUME Inv, Decode13
  PROVE  /\ result = "running" /\ result' \in {"running", "error", "decoded"}
         /\ result' = "running" => Work13'
         /\ result' = "error" => ~Describes
         /\ result' = "decoded" => /\ Describes /\ out' = Patched13(patch, old) /\ cache' = <<>>
                                   /\ UNCHANGED out
<1>1. /\ version = 13 /\ patch \in Patch13 /\ old \in Seq(Bytes) /\ mapped \in BOOLEAN
      /\ UNCHANGED inputs /\ Core!CoreNext
  BY DEF Inv, Given, Decode13
<1>2. result = "running"
  BY <1>1 DEF Core!CoreNext, Core!Running, Core!NextCover, Core!BadCover, Core!Gap, Core!Tail13,
     Core!CopyOld, Core!PastOld, Core!SetRun, Core!CopyRun, Core!NextRun, Core!RunsReach,
     Core!Covered, Core!TailDone, Core!Finish13
<1>3. Work13 /\ Len(old) = patch.oldSize
  BY <1>1, <1>2 DEF Inv, Working, Lengths
<1>4. CASE Core!NextCover
  <2>1. result' = "running"
    BY <1>2, <1>4 DEF Core!NextCover
  <2> QED
    BY <1>1, <1>2, <1>3, <1>4, <2>1, NextCoverKeeps
<1>5. CASE Core!BadCover
  <2>1. result' = "error"
    BY <1>5 DEF Core!BadCover, Core!Fails
  <2> QED
    BY <1>1, <1>2, <1>3, <1>5, <2>1, BadCoverIsRight
<1>6. CASE Core!Gap
  <2>1. result' \in {"running", "error"}
    BY <1>2, <1>6 DEF Core!Gap, Core!CopyNew, Core!Fails
  <2> QED
    BY <1>1, <1>2, <1>3, <1>6, <2>1, GapKeeps, GapIsRight
<1>7. CASE Core!Tail13
  <2>1. result' \in {"running", "error"}
    BY <1>2, <1>7 DEF Core!Tail13, Core!CopyNew, Core!Fails
  <2> QED
    BY <1>1, <1>2, <1>3, <1>7, <2>1, TailKeeps, TailIsRight
<1>8. CASE Core!CopyOld
  <2>1. result' = "running"
    BY <1>2, <1>8 DEF Core!CopyOld
  <2> QED
    BY <1>1, <1>2, <1>3, <1>8, <2>1, CopyOldKeeps
<1>9. CASE Core!PastOld
  <2>1. result' = "error"
    BY <1>9 DEF Core!PastOld, Core!Fails
  <2> QED
    BY <1>1, <1>2, <1>3, <1>9, <2>1, PastOldIsRight
<1>10. CASE Core!SetRun
  <2>1. result' = "running"
    BY <1>2, <1>10 DEF Core!SetRun
  <2> QED
    BY <1>1, <1>2, <1>3, <1>10, <2>1, SetRunKeeps
<1>11. CASE Core!CopyRun
  <2>1. result' \in {"running", "error"}
    BY <1>2, <1>11 DEF Core!CopyRun, Core!Fails
  <2> QED
    BY <1>1, <1>2, <1>3, <1>11, <2>1, CopyRunKeeps, CopyRunIsRight
<1>12. CASE Core!NextRun
  <2>1. result' \in {"running", "error"}
    BY <1>2, <1>12 DEF Core!NextRun, Core!Fails
  <2> QED
    BY <1>1, <1>2, <1>3, <1>12, <2>1, NextRunKeeps, NextRunIsRight
<1>13. CASE Core!RunsReach
  <2>1. result' = "running"
    BY <1>2, <1>13 DEF Core!RunsReach
  <2> QED
    BY <1>1, <1>2, <1>3, <1>13, <2>1, RunsReachKeeps
<1>14. CASE Core!Covered
  <2>1. result' = "running"
    BY <1>2, <1>14 DEF Core!Covered
  <2> QED
    BY <1>1, <1>2, <1>3, <1>14, <2>1, CoveredKeeps
<1>15. CASE Core!TailDone
  <2>1. result' = "running"
    BY <1>2, <1>15 DEF Core!TailDone
  <2> QED
    BY <1>1, <1>2, <1>3, <1>15, <2>1, TailDoneKeeps
<1>16. CASE Core!Finish13
  <2>1. result' = "decoded" /\ cache' = cache /\ out' = out
    BY <1>16 DEF Core!Finish13, Core!core
  <2> QED
    BY <1>1, <1>2, <1>3, <1>16, <2>1, Finished13
<1> QED
  BY <1>1, <1>4, <1>5, <1>6, <1>7, <1>8, <1>9, <1>10, <1>11, <1>12, <1>13, <1>14, <1>15, <1>16
     DEF Core!CoreNext

\* A step of the decoder of HDIFF20.
LEMMA SFSteps ==
  ASSUME Inv, Decode20
  PROVE  /\ result = "running" /\ result' \in {"running", "error", "decoded"}
         /\ result' = "running" => Work20'
         /\ result' = "error" => ~(Describes /\ WithinLimits)
         /\ result' = "decoded" =>
               /\ UNCHANGED out
               /\ IF Len(out) <= patch.size THEN Describes /\ out = Patched20(patch, old)
                  ELSE ~Describes
<1>1. /\ version = 20 /\ patch \in Patch20 /\ old \in Seq(Bytes)
      /\ UNCHANGED inputs /\ SF!SFNext
  BY DEF Inv, Given, Decode20
<1>2. result = "running"
  BY <1>1 DEF SF!SFNext, SF!Running, SF!ReadStep, SF!ReadCover, SF!ReadZeros, SF!SkipCover,
     SF!FillBuffer, SF!AddZeros, SF!AddLiterals, SF!ReadLiterals, SF!EmptyBuffer, SF!Tail20,
     SF!Finish20, SF!AtStep, SF!AtCover, SF!Between
<1>3. Work20 /\ Len(old) = patch.oldSize
  BY <1>1, <1>2 DEF Inv, Working, Lengths
<1>4. CASE SF!ReadStep
  <2>1. result' \in {"running", "error"}
    BY <1>2, <1>4 DEF SF!ReadStep, SF!Fails
  <2> QED
    BY <1>1, <1>2, <1>3, <1>4, <2>1, ReadStepKeeps, NoStepIsRight
<1>5. CASE SF!ReadCover
  <2>1. result' \in {"running", "error"}
    BY <1>2, <1>5 DEF SF!ReadCover, SF!Fails
  <2> QED
    BY <1>1, <1>2, <1>3, <1>5, <2>1, ReadCoverKeeps, CoverFailsIsRight
<1>6. CASE SF!ReadZeros
  <2>1. result' \in {"running", "error"}
    BY <1>2, <1>6 DEF SF!ReadZeros, SF!Fails
  <2> QED
    BY <1>1, <1>2, <1>3, <1>6, <2>1, ReadZerosKeeps, RunsEndIsRight
<1>7. CASE SF!SkipCover
  <2>1. result' = "running"
    BY <1>2, <1>7 DEF SF!SkipCover
  <2> QED
    BY <1>1, <1>2, <1>3, <1>7, <2>1, SkipCoverKeeps
<1>8. CASE SF!FillBuffer
  <2>1. result' = "running"
    BY <1>2, <1>8 DEF SF!FillBuffer
  <2> QED
    BY <1>1, <1>2, <1>3, <1>8, <2>1, FillBufferKeeps
<1>9. CASE SF!AddZeros
  <2>1. result' = "running"
    BY <1>2, <1>9 DEF SF!AddZeros
  <2> QED
    BY <1>1, <1>2, <1>3, <1>9, <2>1, AddZerosKeeps
<1>10. CASE SF!AddLiterals
  <2>1. result' \in {"running", "error"}
    BY <1>2, <1>10 DEF SF!AddLiterals, SF!Fails
  <2> QED
    BY <1>1, <1>2, <1>3, <1>10, <2>1, AddLiteralsKeeps, RunsEndIsRight
<1>11. CASE SF!ReadLiterals
  <2>1. result' \in {"running", "error"}
    BY <1>2, <1>11 DEF SF!ReadLiterals, SF!Fails
  <2> QED
    BY <1>1, <1>2, <1>3, <1>11, <2>1, ReadLiteralsKeeps, RunsEndIsRight
<1>12. CASE SF!EmptyBuffer
  <2>1. result' = "running"
    BY <1>2, <1>12 DEF SF!EmptyBuffer
  <2> QED
    BY <1>1, <1>2, <1>3, <1>12, <2>1, EmptyBufferKeeps
<1>13. CASE SF!Tail20
  <2>1. result' \in {"running", "error"}
    BY <1>2, <1>13 DEF SF!Tail20, SF!Fails
  <2> QED
    BY <1>1, <1>2, <1>3, <1>13, <2>1, Tail20Keeps, TailShortIsRight
<1>14. CASE SF!Finish20
  <2>1. result' = "decoded" /\ out' = out
    BY <1>14 DEF SF!Finish20
  <2> QED
    BY <1>1, <1>2, <1>3, <1>14, <2>1, Finished20
<1> QED
  BY <1>1, <1>4, <1>5, <1>6, <1>7, <1>8, <1>9, <1>10, <1>11, <1>12, <1>13, <1>14 DEF SF!SFNext

\* No step that is too long is read.
LEMMA SFLimits ==
  ASSUME Inv, Decode20
  PROVE  /\ result' = "running" => \A s \in 1 .. step' : patch.steps[s].bytes <= MaxStep
         /\ result' = "decoded" => WithinLimits
<1>1. /\ version = 20 /\ patch \in Patch20 /\ SF!SFNext /\ result = "running"
  BY SFSteps DEF Inv, Given, Decode20
<1>2. /\ Work20 /\ step \in Nat /\ \A s \in 1 .. step : patch.steps[s].bytes <= MaxStep
  <2>1. Work20 /\ \A s \in 1 .. step : patch.steps[s].bytes <= MaxStep
    BY <1>1 DEF Inv, Working, Limited
  <2>2. step \in 0 .. Len(patch.steps)
    BY <2>1 DEF Work20, Typed20
  <2> QED
    BY <2>1, <2>2
<1>3. CASE SF!ReadStep
  <2>1. \/ step' = step
        \/ step' = step + 1 /\ patch.steps[step + 1].bytes <= MaxStep
    BY <1>3 DEF SF!ReadStep, SF!Fails, SF!sf
  <2>2. result' # "decoded"
    BY <1>1, <1>3 DEF SF!ReadStep, SF!Fails
  <2>3. CASE step' = step
    BY <1>2, <2>2, <2>3
  <2>4. CASE step' = step + 1 /\ patch.steps[step + 1].bytes <= MaxStep
    <3>1. \A s \in 1 .. step' : s \in 1 .. step \/ s = step + 1
      BY <1>2, <2>4
    <3> QED
      BY <1>2, <2>2, <2>4, <3>1
  <2> QED
    BY <2>1, <2>3, <2>4
<1>4. CASE ~SF!ReadStep
  <2>1. step' = step
    BY <1>1, <1>4 DEF SF!SFNext, SF!ReadCover, SF!ReadZeros, SF!SkipCover, SF!FillBuffer,
       SF!AddZeros, SF!AddLiterals, SF!ReadLiterals, SF!EmptyBuffer, SF!Tail20, SF!Finish20,
       SF!Fails, SF!sf
  <2>2. ASSUME result' = "decoded" PROVE WithinLimits
    <3>1. SF!Finish20
      BY <1>1, <1>4, <2>2 DEF SF!SFNext, SF!ReadCover, SF!ReadZeros, SF!SkipCover,
         SF!FillBuffer, SF!AddZeros, SF!AddLiterals, SF!ReadLiterals, SF!EmptyBuffer, SF!Tail20,
         SF!Fails
    <3>2. count = 0
      BY <3>1 DEF SF!Finish20
    <3>3. Done = patch.count
      BY <1>1, <3>2, PatchIs20 DEF Done
    <3>4. ASSUME NEW k \in 1 .. patch.count, NEW s \in 1 .. StepOf(patch, k)
          PROVE  patch.steps[s].bytes <= MaxStep
      <4>1. StepOf(patch, k) \in 1 .. step
        BY <1>1, <1>2, <3>3, StepsRead
      <4>2. s \in 1 .. step
        BY <1>2, <4>1
      <4> QED
        BY <1>2, <4>2
    <3> QED
      BY <1>1, <3>4 DEF WithinLimits
  <2> QED
    BY <1>2, <2>1, <2>2
<1> QED
  BY <1>3, <1>4

LEMMA InvNext == Inv /\ [Next]_vars => Inv'
<1> SUFFICES ASSUME Inv, [Next]_vars PROVE Inv'
  OBVIOUS
<1>1. CASE Start
  <2>1. /\ result = "new" /\ UNCHANGED <<version, patch, old, mapped, out, pc, after, next, cover,
                 newBack, cache, pos, left, run, read, step, todo, count, oldEnd, newEnd, rle,
                 place, rest, io, take, seen>>
        /\ \/ Len(old) = patch.oldSize /\ ~TooMany /\ result' = "running"
           \/ TooMany /\ result' = "error"
           \/ Len(old) # patch.oldSize /\ result' = "refused"
    BY <1>1 DEF Start, inputs, core13, sf20
  <2>2. Given' /\ Emptied'
    BY <2>1 DEF Inv, Given, Emptied
  <2>3. Working'
    <3>1. Work13' = Work13
      BY <2>1 DEF Work13, Typed13, Course13, Passed13, Data13, Runs13, Content13, Stage, Laid, At
    <3>2. Work20' = Work20
      BY <2>1 DEF Work20, Typed20, Course20, Passed20, Data20, Runs20, Content20, Done, Made,
                  First, Spent
    <3> QED
      BY <2>1, <3>1, <3>2 DEF Inv, Working
  <2>4. Lengths'
    BY <2>1 DEF Lengths
  <2>5. Judged'
    <3>1. /\ result' = "refused" => ~Describes
          /\ result' = "error" => ~WithinLimits
      BY <2>1 DEF Describes, TooMany, WithinLimits
    <3>2. Describes' = Describes /\ WithinLimits' = WithinLimits
      BY <2>1 DEF Describes, WithinLimits, TooMany
    <3> QED
      BY <2>1, <3>1, <3>2 DEF Judged
  <2>6. Limited'
    BY <2>1 DEF Inv, Limited, TooMany
  <2> QED
    BY <2>2, <2>3, <2>4, <2>5, <2>6 DEF Inv
<1>2. CASE Decode13
  <2>1. /\ version = 13 /\ UNCHANGED <<version, patch, old, mapped>>
    BY <1>2 DEF Decode13, inputs
  <2>2. /\ result = "running" /\ result' \in {"running", "error", "decoded"}
        /\ result' = "running" => Work13'
        /\ result' = "error" => ~Describes
        /\ result' = "decoded" => Describes /\ out' = Patched13(patch, old) /\ cache' = <<>>
    BY <1>2, CoreSteps
  <2>3. Describes' = Describes /\ WithinLimits' = WithinLimits
    BY <2>1 DEF Describes, WithinLimits, TooMany
  <2>4. Given' /\ Working' /\ Lengths' /\ Emptied'
    BY <2>1, <2>2 DEF Inv, Given, Working, Lengths, Emptied
  <2>5. Judged'
    <3>1. CASE result' = "decoded"
      <4>1. Describes' /\ out' = Patched13(patch, old)
        BY <2>2, <2>3, <3>1
      <4>2. Right'
        BY <2>1, <4>1 DEF Right
      <4>3. Len(out') <= patch'.size
        <5>1. patch.size \in Nat
          BY <2>1, PatchIs13 DEF Inv, Given
        <5>2. Len(Patched13(patch, old)) = patch.size
          BY <5>1 DEF Patched13
        <5> QED
          BY <2>1, <4>1, <5>1, <5>2
      <4> QED
        BY <3>1, <4>2, <4>3 DEF Judged
    <3>2. CASE result' # "decoded"
      BY <2>2, <2>3, <3>2 DEF Judged
    <3> QED
      BY <3>1, <3>2
  <2>6. Limited'
    <3>1. ~TooMany
      BY <2>1, <2>2 DEF Inv, Limited
    <3>2. WithinLimits /\ ~TooMany'
      BY <2>1, <3>1 DEF WithinLimits, TooMany
    <3> QED
      BY <2>1, <2>2, <2>3, <3>2 DEF Limited
  <2> QED
    BY <2>4, <2>5, <2>6 DEF Inv
<1>3. CASE Decode20
  <2>1. /\ version = 20 /\ UNCHANGED <<version, patch, old, mapped, cache>>
    BY <1>3 DEF Decode20, inputs, core13
  <2>2. /\ result = "running" /\ result' \in {"running", "error", "decoded"}
        /\ result' = "running" => Work20'
        /\ result' = "error" => ~(Describes /\ WithinLimits)
        /\ result' = "decoded" =>
              /\ out' = out
              /\ IF Len(out) <= patch.size THEN Describes /\ out = Patched20(patch, old)
                 ELSE ~Describes
    BY <1>3, SFSteps
  <2>3. Describes' = Describes /\ WithinLimits' = WithinLimits
    BY <2>1 DEF Describes, WithinLimits, TooMany
  <2>4. Given' /\ Working' /\ Lengths' /\ Emptied'
    BY <2>1, <2>2 DEF Inv, Given, Working, Lengths, Emptied
  <2>5. Judged'
    BY <2>1, <2>2, <2>3 DEF Judged, Right
  <2>6. Limited'
    <3>1. /\ result' = "running" => \A s \in 1 .. step' : patch.steps[s].bytes <= MaxStep
          /\ result' = "decoded" => WithinLimits
      BY <1>3, SFLimits
    <3> QED
      BY <2>1, <2>2, <2>3, <3>1 DEF Limited
  <2> QED
    BY <2>4, <2>5, <2>6 DEF Inv
<1>4. CASE Conclude
  <2>1. /\ result = "decoded" /\ UNCHANGED <<version, patch, old, mapped, out, cache>>
        /\ IF Len(out) <= patch.size THEN result' = "true" ELSE result' = "error"
    BY <1>4 DEF Conclude, inputs, core13
  <2>2. Describes' = Describes /\ Right' = Right /\ WithinLimits' = WithinLimits
    BY <2>1 DEF Describes, Right, WithinLimits, TooMany
  <2>3. Given' /\ Working' /\ Lengths' /\ Emptied'
    BY <2>1 DEF Inv, Given, Working, Lengths, Emptied
  <2>4. Judged' /\ Limited'
    BY <2>1, <2>2 DEF Inv, Judged, Limited
  <2> QED
    BY <2>3, <2>4 DEF Inv
<1>5. CASE UNCHANGED vars
  <2>1. UNCHANGED <<version, patch, old, mapped, out, result, pc, after, next, cover,
                 newBack, cache, pos, left, run, read, step, todo, count, oldEnd, newEnd, rle,
                 place, rest, io, take, seen>>
    BY <1>5 DEF vars, inputs, core13, sf20
  <2>2. Given' /\ Lengths' /\ Emptied'
    BY <2>1 DEF Inv, Given, Lengths, Emptied
  <2>3. Working'
    <3>1. Work13' = Work13
      BY <2>1 DEF Work13, Typed13, Course13, Passed13, Data13, Runs13, Content13, Stage, Laid, At
    <3>2. Work20' = Work20
      BY <2>1 DEF Work20, Typed20, Course20, Passed20, Data20, Runs20, Content20, Done, Made,
                  First, Spent
    <3> QED
      BY <2>1, <3>1, <3>2 DEF Inv, Working
  <2>4. Judged' /\ Limited'
    <3>1. Describes' = Describes /\ Right' = Right /\ WithinLimits' = WithinLimits
      BY <2>1 DEF Describes, Right, WithinLimits, TooMany
    <3>2. TooMany' = TooMany
      BY <2>1 DEF TooMany
    <3> QED
      BY <2>1, <3>1, <3>2 DEF Inv, Judged, Limited
  <2> QED
    BY <2>2, <2>3, <2>4 DEF Inv
<1> QED
  BY <1>1, <1>2, <1>3, <1>4, <1>5 DEF Next

LEMMA InvHolds == Spec => []Inv
BY InvInit, InvNext, PTL DEF Spec

(***************************************************************************)
(* apply (diff.rs) returns true exactly for the patches that describe a    *)
(* new file for the old one, and then that file was written, byte by byte, *)
(* whatever the patch, the old file and the lengths of the buffers.        *)
(***************************************************************************)
THEOREM AppliedIsRightHolds == Spec => []AppliedIsRight
<1>1. Inv => AppliedIsRight
  <2> SUFFICES ASSUME Inv, result \in {"true", "error", "refused"}
               PROVE  /\ (result = "true") = (Describes /\ WithinLimits)
                      /\ result = "true" =>
                             out = IF version = 20 THEN Patched20(patch, old)
                                   ELSE Patched13(patch, old)
    BY DEF AppliedIsRight
  <2>1. Judged /\ Limited
    BY DEF Inv
  <2>2. CASE result = "true"
    BY <2>1, <2>2 DEF Judged, Right, Limited
  <2>3. CASE result \in {"error", "refused"}
    BY <2>1, <2>3, Zenon DEF Judged
  <2> QED
    BY <2>2, <2>3
<1> QED
  BY <1>1, InvHolds, PTL

(***************************************************************************)
(* A patch that was decoded leaves an empty cache to CACHE_BUFFER_POOL     *)
(* (patch_core.rs), whatever the patch and the buffers.                    *)
(***************************************************************************)
THEOREM PoolIsCleanHolds == Spec => []PoolIsClean
<1>1. Inv => PoolIsClean
  BY DEF Inv, Emptied, PoolIsClean
<1> QED
  BY <1>1, InvHolds, PTL
=============================================================================
