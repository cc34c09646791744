----------------------------- MODULE ListLemmas -----------------------------
(* Lemmas about lists that the proofs of several components need: what a    *)
(* search returns, what an insertion or a removal leaves, and the offsets   *)
(* and the order of lists of ranges.                                        *)
EXTENDS Ranges, FiniteSetTheorems, SequenceTheorems, TLAPS

-----------------------------------------------------------------------------
(* Quotients and products *)

LEMMA Quotients ==
  ASSUME NEW x \in Nat, NEW y \in Nat \ {0}
  PROVE  /\ x \div y \in Nat /\ x % y \in Nat
         /\ x = y * (x \div y) + (x % y) /\ x % y < y
BY SMT

LEMMA QuotientBelow ==
  ASSUME NEW x \in Nat, NEW y \in Nat \ {0}, NEW q \in Nat, x < y * q
  PROVE  x \div y < q
BY SMT

LEMMA SmallKeeps ==
  ASSUME NEW x \in Nat, NEW m \in Nat, x < m
  PROVE  x % m = x
BY SMT

\* Products, which the provers do not multiply out under other operators.
LEMMA Products ==
  ASSUME NEW x \in Int, NEW y \in Int, NEW z \in Int
  PROVE  /\ x * y \in Int
         /\ x * y = y * x
         /\ x * (y + 1) = x * y + x
         /\ (x + 1) * y = x * y + y
         /\ (x - y) * z = x * z - y * z
         /\ (x + 1 - y) * z = x * z + z - y * z
BY SMT

LEMMA ProductsOrder ==
  ASSUME NEW x \in Nat, NEW y \in Nat, NEW z \in Nat
  PROVE  /\ x * y \in Nat
         /\ y <= z => x * y <= x * z
         /\ x > 0 /\ y < z => x * y < x * z
BY SMT

LEMMA LessFactor ==
  ASSUME NEW x \in Nat, NEW y \in Nat, NEW z \in Nat, NEW w \in Nat, x * y <= w, w < x * z
  PROVE  y < z
<1>1. z <= y => x * z <= x * y
  BY ProductsOrder
<1> QED BY <1>1, Products

-----------------------------------------------------------------------------
(* Sequences *)

\* A set of naturals that is not empty has a least element.
LEMMA LeastElement ==
  ASSUME NEW I \in SUBSET Nat, I # {}
  PROVE  \E m \in I : \A k \in I : m <= k
<1> DEFINE R == StrictSubsetOrdering(Nat)
           T == {0..k : k \in I}
<1>1. IsWellFoundedOn(R, FiniteSubsetsOf(Nat))
  BY FS_StrictSubsetOrderingWellFounded
<1>2. T \subseteq FiniteSubsetsOf(Nat) /\ T # {}
  <2>1. ASSUME NEW k \in I
        PROVE  0..k \in FiniteSubsetsOf(Nat)
    <3>1. 0..k \in SUBSET Nat
      OBVIOUS
    <3>2. IsFiniteSet(0..k)
      BY FS_Interval
    <3> QED BY <3>1, <3>2 DEF FiniteSubsetsOf
  <2> QED BY <2>1
<1>3. PICK x \in T : \A y \in T : ~(<<y, x>> \in R)
  <2> HIDE DEF T, R
  <2> QED BY <1>1, <1>2, WFMin
<1>4. PICK m \in I : x = 0..m
  OBVIOUS
<1>5. ASSUME NEW k \in I, k < m
      PROVE  FALSE
  <2>1. 0..k \in T /\ 0..m \in T
    OBVIOUS
  <2>2. 0..k \subseteq 0..m /\ m \notin 0..k /\ m \in 0..m
    BY <1>5
  <2>3. <<0..k, 0..m>> \in R
    BY <2>2 DEF StrictSubsetOrdering
  <2> QED BY <1>3, <1>4, <2>1, <2>3
<1> QED BY <1>5

\* A set of positions of a list that is not empty has a greatest one.
LEMMA GreatestElement ==
  ASSUME NEW n \in Nat, NEW I \in SUBSET (1..n), I # {}
  PROVE  \E m \in I : \A k \in I : k <= m
<1> DEFINE J == {n - k : k \in I}
<1>1. J \in SUBSET Nat /\ J # {}
  <2>1. \A k \in I : n - k \in Nat
    OBVIOUS
  <2>2. J \subseteq Nat
    BY <2>1, Zenon
  <2>3. J # {}
    BY Zenon
  <2> QED BY <2>2, <2>3
<1>2. PICK d \in J : \A k \in J : d <= k
  <2> HIDE DEF J
  <2> QED BY <1>1, LeastElement
<1>3. PICK m \in I : d = n - m
  BY <1>2
<1>4. ASSUME NEW k \in I
      PROVE  k <= m
  <2>1. n - k \in J
    BY Zenon
  <2>2. n - m <= n - k
    BY <1>2, <1>3, <2>1, Zenon
  <2>3. k \in 1..n /\ m \in 1..n
    OBVIOUS
  <2> QED BY <2>2, <2>3
<1> QED BY <1>4

\* What is left when the element at position k is removed.
LEMMA RemoveAtProperties ==
  ASSUME NEW S, NEW s \in Seq(S), NEW k \in 1..Len(s)
  PROVE  /\ RemoveAt(s, k) \in Seq(S)
         /\ Len(RemoveAt(s, k)) = Len(s) - 1
         /\ \A j \in 1..(Len(s) - 1) : RemoveAt(s, k)[j] = IF j < k THEN s[j] ELSE s[j + 1]
<1> DEFINE a == SubSeq(s, 1, k - 1)
           b == SubSeq(s, k + 1, Len(s))
<1>1. a \in Seq(S) /\ Len(a) = k - 1 /\ \A j \in 1..(k - 1) : a[j] = s[j]
  OBVIOUS
<1>2. b \in Seq(S) /\ Len(b) = Len(s) - k /\ \A j \in 1..(Len(s) - k) : b[j] = s[j + k]
  OBVIOUS
<1>3. RemoveAt(s, k) = a \o b
  BY DEF RemoveAt
<1> HIDE DEF a, b
<1>4. /\ a \o b \in Seq(S)
      /\ Len(a \o b) = Len(a) + Len(b)
      /\ \A j \in 1..(Len(a) + Len(b)) :
            (a \o b)[j] = IF j <= Len(a) THEN a[j] ELSE b[j - Len(a)]
  <2>1. a \in Seq(S) /\ b \in Seq(S)
    BY <1>1, <1>2
  <2> QED BY <2>1, ConcatProperties
<1>5. Len(s) \in Nat /\ Len(a) = k - 1 /\ Len(b) = Len(s) - k
  BY <1>1, <1>2
<1>6. ASSUME NEW j \in 1..(Len(s) - 1)
      PROVE  (a \o b)[j] = IF j < k THEN s[j] ELSE s[j + 1]
  <2>1. j \in 1..(Len(a) + Len(b)) /\ (j <= Len(a) <=> j < k)
    BY <1>5
  <2>2. (a \o b)[j] = IF j < k THEN a[j] ELSE b[j - (k - 1)]
    BY <1>4, <1>5, <2>1
  <2>3. CASE j < k
    BY <1>1, <2>2, <2>3
  <2>4. CASE ~(j < k)
    <3>1. j - (k - 1) \in 1..(Len(s) - k) /\ (j - (k - 1)) + k = j + 1
      BY <1>5, <2>4
    <3> QED BY <1>2, <2>2, <2>4, <3>1
  <2> QED BY <2>3, <2>4
<1> QED BY <1>3, <1>4, <1>5, <1>6

\* An element inserted at position k.
LEMMA InsertAtProperties ==
  ASSUME NEW S, NEW s \in Seq(S), NEW e \in S, NEW k \in 1..(Len(s) + 1)
  PROVE  /\ InsertAt(s, k, e) \in Seq(S)
         /\ Len(InsertAt(s, k, e)) = Len(s) + 1
         /\ \A j \in 1..(Len(s) + 1) :
               InsertAt(s, k, e)[j] = IF j < k THEN s[j] ELSE IF j = k THEN e ELSE s[j - 1]
<1> DEFINE a == SubSeq(s, 1, k - 1)
           b == SubSeq(s, k, Len(s))
<1>1. a \in Seq(S) /\ Len(a) = k - 1 /\ \A j \in 1..(k - 1) : a[j] = s[j]
  OBVIOUS
<1>2. /\ b \in Seq(S) /\ Len(b) = Len(s) - k + 1
      /\ \A j \in 1..(Len(s) - k + 1) : b[j] = s[j + k - 1]
  BY SMTT(30)
<1>3. InsertAt(s, k, e) = a \o <<e>> \o b
  BY DEF InsertAt
<1> HIDE DEF a, b
<1> PICK one : one = a \o <<e>>
  OBVIOUS
<1>4. /\ one \in Seq(S) /\ Len(one) = k
      /\ \A j \in 1..(k - 1) : one[j] = s[j]
      /\ one[k] = e
  <2>1. one = Append(a, e)
    BY <1>1
  <2> QED BY <1>1, <2>1
<1> PICK all : all = one \o b
  OBVIOUS
<1>5. /\ all \in Seq(S) /\ Len(all) = Len(one) + Len(b)
      /\ \A j \in 1..(Len(one) + Len(b)) :
            all[j] = IF j <= Len(one) THEN one[j] ELSE b[j - Len(one)]
  <2>1. one \in Seq(S) /\ b \in Seq(S)
    BY <1>2, <1>4
  <2> QED BY <2>1, ConcatProperties
<1>6. Len(all) = Len(s) + 1 /\ Len(s) \in Nat
  BY SMTT(30), <1>2, <1>4, <1>5
<1>7. ASSUME NEW j \in 1..(Len(s) + 1)
      PROVE  all[j] = IF j < k THEN s[j] ELSE IF j = k THEN e ELSE s[j - 1]
  <2>1. all[j] = IF j <= k THEN one[j] ELSE b[j - k]
    BY <1>4, <1>5, <1>6
  <2>2. CASE j <= k
    BY <1>4, <2>1, <2>2
  <2>3. CASE ~(j <= k)
    <3>1. j - k \in 1..(Len(s) - k + 1) /\ (j - k) + k - 1 = j - 1
      BY <1>6, <2>3
    <3>2. ~(j < k) /\ j # k
      BY <1>6, <2>3
    <3> QED BY <1>2, <2>1, <2>3, <3>1, <3>2
  <2> QED BY <2>2, <2>3
<1> QED BY <1>3, <1>5, <1>6, <1>7

\* What is left behind the first k - 1 elements.
LEMMA RestProperties ==
  ASSUME NEW S, NEW s \in Seq(S), NEW k \in 1..(Len(s) + 1)
  PROVE  Rest(s, k) \in Seq(S) /\ Len(Rest(s, k)) = Len(s) - k + 1
BY DEF Rest

LEMMA FrontProperties ==
  ASSUME NEW S, NEW s \in Seq(S), s # <<>>
  PROVE  /\ Len(s) \in 1..Len(s) /\ Len(s) \in Nat
         /\ Front(s) \in Seq(S) /\ Len(Front(s)) = Len(s) - 1
         /\ \A k \in 1..(Len(s) - 1) : Front(s)[k] = s[k]
<1>1. Len(s) \in 1..Len(s) /\ Len(s) \in Nat
  OBVIOUS
<1>2. PICK n \in Nat : Len(s) = n + 1
  BY <1>1
<1>3. /\ SubSeq(s, 1, n) \in Seq(S) /\ Len(SubSeq(s, 1, n)) = n
      /\ \A k \in 1..n : SubSeq(s, 1, n)[k] = s[k]
  BY <1>2
<1>4. Front(s) = SubSeq(s, 1, n) /\ Len(s) - 1 = n
  BY <1>2 DEF Front
<1> QED BY <1>1, <1>3, <1>4

-----------------------------------------------------------------------------
(* Lists of ranges *)

LEMMA RangeTyped ==
  ASSUME NEW a \in Int, NEW b \in Int
  PROVE  /\ Interval(a, b) \in RangeType
         /\ Interval(a, b).start = a
         /\ Interval(a, b).end = b
BY DEF Interval, RangeType

LEMMA ElementTyped ==
  ASSUME NEW rl \in Seq(RangeType), NEW k \in 1..Len(rl)
  PROVE  rl[k] \in RangeType /\ rl[k].start \in Int /\ rl[k].end \in Int
<1>1. rl[k] \in RangeType
  OBVIOUS
<1> QED BY <1>1 DEF RangeType

LEMMA InOffsets ==
  ASSUME NEW rl \in Seq(RangeType), NEW x
  PROVE  x \in Offsets(rl) <=> \E k \in 1..Len(rl) : x \in rl[k].start..rl[k].end
BY DOMAIN rl = 1..Len(rl) DEF Offsets

LEMMA InApart ==
  ASSUME NEW rl \in Seq(RangeType), NEW gap \in Nat
  PROVE  Apart(rl, gap) <=> /\ \A k \in 1..Len(rl) : rl[k].start <= rl[k].end
                            /\ \A k, l \in 1..Len(rl) :
                                  k < l => rl[k].end + gap < rl[l].start
BY DOMAIN rl = 1..Len(rl) DEF Apart

LEMMA Appended ==
  ASSUME NEW rl \in Seq(RangeType), NEW r \in RangeType
  PROVE  /\ Append(rl, r) \in Seq(RangeType)
         /\ Len(Append(rl, r)) = Len(rl) + 1
         /\ \A k \in 1..Len(rl) : Append(rl, r)[k] = rl[k]
         /\ Append(rl, r)[Len(rl) + 1] = r
OBVIOUS

\* A range behind a list adds its offsets.
LEMMA OffsetsAppend ==
  ASSUME NEW rl \in Seq(RangeType), NEW r \in RangeType
  PROVE  Offsets(Append(rl, r)) = Offsets(rl) \cup (r.start..r.end)
<1> DEFINE al == Append(rl, r)
<1>1. al \in Seq(RangeType) /\ Len(al) = Len(rl) + 1 /\ Len(rl) \in Nat
  BY Appended
<1>2. ASSUME NEW x
      PROVE  x \in Offsets(al) <=> x \in Offsets(rl) \/ x \in r.start..r.end
  <2>1. x \in Offsets(al) <=> \E k \in 1..Len(al) : x \in al[k].start..al[k].end
    BY <1>1, InOffsets
  <2>2. x \in Offsets(rl) <=> \E k \in 1..Len(rl) : x \in rl[k].start..rl[k].end
    BY InOffsets
  <2>3. 1..Len(al) = 1..Len(rl) \cup {Len(rl) + 1}
    BY <1>1
  <2> QED BY <2>1, <2>2, <2>3, Appended
<1> QED BY <1>2

\* A range with a gap before it keeps a normal list normal.
LEMMA NormalAppend ==
  ASSUME NEW rl \in Seq(RangeType), NEW r \in RangeType, Normal(rl),
         r.start <= r.end,
         \A k \in 1..Len(rl) : rl[k].end + 1 < r.start
  PROVE  Normal(Append(rl, r))
<1> DEFINE al == Append(rl, r)
<1>1. /\ al \in Seq(RangeType) /\ Len(al) = Len(rl) + 1 /\ Len(rl) \in Nat
      /\ \A k \in 1..Len(rl) : al[k] = rl[k]
      /\ al[Len(rl) + 1] = r
  BY Appended
<1>2. /\ \A k \in 1..Len(rl) : rl[k].start <= rl[k].end
      /\ \A k, l \in 1..Len(rl) : k < l => rl[k].end + 1 < rl[l].start
  BY InApart DEF Normal
<1>3. \A k \in 1..Len(al) : al[k].start <= al[k].end
  BY <1>1, <1>2
<1>4. ASSUME NEW k \in 1..Len(al), NEW l \in 1..Len(al), k < l
      PROVE  al[k].end + 1 < al[l].start
  <2>1. k \in 1..Len(rl)
    BY <1>1, <1>4
  <2>2. CASE l \in 1..Len(rl)
    BY <1>1, <1>2, <1>4, <2>1, <2>2
  <2>3. CASE l = Len(rl) + 1
    BY <1>1, <2>1, <2>3
  <2> QED BY <1>1, <2>2, <2>3
<1> QED BY <1>1, <1>3, <1>4, InApart DEF Normal

LEMMA EmptyList ==
  /\ <<>> \in Seq(RangeType) /\ Offsets(<<>>) = {} /\ Normal(<<>>)
<1>1. DOMAIN <<>> = {}
  OBVIOUS
<1>2. Offsets(<<>>) = {}
  BY <1>1 DEF Offsets
<1>3. Normal(<<>>)
  BY <1>1 DEF Normal, Apart
<1> QED BY <1>2, <1>3

\* The binary search passes over the ranges that end before x - 1.
LEMMA SearchIs ==
  ASSUME NEW rl \in Seq(RangeType), NEW x \in Int
  PROVE  /\ Search(rl, x) \in 1..(Len(rl) + 1)
         /\ \A k \in 1..(Search(rl, x) - 1) : rl[k].end + 1 < x
<1> DEFINE I == {k \in 1..Len(rl) : rl[k].end + 1 >= x}
<1>1. Len(rl) \in Nat /\ \A k \in 1..Len(rl) : rl[k].end \in Int
  BY ElementTyped
<1>2. CASE I # {}
  <2>1. PICK m \in I : \A k \in I : m <= k
    <3>1. I \in SUBSET Nat
      OBVIOUS
    <3> HIDE DEF I
    <3> QED BY <1>2, <3>1, LeastElement
  <2>2. Min(I) = m /\ m \in 1..Len(rl)
    BY <2>1 DEF Min
  <2>3. Search(rl, x) = m
    BY <1>2, <2>2 DEF Search, SelectInSeq
  <2>4. ASSUME NEW k \in 1..(m - 1) PROVE rl[k].end + 1 < x
    <3>1. k \in 1..Len(rl) /\ k \notin I
      BY <1>1, <2>1, <2>2
    <3> QED BY SMTT(30), <1>1, <3>1
  <2> QED BY <1>1, <2>2, <2>3, <2>4
<1>3. CASE I = {}
  <2>1. Search(rl, x) = Len(rl) + 1
    BY <1>3 DEF Search, SelectInSeq
  <2> QED BY SMTT(30), <1>1, <1>3, <2>1
<1> QED BY <1>2, <1>3

\* In a normal list, offsets that follow one another lie in one range.
LEMMA InOneRange ==
  ASSUME NEW rl \in Seq(RangeType), Normal(rl), NEW a \in Int, NEW b \in Int, a <= b,
         a..b \subseteq Offsets(rl)
  PROVE  \E k \in 1..Len(rl) : rl[k].start <= a /\ b <= rl[k].end
<1>1. PICK k \in 1..Len(rl) : a \in rl[k].start..rl[k].end
  BY InOffsets
<1>2. rl[k].start \in Int /\ rl[k].end \in Int
  BY ElementTyped
<1>3. ASSUME rl[k].end < b PROVE FALSE
  <2>1. rl[k].end + 1 \in a..b
    BY <1>1, <1>2, <1>3
  <2>2. PICK m \in 1..Len(rl) : rl[k].end + 1 \in rl[m].start..rl[m].end
    BY <2>1, InOffsets
  <2>3. rl[m].start \in Int /\ rl[m].end \in Int
    BY ElementTyped
  <2>4. CASE m = k
    BY <1>2, <2>2, <2>4
  <2>5. CASE k < m
    <3>1. rl[k].end + 1 < rl[m].start
      BY <2>5, InApart DEF Normal
    <3> QED BY SMTT(30), <1>2, <2>2, <2>3, <3>1
  <2>6. CASE m < k
    <3>1. rl[m].end + 1 < rl[k].start /\ rl[k].start <= rl[k].end
      BY <2>6, InApart DEF Normal
    <3> QED BY SMTT(30), <1>2, <2>2, <2>3, <3>1
  <2> QED BY <2>4, <2>5, <2>6
<1> QED BY <1>1, <1>2, <1>3

-----------------------------------------------------------------------------
(* Flatten *)

\* A list as flatten can put it in order: of two ranges, none empty, the second
\* neither starts nor ends before the first.
Stairs(rl) ==
  /\ \A k \in 1..Len(rl) : rl[k].start <= rl[k].end
  /\ \A k, l \in 1..Len(rl) : k < l => rl[k].start <= rl[l].start /\ rl[k].end <= rl[l].end

LEMMA InOrder ==
  ASSUME NEW rl \in Seq(RangeType), Apart(rl, 0),
         NEW k \in 1..Len(rl), NEW l \in 1..Len(rl), k < l
  PROVE  /\ rl[k].start <= rl[k].end /\ rl[k].end < rl[l].start
         /\ rl[k].start < rl[l].start /\ rl[k].end < rl[l].end
<1> PICK a, b, c, d \in Int :
       rl[k].start = a /\ rl[k].end = b /\ rl[l].start = c /\ rl[l].end = d
  BY ElementTyped
<1>1. a <= b /\ b + 0 < c /\ c <= d
  BY InApart
<1> QED BY <1>1

LEMMA ApartStairs ==
  ASSUME NEW rl \in Seq(RangeType), Apart(rl, 0)
  PROVE  Stairs(rl)
<1>1. \A k \in 1..Len(rl) : rl[k].start <= rl[k].end
  BY InApart
<1>2. ASSUME NEW k \in 1..Len(rl), NEW l \in 1..Len(rl), k < l
      PROVE  rl[k].start <= rl[l].start /\ rl[k].end <= rl[l].end
  <2> PICK a, b, c, d \in Int :
         rl[k].start = a /\ rl[k].end = b /\ rl[l].start = c /\ rl[l].end = d
    BY ElementTyped
  <2>1. a < c /\ b < d
    BY <1>2, InOrder
  <2> QED BY <2>1
<1> QED BY <1>1, <1>2 DEF Stairs

\* Such a list is sorted already.
LEMMA SortedStairs ==
  ASSUME NEW rl \in Seq(RangeType), Stairs(rl)
  PROVE  Sorted(rl) = rl
<1> DEFINE before(k) == {m \in DOMAIN rl : \/ rl[m].start < rl[k].start
                                           \/ rl[m].start = rl[k].start /\ m < k}
<1>1. PICK n \in Nat : n = Len(rl) /\ DOMAIN rl = 1..n
  OBVIOUS
<1>2. ASSUME NEW k \in 1..n
      PROVE  Cardinality(before(k)) = k - 1
  <2>1. ASSUME NEW m \in 1..n
        PROVE  m \in before(k) <=> m < k
    <3>1. /\ m < k => rl[m].start <= rl[k].start
          /\ k < m => rl[k].start <= rl[m].start
      BY <1>1 DEF Stairs
    <3>2. m < k \/ m = k \/ k < m
      BY <1>1
    <3>3. m \in before(k) <=> \/ rl[m].start < rl[k].start
                              \/ rl[m].start = rl[k].start /\ m < k
      BY <1>1
    <3>4. PICK a, b \in Int : rl[m].start = a /\ rl[k].start = b
      BY <1>1, ElementTyped
    <3> HIDE DEF before
    <3> QED BY <1>1, <3>1, <3>2, <3>3, <3>4
  <2>2. before(k) = 1..(k - 1)
    <3>1. before(k) \subseteq 1..n
      BY <1>1
    <3>2. \A m : m \in 1..(k - 1) <=> m \in 1..n /\ m < k
      BY <1>1
    <3> HIDE DEF before
    <3> QED BY <2>1, <3>1, <3>2
  <2>3. Cardinality(1..(k - 1)) = k - 1
    <3>1. 1 \in Int /\ k - 1 \in Int /\ (1 > k - 1 => k - 1 = 0) /\ (k - 1) - 1 + 1 = k - 1
      BY <1>1
    <3>2. Cardinality(1..(k - 1)) = IF 1 > k - 1 THEN 0 ELSE (k - 1) - 1 + 1
      BY <3>1, FS_Interval
    <3> QED BY <3>1, <3>2
  <2> QED BY <2>2, <2>3
<1>3. Sorted(rl) = [p \in 1..n |-> rl[CHOOSE k \in 1..n : Cardinality(before(k)) = p - 1]]
  BY <1>1 DEF Sorted
<1>4. ASSUME NEW p \in 1..n
      PROVE  (CHOOSE k \in 1..n : Cardinality(before(k)) = p - 1) = p
  <2> HIDE DEF before
  <2>1. \E k \in 1..n : Cardinality(before(k)) = p - 1
    BY <1>2
  <2>2. \A k \in 1..n : Cardinality(before(k)) = p - 1 => k = p
    BY <1>2
  <2> QED BY <2>1, <2>2
<1>5. rl = [p \in 1..n |-> rl[p]]
  BY <1>1
<1> HIDE DEF before
<1> QED BY <1>3, <1>4, <1>5

\* The recursion that merges neighbours has a solution, from the last range on.
LEMMA MergedIs ==
  ASSUME NEW rl \in Seq(RangeType)
  PROVE  Merged(rl) = [k \in 1..(Len(rl) + 1) |->
                         IF k > Len(rl) THEN <<>> ELSE MergeFront(rl[k], Merged(rl)[k + 1])]
<1>1. PICK n \in Nat : n = Len(rl)
  OBVIOUS
<1> DEFINE Step(f, k) == IF k > n THEN <<>> ELSE MergeFront(rl[k], f[k + 1])
           Solves(f, d) == f = [k \in (n + 1 - d)..(n + 1) |-> Step(f, k)]
           I == {d \in 0..n : ~ \E f : Solves(f, d)}
<1>2. I = {}
  <2> SUFFICES ASSUME I # {} PROVE FALSE
    OBVIOUS
  <2>1. PICK d \in I : \A e \in I : d <= e
    <3>1. I \in SUBSET Nat
      OBVIOUS
    <3> HIDE DEF I
    <3> QED BY <3>1, LeastElement
  <2>2. d \in 0..n /\ ~ \E f : Solves(f, d)
    BY <2>1
  <2>3. CASE d = 0
    <3> DEFINE f == [k \in (n + 1)..(n + 1) |-> <<>>]
    <3>1. Solves(f, 0)
      OBVIOUS
    <3> HIDE DEF f, Solves
    <3> QED BY <2>2, <2>3, <3>1
  <2>4. CASE d # 0
    <3>1. d - 1 \in 0..n /\ d - 1 \notin I
      <4> HIDE DEF I, Solves
      <4> QED BY <2>1, <2>2, <2>4
    <3>2. PICK f : Solves(f, d - 1)
      <4> HIDE DEF Solves
      <4> QED BY <3>1
    <3>3. PICK a \in 1..n : a = n + 1 - d
      BY <2>2, <2>4
    <3>4. f = [k \in (a + 1)..(n + 1) |-> Step(f, k)]
      <4>1. n + 1 - (d - 1) = a + 1
        BY <2>2, <3>3
      <4> QED BY <3>2, <4>1
    <3> DEFINE g == [k \in a..(n + 1) |-> IF k = a THEN MergeFront(rl[a], f[a + 1]) ELSE f[k]]
    <3>5. ASSUME NEW k \in a..(n + 1)
          PROVE  g[k] = Step(g, k)
      <4>1. CASE k = a
        <5>1. g[a + 1] = f[a + 1] /\ ~(a > n) /\ g[a] = MergeFront(rl[a], f[a + 1])
          BY <3>3
        <5> HIDE DEF g
        <5> QED BY <4>1, <5>1
      <4>2. CASE k # a
        <5>1. k \in (a + 1)..(n + 1) /\ g[k] = f[k]
          BY <3>3, <4>2
        <5>2. f[k] = Step(f, k)
          BY <3>4, <5>1
        <5>3. ~(k > n) => k + 1 \in a..(n + 1) /\ k + 1 # a
          BY SMTT(30), <3>3, <5>1
        <5>4. ~(k > n) => g[k + 1] = f[k + 1]
          BY <5>3
        <5> HIDE DEF g
        <5> QED BY <5>1, <5>2, <5>4
      <4> QED BY <4>1, <4>2
    <3>6. g = [k \in a..(n + 1) |-> g[k]]
      OBVIOUS
    <3>7. Solves(g, d)
      <4> HIDE DEF g
      <4> QED BY <3>3, <3>5, <3>6
    <3> HIDE DEF g, Solves
    <3> QED BY <2>2, <3>7
  <2> QED BY <2>3, <2>4
<1>3. \E f : f = [k \in 1..(n + 1) |-> IF k > n THEN <<>> ELSE MergeFront(rl[k], f[k + 1])]
  <2>1. n \in 0..n /\ n + 1 - n = 1
    BY <1>1
  <2>2. \E f : Solves(f, n)
    <3> HIDE DEF Solves
    <3> QED BY <1>2, <2>1
  <2> QED BY <2>1, <2>2
<1>4. Merged(rl) = CHOOSE f : f = [k \in 1..(n + 1) |->
                                     IF k > n THEN <<>> ELSE MergeFront(rl[k], f[k + 1])]
  BY <1>1 DEF Merged
<1> HIDE DEF Step, Solves, I
<1> QED BY <1>1, <1>3, <1>4

\* A range put before a list.
LEMMA Prepended ==
  ASSUME NEW list \in Seq(RangeType), NEW r \in RangeType
  PROVE  /\ <<r>> \o list \in Seq(RangeType)
         /\ Len(<<r>> \o list) = Len(list) + 1
         /\ (<<r>> \o list)[1] = r
         /\ \A k \in 1..Len(list) : (<<r>> \o list)[k + 1] = list[k]
         /\ Offsets(<<r>> \o list) = (r.start..r.end) \cup Offsets(list)
<1> PICK one : one = <<r>>
  OBVIOUS
<1>1. one \in Seq(RangeType) /\ Len(one) = 1 /\ one[1] = r
  OBVIOUS
<1> PICK al : al = one \o list
  OBVIOUS
<1>2. /\ al \in Seq(RangeType) /\ Len(list) \in Nat
      /\ Len(al) = Len(one) + Len(list)
      /\ \A k \in 1..(Len(one) + Len(list)) :
            al[k] = IF k <= Len(one) THEN one[k] ELSE list[k - Len(one)]
  BY <1>1, ConcatProperties
<1>3. Len(al) = Len(list) + 1 /\ al[1] = r
  BY <1>1, <1>2
<1>4. ASSUME NEW k \in 1..Len(list) PROVE al[k + 1] = list[k]
  <2>1. k + 1 \in 1..(1 + Len(list)) /\ ~(k + 1 <= 1) /\ (k + 1) - 1 = k
    BY <1>2
  <2> QED BY <1>1, <1>2, <2>1
<1>5. ASSUME NEW x
      PROVE  x \in Offsets(al) <=> x \in r.start..r.end \/ x \in Offsets(list)
  <2>1. x \in Offsets(al) <=> \E k \in 1..Len(al) : x \in al[k].start..al[k].end
    BY <1>2, InOffsets
  <2>2. x \in Offsets(list) <=> \E k \in 1..Len(list) : x \in list[k].start..list[k].end
    BY InOffsets
  <2>3. \A k \in 1..Len(al) : k # 1 => k - 1 \in 1..Len(list) /\ al[k] = list[k - 1]
    <3> SUFFICES ASSUME NEW k \in 1..Len(al), k # 1
                 PROVE  k - 1 \in 1..Len(list) /\ al[k] = list[k - 1]
      OBVIOUS
    <3>1. k - 1 \in 1..Len(list) /\ (k - 1) + 1 = k
      BY <1>2, <1>3
    <3> QED BY <1>4, <3>1
  <2>4. 1 \in 1..Len(al) /\ \A k \in 1..Len(list) : k + 1 \in 1..Len(al)
    BY <1>2, <1>3
  <2> QED BY <1>3, <1>4, <2>1, <2>2, <2>3, <2>4
<1> QED BY <1>2, <1>3, <1>4, <1>5

LEMMA NormalPrepend ==
  ASSUME NEW list \in Seq(RangeType), NEW r \in RangeType, Normal(list),
         r.start <= r.end,
         \A k \in 1..Len(list) : r.end + 1 < list[k].start
  PROVE  Normal(<<r>> \o list)
<1> PICK al : al = <<r>> \o list
  OBVIOUS
<1>1. /\ al \in Seq(RangeType) /\ Len(al) = Len(list) + 1 /\ Len(list) \in Nat
      /\ al[1] = r /\ \A k \in 1..Len(list) : al[k + 1] = list[k]
  BY Prepended
<1>2. /\ \A k \in 1..Len(list) : list[k].start <= list[k].end
      /\ \A k, l \in 1..Len(list) : k < l => list[k].end + 1 < list[l].start
  BY InApart DEF Normal
<1>3. ASSUME NEW k \in 1..Len(al)
      PROVE  \/ k = 1 /\ al[k] = r
             \/ \E m \in 1..Len(list) : k = m + 1 /\ al[k] = list[m]
  <2>1. k = 1 \/ (k - 1 \in 1..Len(list) /\ (k - 1) + 1 = k)
    BY <1>1
  <2> QED BY <1>1, <2>1
<1>4. \A k \in 1..Len(al) : al[k].start <= al[k].end
  BY <1>2, <1>3
<1>5. ASSUME NEW k \in 1..Len(al), NEW l \in 1..Len(al), k < l
      PROVE  al[k].end + 1 < al[l].start
  <2>1. PICK b \in 1..Len(list) : l = b + 1 /\ al[l] = list[b]
    BY <1>1, <1>3, <1>5
  <2>2. CASE k = 1
    BY <1>1, <2>1, <2>2
  <2>3. CASE \E a \in 1..Len(list) : k = a + 1 /\ al[k] = list[a]
    <3>1. PICK a \in 1..Len(list) : k = a + 1 /\ al[k] = list[a]
      BY <2>3
    <3>2. a < b
      BY <1>1, <1>5, <2>1, <3>1
    <3> QED BY <1>2, <2>1, <3>1, <3>2
  <2> QED BY <1>3, <2>2, <2>3
<1> QED BY <1>1, <1>4, <1>5, InApart DEF Normal

LEMMA MergeFrontIs ==
  ASSUME NEW list \in Seq(RangeType), NEW r \in RangeType, Normal(list),
         r.start <= r.end,
         list # <<>> => r.start <= list[1].start /\ r.end <= list[1].end
  PROVE  /\ MergeFront(r, list) \in Seq(RangeType)
         /\ Normal(MergeFront(r, list))
         /\ Offsets(MergeFront(r, list)) = (r.start..r.end) \cup Offsets(list)
         /\ MergeFront(r, list) # <<>>
         /\ MergeFront(r, list)[1].start = r.start
         /\ r.end <= MergeFront(r, list)[1].end
<1> PICK a, b \in Int : r.start = a /\ r.end = b /\ a <= b
  BY DEF RangeType
<1>1. Len(list) \in Nat
  OBVIOUS
<1>2. CASE list # <<>> /\ list[1].start <= b + 1
  <2>1. 1 \in 1..Len(list)
    BY <1>1, <1>2
  <2> PICK s, e \in Int : list[1].start = s /\ list[1].end = e /\ s <= e
    BY <2>1, ElementTyped, InApart DEF Normal
  <2>2. a <= s /\ s <= b + 1 /\ b <= e
    BY <1>2
  <2> PICK joined \in RangeType : joined = Interval(a, Greatest(b, e)) /\ joined.start = a /\ joined.end = e
    <3>1. Greatest(b, e) = e
      BY <2>2 DEF Greatest
    <3> QED BY <3>1, RangeTyped
  <2> PICK tail : tail = Tail(list)
    OBVIOUS
  <2>3. /\ tail \in Seq(RangeType) /\ Len(tail) = Len(list) - 1
        /\ \A k \in 1..(Len(list) - 1) : tail[k] = list[k + 1]
    BY <1>2
  <2>4. MergeFront(r, list) = <<joined>> \o tail
    BY <1>2 DEF MergeFront
  <2>5. ASSUME NEW k \in 1..Len(tail)
        PROVE  k + 1 \in 1..Len(list) /\ tail[k] = list[k + 1]
    BY <1>1, <2>3
  <2>6. Normal(tail)
    <3>1. \A k \in 1..Len(tail) : tail[k].start <= tail[k].end
      BY <2>5, InApart DEF Normal
    <3>2. ASSUME NEW k \in 1..Len(tail), NEW l \in 1..Len(tail), k < l
          PROVE  tail[k].end + 1 < tail[l].start
      <4>1. k + 1 < l + 1
        BY <1>1, <2>3, <3>2
      <4> QED BY <2>5, <4>1, InApart DEF Normal
    <3> QED BY <2>3, <3>1, <3>2, InApart DEF Normal
  <2>7. ASSUME NEW k \in 1..Len(tail)
        PROVE  joined.end + 1 < tail[k].start
    <3>1. 1 < k + 1 /\ k + 1 \in 1..Len(list)
      BY <1>1, <2>3, <2>5
    <3>2. list[1].end + 1 < list[k + 1].start
      BY <2>1, <3>1, InApart DEF Normal
    <3> QED BY <2>5, <3>2
  <2>8. Normal(<<joined>> \o tail)
    <3>1. joined.start <= joined.end
      BY <2>2
    <3> QED BY <2>3, <2>6, <2>7, <3>1, NormalPrepend
  <2>9. Offsets(list) = (s..e) \cup Offsets(tail)
    <3>1. ASSUME NEW x
          PROVE  x \in Offsets(list) <=> x \in s..e \/ x \in Offsets(tail)
      <4>1. x \in Offsets(list) <=> \E k \in 1..Len(list) : x \in list[k].start..list[k].end
        BY InOffsets
      <4>2. x \in Offsets(tail) <=> \E k \in 1..Len(tail) : x \in tail[k].start..tail[k].end
        BY <2>3, InOffsets
      <4>3. \A k \in 1..Len(list) : k # 1 => k - 1 \in 1..Len(tail) /\ tail[k - 1] = list[k]
        <5> SUFFICES ASSUME NEW k \in 1..Len(list), k # 1
                     PROVE  k - 1 \in 1..Len(tail) /\ tail[k - 1] = list[k]
          OBVIOUS
        <5>1. k - 1 \in 1..Len(tail) /\ (k - 1) + 1 = k
          BY <1>1, <2>3
        <5> QED BY <2>5, <5>1
      <4> QED BY <2>1, <2>5, <4>1, <4>2, <4>3
    <3> QED BY <3>1
  <2>10. a..e = (a..b) \cup (s..e)
    BY <2>2
  <2>11. Offsets(<<joined>> \o tail) = (a..e) \cup Offsets(tail)
    <3>1. Offsets(<<joined>> \o tail) = (joined.start..joined.end) \cup Offsets(tail)
      BY <2>3, Prepended
    <3> QED BY <3>1
  <2>12. /\ <<joined>> \o tail \in Seq(RangeType) /\ (<<joined>> \o tail)[1] = joined
         /\ Len(<<joined>> \o tail) = Len(list)
    BY <1>1, <2>3, Prepended
  <2>13. <<joined>> \o tail # <<>>
    BY <2>1, <2>12
  <2>14. r.end <= joined.end
    BY <2>2
  <2> QED BY <2>4, <2>8, <2>9, <2>10, <2>11, <2>12, <2>13, <2>14
<1>3. CASE ~(list # <<>> /\ list[1].start <= b + 1)
  <2>1. MergeFront(r, list) = <<r>> \o list
    BY <1>3 DEF MergeFront
  <2>2. ASSUME NEW k \in 1..Len(list)
        PROVE  r.end + 1 < list[k].start
    <3>1. 1 \in 1..Len(list) /\ list # <<>>
      BY <1>1
    <3> PICK s, e, c \in Int : list[1].start = s /\ list[1].end = e /\ list[k].start = c /\ s <= e
      BY <3>1, ElementTyped, InApart DEF Normal
    <3>2. k = 1 \/ e + 1 < c
      <4>1. k = 1 \/ 1 < k
        BY <1>1
      <4> QED BY <3>1, <4>1, InApart DEF Normal
    <3>3. b + 1 < s
      BY <1>3, <3>1
    <3> QED BY <3>2, <3>3
  <2>3. Normal(<<r>> \o list)
    BY <2>2, NormalPrepend
  <2>4. /\ <<r>> \o list \in Seq(RangeType) /\ (<<r>> \o list)[1] = r
        /\ Len(<<r>> \o list) = Len(list) + 1
        /\ Offsets(<<r>> \o list) = (r.start..r.end) \cup Offsets(list)
    BY Prepended
  <2>5. <<r>> \o list # <<>>
    BY <1>1, <2>4
  <2>6. r.end <= r.end
    OBVIOUS
  <2> QED BY <2>1, <2>3, <2>4, <2>5, <2>6
<1> QED BY <1>2, <1>3

\* Flatten makes such a list normal and keeps what it stands for.
LEMMA FlattenStairs ==
  ASSUME NEW rl \in Seq(RangeType), Stairs(rl)
  PROVE  /\ Flatten(rl) \in Seq(RangeType)
         /\ Normal(Flatten(rl))
         /\ Offsets(Flatten(rl)) = Offsets(rl)
<1> PICK n \in Nat : n = Len(rl)
  OBVIOUS
<1> PICK M : M = Merged(rl)
  OBVIOUS
<1>1. /\ M[n + 1] = <<>>
      /\ \A k \in 1..n : M[k] = MergeFront(rl[k], M[k + 1])
  <2>1. M = [k \in 1..(n + 1) |-> IF k > n THEN <<>> ELSE MergeFront(rl[k], M[k + 1])]
    BY MergedIs
  <2>2. n + 1 \in 1..(n + 1) /\ n + 1 > n /\ \A k \in 1..n : k \in 1..(n + 1) /\ ~(k > n)
    OBVIOUS
  <2> QED BY <2>1, <2>2
<1> DEFINE From(k) == {x \in Int : \E m \in k..n : x \in rl[m].start..rl[m].end}
           Good(k) == /\ M[k] \in Seq(RangeType) /\ Normal(M[k]) /\ Offsets(M[k]) = From(k)
                      /\ k <= n => /\ M[k] # <<>> /\ M[k][1].start = rl[k].start
                                   /\ rl[k].end <= M[k][1].end
           I == {k \in 1..(n + 1) : ~Good(k)}
<1>2. Good(n + 1)
  <2>1. From(n + 1) = {}
    OBVIOUS
  <2>2. ~(n + 1 <= n)
    OBVIOUS
  <2> HIDE DEF From
  <2> QED BY <1>1, <2>1, <2>2, EmptyList
<1>3. ASSUME NEW k \in 1..n, Good(k + 1)
      PROVE  Good(k)
  <2> PICK r : r = rl[k]
    OBVIOUS
  <2>1. r \in RangeType /\ r.start \in Int /\ r.end \in Int /\ r.start <= r.end
    BY ElementTyped DEF Stairs
  <2> PICK list : list = M[k + 1]
    OBVIOUS
  <2>2. list \in Seq(RangeType) /\ Normal(list) /\ Offsets(list) = From(k + 1)
    <3> HIDE DEF From
    <3> QED BY <1>3
  <2>3. list # <<>> => r.start <= list[1].start /\ r.end <= list[1].end
    <3>1. CASE k = n
      BY <1>1, <3>1
    <3>2. CASE k < n
      <4>1. k + 1 \in 1..n /\ k + 1 <= n /\ k < k + 1
        BY <3>2
      <4>2. list[1].start = rl[k + 1].start /\ rl[k + 1].end <= list[1].end /\ list # <<>>
        <5> HIDE DEF From
        <5> QED BY <1>3, <4>1
      <4>3. rl[k].start <= rl[k + 1].start /\ rl[k].end <= rl[k + 1].end
        BY <4>1 DEF Stairs
      <4>4. 1 \in 1..Len(list)
        BY <2>2, <4>2
      <4> PICK a, b, c \in Int : rl[k].end = a /\ rl[k + 1].end = b /\ list[1].end = c
        BY <2>2, <4>1, <4>4, ElementTyped
      <4>5. a <= b /\ b <= c
        BY <4>2, <4>3
      <4>6. r.start <= list[1].start
        BY <4>2, <4>3
      <4> QED BY <4>5, <4>6
    <3> QED BY <3>1, <3>2
  <2>4. /\ MergeFront(r, list) \in Seq(RangeType)
        /\ Normal(MergeFront(r, list))
        /\ Offsets(MergeFront(r, list)) = (r.start..r.end) \cup Offsets(list)
        /\ MergeFront(r, list) # <<>>
        /\ MergeFront(r, list)[1].start = r.start
        /\ r.end <= MergeFront(r, list)[1].end
    <3> HIDE DEF From
    <3> QED BY <2>1, <2>2, <2>3, MergeFrontIs
  <2>5. From(k) = (r.start..r.end) \cup From(k + 1)
    <3>1. \A m : m \in k..n <=> m = k \/ m \in (k + 1)..n
      OBVIOUS
    <3>2. r.start..r.end \subseteq Int
      OBVIOUS
    <3> QED BY <3>1, <3>2
  <2>6. M[k] = MergeFront(r, list)
    BY <1>1
  <2> HIDE DEF From
  <2> QED BY <2>2, <2>4, <2>5, <2>6
<1>4. I = {}
  <2> SUFFICES ASSUME I # {} PROVE FALSE
    OBVIOUS
  <2>1. PICK k \in I : \A m \in I : m <= k
    <3>1. I \in SUBSET (1..(n + 1)) /\ n + 1 \in Nat
      OBVIOUS
    <3> HIDE DEF I
    <3> QED BY <3>1, GreatestElement, Zenon
  <2> HIDE DEF Good
  <2>2. k \in 1..n
    BY <1>2, <2>1
  <2>3. Good(k + 1)
    <3>1. k + 1 \in 1..(n + 1) /\ k + 1 \notin I
      BY <2>1, <2>2
    <3> QED BY <3>1
  <2> QED BY <1>3, <2>1, <2>2, <2>3
<1>5. Good(1)
  <2> HIDE DEF Good
  <2> QED BY <1>4
<1>6. From(1) = Offsets(rl)
  <2>1. \A x : x \in Offsets(rl) <=> \E k \in 1..n : x \in rl[k].start..rl[k].end
    BY InOffsets
  <2>2. \A k \in 1..n : rl[k].start..rl[k].end \subseteq Int
    OBVIOUS
  <2> QED BY <2>1, <2>2
<1>7. Flatten(rl) = M[1]
  BY SortedStairs DEF Flatten
<1> HIDE DEF From
<1> QED BY <1>5, <1>6, <1>7

LEMMA FlattenApart ==
  ASSUME NEW rl \in Seq(RangeType), Apart(rl, 0)
  PROVE  /\ Flatten(rl) \in Seq(RangeType)
         /\ Normal(Flatten(rl))
         /\ Offsets(Flatten(rl)) = Offsets(rl)
BY ApartStairs, FlattenStairs

-----------------------------------------------------------------------------
(* Ranks *)

\* The number of elements that come before x.
Rank(D, R, x) == Cardinality({y \in D : <<y, x>> \in R})

StrictOrder(D, R) ==
  /\ \A x \in D : <<x, x>> \notin R
  /\ \A x, y, z \in D : <<x, y>> \in R /\ <<y, z>> \in R => <<x, z>> \in R
  /\ \A x, y \in D : x = y \/ <<x, y>> \in R \/ <<y, x>> \in R

\* f lists the elements by their ranks.
Ranking(f, n, D, R) ==
  /\ n = Cardinality(D)
  /\ \A p \in 1..n : f[p] \in D /\ Rank(D, R, f[p]) = p - 1

\* A finite set in a strict order has an element of every rank.
LEMMA Ranks ==
  ASSUME NEW D, IsFiniteSet(D), NEW R, StrictOrder(D, R)
  PROVE  /\ Cardinality(D) \in Nat
         /\ \A x \in D : Rank(D, R, x) \in 0..(Cardinality(D) - 1)
         /\ \A x, y \in D : <<x, y>> \in R <=> Rank(D, R, x) < Rank(D, R, y)
         /\ \A p \in 1..Cardinality(D) : \E x \in D : Rank(D, R, x) = p - 1
<1>0. /\ \A x \in D : <<x, x>> \notin R
      /\ \A x, y, z \in D : <<x, y>> \in R /\ <<y, z>> \in R => <<x, z>> \in R
      /\ \A x, y \in D : x = y \/ <<x, y>> \in R \/ <<y, x>> \in R
  BY DEF StrictOrder
<1> PICK n \in Nat : n = Cardinality(D)
  BY FS_CardinalityType
<1> DEFINE B(x) == {y \in D : <<y, x>> \in R}
<1>1. ASSUME NEW x \in D
      PROVE  IsFiniteSet(B(x)) /\ Cardinality(B(x)) \in Nat /\ Cardinality(B(x)) < n
  <2>1. IsFiniteSet(B(x))
    BY FS_Subset
  <2>2. IsFiniteSet(D \ {x}) /\ Cardinality(D \ {x}) = n - 1
    BY FS_RemoveElement
  <2>3. B(x) \in SUBSET (D \ {x})
    BY <1>0
  <2>4. Cardinality(B(x)) <= Cardinality(D \ {x})
    <3> HIDE DEF B
    <3> QED BY <2>2, <2>3, FS_Subset
  <2>5. Cardinality(B(x)) \in Nat
    <3> HIDE DEF B
    <3> QED BY <2>1, FS_CardinalityType
  <2> HIDE DEF B
  <2> QED BY <2>1, <2>2, <2>4, <2>5
<1>2. ASSUME NEW x \in D, NEW y \in D, <<x, y>> \in R
      PROVE  Cardinality(B(x)) < Cardinality(B(y))
  <2>1. B(x) \cup {x} \in SUBSET B(y)
    BY <1>0, <1>2
  <2>2. x \notin B(x)
    BY <1>0
  <2> HIDE DEF B
  <2>3. Cardinality(B(x) \cup {x}) = Cardinality(B(x)) + 1
    BY <1>1, <2>2, FS_AddElement
  <2>4. Cardinality(B(x) \cup {x}) <= Cardinality(B(y))
    BY <1>1, <2>1, FS_Subset
  <2> QED BY <1>1, <2>3, <2>4
<1> HIDE DEF B
<1> DEFINE f == [x \in D |-> Cardinality(B(x))]
<1>3. f \in [D -> 0..(n - 1)]
  BY <1>1
<1>4. \A x, y \in D : f[x] = f[y] => x = y
  <2> SUFFICES ASSUME NEW x \in D, NEW y \in D, x # y
               PROVE  Cardinality(B(x)) # Cardinality(B(y))
    OBVIOUS
  <2>1. Cardinality(B(x)) < Cardinality(B(y)) \/ Cardinality(B(y)) < Cardinality(B(x))
    BY <1>0, <1>2
  <2> QED BY <1>1, <2>1
<1>5. f \in Surjection(D, 0..(n - 1))
  <2>1. f \in Injection(D, 0..(n - 1))
    <3> HIDE DEF f
    <3> QED BY <1>3, <1>4 DEF Injection, IsInjective
  <2>2. IsFiniteSet(0..(n - 1)) /\ Cardinality(0..(n - 1)) = n
    <3>1. 0 \in Int /\ n - 1 \in Int /\ (0 > n - 1 => n = 0) /\ (n - 1) - 0 + 1 = n
      OBVIOUS
    <3> QED BY <3>1, FS_Interval
  <2> HIDE DEF f
  <2> QED BY <2>1, <2>2, FS_Injection
<1>6. \A p \in 1..n : \E x \in D : Cardinality(B(x)) = p - 1
  <2> SUFFICES ASSUME NEW p \in 1..n PROVE \E x \in D : f[x] = p - 1
    OBVIOUS
  <2>1. p - 1 \in 0..(n - 1)
    OBVIOUS
  <2> HIDE DEF f
  <2> QED BY <1>5, <2>1 DEF Surjection
<1>7. \A x \in D : Rank(D, R, x) = Cardinality(B(x))
  BY DEF Rank, B
<1>8. ASSUME NEW x \in D, NEW y \in D
      PROVE  <<x, y>> \in R <=> Cardinality(B(x)) < Cardinality(B(y))
  <2>1. <<y, x>> \in R => Cardinality(B(y)) < Cardinality(B(x))
    BY <1>2
  <2>2. <<x, y>> \in R => Cardinality(B(x)) < Cardinality(B(y))
    BY <1>2
  <2>3. x = y => ~(<<x, y>> \in R)
    BY <1>0
  <2>4. /\ Cardinality(B(x)) \in Nat /\ Cardinality(B(y)) \in Nat
        /\ x = y => Cardinality(B(x)) = Cardinality(B(y))
    BY <1>1
  <2>5. x = y \/ <<x, y>> \in R \/ <<y, x>> \in R
    BY <1>0
  <2> QED BY <2>1, <2>2, <2>3, <2>4, <2>5
<1>9. \A x \in D : Cardinality(B(x)) \in 0..(n - 1)
  BY <1>1
<1> HIDE DEF f
<1> QED BY <1>6, <1>7, <1>8, <1>9

\* What holds at 0 and goes from one number to the next holds up to n; and
\* what holds behind n and goes from one to the one before it, down to 1.
LEMMA Upwards ==
  ASSUME NEW n \in Nat, NEW P, 0 \in P, \A k \in 1..n : k - 1 \in P => k \in P
  PROVE  \A k \in 0..n : k \in P
<1> DEFINE I == {k \in 0..n : k \notin P}
<1>1. SUFFICES ASSUME I # {} PROVE FALSE
  OBVIOUS
<1>2. I \in SUBSET Nat
  OBVIOUS
<1>3. PICK m \in I : \A k \in I : m <= k
  <2> HIDE DEF I
  <2> QED BY <1>1, <1>2, LeastElement
<1>4. m \in 1..n
  BY <1>3
<1>5. m - 1 \notin I /\ m - 1 \in 0..n
  <2> HIDE DEF I
  <2> QED BY <1>3, <1>4
<1> QED BY <1>3, <1>4, <1>5

LEMMA Downwards ==
  ASSUME NEW n \in Nat, NEW P, n + 1 \in P, \A k \in 1..n : k + 1 \in P => k \in P
  PROVE  1 \in P
<1> DEFINE Q == {d \in 0..n : n + 1 - d \in P}
<1>1. 0 \in Q
  <2>1. n + 1 - 0 = n + 1
    OBVIOUS
  <2> QED BY <2>1
<1>2. ASSUME NEW d \in 1..n, d - 1 \in Q
      PROVE  d \in Q
  <2>1. n + 1 - d \in 1..n /\ n + 1 - (d - 1) = (n + 1 - d) + 1
    OBVIOUS
  <2>2. (n + 1 - d) + 1 \in P
    BY <1>2, <2>1
  <2> QED BY <2>1, <2>2
<1>3. \A d \in 0..n : d \in Q
  <2> HIDE DEF Q
  <2> QED BY <1>1, <1>2, Upwards
<1>4. n \in Q
  <2> HIDE DEF Q
  <2> QED BY <1>3
<1>5. n + 1 - n = 1
  OBVIOUS
<1> QED BY <1>4, <1>5

\* So the elements, listed by their ranks, come in order and none is left out.
LEMMA Enumerated ==
  ASSUME NEW D, IsFiniteSet(D), NEW R, StrictOrder(D, R),
         NEW n \in Nat, NEW f, Ranking(f, n, D, R)
  PROVE  /\ \A x \in D : \E p \in 1..n : f[p] = x
         /\ \A p, q \in 1..n : p < q => <<f[p], f[q]>> \in R
<1>0. n = Cardinality(D) /\ \A p \in 1..n : f[p] \in D /\ Rank(D, R, f[p]) = p - 1
  BY DEF Ranking
<1>1. /\ \A x \in D : Rank(D, R, x) \in 0..(n - 1)
      /\ \A x, y \in D : <<x, y>> \in R <=> Rank(D, R, x) < Rank(D, R, y)
  BY <1>0, Ranks
<1>5. ASSUME NEW x \in D
      PROVE  \E p \in 1..n : f[p] = x
  <2> PICK r \in 0..(n - 1) : r = Rank(D, R, x)
    BY <1>1
  <2>1. r + 1 \in 1..n /\ (r + 1) - 1 = r
    OBVIOUS
  <2>2. f[r + 1] \in D /\ Rank(D, R, f[r + 1]) = r
    BY <1>0, <2>1
  <2>3. ~(Rank(D, R, f[r + 1]) < Rank(D, R, x)) /\ ~(Rank(D, R, x) < Rank(D, R, f[r + 1]))
    BY <2>2
  <2>4. f[r + 1] = x
    BY <1>1, <2>2, <2>3, Zenon DEF StrictOrder
  <2> QED BY <2>1, <2>4
<1>6. ASSUME NEW p \in 1..n, NEW q \in 1..n, p < q
      PROVE  <<f[p], f[q]>> \in R
  <2>1. f[p] \in D /\ f[q] \in D /\ Rank(D, R, f[p]) = p - 1 /\ Rank(D, R, f[q]) = q - 1
    BY <1>0
  <2>2. Rank(D, R, f[p]) < Rank(D, R, f[q])
    BY <1>6, <2>1
  <2> QED BY <1>1, <2>1, <2>2, Zenon
<1> QED BY <1>5, <1>6

-----------------------------------------------------------------------------
(* Sorting *)

\* s has the n ranges of rl, in the order of their starts.
Reordered(s, rl, n) ==
  \E f \in [1..n -> 1..n] :
     /\ \A p \in 1..n : s[p] = rl[f[p]]
     /\ \A k \in 1..n : \E p \in 1..n : f[p] = k
     /\ \A p, q \in 1..n : p < q => f[p] # f[q] /\ s[p].start <= s[q].start

\* Sorting puts the ranges in another order and loses none.
LEMMA SortedIs ==
  ASSUME NEW rl \in Seq(RangeType)
  PROVE  /\ Sorted(rl) \in Seq(RangeType) /\ Len(Sorted(rl)) = Len(rl)
         /\ Reordered(Sorted(rl), rl, Len(rl))
<1> PICK n \in Nat : n = Len(rl)
  OBVIOUS
<1> PICK D : D = 1..n
  OBVIOUS
<1> DEFINE Earlier(m, k) == rl[m].start < rl[k].start \/ (rl[m].start = rl[k].start /\ m < k)
<1> PICK R : R = {x \in D \X D : Earlier(x[1], x[2])}
  OBVIOUS
<1>1. ASSUME NEW m \in D, NEW k \in D
      PROVE  <<m, k>> \in R <=> Earlier(m, k)
  OBVIOUS
<1>2. \A k \in D : k \in Int /\ rl[k].start \in Int
  BY ElementTyped
<1>3. StrictOrder(D, R)
  <2>1. ASSUME NEW x \in D PROVE <<x, x>> \notin R
    <3>1. ~Earlier(x, x)
      BY <1>2
    <3> QED BY <1>1, <3>1
  <2>2. ASSUME NEW x \in D, NEW y \in D, NEW z \in D, <<x, y>> \in R, <<y, z>> \in R
        PROVE  <<x, z>> \in R
    <3>1. Earlier(x, y) /\ Earlier(y, z)
      BY <1>1, <2>2
    <3> PICK a, b, c \in Int : rl[x].start = a /\ rl[y].start = b /\ rl[z].start = c
      BY <1>2
    <3>2. Earlier(x, z)
      BY <1>2, <3>1
    <3> QED BY <1>1, <3>2
  <2>3. ASSUME NEW x \in D, NEW y \in D
        PROVE  x = y \/ <<x, y>> \in R \/ <<y, x>> \in R
    <3> PICK a, b \in Int : rl[x].start = a /\ rl[y].start = b
      BY <1>2
    <3>1. x = y \/ Earlier(x, y) \/ Earlier(y, x)
      BY <1>2
    <3> QED BY <1>1, <3>1
  <2> QED BY <2>1, <2>2, <2>3 DEF StrictOrder
<1>4. IsFiniteSet(D) /\ n = Cardinality(D)
  <2>1. 1 \in Int /\ n \in Int /\ (1 > n => n = 0) /\ n - 1 + 1 = n
    OBVIOUS
  <2> QED BY <2>1, FS_Interval
<1>5. ASSUME NEW k \in D
      PROVE  Cardinality({m \in D : Earlier(m, k)}) = Rank(D, R, k)
  <2>1. {m \in D : Earlier(m, k)} = {m \in D : <<m, k>> \in R}
    BY <1>1
  <2> QED BY <2>1 DEF Rank
<1> DEFINE At(p) == CHOOSE k \in D : Cardinality({m \in D : Earlier(m, k)}) = p - 1
<1> PICK f : f = [p \in D |-> At(p)]
  OBVIOUS
<1>6. Sorted(rl) = [p \in D |-> rl[f[p]]]
  <2>1. DOMAIN rl = D
    OBVIOUS
  <2> QED BY <2>1 DEF Sorted
<1>11. ASSUME NEW p \in 1..n
       PROVE  f[p] \in D /\ Rank(D, R, f[p]) = p - 1
  <2>1. \E k \in D : Rank(D, R, k) = p - 1
    <3>1. \A q \in 1..Cardinality(D) : \E x \in D : Rank(D, R, x) = q - 1
      BY ONLY <1>3, <1>4, Ranks
    <3> QED BY ONLY <1>4, <3>1, p \in 1..n
  <2>2. \E k \in D : Cardinality({m \in D : Earlier(m, k)}) = p - 1
    <3> HIDE DEF Earlier
    <3> QED BY <1>5, <2>1
  <2>3. f[p] = CHOOSE k \in D : Cardinality({m \in D : Earlier(m, k)}) = p - 1
    BY ZenonT(30)
  <2>4. f[p] \in D /\ Cardinality({m \in D : Earlier(m, f[p])}) = p - 1
    <3> HIDE DEF Earlier
    <3> QED BY ONLY <2>2, <2>3
  <2> HIDE DEF Earlier
  <2> QED BY ONLY <1>5, <2>4
<1>12. /\ \A x \in D : \E p \in 1..n : f[p] = x
       /\ \A p, q \in 1..n : p < q => <<f[p], f[q]>> \in R
  <2>1. \A p \in 1..n : f[p] \in D /\ Rank(D, R, f[p]) = p - 1
    BY ONLY <1>11, Zenon
  <2>2. Ranking(f, n, D, R)
    BY ONLY <1>4, <2>1 DEF Ranking
  <2> QED BY ONLY <1>3, <1>4, <2>2, n \in Nat, Enumerated
<1>7. \A p \in 1..n : Sorted(rl)[p] = rl[f[p]] /\ rl[f[p]] \in RangeType
  <2>1. \A p \in 1..n : f[p] \in 1..Len(rl)
    BY ONLY <1>11, D = 1..n, n = Len(rl)
  <2>2. \A p \in 1..n : Sorted(rl)[p] = rl[f[p]]
    BY ONLY <1>6, D = 1..n
  <2> QED BY <2>1, <2>2, ElementTyped
<1>8. Sorted(rl) \in Seq(RangeType) /\ Len(Sorted(rl)) = n
  <2>1. Sorted(rl) \in [1..n -> RangeType]
    BY ONLY <1>6, <1>7, D = 1..n
  <2> QED BY ONLY <2>1, n \in Nat
<1>9. ASSUME NEW p \in 1..n, NEW q \in 1..n, p < q
      PROVE  f[p] # f[q] /\ Sorted(rl)[p].start <= Sorted(rl)[q].start
  <2>1. f[p] \in D /\ f[q] \in D /\ <<f[p], f[q]>> \in R
    BY ZenonT(30), <1>9, <1>11, <1>12
  <2>2. f[p] # f[q]
    BY <1>3, <2>1, ZenonT(30) DEF StrictOrder
  <2>3. rl[f[p]].start <= rl[f[q]].start
    <3>1. Earlier(f[p], f[q])
      <4> HIDE DEF Earlier
      <4> QED BY ONLY <1>1, <2>1, Zenon
    <3> PICK a, b \in Int : rl[f[p]].start = a /\ rl[f[q]].start = b
      BY ONLY <1>2, <2>1
    <3> QED BY ONLY <3>1, rl[f[p]].start = a, rl[f[q]].start = b, a \in Int, b \in Int
  <2> QED BY ONLY <1>7, <2>2, <2>3
<1>10. f \in [1..n -> 1..n]
  <2>1. f = [p \in 1..n |-> f[p]]
    <3> HIDE DEF At
    <3> QED BY ONLY f = [p \in D |-> At(p)], D = 1..n
  <2>2. \A p \in 1..n : f[p] \in 1..n
    BY ONLY <1>11, D = 1..n
  <2> QED BY ONLY <2>1, <2>2
<1>13. \A k \in 1..n : \E p \in 1..n : f[p] = k
  BY ONLY <1>12, D = 1..n
<1>14. Reordered(Sorted(rl), rl, n)
  BY ONLY <1>7, <1>9, <1>10, <1>13, Zenon DEF Reordered
<1> QED BY ONLY <1>8, <1>14, n = Len(rl)

\* A list is its first range and the others.
LEMMA HeadTail ==
  ASSUME NEW list \in Seq(RangeType), list # <<>>
  PROVE  /\ 1 \in 1..Len(list) /\ Tail(list) \in Seq(RangeType)
         /\ Offsets(list) = (list[1].start..list[1].end) \cup Offsets(Tail(list))
<1> PICK tail : tail = Tail(list)
  OBVIOUS
<1>1. Len(list) \in Nat /\ 1 \in 1..Len(list)
  OBVIOUS
<1>2. /\ tail \in Seq(RangeType) /\ Len(tail) = Len(list) - 1
      /\ \A k \in 1..(Len(list) - 1) : tail[k] = list[k + 1]
  OBVIOUS
<1>3. ASSUME NEW x
      PROVE  x \in Offsets(list) <=> x \in list[1].start..list[1].end \/ x \in Offsets(tail)
  <2>1. x \in Offsets(list) <=> \E k \in 1..Len(list) : x \in list[k].start..list[k].end
    BY InOffsets
  <2>2. x \in Offsets(tail) <=> \E k \in 1..Len(tail) : x \in tail[k].start..tail[k].end
    BY <1>2, InOffsets
  <2>3. ASSUME NEW k \in 1..Len(list), k # 1
        PROVE  k - 1 \in 1..Len(tail) /\ tail[k - 1] = list[k]
    <3>1. k - 1 \in 1..Len(tail) /\ (k - 1) + 1 = k
      BY <1>1, <1>2, <2>3
    <3> QED BY <1>2, <3>1
  <2>4. ASSUME NEW k \in 1..Len(tail)
        PROVE  k + 1 \in 1..Len(list) /\ tail[k] = list[k + 1]
    BY <1>1, <1>2
  <2> QED BY <1>1, <2>1, <2>2, <2>3, <2>4
<1> QED BY <1>1, <1>2, <1>3

\* Merging a range that does not start later than a list into it keeps what
\* both stand for, whatever is empty.
LEMMA MergeFrontOffsets ==
  ASSUME NEW list \in Seq(RangeType), NEW r \in RangeType,
         list # <<>> => r.start <= list[1].start
  PROVE  /\ MergeFront(r, list) \in Seq(RangeType)
         /\ Offsets(MergeFront(r, list)) = (r.start..r.end) \cup Offsets(list)
         /\ MergeFront(r, list) # <<>>
         /\ MergeFront(r, list)[1].start = r.start
<1> PICK a, b \in Int : r.start = a /\ r.end = b
  BY DEF RangeType
<1>1. CASE list # <<>> /\ list[1].start <= b + 1
  <2>1. /\ 1 \in 1..Len(list) /\ Tail(list) \in Seq(RangeType)
        /\ Offsets(list) = (list[1].start..list[1].end) \cup Offsets(Tail(list))
    BY <1>1, HeadTail
  <2> PICK s, e \in Int : list[1].start = s /\ list[1].end = e
    BY <2>1, ElementTyped
  <2>2. a <= s /\ s <= b + 1
    BY <1>1
  <2> PICK g \in Int : g = Greatest(b, e) /\ g >= b /\ g >= e /\ (g = b \/ g = e)
    BY DEF Greatest
  <2>3. a..g = (a..b) \cup (s..e)
    BY <2>2
  <2> PICK joined \in RangeType : joined = Interval(a, g) /\ joined.start = a /\ joined.end = g
    BY RangeTyped
  <2> PICK tail : tail = Tail(list)
    OBVIOUS
  <2>4. MergeFront(r, list) = <<joined>> \o tail
    BY <1>1 DEF MergeFront
  <2>5. /\ <<joined>> \o tail \in Seq(RangeType) /\ (<<joined>> \o tail)[1] = joined
        /\ Len(<<joined>> \o tail) = Len(tail) + 1
        /\ Offsets(<<joined>> \o tail) = (joined.start..joined.end) \cup Offsets(tail)
    BY ZenonT(30), <2>1, Prepended
  <2>6. <<joined>> \o tail # <<>>
    <3>1. Len(tail) \in Nat
      BY <2>1
    <3>2. Len(<<joined>> \o tail) # 0
      BY ONLY <2>5, <3>1
    <3> QED BY <3>2
  <2>7. Offsets(<<joined>> \o tail) = (a..g) \cup Offsets(tail)
    BY <2>5
  <2>8. Offsets(list) = (s..e) \cup Offsets(tail)
    BY <2>1
  <2>9. Offsets(<<joined>> \o tail) = (a..b) \cup Offsets(list)
    BY ONLY <2>3, <2>7, <2>8
  <2> QED BY <2>4, <2>5, <2>6, <2>9
<1>2. CASE ~(list # <<>> /\ list[1].start <= b + 1)
  <2>1. MergeFront(r, list) = <<r>> \o list
    BY <1>2 DEF MergeFront
  <2>2. /\ <<r>> \o list \in Seq(RangeType) /\ (<<r>> \o list)[1] = r
        /\ Len(<<r>> \o list) = Len(list) + 1
        /\ Offsets(<<r>> \o list) = (r.start..r.end) \cup Offsets(list)
    BY Prepended
  <2>3. <<r>> \o list # <<>>
    <3>1. Len(list) \in Nat
      OBVIOUS
    <3>2. Len(<<r>> \o list) # 0
      BY ONLY <2>2, <3>1
    <3> QED BY <3>2
  <2> QED BY <2>1, <2>2, <2>3
<1> QED BY <1>1, <1>2

\* Flatten keeps what a list stands for, in whatever order its ranges are,
\* whether they overlap and whether one is empty.
LEMMA FlattenOffsets ==
  ASSUME NEW rl \in Seq(RangeType)
  PROVE  /\ Flatten(rl) \in Seq(RangeType)
         /\ Offsets(Flatten(rl)) = Offsets(rl)
<1> PICK n \in Nat : n = Len(rl)
  OBVIOUS
<1> PICK s : s = Sorted(rl)
  OBVIOUS
<1>1. s \in Seq(RangeType) /\ Len(s) = n
  BY SortedIs
<1>2. PICK f \in [1..n -> 1..n] :
        /\ \A p \in 1..n : s[p] = rl[f[p]]
        /\ \A k \in 1..n : \E p \in 1..n : f[p] = k
        /\ \A p, q \in 1..n : p < q => f[p] # f[q] /\ s[p].start <= s[q].start
  <2>1. Reordered(s, rl, n)
    BY SortedIs
  <2> QED BY ONLY <2>1, Zenon DEF Reordered
<1> PICK M : M = Merged(s)
  OBVIOUS
<1>3. /\ M[n + 1] = <<>>
      /\ \A k \in 1..n : M[k] = MergeFront(s[k], M[k + 1])
  <2>1. M = [k \in 1..(n + 1) |-> IF k > n THEN <<>> ELSE MergeFront(s[k], M[k + 1])]
    BY <1>1, MergedIs
  <2>2. n + 1 \in 1..(n + 1) /\ n + 1 > n /\ \A k \in 1..n : k \in 1..(n + 1) /\ ~(k > n)
    OBVIOUS
  <2> QED BY <2>1, <2>2
<1> DEFINE From(k) == {x \in Int : \E m \in k..n : x \in s[m].start..s[m].end}
           Good(k) == /\ M[k] \in Seq(RangeType) /\ Offsets(M[k]) = From(k)
                      /\ k <= n => M[k] # <<>> /\ M[k][1].start = s[k].start
           P == {k \in 1..(n + 1) : Good(k)}
<1>4. n + 1 \in P
  <2>1. From(n + 1) = {}
    OBVIOUS
  <2>2. ~(n + 1 <= n) /\ n + 1 \in 1..(n + 1)
    OBVIOUS
  <2> HIDE DEF From
  <2> QED BY <1>3, <2>1, <2>2, EmptyList
<1>5. ASSUME NEW k \in 1..n, k + 1 \in P
      PROVE  k \in P
  <2> PICK r : r = s[k]
    OBVIOUS
  <2>1. r \in RangeType /\ r.start \in Int /\ r.end \in Int
    BY <1>1, ElementTyped
  <2> PICK list : list = M[k + 1]
    OBVIOUS
  <2>2. list \in Seq(RangeType) /\ Offsets(list) = From(k + 1)
    <3> HIDE DEF From
    <3> QED BY <1>5
  <2>3. list # <<>> => r.start <= list[1].start
    <3>1. CASE k = n
      BY <1>3, <3>1
    <3>2. CASE k < n
      <4>1. k + 1 \in 1..n /\ k + 1 <= n /\ k < k + 1
        BY <3>2
      <4>2. list[1].start = s[k + 1].start
        <5> HIDE DEF From
        <5> QED BY <1>5, <4>1
      <4>3. s[k].start <= s[k + 1].start
        BY <1>2, <4>1
      <4> QED BY <4>2, <4>3
    <3> QED BY <3>1, <3>2
  <2>4. /\ MergeFront(r, list) \in Seq(RangeType)
        /\ Offsets(MergeFront(r, list)) = (r.start..r.end) \cup Offsets(list)
        /\ MergeFront(r, list) # <<>>
        /\ MergeFront(r, list)[1].start = r.start
    <3> HIDE DEF From
    <3> QED BY ZenonT(30), <2>1, <2>2, <2>3, MergeFrontOffsets
  <2>5. From(k) = (r.start..r.end) \cup From(k + 1)
    <3>1. \A m : m \in k..n <=> m = k \/ m \in (k + 1)..n
      OBVIOUS
    <3>2. r.start..r.end \subseteq Int
      OBVIOUS
    <3> QED BY <3>1, <3>2
  <2>6. M[k] = MergeFront(r, list) /\ k \in 1..(n + 1)
    BY <1>3
  <2> HIDE DEF From
  <2> QED BY <2>2, <2>4, <2>5, <2>6
<1>6. Good(1)
  <2>1. 1 \in P
    <3> HIDE DEF P
    <3> QED BY <1>4, <1>5, Downwards
  <2> HIDE DEF Good
  <2> QED BY <2>1
<1>7. From(1) = Offsets(rl)
  <2>1. \A x : x \in Offsets(rl) <=> \E k \in 1..n : x \in rl[k].start..rl[k].end
    BY InOffsets
  <2>2. ASSUME NEW x, NEW k \in 1..n, x \in rl[k].start..rl[k].end
        PROVE  x \in From(1)
    <3>1. PICK p \in 1..n : f[p] = k
      BY <1>2
    <3>2. x \in s[p].start..s[p].end
      BY <1>2, <2>2, <3>1
    <3>3. s[p].start..s[p].end \subseteq Int
      OBVIOUS
    <3> QED BY <3>2, <3>3
  <2>3. ASSUME NEW x \in From(1)
        PROVE  \E k \in 1..n : x \in rl[k].start..rl[k].end
    <3>1. PICK p \in 1..n : x \in s[p].start..s[p].end
      OBVIOUS
    <3>2. s[p] = rl[f[p]] /\ f[p] \in 1..n
      BY <1>2
    <3> QED BY <3>1, <3>2
  <2> HIDE DEF From
  <2> QED BY <2>1, <2>2, <2>3
<1>8. Flatten(rl) = M[1]
  BY DEF Flatten
<1> HIDE DEF From
<1> QED BY <1>6, <1>7, <1>8

-----------------------------------------------------------------------------
(* Changed lists *)

\* A range of a list grows.
LEMMA Replaced ==
  ASSUME NEW rl \in Seq(RangeType), NEW al \in Seq(RangeType), NEW m \in 1..Len(rl),
         Len(al) = Len(rl), \A k \in 1..Len(rl) : k # m => al[k] = rl[k],
         al[m].start <= rl[m].start, rl[m].end <= al[m].end
  PROVE  Offsets(al) = Offsets(rl) \cup (al[m].start..al[m].end)
<1>1. rl[m].start..rl[m].end \subseteq al[m].start..al[m].end
  <2> PICK a, b, c, d \in Int :
         rl[m].start = a /\ rl[m].end = b /\ al[m].start = c /\ al[m].end = d
    BY ElementTyped
  <2>1. c <= a /\ b <= d
    OBVIOUS
  <2> QED BY SMTT(30), <2>1
<1>2. ASSUME NEW x
      PROVE  x \in Offsets(al) <=> x \in Offsets(rl) \/ x \in al[m].start..al[m].end
  <2>1. x \in Offsets(al) <=> \E k \in 1..Len(rl) : x \in al[k].start..al[k].end
    BY InOffsets
  <2>2. x \in Offsets(rl) <=> \E k \in 1..Len(rl) : x \in rl[k].start..rl[k].end
    BY InOffsets
  <2> QED BY <1>1, <2>1, <2>2
<1> QED BY <1>2

\* One list behind another.
LEMMA OffsetsConcat ==
  ASSUME NEW a \in Seq(RangeType), NEW b \in Seq(RangeType)
  PROVE  Offsets(a \o b) = Offsets(a) \cup Offsets(b)
<1> PICK m, n \in Nat : m = Len(a) /\ n = Len(b)
  OBVIOUS
<1> PICK al : al = a \o b
  OBVIOUS
<1>1. /\ al \in Seq(RangeType) /\ Len(al) = m + n
      /\ \A k \in 1..(m + n) : al[k] = IF k <= m THEN a[k] ELSE b[k - m]
  BY ConcatProperties
<1>2. /\ \A k \in 1..m : k \in 1..(m + n) /\ al[k] = a[k]
      /\ \A k \in 1..n : k + m \in 1..(m + n) /\ al[k + m] = b[k]
  <2>1. ASSUME NEW k \in 1..m PROVE k \in 1..(m + n) /\ al[k] = a[k]
    BY <1>1
  <2>2. ASSUME NEW k \in 1..n PROVE k + m \in 1..(m + n) /\ al[k + m] = b[k]
    <3>1. k + m \in 1..(m + n) /\ ~(k + m <= m) /\ (k + m) - m = k
      OBVIOUS
    <3> QED BY <1>1, <3>1
  <2> QED BY <2>1, <2>2
<1>3. \A k \in 1..(m + n) : k \in 1..m \/ \E q \in 1..n : k = q + m
  <2> SUFFICES ASSUME NEW k \in 1..(m + n), k \notin 1..m
               PROVE  \E q \in 1..n : k = q + m
    OBVIOUS
  <2>1. k - m \in 1..n /\ k = (k - m) + m
    OBVIOUS
  <2> QED BY <2>1
<1>4. ASSUME NEW x PROVE x \in Offsets(al) <=> x \in Offsets(a) \/ x \in Offsets(b)
  <2>1. x \in Offsets(al) <=> \E k \in 1..(m + n) : x \in al[k].start..al[k].end
    BY <1>1, InOffsets
  <2>2. x \in Offsets(a) <=> \E k \in 1..m : x \in a[k].start..a[k].end
    BY InOffsets
  <2>3. x \in Offsets(b) <=> \E k \in 1..n : x \in b[k].start..b[k].end
    BY InOffsets
  <2>4. ASSUME NEW k \in 1..(m + n), x \in al[k].start..al[k].end
        PROVE  x \in Offsets(a) \/ x \in Offsets(b)
    <3>1. CASE k \in 1..m
      BY <1>2, <2>2, <2>4, <3>1
    <3>2. CASE \E q \in 1..n : k = q + m
      BY <1>2, <2>3, <2>4, <3>2
    <3> QED BY <1>3, <3>1, <3>2
  <2>5. ASSUME NEW k \in 1..m, x \in a[k].start..a[k].end
        PROVE  x \in Offsets(al)
    BY <1>2, <2>1, <2>5
  <2>6. ASSUME NEW k \in 1..n, x \in b[k].start..b[k].end
        PROVE  x \in Offsets(al)
    <3>1. k + m \in 1..(m + n) /\ al[k + m] = b[k]
      BY <1>2
    <3> QED BY <2>1, <2>6, <3>1
  <2> QED BY <2>1, <2>2, <2>3, <2>4, <2>5, <2>6
<1> QED BY <1>4

\* One list behind another whose ranges neither start nor end before its own.
LEMMA StairsConcat ==
  ASSUME NEW a \in Seq(RangeType), NEW b \in Seq(RangeType), Stairs(a), Stairs(b),
         \A k \in 1..Len(a), l \in 1..Len(b) : a[k].start <= b[l].start /\ a[k].end <= b[l].end
  PROVE  a \o b \in Seq(RangeType) /\ Stairs(a \o b)
<1> PICK m, n \in Nat : m = Len(a) /\ n = Len(b)
  OBVIOUS
<1> PICK al : al = a \o b
  OBVIOUS
<1>1. /\ al \in Seq(RangeType) /\ Len(al) = m + n
      /\ \A k \in 1..(m + n) : al[k] = IF k <= m THEN a[k] ELSE b[k - m]
  BY ConcatProperties
<1>2. ASSUME NEW k \in 1..(m + n)
      PROVE  \/ k \in 1..m /\ al[k] = a[k]
             \/ k > m /\ k - m \in 1..n /\ al[k] = b[k - m]
  BY <1>1
<1>3. ASSUME NEW k \in 1..(m + n) PROVE al[k].start <= al[k].end
  BY <1>2 DEF Stairs
<1>4. ASSUME NEW k \in 1..(m + n), NEW l \in 1..(m + n), k < l
      PROVE  al[k].start <= al[l].start /\ al[k].end <= al[l].end
  <2>1. CASE k \in 1..m /\ l \in 1..m
    BY <1>1, <1>4, <2>1 DEF Stairs
  <2>2. CASE k \in 1..m /\ l > m
    BY <1>2, <2>2
  <2>3. CASE k > m
    <3>1. /\ k - m \in 1..n /\ l - m \in 1..n /\ k - m < l - m
          /\ al[k] = b[k - m] /\ al[l] = b[l - m]
      BY <1>2, <1>4, <2>3
    <3> QED BY <3>1 DEF Stairs
  <2> QED BY SMTT(30), <1>4, <2>1, <2>2, <2>3
<1> QED BY <1>1, <1>3, <1>4 DEF Stairs

\* The end of a list in order.
LEMMA RestRanges ==
  ASSUME NEW rl \in Seq(RangeType), Apart(rl, 0), NEW k \in 1..(Len(rl) + 1)
  PROVE  /\ Rest(rl, k) \in Seq(RangeType) /\ Stairs(Rest(rl, k))
         /\ \A n \in 1..Len(Rest(rl, k)) :
               n + k - 1 \in k..Len(rl) /\ Rest(rl, k)[n] = rl[n + k - 1]
         /\ \A x : x \in Offsets(Rest(rl, k)) <=>
                      \E n \in k..Len(rl) : x \in rl[n].start..rl[n].end
<1> PICK len \in Nat : len = Len(rl)
  OBVIOUS
<1> PICK al : al = Rest(rl, k)
  OBVIOUS
<1>1. al \in Seq(RangeType) /\ Len(al) = len - k + 1
  BY RestProperties
<1>2. ASSUME NEW n \in 1..Len(al)
      PROVE  n + k - 1 \in k..len /\ al[n] = rl[n + k - 1]
  BY <1>1 DEF Rest
<1>3. Stairs(rl)
  BY ApartStairs
<1>4. Stairs(al)
  <2>1. ASSUME NEW n \in 1..Len(al) PROVE al[n].start <= al[n].end
    <3>1. n + k - 1 \in 1..len
      BY <1>2
    <3> QED BY <1>2, <1>3, <3>1 DEF Stairs
  <2>2. ASSUME NEW n \in 1..Len(al), NEW q \in 1..Len(al), n < q
        PROVE  al[n].start <= al[q].start /\ al[n].end <= al[q].end
    <3>1. n + k - 1 \in 1..len /\ q + k - 1 \in 1..len /\ n + k - 1 < q + k - 1
      BY <1>1, <1>2, <2>2
    <3> QED BY <1>2, <1>3, <3>1 DEF Stairs
  <2> QED BY <2>1, <2>2 DEF Stairs
<1>5. ASSUME NEW x
      PROVE  x \in Offsets(al) <=> \E n \in k..len : x \in rl[n].start..rl[n].end
  <2>1. x \in Offsets(al) <=> \E n \in 1..Len(al) : x \in al[n].start..al[n].end
    BY <1>1, InOffsets
  <2>2. ASSUME NEW n \in k..len
        PROVE  n - k + 1 \in 1..Len(al) /\ al[n - k + 1] = rl[n]
    <3>1. n - k + 1 \in 1..Len(al) /\ (n - k + 1) + k - 1 = n
      BY <1>1
    <3> QED BY <1>2, <3>1
  <2> QED BY <1>2, <2>1, <2>2
<1> QED BY <1>1, <1>2, <1>4, <1>5

\* What a list has from range k on.
Coming(list, k) == {x \in Int : \E n \in k..Len(list) : x \in list[n].start..list[n].end}

LEMMA ComingIs ==
  ASSUME NEW list \in Seq(RangeType), Apart(list, 0), NEW k \in 1..(Len(list) + 1)
  PROVE  /\ k <= Len(list) =>
              Coming(list, k) = (list[k].start..list[k].end) \cup Coming(list, k + 1)
         /\ k > Len(list) => Coming(list, k) = {}
         /\ Coming(list, 1) = Offsets(list)
         /\ Offsets(Rest(list, k)) = Coming(list, k)
<1> PICK n \in Nat : n = Len(list)
  OBVIOUS
<1>1. ASSUME k <= n
      PROVE  Coming(list, k) = (list[k].start..list[k].end) \cup Coming(list, k + 1)
  <2>1. \A m : m \in k..n <=> m = k \/ m \in (k + 1)..n
    BY <1>1
  <2>2. list[k].start..list[k].end \subseteq Int
    OBVIOUS
  <2> QED BY <2>1, <2>2 DEF Coming
<1>2. k > n => Coming(list, k) = {}
  BY DEF Coming
<1>3. Coming(list, 1) = Offsets(list)
  <2>1. \A x : x \in Offsets(list) <=> \E m \in 1..n : x \in list[m].start..list[m].end
    BY InOffsets
  <2>2. \A m \in 1..n : list[m].start..list[m].end \subseteq Int
    OBVIOUS
  <2> QED BY <2>1, <2>2 DEF Coming
<1>4. Offsets(Rest(list, k)) = Coming(list, k)
  <2>1. \A x : x \in Offsets(Rest(list, k)) <=> \E m \in k..n : x \in list[m].start..list[m].end
    BY RestRanges
  <2>2. \A m \in k..n : list[m].start..list[m].end \subseteq Int
    OBVIOUS
  <2> QED BY <2>1, <2>2 DEF Coming
<1> QED BY <1>1, <1>2, <1>3, <1>4

LEMMA SingleList ==
  ASSUME NEW e \in RangeType, e.start <= e.end
  PROVE  /\ <<e>> \in Seq(RangeType) /\ Len(<<e>>) = 1 /\ <<e>>[1] = e
         /\ Apart(<<e>>, 0) /\ Offsets(<<e>>) = e.start..e.end
<1> PICK one : one = <<e>>
  OBVIOUS
<1>1. one \in Seq(RangeType) /\ Len(one) = 1 /\ one[1] = e
  OBVIOUS
<1>2. \A k \in 1..1 : k = 1
  OBVIOUS
<1>3. Apart(one, 0)
  <2>1. \A k \in 1..Len(one) : one[k].start <= one[k].end
    BY <1>1, <1>2
  <2>2. \A k, l \in 1..Len(one) : ~(k < l)
    BY <1>1, <1>2
  <2> QED BY <1>1, <2>1, <2>2, InApart
<1>4. Offsets(one) = e.start..e.end
  <2>1. \A x : x \in Offsets(one) <=> \E k \in 1..Len(one) : x \in one[k].start..one[k].end
    BY <1>1, InOffsets
  <2>2. 1 \in 1..Len(one)
    BY <1>1
  <2> QED BY <1>1, <1>2, <2>1, <2>2
<1> QED BY <1>1, <1>3, <1>4

\* The ends of a range that is not empty are offsets of its list.
LEMMA EndsInOffsets ==
  ASSUME NEW list \in Seq(RangeType), NEW k \in 1..Len(list), list[k].start <= list[k].end
  PROVE  /\ list[k].start \in Int /\ list[k].end \in Int
         /\ list[k].start \in Offsets(list) /\ list[k].end \in Offsets(list)
<1> PICK a, b \in Int : list[k].start = a /\ list[k].end = b
  BY ElementTyped
<1>1. a \in a..b /\ b \in a..b
  OBVIOUS
<1> QED BY <1>1, InOffsets

\* One list in order behind another one.
LEMMA ApartConcat ==
  ASSUME NEW a \in Seq(RangeType), NEW b \in Seq(RangeType), Apart(a, 0), Apart(b, 0),
         \A x \in Offsets(a), y \in Offsets(b) : x < y
  PROVE  a \o b \in Seq(RangeType) /\ Apart(a \o b, 0)
<1> PICK m, n \in Nat : m = Len(a) /\ n = Len(b)
  OBVIOUS
<1> PICK al : al = a \o b
  OBVIOUS
<1>1. /\ al \in Seq(RangeType) /\ Len(al) = m + n
      /\ \A k \in 1..(m + n) : al[k] = IF k <= m THEN a[k] ELSE b[k - m]
  BY ConcatProperties
<1>2. ASSUME NEW k \in 1..(m + n)
      PROVE  \/ k \in 1..m /\ al[k] = a[k]
             \/ k > m /\ k - m \in 1..n /\ al[k] = b[k - m]
  BY <1>1
<1>3. /\ \A k \in 1..m : a[k].start <= a[k].end
      /\ \A k \in 1..n : b[k].start <= b[k].end
  BY InApart
<1>4. \A k \in 1..(m + n) : al[k].start <= al[k].end
  BY <1>2, <1>3
<1>5. ASSUME NEW k \in 1..(m + n), NEW l \in 1..(m + n), k < l
      PROVE  al[k].end + 0 < al[l].start
  <2>1. CASE k \in 1..m /\ l \in 1..m
    <3>1. al[k] = a[k] /\ al[l] = a[l]
      BY <1>1, <2>1
    <3>2. a[k].end + 0 < a[l].start
      BY <1>5, <2>1, InApart
    <3> QED BY <3>1, <3>2
  <2>2. CASE k \in 1..m /\ l > m
    <3>1. al[k] = a[k] /\ l - m \in 1..n /\ al[l] = b[l - m]
      BY <1>2, <2>2
    <3>2. a[k].end \in Int /\ a[k].end \in Offsets(a) /\ b[l - m].start \in Offsets(b)
      BY <1>3, <2>2, <3>1, EndsInOffsets
    <3>3. a[k].end < b[l - m].start
      BY <3>2
    <3> QED BY <3>1, <3>2, <3>3
  <2>3. CASE k > m
    <3>1. /\ k - m \in 1..n /\ l - m \in 1..n /\ k - m < l - m
          /\ al[k] = b[k - m] /\ al[l] = b[l - m]
      BY <1>2, <1>5, <2>3
    <3> QED BY <3>1, InApart
  <2> QED BY <1>5, <2>1, <2>2, <2>3
<1> QED BY <1>1, <1>4, <1>5, InApart

-----------------------------------------------------------------------------
(* Folds of a set, and of a list from left to right *)

\* `Choose` takes the elements out of a set one after the other, and `Step`
\* stays among the values A.
Folding(S, A, Choose, Step) ==
  /\ \A s \in SUBSET S : s # {} => Choose[s] \in s
  /\ \A x \in S, a \in A : Step[<<x, a>>] \in A

\* f is the fold of each set.
Folded(f, S, base, Choose, Step) ==
  /\ f[{}] = base
  /\ \A s \in SUBSET S : s # {} => f[s] = Step[<<Choose[s], f[s \ {Choose[s]}]>>]

\* A fold over a finite set has a solution.
LEMMA FoldSolves ==
  ASSUME NEW S, IsFiniteSet(S), NEW A, NEW base \in A, NEW Choose, NEW Step,
         Folding(S, A, Choose, Step)
  PROVE  \E f \in [SUBSET S -> A] : Folded(f, S, base, Choose, Step)
<1> USE DEF Folding, Folded
<1> PICK n \in Nat : n = Cardinality(S)
  BY FS_CardinalityType
<1> DEFINE Small(k) == {s \in SUBSET S : Cardinality(s) <= k}
           Solves(f, k) == /\ f \in [Small(k) -> A]
                           /\ f[{}] = base
                           /\ \A s \in Small(k) : s # {} =>
                                 f[s] = Step[<<Choose[s], f[s \ {Choose[s]}]>>]
           P == {k \in Nat : \E f : Solves(f, k)}
<1>0. {} \in SUBSET S /\ IsFiniteSet({}) /\ Cardinality({}) = 0
  BY FS_EmptySet
<1>1. 0 \in P
  <2>1. ASSUME NEW s \in Small(0) PROVE s = {}
    <3>1. IsFiniteSet(s) /\ Cardinality(s) = 0
      <4>1. IsFiniteSet(s) /\ Cardinality(s) <= 0
        BY FS_Subset
      <4> QED BY <4>1, FS_CardinalityType
    <3> QED BY <3>1, FS_EmptySet
  <2>2. {} \in Small(0)
    BY <1>0
  <2> DEFINE f == [s \in Small(0) |-> base]
  <2>3. f \in [Small(0) -> A] /\ f[{}] = base
    <3> HIDE DEF Small
    <3> QED BY <2>2
  <2>4. Solves(f, 0)
    <3> HIDE DEF f, Small
    <3> QED BY <2>1, <2>3
  <2> HIDE DEF Solves, f
  <2> QED BY <2>4
<1>2. ASSUME NEW k \in 1..n, k - 1 \in P
      PROVE  k \in P
  <2> PICK f : Solves(f, k - 1)
    BY <1>2
  <2> DEFINE g == [s \in Small(k) |-> IF s = {} THEN base
                                      ELSE Step[<<Choose[s], f[s \ {Choose[s]}]>>]]
  <2>1. {} \in Small(k) /\ {} \in Small(k - 1)
    BY <1>0
  <2>2. ASSUME NEW s \in Small(k), s # {}
        PROVE  /\ Choose[s] \in S /\ s \ {Choose[s]} \in Small(k - 1)
               /\ s \ {Choose[s]} \in Small(k)
    <3>1. Choose[s] \in s /\ s \in SUBSET S /\ Cardinality(s) <= k
      BY <2>2
    <3>2. IsFiniteSet(s) /\ Cardinality(s) \in Nat
      BY <3>1, FS_Subset, FS_CardinalityType
    <3>3. Cardinality(s \ {Choose[s]}) = Cardinality(s) - 1
      <4> PICK x : x = Choose[s]
        OBVIOUS
      <4>1. x \in s /\ IsFiniteSet(s)
        BY ONLY <3>1, <3>2, x = Choose[s]
      <4>2. Cardinality(s \ {x}) = Cardinality(s) - 1
        BY ONLY <4>1, FS_RemoveElement
      <4> QED BY ONLY <4>2, x = Choose[s]
    <3> QED BY <3>1, <3>2, <3>3
  <2>3. ASSUME NEW s \in Small(k - 1)
        PROVE  s \in Small(k) /\ g[s] = f[s]
    <3>1. s \in Small(k)
      <4>1. IsFiniteSet(s) /\ Cardinality(s) \in Nat
        BY FS_Subset, FS_CardinalityType
      <4> QED BY <4>1
    <3>2. g[s] = IF s = {} THEN base ELSE Step[<<Choose[s], f[s \ {Choose[s]}]>>]
      <4> HIDE DEF Small, Solves
      <4> QED BY <3>1
    <3>3. f[s] = IF s = {} THEN base ELSE Step[<<Choose[s], f[s \ {Choose[s]}]>>]
      <4> HIDE DEF Small, g
      <4> QED OBVIOUS
    <3> HIDE DEF Small, Solves, g
    <3> QED BY <3>1, <3>2, <3>3
  <2>4. ASSUME NEW s \in Small(k), s # {}
        PROVE  g[s] = Step[<<Choose[s], g[s \ {Choose[s]}]>>] /\ g[s] \in A
    <3>1. g[s] = Step[<<Choose[s], f[s \ {Choose[s]}]>>]
      <4> HIDE DEF Small, Solves
      <4> QED BY <2>4
    <3>2. f[s \ {Choose[s]}] \in A
      <4>1. s \ {Choose[s]} \in Small(k - 1)
        BY <2>2, <2>4
      <4>2. f \in [Small(k - 1) -> A]
        OBVIOUS
      <4> HIDE DEF Small, Solves
      <4> QED BY <4>1, <4>2
    <3> HIDE DEF Small, Solves, g
    <3> QED BY <2>2, <2>3, <2>4, <3>1, <3>2
  <2>5. g[{}] = base
    <3> HIDE DEF Small
    <3> QED BY <2>1
  <2>6. g \in [Small(k) -> A]
    <3>1. \A s \in Small(k) : g[s] \in A
      <4> HIDE DEF Small, Solves, g
      <4> QED BY <2>4, <2>5
    <3>2. g = [s \in Small(k) |-> g[s]]
      <4> HIDE DEF Small, Solves
      <4> QED OBVIOUS
    <3> HIDE DEF Small, Solves, g
    <3> QED BY <3>1, <3>2
  <2>7. Solves(g, k)
    <3> HIDE DEF Small, g
    <3> QED BY <2>4, <2>5, <2>6
  <2> HIDE DEF Solves, g
  <2> QED BY <2>7
<1>3. n \in P
  <2> HIDE DEF P
  <2>1. \A k \in 0..n : k \in P
    BY <1>1, <1>2, Upwards
  <2> QED BY <2>1
<1>4. Small(n) = SUBSET S
  <2> SUFFICES ASSUME NEW s \in SUBSET S PROVE Cardinality(s) <= n
    OBVIOUS
  <2> QED BY FS_Subset
<1> PICK f : Solves(f, n)
  BY <1>3
<1>5. Solves(f, n)
  OBVIOUS
<1> HIDE DEF Small
<1> QED BY <1>4, <1>5

\* The greatest number of a set of positions, and of the first k of them.
LEMMA MaxPosition ==
  ASSUME NEW n \in Nat
  PROVE  /\ \A s \in SUBSET (1..n) : s # {} => Max(s) \in s
         /\ \A k \in 1..n : Max(1..k) = k /\ (1..k) \ {k} = 1..(k - 1) /\ 1..k # {}
<1>1. ASSUME NEW s \in SUBSET (1..n), s # {}
      PROVE  Max(s) \in s
  <2>1. PICK m \in s : \A k \in s : k <= m
    BY <1>1, GreatestElement
  <2>2. \E x \in s : \A y \in s : x >= y
    <3>1. \A y \in s : y \in Int
      OBVIOUS
    <3> QED BY <2>1, <3>1
  <2> QED BY <2>2 DEF Max
<1>2. ASSUME NEW k \in 1..n
      PROVE  Max(1..k) = k /\ (1..k) \ {k} = 1..(k - 1) /\ 1..k # {}
  <2>1. k \in 1..k /\ \A y \in 1..k : k >= y
    OBVIOUS
  <2>2. \A x \in 1..k : (\A y \in 1..k : x >= y) => x = k
    OBVIOUS
  <2>3. Max(1..k) = k
    BY <2>1, <2>2, Zenon DEF Max
  <2> QED BY <2>1, <2>3
<1> QED BY <1>1, <1>2

\* f is the fold of each set of positions, the last one first.
FoldsLeft(f, n, base, Step) ==
  /\ f[{}] = base
  /\ \A s \in SUBSET (1..n) : s # {} =>
        /\ Max(s) \in 1..n /\ s \ {Max(s)} \in SUBSET (1..n)
        /\ f[s] = Step[<<Max(s), f[s \ {Max(s)}]>>]

LEMMA LeftSolves ==
  ASSUME NEW n \in Nat, NEW A, NEW base \in A, NEW Step,
         \A x \in 1..n, a \in A : Step[<<x, a>>] \in A
  PROVE  \E f \in [SUBSET (1..n) -> A] : FoldsLeft(f, n, base, Step)
<1> PICK S : S = 1..n
  OBVIOUS
<1> PICK Choose : Choose = [s \in SUBSET S |-> Max(s)]
  OBVIOUS
<1>1. \A s \in SUBSET S : s # {} => Choose[s] = Max(s) /\ Max(s) \in s
  BY MaxPosition
<1>2. IsFiniteSet(S)
  BY FS_Interval
<1>3. Folding(S, A, Choose, Step)
  BY <1>1 DEF Folding
<1>4. PICK f \in [SUBSET S -> A] : Folded(f, S, base, Choose, Step)
  BY ONLY <1>2, <1>3, base \in A, FoldSolves
<1>5. ASSUME NEW s \in SUBSET S, s # {}
      PROVE  /\ Max(s) \in S /\ s \ {Max(s)} \in SUBSET S
             /\ f[s] = Step[<<Max(s), f[s \ {Max(s)}]>>]
  BY <1>1, <1>4, <1>5 DEF Folded
<1>6. f[{}] = base
  BY <1>4 DEF Folded
<1> QED BY <1>4, <1>5, <1>6 DEF FoldsLeft


-----------------------------------------------------------------------------
(* Flatten: lists in any order *)

\* s has the ranges of rl sorted, and M what each of its ends is merged to.
Merges(M, s, rl, n) ==
  /\ s \in Seq(RangeType) /\ Len(s) = n /\ Reordered(s, rl, n)
  /\ M[n + 1] = <<>> /\ \A k \in 1..n : M[k] = MergeFront(s[k], M[k + 1])
  /\ Flatten(rl) = M[1]

LEMMA Merging ==
  ASSUME NEW rl \in Seq(RangeType), NEW n \in Nat, n = Len(rl)
  PROVE  \E s, M : Merges(M, s, rl, n)
<1> PICK s : s = Sorted(rl)
  OBVIOUS
<1>1. s \in Seq(RangeType) /\ Len(s) = n /\ Reordered(s, rl, n)
  BY SortedIs
<1> PICK M : M = Merged(s)
  OBVIOUS
<1>2. M = [k \in 1..(n + 1) |-> IF k > n THEN <<>> ELSE MergeFront(s[k], M[k + 1])]
  BY <1>1, MergedIs
<1>3. n + 1 \in 1..(n + 1) /\ n + 1 > n /\ \A k \in 1..n : k \in 1..(n + 1) /\ ~(k > n)
  OBVIOUS
<1>4. M[n + 1] = <<>> /\ \A k \in 1..n : M[k] = MergeFront(s[k], M[k + 1])
  BY ONLY <1>2, <1>3
<1>5. Flatten(rl) = M[1]
  BY DEF Flatten
<1> QED BY ONLY <1>1, <1>4, <1>5 DEF Merges

\* The ranges of a tail, and that of a normal list.
LEMMA TailRanges ==
  ASSUME NEW list \in Seq(RangeType), list # <<>>
  PROVE  /\ Tail(list) \in Seq(RangeType) /\ Len(Tail(list)) = Len(list) - 1
         /\ \A k \in 1..Len(Tail(list)) : k + 1 \in 1..Len(list) /\ Tail(list)[k] = list[k + 1]
         /\ \A k \in 1..Len(list) : k # 1 =>
               k - 1 \in 1..Len(Tail(list)) /\ Tail(list)[k - 1] = list[k]
<1> PICK tail : tail = Tail(list)
  OBVIOUS
<1>1. /\ tail \in Seq(RangeType) /\ Len(tail) = Len(list) - 1 /\ Len(list) \in Nat
      /\ \A k \in 1..(Len(list) - 1) : tail[k] = list[k + 1]
  OBVIOUS
<1>2. \A k \in 1..Len(tail) : k + 1 \in 1..Len(list) /\ tail[k] = list[k + 1]
  BY <1>1
<1>3. ASSUME NEW k \in 1..Len(list), k # 1
      PROVE  k - 1 \in 1..Len(tail) /\ tail[k - 1] = list[k]
  <2>1. k - 1 \in 1..(Len(list) - 1) /\ (k - 1) + 1 = k
    BY ONLY <1>1, <1>3
  <2> QED BY ONLY <1>1, <2>1
<1> QED BY ONLY <1>1, <1>2, <1>3, tail = Tail(list)

LEMMA NormalTail ==
  ASSUME NEW list \in Seq(RangeType), list # <<>>, Normal(list)
  PROVE  Normal(Tail(list))
<1> PICK tail : tail = Tail(list)
  OBVIOUS
<1>1. /\ tail \in Seq(RangeType) /\ Len(tail) = Len(list) - 1 /\ Len(list) \in Nat
      /\ \A k \in 1..Len(tail) : k + 1 \in 1..Len(list) /\ tail[k] = list[k + 1]
  BY TailRanges
<1>2. /\ \A k \in 1..Len(list) : list[k].start <= list[k].end
      /\ \A k, l \in 1..Len(list) : k < l => list[k].end + 1 < list[l].start
  BY InApart DEF Normal
<1>3. \A k \in 1..Len(tail) : tail[k].start <= tail[k].end
  BY ONLY <1>1, <1>2
<1>4. ASSUME NEW k \in 1..Len(tail), NEW l \in 1..Len(tail), k < l
      PROVE  tail[k].end + 1 < tail[l].start
  <2>1. k + 1 < l + 1
    BY ONLY <1>1, <1>4
  <2> QED BY ONLY <1>1, <1>2, <2>1
<1> QED BY <1>1, <1>3, <1>4, InApart DEF Normal

\* Merging keeps each range in one.
LEMMA MergeFrontEncloses ==
  ASSUME NEW list \in Seq(RangeType), NEW r \in RangeType, NEW l,
         l = MergeFront(r, list), list # <<>> => r.start <= list[1].start
  PROVE  /\ \E m \in 1..Len(l) : Encloses(l[m], r)
         /\ \A k \in 1..Len(list) : \E m \in 1..Len(l) : Encloses(l[m], list[k])
<1> PICK a, b \in Int : r.start = a /\ r.end = b
  BY DEF RangeType
<1>1. \A k \in 1..Len(list) : list[k] \in RangeType /\ list[k].start \in Int /\ list[k].end \in Int
  BY ElementTyped
<1>2. \A k \in 1..Len(list) : Encloses(list[k], list[k])
  BY ONLY <1>1 DEF Encloses
<1>3. Encloses(r, r)
  BY DEF Encloses
<1>4. CASE list # <<>> /\ list[1].start <= b + 1
  <2>1. 1 \in 1..Len(list)
    BY <1>4, HeadTail
  <2> PICK s, e \in Int : list[1].start = s /\ list[1].end = e
    BY <1>1, <2>1
  <2> PICK g \in Int : g = Greatest(b, e) /\ g >= b /\ g >= e
    BY DEF Greatest
  <2> PICK joined \in RangeType : joined = Interval(a, g) /\ joined.start = a /\ joined.end = g
    BY RangeTyped
  <2> PICK tail : tail = Tail(list)
    OBVIOUS
  <2>2. l = <<joined>> \o tail
    BY <1>4 DEF MergeFront
  <2>3. /\ tail \in Seq(RangeType) /\ Len(tail) \in Nat
        /\ \A k \in 1..Len(list) : k # 1 => k - 1 \in 1..Len(tail) /\ tail[k - 1] = list[k]
    BY <1>4, TailRanges
  <2>4. /\ Len(l) = Len(tail) + 1 /\ l[1] = joined
        /\ \A k \in 1..Len(tail) : l[k + 1] = tail[k]
    BY <2>2, <2>3, Prepended
  <2>5. 1 \in 1..Len(l) /\ \A k \in 1..Len(tail) : k + 1 \in 1..Len(l)
    BY ONLY <2>3, <2>4
  <2>6. Encloses(joined, r) /\ Encloses(joined, list[1])
    <3>1. a <= s
      BY <1>4
    <3> QED BY <3>1 DEF Encloses
  <2> QED BY ONLY <1>2, <2>3, <2>4, <2>5, <2>6
<1>5. CASE ~(list # <<>> /\ list[1].start <= b + 1)
  <2>1. l = <<r>> \o list
    BY <1>5 DEF MergeFront
  <2>2. Len(l) = Len(list) + 1 /\ l[1] = r /\ \A k \in 1..Len(list) : l[k + 1] = list[k]
    BY <2>1, Prepended
  <2>3. 1 \in 1..Len(l) /\ \A k \in 1..Len(list) : k + 1 \in 1..Len(l)
    BY ONLY <2>2, Len(list) \in Nat
  <2>4. Len(list) \in Nat
    OBVIOUS
  <2> QED BY ONLY <1>2, <1>3, <2>2, <2>3
<1> QED BY <1>4, <1>5

\* Flatten keeps each range in one.
LEMMA FlattenEncloses ==
  ASSUME NEW rl \in Seq(RangeType)
  PROVE  \A k \in 1..Len(rl) : \E m \in 1..Len(Flatten(rl)) : Encloses(Flatten(rl)[m], rl[k])
<1> PICK n \in Nat : n = Len(rl)
  OBVIOUS
<1> PICK s, M : Merges(M, s, rl, n)
  BY Merging
<1>1. /\ s \in Seq(RangeType) /\ Len(s) = n /\ Reordered(s, rl, n)
      /\ M[n + 1] = <<>> /\ \A k \in 1..n : M[k] = MergeFront(s[k], M[k + 1])
      /\ Flatten(rl) = M[1]
  BY DEF Merges
<1>2. PICK f \in [1..n -> 1..n] :
        /\ \A p \in 1..n : s[p] = rl[f[p]]
        /\ \A k \in 1..n : \E p \in 1..n : f[p] = k
        /\ \A p, q \in 1..n : p < q => f[p] # f[q] /\ s[p].start <= s[q].start
  BY ONLY <1>1, Zenon DEF Reordered
<1> DEFINE Good(k) == /\ M[k] \in Seq(RangeType)
                      /\ k <= n => M[k] # <<>> /\ M[k][1].start = s[k].start
                      /\ \A p \in k..n : \E m \in 1..Len(M[k]) : Encloses(M[k][m], s[p])
<1> PICK P : P = {k \in 1..(n + 1) : Good(k)}
  OBVIOUS
<1>3. n + 1 \in P
  <2>1. n + 1 \in 1..(n + 1) /\ ~(n + 1 <= n) /\ \A p \in (n + 1)..n : FALSE
    OBVIOUS
  <2> QED BY <1>1, <2>1, EmptyList
<1>4. ASSUME NEW k \in 1..n, k + 1 \in P
      PROVE  k \in P
  <2> PICK r : r = s[k]
    OBVIOUS
  <2> PICK list : list = M[k + 1]
    OBVIOUS
  <2> PICK l : l = M[k]
    OBVIOUS
  <2>1. r \in RangeType
    BY <1>1, ElementTyped
  <2>2. /\ list \in Seq(RangeType)
        /\ k + 1 <= n => list # <<>> /\ list[1].start = s[k + 1].start
        /\ \A p \in (k + 1)..n : \E m \in 1..Len(list) : Encloses(list[m], s[p])
    BY <1>4
  <2>3. list # <<>> => r.start <= list[1].start
    <3>1. CASE k = n
      BY <1>1, <3>1
    <3>2. CASE k < n
      <4>1. k + 1 \in 1..n /\ k + 1 <= n /\ k < k + 1
        BY <3>2
      <4> QED BY <1>2, <2>2, <4>1
    <3> QED BY <3>1, <3>2
  <2>4. l = MergeFront(r, list)
    BY <1>1
  <2>5. l \in Seq(RangeType) /\ l # <<>> /\ l[1].start = r.start
    <3>1. list \in Seq(RangeType)
      BY ONLY <2>2
    <3> QED BY ONLY <2>1, <2>3, <2>4, <3>1, MergeFrontOffsets
  <2>6. /\ \E m \in 1..Len(l) : Encloses(l[m], r)
        /\ \A q \in 1..Len(list) : \E m \in 1..Len(l) : Encloses(l[m], list[q])
    BY ONLY <2>1, <2>2, <2>3, <2>4, MergeFrontEncloses
  <2>7. ASSUME NEW p \in k..n
        PROVE  \E m \in 1..Len(l) : Encloses(l[m], s[p])
    <3>1. CASE p = k
      BY ONLY <2>6, <3>1, r = s[k]
    <3>2. CASE p # k
      <4>1. p \in (k + 1)..n /\ p \in 1..n
        BY <3>2
      <4>2. PICK q \in 1..Len(list) : Encloses(list[q], s[p])
        BY ONLY <2>2, <4>1
      <4>3. PICK m \in 1..Len(l) : Encloses(l[m], list[q])
        BY ONLY <2>6
      <4>4. /\ list[q].start \in Int /\ list[q].end \in Int /\ l[m].start \in Int /\ l[m].end \in Int
            /\ s[p].start \in Int /\ s[p].end \in Int
        <5>1. list[q].start \in Int /\ list[q].end \in Int
          BY ONLY <2>2, q \in 1..Len(list), ElementTyped
        <5>2. l[m].start \in Int /\ l[m].end \in Int
          BY ONLY <2>5, m \in 1..Len(l), ElementTyped
        <5>3. s[p].start \in Int /\ s[p].end \in Int
          BY ONLY <1>1, p \in 1..n, ElementTyped
        <5> QED BY ONLY <5>1, <5>2, <5>3
      <4> PICK x, y, z : x = l[m] /\ y = list[q] /\ z = s[p]
        OBVIOUS
      <4>5. Encloses(x, z)
        <5>1. Encloses(x, y) /\ Encloses(y, z)
          BY ONLY <4>2, <4>3, x = l[m] /\ y = list[q] /\ z = s[p]
        <5>2. /\ x.start \in Int /\ x.end \in Int /\ y.start \in Int /\ y.end \in Int
              /\ z.start \in Int /\ z.end \in Int
          BY ONLY <4>4, x = l[m] /\ y = list[q] /\ z = s[p]
        <5>3. x.start <= y.start /\ y.end <= x.end /\ y.start <= z.start /\ z.end <= y.end
          BY ONLY <5>1 DEF Encloses
        <5>4. x.start <= z.start /\ z.end <= x.end
          BY ONLY SMTT(30), <5>2, <5>3
        <5> QED BY ONLY <5>4 DEF Encloses
      <4> QED BY ONLY <4>5, m \in 1..Len(l), x = l[m] /\ y = list[q] /\ z = s[p]
    <3> QED BY ONLY <3>1, <3>2
  <2>8. k \in 1..(n + 1)
    OBVIOUS
  <2> QED BY ONLY <2>5, <2>7, <2>8, l = M[k], r = s[k], P = {j \in 1..(n + 1) : Good(j)}
<1>5. 1 \in P
  BY ONLY <1>3, <1>4, n \in Nat, Downwards
<1>6. ASSUME NEW k \in 1..n
      PROVE  \E m \in 1..Len(M[1]) : Encloses(M[1][m], rl[k])
  <2>1. PICK p \in 1..n : f[p] = k
    BY ONLY <1>2
  <2>2. \E m \in 1..Len(M[1]) : Encloses(M[1][m], s[p])
    BY ONLY <1>5, p \in 1..n, P = {j \in 1..(n + 1) : Good(j)}
  <2>3. s[p] = rl[k]
    BY ONLY <1>2, <2>1
  <2> QED BY ONLY <2>2, <2>3
<1> QED BY ONLY <1>1, <1>6, n = Len(rl)

\* r does not reach past the first range of the list to the second.
Stays(r, list) ==
  list # <<>> /\ list[1].end < r.end => \A m \in 2..Len(list) : r.end + 1 < list[m].start

\* The ranges of l but the first start where some of the list do.
StartIn(l, list) == \A m \in 2..Len(l) : \E q \in 1..Len(list) : l[m].start = list[q].start

\* Merging keeps a list normal unless the range reaches past the first of the
\* list to the second; the others of the result start where others did.
LEMMA MergeFrontNormal ==
  ASSUME NEW list \in Seq(RangeType), NEW r \in RangeType, Normal(list), r.start <= r.end,
         list # <<>> => r.start <= list[1].start, Stays(r, list),
         NEW l, l = MergeFront(r, list)
  PROVE  Normal(l) /\ r.end <= l[1].end /\ StartIn(l, list)
<1> PICK a, b \in Int : r.start = a /\ r.end = b /\ a <= b
  BY DEF RangeType
<1>1. Len(list) \in Nat
  OBVIOUS
<1>2. CASE list # <<>> /\ list[1].start <= b + 1
  <2>1. 1 \in 1..Len(list)
    BY <1>1, <1>2
  <2> PICK s, e \in Int : list[1].start = s /\ list[1].end = e /\ s <= e
    BY <2>1, ElementTyped, InApart DEF Normal
  <2>2. a <= s /\ s <= b + 1
    BY <1>2
  <2> PICK g \in Int : g = Greatest(b, e) /\ g >= b /\ g >= e /\ (g = e \/ (g = b /\ e < b))
    BY DEF Greatest
  <2> PICK joined \in RangeType : joined = Interval(a, g) /\ joined.start = a /\ joined.end = g
    BY RangeTyped
  <2> PICK tail : tail = Tail(list)
    OBVIOUS
  <2>3. l = <<joined>> \o tail
    BY <1>2 DEF MergeFront
  <2>4. /\ tail \in Seq(RangeType) /\ Len(tail) = Len(list) - 1
        /\ \A k \in 1..Len(tail) : k + 1 \in 1..Len(list) /\ tail[k] = list[k + 1]
    BY <1>2, TailRanges
  <2>5. Normal(tail)
    BY <1>2, NormalTail
  <2>6. ASSUME NEW k \in 1..Len(tail)
        PROVE  g + 1 < tail[k].start
    <3>1. k + 1 \in 2..Len(list) /\ 1 < k + 1 /\ tail[k] = list[k + 1]
      BY <1>1, <2>4
    <3>2. e + 1 < list[k + 1].start
      BY <2>1, <2>4, <3>1, InApart DEF Normal
    <3>3. e < b => b + 1 < list[k + 1].start
      BY <1>2, <3>1 DEF Stays
    <3> QED BY <3>1, <3>2, <3>3
  <2>7. Normal(l)
    <3>1. a <= g
      BY ONLY a <= b, g >= b, a \in Int, b \in Int, g \in Int
    <3> QED BY <2>3, <2>4, <2>5, <2>6, <3>1, NormalPrepend
  <2>8. /\ Len(l) = Len(tail) + 1 /\ l[1] = joined
        /\ \A k \in 1..Len(tail) : l[k + 1] = tail[k]
    BY <2>3, <2>4, Prepended
  <2>9. ASSUME NEW m \in 2..Len(l)
        PROVE  \E q \in 1..Len(list) : l[m].start = list[q].start
    <3> PICK k \in Nat : m = k + 1
      <4>1. m - 1 \in Nat /\ m = (m - 1) + 1
        OBVIOUS
      <4> QED BY <4>1
    <3>1. k \in 1..Len(tail)
      BY ONLY k \in Nat, m = k + 1, m \in 2..Len(l), <2>8, <2>4, <1>1
    <3> QED BY ONLY <3>1, <2>4, <2>8, m = k + 1
  <2> QED BY <2>7, <2>8, <2>9 DEF StartIn
<1>3. CASE ~(list # <<>> /\ list[1].start <= b + 1)
  <2>1. l = <<r>> \o list
    BY <1>3 DEF MergeFront
  <2>2. ASSUME NEW k \in 1..Len(list)
        PROVE  r.end + 1 < list[k].start
    <3>1. 1 \in 1..Len(list) /\ list # <<>>
      BY <1>1
    <3> PICK s, e, c \in Int : list[1].start = s /\ list[1].end = e /\ list[k].start = c /\ s <= e
      BY <3>1, ElementTyped, InApart DEF Normal
    <3>2. k = 1 \/ e + 1 < c
      <4>1. k = 1 \/ 1 < k
        BY <1>1
      <4> QED BY <3>1, <4>1, InApart DEF Normal
    <3>3. b + 1 < s
      BY <1>3, <3>1
    <3> QED BY <3>2, <3>3
  <2>3. Normal(l)
    BY <2>1, <2>2, NormalPrepend
  <2>4. Len(l) = Len(list) + 1 /\ l[1] = r /\ \A k \in 1..Len(list) : l[k + 1] = list[k]
    BY <2>1, Prepended
  <2>5. ASSUME NEW m \in 2..Len(l)
        PROVE  \E q \in 1..Len(list) : l[m].start = list[q].start
    <3> PICK k \in Nat : m = k + 1
      <4>1. m - 1 \in Nat /\ m = (m - 1) + 1
        OBVIOUS
      <4> QED BY <4>1
    <3>1. k \in 1..Len(list)
      BY ONLY k \in Nat, m = k + 1, m \in 2..Len(l), <2>4, <1>1
    <3> QED BY ONLY <3>1, <2>4, m = k + 1
  <2>6. r.end <= r.end
    OBVIOUS
  <2> QED BY <2>3, <2>4, <2>5, <2>6 DEF StartIn
<1> QED BY <1>2, <1>3

\* A range of the list that another lies in touches a third.
NestedIn(rl) ==
  \E j, k, l \in 1..Len(rl) : /\ j # k /\ k # l /\ j # l
                              /\ Encloses(rl[j], rl[k]) /\ OverlapsFront(rl[j], rl[l])

\* Flatten makes a list normal unless it is nested.
LEMMA FlattenNested ==
  ASSUME NEW rl \in Seq(RangeType), \A k \in 1..Len(rl) : rl[k].start <= rl[k].end, ~NestedIn(rl)
  PROVE  Normal(Flatten(rl))
<1> PICK n \in Nat : n = Len(rl)
  OBVIOUS
<1> PICK s, M : Merges(M, s, rl, n)
  BY Merging
<1>1. /\ s \in Seq(RangeType) /\ Len(s) = n /\ Reordered(s, rl, n)
      /\ M[n + 1] = <<>> /\ \A k \in 1..n : M[k] = MergeFront(s[k], M[k + 1])
      /\ Flatten(rl) = M[1]
  BY DEF Merges
<1>2. PICK f \in [1..n -> 1..n] :
        /\ \A p \in 1..n : s[p] = rl[f[p]]
        /\ \A k \in 1..n : \E p \in 1..n : f[p] = k
        /\ \A p, q \in 1..n : p < q => f[p] # f[q] /\ s[p].start <= s[q].start
  BY ONLY <1>1, Zenon DEF Reordered
<1>3. \A p \in 1..n : f[p] \in 1..n /\ s[p] = rl[f[p]]
  BY <1>2
<1>4. \A p \in 1..n : s[p] \in RangeType /\ s[p].start \in Int /\ s[p].end \in Int
                      /\ s[p].start <= s[p].end
  BY <1>1, <1>3, ElementTyped
<1>5. ASSUME NEW p \in 1..n, NEW q \in 1..n, NEW m \in 1..n, p < q, q < m,
             Encloses(s[p], s[q])
      PROVE  ~OverlapsFront(s[p], s[m])
  <2>1. f[p] # f[q] /\ f[q] # f[m] /\ f[p] # f[m]
    <3>1. p < m
      BY <1>5
    <3> QED BY ONLY <1>2, <1>5, <3>1
  <2>2. /\ f[p] \in 1..Len(rl) /\ f[q] \in 1..Len(rl) /\ f[m] \in 1..Len(rl)
        /\ s[p] = rl[f[p]] /\ s[q] = rl[f[q]] /\ s[m] = rl[f[m]]
    BY <1>3
  <2>3. ~NestedIn(rl)
    OBVIOUS
  <2> QED BY ONLY <1>5, <2>1, <2>2, <2>3 DEF NestedIn
<1> DEFINE Good(k) == /\ M[k] \in Seq(RangeType) /\ Normal(M[k])
                      /\ k <= n => /\ M[k] # <<>> /\ M[k][1].start = s[k].start
                                   /\ s[k].end <= M[k][1].end
                      /\ \A m \in 2..Len(M[k]) : \E q \in (k + 1)..n : M[k][m].start = s[q].start
<1> PICK P : P = {k \in 1..(n + 1) : Good(k)}
  OBVIOUS
<1>6. n + 1 \in P
  <2>1. n + 1 \in 1..(n + 1) /\ ~(n + 1 <= n) /\ Len(<<>>) = 0
    OBVIOUS
  <2> PICK none \in Seq(RangeType) : none = M[n + 1] /\ Normal(none) /\ Len(none) = 0
    BY <1>1, <2>1, EmptyList
  <2>2. \A m \in 2..Len(none) : FALSE
    OBVIOUS
  <2> QED BY ONLY <2>1, <2>2, none = M[n + 1], none \in Seq(RangeType), Normal(none),
                  P = {j \in 1..(n + 1) : Good(j)}
<1>7. ASSUME NEW k \in 1..n, k + 1 \in P
      PROVE  k \in P
  <2> PICK r : r = s[k]
    OBVIOUS
  <2> PICK list : list = M[k + 1]
    OBVIOUS
  <2> PICK l : l = M[k]
    OBVIOUS
  <2>1. r \in RangeType /\ r.start \in Int /\ r.end \in Int /\ r.start <= r.end
    BY <1>4
  <2>2. /\ list \in Seq(RangeType) /\ Normal(list)
        /\ k + 1 <= n => /\ list # <<>> /\ list[1].start = s[k + 1].start
                         /\ s[k + 1].end <= list[1].end
        /\ \A m \in 2..Len(list) : \E q \in ((k + 1) + 1)..n : list[m].start = s[q].start
    BY ONLY <1>7, list = M[k + 1], P = {j \in 1..(n + 1) : Good(j)}
  <2>3. list # <<>> => /\ k + 1 \in 1..n /\ k < k + 1
                       /\ list[1].start = s[k + 1].start /\ s[k + 1].end <= list[1].end
                       /\ r.start <= list[1].start
    <3>1. CASE k = n
      BY <1>1, <3>1
    <3>2. CASE k < n
      <4>1. k + 1 \in 1..n /\ k + 1 <= n /\ k < k + 1
        BY <3>2
      <4> QED BY <1>2, <2>2, <4>1
    <3> QED BY <3>1, <3>2
  <2>4. l = MergeFront(r, list)
    BY <1>1
  <2>5. ASSUME list # <<>>, list[1].end < r.end, NEW m \in 2..Len(list)
        PROVE  r.end + 1 < list[m].start
    <3>1. PICK q \in ((k + 1) + 1)..n : list[m].start = s[q].start
      BY ONLY <2>2, <2>5
    <3>2. k + 1 \in 1..n /\ q \in 1..n /\ k < k + 1 /\ k + 1 < q /\ k < q
      BY ONLY <2>3, <2>5, <3>1, k \in 1..n, n \in Nat
    <3>3. 1 \in 1..Len(list) /\ list[1].start \in Int /\ list[1].end \in Int
      BY <2>2, <2>5, HeadTail, ElementTyped
    <3>4. Encloses(r, s[k + 1])
      <4>1. s[k + 1].end \in Int
        BY ONLY <1>4, <3>2
      <4>2. r.start <= s[k + 1].start
        BY ONLY <2>3, <2>5
      <4>3. s[k + 1].end <= r.end
        <5> PICK x, y, z \in Int : s[k + 1].end = x /\ list[1].end = y /\ r.end = z
          BY ONLY <2>1, <3>3, <4>1
        <5>1. x <= y /\ y < z
          BY ONLY <2>3, <2>5, s[k + 1].end = x, list[1].end = y, r.end = z
        <5>2. x <= z
          BY ONLY <5>1, x \in Int, y \in Int, z \in Int
        <5> QED BY ONLY <5>2, s[k + 1].end = x, r.end = z
      <4> QED BY ONLY <4>2, <4>3 DEF Encloses
    <3>5. ~OverlapsFront(r, s[q])
      BY ONLY <1>5, <3>2, <3>4, k \in 1..n, r = s[k]
    <3>6. r.start <= s[q].start
      BY ONLY <1>2, <3>2, k \in 1..n, r = s[k]
    <3>7. s[q].start \in Int
      BY ONLY <1>4, <3>2
    <3> QED BY ONLY SMTT(30), <2>1, <3>1, <3>5, <3>6, <3>7 DEF OverlapsFront
  <2>10. list # <<>> => r.start <= list[1].start
    BY ONLY <2>3
  <2>11. Stays(r, list)
    BY ONLY <2>5 DEF Stays
  <2>6. l \in Seq(RangeType) /\ l # <<>> /\ l[1].start = r.start
    BY ONLY <2>1, <2>2, <2>4, <2>10, MergeFrontOffsets
  <2>7. Normal(l) /\ r.end <= l[1].end /\ StartIn(l, list)
    BY ONLY <2>1, <2>2, <2>4, <2>10, <2>11, MergeFrontNormal
  <2>8. ASSUME NEW m \in 2..Len(l)
        PROVE  \E q \in (k + 1)..n : l[m].start = s[q].start
    <3>1. PICK q \in 1..Len(list) : l[m].start = list[q].start
      BY ONLY <2>7 DEF StartIn
    <3>2. list # <<>>
      BY <3>1
    <3>3. CASE q = 1
      <4>1. k + 1 \in (k + 1)..n
        BY <2>3, <3>2
      <4> QED BY ONLY <2>3, <3>1, <3>2, <3>3, <4>1
    <3>4. CASE q # 1
      <4>1. q \in 2..Len(list)
        BY <3>4
      <4>2. PICK p \in ((k + 1) + 1)..n : list[q].start = s[p].start
        BY ONLY <2>2, <4>1
      <4>3. p \in (k + 1)..n
        OBVIOUS
      <4> QED BY ONLY <3>1, <4>2, <4>3
    <3> QED BY ONLY <3>3, <3>4
  <2>9. k \in 1..(n + 1)
    OBVIOUS
  <2> QED BY ONLY <2>6, <2>7, <2>8, <2>9, l = M[k], r = s[k], P = {j \in 1..(n + 1) : Good(j)}
<1>8. 1 \in P
  BY ONLY <1>6, <1>7, n \in Nat, Downwards
<1> QED BY ONLY <1>1, <1>8, P = {j \in 1..(n + 1) : Good(j)}

\* A range behind the list is not merged with what it does not touch.
LEMMA MergeFrontBehind ==
  ASSUME NEW list \in Seq(RangeType), NEW r \in RangeType, NEW o \in RangeType,
         r.end + 1 < o.start
  PROVE  MergeFront(r, Append(list, o)) = Append(MergeFront(r, list), o)
<1> PICK a, b, c \in Int : r.start = a /\ r.end = b /\ o.start = c /\ b + 1 < c
  BY DEF RangeType
<1> PICK more : more = Append(list, o)
  OBVIOUS
<1>1. more \in Seq(RangeType) /\ more # <<>>
  OBVIOUS
<1>2. CASE list = <<>>
  <2>1. more = <<o>> /\ more[1].start = c
    BY <1>2
  <2>2. MergeFront(r, more) = <<r>> \o <<o>>
    BY <2>1 DEF MergeFront
  <2>3. MergeFront(r, list) = <<r>> \o <<>>
    BY <1>2 DEF MergeFront
  <2>4. <<r>> \o <<o>> = Append(<<r>> \o <<>>, o)
    OBVIOUS
  <2> QED BY ONLY <2>2, <2>3, <2>4, more = Append(list, o)
<1>3. CASE list # <<>>
  <2>1. more[1] = list[1]
    BY <1>3
  <2>2. Tail(more) = Append(Tail(list), o)
    BY <1>3
  <2>3. \A x \in Seq(RangeType), y \in RangeType : <<y>> \o Append(x, o) = Append(<<y>> \o x, o)
    BY ONLY o \in RangeType
  <2>4. CASE list[1].start <= b + 1
    <3>1. 1 \in 1..Len(list) /\ Tail(list) \in Seq(RangeType)
      BY <1>3, HeadTail
    <3> PICK e \in Int : list[1].end = e
      BY <3>1, ElementTyped
    <3> PICK g : g = Greatest(b, e)
      OBVIOUS
    <3>2. Interval(a, g) \in RangeType
      BY RangeTyped DEF Greatest
    <3>3. MergeFront(r, list) = <<Interval(a, g)>> \o Tail(list)
      BY <1>3, <2>4 DEF MergeFront
    <3>4. MergeFront(r, more) = <<Interval(a, g)>> \o Tail(more)
      BY <1>1, <2>1, <2>4 DEF MergeFront
    <3> QED BY ONLY <2>2, <2>3, <3>1, <3>2, <3>3, <3>4, more = Append(list, o)
  <2>5. CASE ~(list[1].start <= b + 1)
    <3>1. MergeFront(r, list) = <<r>> \o list
      BY <2>5 DEF MergeFront
    <3>2. MergeFront(r, more) = <<r>> \o more
      BY <2>1, <2>5 DEF MergeFront
    <3> QED BY <2>3, <3>1, <3>2
  <2> QED BY <2>4, <2>5
<1> QED BY <1>2, <1>3

LEMMA AppendParts ==
  ASSUME NEW list \in Seq(RangeType), NEW o \in RangeType
  PROVE  Last(Append(list, o)) = o /\ Front(Append(list, o)) = list
<1> PICK more : more = Append(list, o)
  OBVIOUS
<1>1. /\ more \in Seq(RangeType) /\ Len(more) = Len(list) + 1 /\ Len(list) \in Nat
      /\ \A k \in 1..Len(list) : more[k] = list[k]
      /\ more[Len(list) + 1] = o
  BY Appended
<1>2. Last(more) = o
  BY <1>1 DEF Last
<1>3. more # <<>>
  OBVIOUS
<1> PICK front : front = Front(more)
  OBVIOUS
<1>4. /\ front \in Seq(RangeType) /\ Len(front) = Len(more) - 1
      /\ \A k \in 1..(Len(more) - 1) : front[k] = more[k]
  BY ONLY <1>1, <1>3, front = Front(more), FrontProperties
<1>5. Len(front) = Len(list) /\ \A k \in 1..Len(list) : front[k] = list[k]
  BY ONLY <1>1, <1>4
<1>6. front = list
  BY ONLY <1>4, <1>5, list \in Seq(RangeType)
<1> QED BY <1>2, <1>6

\* The only open range of the list, behind the others and apart from them.
OpenBehind(rl, m) ==
  /\ m \in 1..Len(rl) /\ rl[m].end = -1 /\ 0 <= rl[m].start
  /\ \A k \in 1..Len(rl) : k # m =>
        rl[k].end # -1 /\ rl[k].start <= rl[k].end /\ rl[k].end + 1 < rl[m].start

\* Flatten leaves it at the end.
LEMMA FlattenOpen ==
  ASSUME NEW rl \in Seq(RangeType), NEW m, OpenBehind(rl, m)
  PROVE  Last(Flatten(rl)) = rl[m] /\ Offsets(Front(Flatten(rl))) = Offsets(rl)
<1> PICK n \in Nat : n = Len(rl)
  OBVIOUS
<1> PICK s, M : Merges(M, s, rl, n)
  BY Merging
<1>1. /\ s \in Seq(RangeType) /\ Len(s) = n /\ Reordered(s, rl, n)
      /\ M[n + 1] = <<>> /\ \A k \in 1..n : M[k] = MergeFront(s[k], M[k + 1])
      /\ Flatten(rl) = M[1]
  BY DEF Merges
<1>2. PICK f \in [1..n -> 1..n] :
        /\ \A p \in 1..n : s[p] = rl[f[p]]
        /\ \A k \in 1..n : \E p \in 1..n : f[p] = k
        /\ \A p, q \in 1..n : p < q => f[p] # f[q] /\ s[p].start <= s[q].start
  BY ONLY <1>1, Zenon DEF Reordered
<1>3. \A p \in 1..n : s[p] \in RangeType /\ s[p].start \in Int /\ s[p].end \in Int
  BY <1>1, ElementTyped
<1> PICK o : o = rl[m]
  OBVIOUS
<1>4. /\ m \in 1..n /\ o \in RangeType /\ o.start \in Int /\ o.end = -1 /\ 0 <= o.start
      /\ \A k \in 1..n : k # m => rl[k].start <= rl[k].end /\ rl[k].end + 1 < o.start
  BY ElementTyped DEF OpenBehind
<1> PICK c \in Int : c = o.start /\ 0 <= c
  BY <1>4
<1>5. f[n] = m
  <2>1. PICK p \in 1..n : f[p] = m
    BY ONLY <1>2, <1>4
  <2>2. n \in 1..n
    OBVIOUS
  <2>3. CASE p = n
    BY <2>1, <2>3
  <2>4. CASE p < n
    <3>1. f[p] # f[n] /\ s[p].start <= s[n].start
      BY ONLY <1>2, <2>2, <2>4, p \in 1..n
    <3>2. f[n] \in 1..n /\ f[n] # m /\ s[n] = rl[f[n]] /\ s[p] = o
      BY <1>2, <2>1, <2>2, <3>1
    <3>3. s[n].start <= s[n].end /\ s[n].end + 1 < c
      BY <1>4, <3>2
    <3> PICK x, y \in Int : s[n].start = x /\ s[n].end = y
      BY <1>3, <2>2
    <3>4. c <= x /\ x <= y /\ y + 1 < c
      BY <3>1, <3>2, <3>3
    <3> QED BY ONLY <3>4, c \in Int, x \in Int, y \in Int
  <2> QED BY <2>3, <2>4
<1>14. n \in 1..n /\ n - 1 \in Nat /\ n = (n - 1) + 1
  <2>1. m \in 1..n
    BY ONLY <1>4
  <2> QED BY ONLY <2>1, n \in Nat
<1> PICK h \in Nat : n = h + 1
  BY ONLY <1>14
<1>6. s[n] = o /\ n \in 1..n
  BY ONLY <1>2, <1>5, <1>14, o = rl[m]
<1>7. ASSUME NEW k \in 1..h
      PROVE  k \in 1..n /\ k + 1 \in 1..n /\ s[k].start <= s[k].end /\ s[k].end + 1 < o.start
  <2>1. k \in 1..n /\ k + 1 \in 1..n /\ k < n
    OBVIOUS
  <2>2. f[k] # m /\ f[k] \in 1..n /\ s[k] = rl[f[k]]
    BY <1>2, <1>5, <1>6, <2>1
  <2> QED BY <1>4, <2>1, <2>2
<1> DEFINE From(k) == {x \in Int : \E p \in k..h : x \in s[p].start..s[p].end}
           Front1(k, L) == /\ L \in Seq(RangeType) /\ M[k] = Append(L, o) /\ Offsets(L) = From(k)
                           /\ k <= h => L # <<>> /\ L[1].start = s[k].start
                           /\ k = n => L = <<>>
<1> PICK P : P = {k \in 1..n : \E L : Front1(k, L)}
  OBVIOUS
<1>8. h + 1 \in P
  <2>1. M[n] = <<o>>
    <3>1. M[n] = MergeFront(o, <<>>)
      BY <1>1, <1>6
    <3>2. MergeFront(o, <<>>) = <<o>> \o <<>>
      BY DEF MergeFront
    <3> QED BY <3>1, <3>2, <1>4
  <2>2. From(n) = {} /\ ~(n <= h)
    OBVIOUS
  <2>3. Append(<<>>, o) = <<o>>
    OBVIOUS
  <2>4. Front1(n, <<>>)
    <3> HIDE DEF From
    <3> QED BY <2>1, <2>2, <2>3, EmptyList
  <2> HIDE DEF Front1
  <2> QED BY <1>6, <2>4
<1>9. ASSUME NEW k \in 1..h, k + 1 \in P
      PROVE  k \in P
  <2> PICK r : r = s[k]
    OBVIOUS
  <2>1. /\ r \in RangeType /\ r.start \in Int /\ r.end \in Int /\ r.end + 1 < o.start
        /\ k \in 1..n /\ k + 1 \in 1..n
    BY <1>3, <1>7
  <2> PICK L : Front1(k + 1, L)
    <3> HIDE DEF Front1
    <3> QED BY <1>9
  <2>2. /\ L \in Seq(RangeType) /\ M[k + 1] = Append(L, o) /\ Offsets(L) = From(k + 1)
        /\ k + 1 <= h => L # <<>> /\ L[1].start = s[k + 1].start
        /\ k + 1 = n => L = <<>>
    <3> HIDE DEF From
    <3> QED OBVIOUS
  <2>3. L # <<>> => r.start <= L[1].start
    <3>1. CASE k = h
      BY <2>2, <3>1
    <3>2. CASE k < h
      <4>1. k + 1 <= h /\ k < k + 1
        BY <3>2
      <4> QED BY <1>2, <2>1, <2>2, <4>1
    <3> QED BY <3>1, <3>2
  <2> PICK l : l = MergeFront(r, L)
    OBVIOUS
  <2>4. l \in Seq(RangeType) /\ l # <<>> /\ l[1].start = r.start
        /\ Offsets(l) = (r.start..r.end) \cup Offsets(L)
    BY ONLY <2>1, <2>2, <2>3, l = MergeFront(r, L), MergeFrontOffsets
  <2>5. M[k] = Append(l, o)
    <3>1. M[k] = MergeFront(r, Append(L, o))
      BY ONLY <1>1, <2>1, <2>2, r = s[k]
    <3> QED BY ONLY <1>4, <2>1, <2>2, <3>1, l = MergeFront(r, L), MergeFrontBehind
  <2>6. From(k) = (r.start..r.end) \cup From(k + 1)
    <3>1. \A p : p \in k..h <=> p = k \/ p \in (k + 1)..h
      BY ONLY k \in 1..h, h \in Nat
    <3>2. r.start..r.end \subseteq Int
      BY ONLY <2>1
    <3> QED BY ONLY <3>1, <3>2, r = s[k]
  <2>7. ~(k = n)
    BY ONLY k \in 1..h, n = h + 1, h \in Nat
  <2>8. Offsets(l) = From(k)
    BY ONLY <2>2, <2>4, <2>6
  <2>9. Front1(k, l)
    <3> HIDE DEF From
    <3> QED BY ONLY <2>4, <2>5, <2>7, <2>8, r = s[k]
  <2> HIDE DEF Front1
  <2> QED BY ONLY <2>1, <2>9, P = {j \in 1..n : \E K : Front1(j, K)}
<1>10. 1 \in P
  BY ONLY <1>8, <1>9, h \in Nat, Downwards
<1> PICK L : Front1(1, L)
  <2> HIDE DEF Front1
  <2> QED BY <1>10
<1>11. L \in Seq(RangeType) /\ M[1] = Append(L, o) /\ Offsets(L) = From(1)
  <2> HIDE DEF From
  <2> QED OBVIOUS
<1>12. From(1) = Offsets(rl)
  <2>1. \A x : x \in Offsets(rl) <=> \E k \in 1..n : x \in rl[k].start..rl[k].end
    BY InOffsets
  <2>2. ASSUME NEW x, NEW k \in 1..n, x \in rl[k].start..rl[k].end
        PROVE  x \in From(1)
    <3>1. PICK p \in 1..n : f[p] = k
      BY ONLY <1>2, k \in 1..n
    <3>2. x \in s[p].start..s[p].end /\ s[p].start \in Int /\ s[p].end \in Int
      BY <1>2, <1>3, <2>2, <3>1
    <3>3. p # n
      <4> SUFFICES ASSUME p = n PROVE FALSE
        OBVIOUS
      <4>1. x \in c..(-1)
        BY <1>4, <1>6, <3>2
      <4> QED BY ONLY <4>1, c \in Int, 0 <= c
    <3>4. p \in 1..h
      BY <3>3
    <3> QED BY <3>2, <3>4
  <2>3. ASSUME NEW x \in From(1)
        PROVE  \E k \in 1..n : x \in rl[k].start..rl[k].end
    <3>1. PICK p \in 1..h : x \in s[p].start..s[p].end
      OBVIOUS
    <3>2. s[p] = rl[f[p]] /\ f[p] \in 1..n
      BY <1>2, <1>7
    <3> QED BY <3>1, <3>2
  <2> HIDE DEF From
  <2> QED BY <2>1, <2>2, <2>3
<1>13. Last(M[1]) = o /\ Front(M[1]) = L
  BY ONLY <1>4, <1>11, AppendParts
<1> HIDE DEF From
<1> QED BY ONLY <1>1, <1>11, <1>12, <1>13, o = rl[m]

=============================================================================
