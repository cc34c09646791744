---------------------------- MODULE SymbolsProofs ----------------------------
(***************************************************************************)
(* What the functions of Symbols return, for all structures at rest, all   *)
(* lists and all ESIRanges: which symbols GetMissingESIs asks for, those   *)
(* that ESRangeListForSBNFromRangeList finds in a list of bytes, and the   *)
(* bytes that ToRangeList makes of symbols.  On the way stand what CountOf *)
(* and the folds of these functions compute, and where the bytes of a      *)
(* block and of a symbol are.                                              *)
(***************************************************************************)
EXTENDS Symbols, ListLemmas

-----------------------------------------------------------------------------
(* Lists made of sets *)

\* The list of a finite set of numbers is normal and stands for this set.
LEMMA ListOfIs ==
  ASSUME NEW S \in SUBSET Int, IsFiniteSet(S)
  PROVE  /\ ListOf(S) \in Seq(RangeType)
         /\ Normal(ListOf(S))
         /\ Offsets(ListOf(S)) = S
<1> PICK D : D = {x \in S : x - 1 \notin S}
  OBVIOUS
<1> PICK R : R = {p \in D \X D : p[1] < p[2]}
  OBVIOUS
<1> PICK n : n = Cardinality(D)
  OBVIOUS
<1> DEFINE nth(k) == CHOOSE x \in D : Cardinality({y \in D : y < x}) = k - 1
           last(x) == Min({y \in S : y >= x /\ y + 1 \notin S})
<1> HIDE DEF nth, last
<1>1. D \subseteq S /\ D \subseteq Int /\ IsFiniteSet(D)
  BY FS_Subset
<1>2. \A x, y \in D : <<x, y>> \in R <=> x < y
  OBVIOUS
<1>3. StrictOrder(D, R)
  <2>1. \A x \in D : <<x, x>> \notin R
    BY <1>1, <1>2
  <2>2. \A x, y, z \in D : <<x, y>> \in R /\ <<y, z>> \in R => <<x, z>> \in R
    BY <1>1, <1>2
  <2>3. ASSUME NEW x \in D, NEW y \in D PROVE x = y \/ <<x, y>> \in R \/ <<y, x>> \in R
    <3>1. x \in Int /\ y \in Int
      BY <1>1
    <3>2. x = y \/ x < y \/ y < x
      BY <3>1
    <3> QED BY <1>2, <3>2
  <2> QED BY <2>1, <2>2, <2>3 DEF StrictOrder
<1>4. \A x \in D : Rank(D, R, x) = Cardinality({y \in D : y < x})
  <2> SUFFICES ASSUME NEW x \in D PROVE {y \in D : <<y, x>> \in R} = {y \in D : y < x}
    BY DEF Rank
  <2> QED BY <1>2
<1>5. n \in Nat /\ \A k \in 1..n : \E x \in D : Rank(D, R, x) = k - 1
  BY ONLY <1>1, <1>3, n = Cardinality(D), Ranks
<1> PICK f : f = [k \in 1..n |-> nth(k)]
  OBVIOUS
<1>6. ASSUME NEW k \in 1..n
      PROVE  f[k] \in D /\ Rank(D, R, f[k]) = k - 1
  <2>0. PICK x \in D : Rank(D, R, x) = k - 1
    BY <1>5
  <2>1. \E z \in D : Cardinality({y \in D : y < z}) = k - 1
    BY <1>4, <2>0
  <2>2. nth(k) \in D /\ Cardinality({y \in D : y < nth(k)}) = k - 1
    BY <2>1 DEF nth
  <2>3. f[k] = nth(k)
    OBVIOUS
  <2> QED BY <1>4, <2>2, <2>3
<1>7. Ranking(f, n, D, R)
  BY <1>6 DEF Ranking
<1>8. /\ \A x \in D : \E k \in 1..n : f[k] = x
      /\ \A k, l \in 1..n : k < l => f[k] < f[l]
  <2>1. /\ \A x \in D : \E k \in 1..n : f[k] = x
        /\ \A k, l \in 1..n : k < l => <<f[k], f[l]>> \in R
    BY ONLY <1>1, <1>3, <1>5, <1>7, Enumerated
  <2>2. \A k \in 1..n : f[k] \in D
    BY <1>6
  <2> QED BY ZenonT(30), <1>2, <2>1, <2>2

\* The stretch of S from x on ends.
<1>9. ASSUME NEW x \in S
      PROVE  /\ last(x) \in S /\ last(x) >= x /\ last(x) + 1 \notin S
             /\ x..last(x) \subseteq S
  <2> DEFINE E == {y \in S : y >= x /\ y + 1 \notin S}
             G == {d \in Nat : x + d \notin S}
  <2>1. G # {}
    <3> SUFFICES ASSUME \A d \in Nat : x + d \in S PROVE FALSE
      OBVIOUS
    <3> PICK c \in Nat : c = Cardinality(S)
      BY FS_CardinalityType
    <3> DEFINE F == x..(x + c)
    <3>1. F \in SUBSET S
      <4> SUFFICES ASSUME NEW y \in F PROVE y \in S
        OBVIOUS
      <4>1. y - x \in Nat /\ x + (y - x) = y
        OBVIOUS
      <4> QED BY <4>1
    <3>2. IsFiniteSet(F) /\ Cardinality(F) = c + 1
      <4>1. x \in Int /\ x + c \in Int /\ ~(x > x + c) /\ (x + c) - x + 1 = c + 1
        OBVIOUS
      <4> QED BY <4>1, FS_Interval
    <3>3. Cardinality(F) <= Cardinality(S)
      <4> HIDE DEF F
      <4> QED BY <3>1, FS_Subset
    <3> QED BY <3>2, <3>3
  <2>2. PICK d \in G : \A e \in G : d <= e
    <3>1. G \in SUBSET Nat
      OBVIOUS
    <3> HIDE DEF G
    <3> QED BY <2>1, <3>1, LeastElement
  <2>3. d # 0 /\ d \in Nat /\ x + d \notin S
    OBVIOUS
  <2> PICK m \in Int : m = x + d - 1
    BY <2>3
  <2>4. ASSUME NEW y \in x..m PROVE y \in S
    <3>1. y - x \in Nat /\ x + (y - x) = y /\ ~(d <= y - x)
      BY <2>3
    <3> QED BY <2>2, <3>1
  <2>5. m \in E
    <3>1. m >= x /\ m + 1 = x + d /\ m \in x..m
      BY <2>3
    <3> QED BY <2>3, <2>4, <3>1
  <2>6. ASSUME NEW y \in E PROVE m <= y
    <3>1. y + 1 - x \in Nat /\ x + (y + 1 - x) = y + 1
      OBVIOUS
    <3>2. d <= y + 1 - x
      BY <2>2, <3>1
    <3> QED BY <2>3, <3>2
  <2>7. last(x) = m
    <3>1. E \subseteq Int
      OBVIOUS
    <3>0. last(x) = Min(E)
      BY DEF last
    <3> HIDE DEF E
    <3>2. ASSUME NEW z \in E, \A y \in E : z <= y PROVE z = m
      BY <2>5, <2>6, <3>1, <3>2
    <3>3. Min(E) = m
      BY <2>5, <2>6, <3>2 DEF Min
    <3> QED BY <3>0, <3>3
  <2> HIDE DEF last
  <2> QED BY <2>4, <2>5, <2>7
<1> PICK list : list = ListOf(S)
  OBVIOUS
<1>10. list = [k \in 1..n |-> Interval(f[k], last(f[k]))]
  BY DEF ListOf, nth, last
<1>0. \A k \in 1..n : f[k] \in Int /\ f[k] \in S /\ last(f[k]) \in Int
  BY <1>1, <1>6, <1>9
<1>11. /\ list \in Seq(RangeType) /\ Len(list) = n
       /\ \A k \in 1..n : list[k].start = f[k] /\ list[k].end = last(f[k])
  <2>2. \A k \in 1..n : Interval(f[k], last(f[k])) \in RangeType
    BY <1>0, RangeTyped
  <2>3. list \in Seq(RangeType) /\ Len(list) = n
    BY <1>5, <1>10, <2>2
  <2>4. \A k \in 1..n : list[k] = Interval(f[k], last(f[k]))
    BY <1>10
  <2>5. ASSUME NEW k \in 1..n
        PROVE  list[k].start = f[k] /\ list[k].end = last(f[k])
    BY <1>0, <2>4, RangeTyped
  <2> QED BY <2>3, <2>5
<1>12. Normal(list)
  <2>1. ASSUME NEW k \in 1..n PROVE f[k] <= last(f[k])
    BY <1>1, <1>6, <1>9
  <2>2. ASSUME NEW k \in 1..n, NEW l \in 1..n, k < l
        PROVE  last(f[k]) + 1 < f[l]
    <3> PICK a, b, c \in Int : a = f[k] /\ b = last(f[k]) /\ c = f[l]
      BY <1>0
    <3>1. a < c /\ c \in S /\ c - 1 \notin S
      BY <1>6, <1>8, <2>2
    <3>2. b + 1 \notin S /\ \A y \in Int : a <= y /\ y <= b => y \in S
      <4>1. a \in S /\ b = last(a)
        BY <1>0
      <4>2. b + 1 \notin S /\ a..b \subseteq S
        BY <1>9, <4>1
      <4> QED BY <4>2
    <3>3. ~(c - 1 <= b)
      <4>1. a <= c - 1
        BY <3>1
      <4> QED BY <3>1, <3>2, <4>1
    <3>4. c # b + 1
      BY <3>1, <3>2
    <3> QED BY <3>3, <3>4
  <2>3. 1 \in Nat
    OBVIOUS
  <2>4. /\ \A k \in 1..n : list[k].start <= list[k].end
        /\ \A k, l \in 1..n : k < l => list[k].end + 1 < list[l].start
    BY ONLY <1>11, <2>1, <2>2
  <2> QED BY ONLY <1>11, <2>3, <2>4, InApart DEF Normal
<1>13. ASSUME NEW x \in S
       PROVE  \E k \in 1..n : f[k] <= x /\ x <= last(f[k])
  <2> DEFINE H == {d \in Nat : x - d \notin S}
  <2>1. H # {}
    <3> SUFFICES ASSUME \A d \in Nat : x - d \in S PROVE FALSE
      OBVIOUS
    <3> PICK c \in Nat : c = Cardinality(S)
      BY FS_CardinalityType
    <3> DEFINE F == (x - c)..x
    <3>1. F \in SUBSET S
      <4> SUFFICES ASSUME NEW y \in F PROVE y \in S
        OBVIOUS
      <4>1. x - y \in Nat /\ x - (x - y) = y
        OBVIOUS
      <4> QED BY <4>1
    <3>2. IsFiniteSet(F) /\ Cardinality(F) = c + 1
      <4>1. x \in Int /\ x - c \in Int /\ ~(x - c > x) /\ x - (x - c) + 1 = c + 1
        OBVIOUS
      <4> QED BY <4>1, FS_Interval
    <3>3. Cardinality(F) <= Cardinality(S)
      <4> HIDE DEF F
      <4> QED BY <3>1, FS_Subset
    <3> QED BY <3>2, <3>3
  <2>2. PICK d \in H : \A e \in H : d <= e
    <3>1. H \in SUBSET Nat
      OBVIOUS
    <3> HIDE DEF H
    <3> QED BY <2>1, <3>1, LeastElement
  <2>3. d # 0 /\ d \in Nat /\ x - d \notin S
    OBVIOUS
  <2> PICK a \in Int : a = x - d + 1
    BY <2>3
  <2>4. ASSUME NEW y \in a..x PROVE y \in S
    <3>1. x - y \in Nat /\ x - (x - y) = y /\ ~(d <= x - y)
      BY <2>3
    <3> QED BY <2>2, <3>1
  <2>5. a \in D
    <3>1. a \in a..x /\ a - 1 = x - d
      BY <2>3
    <3> QED BY <2>3, <2>4, <3>1
  <2>6. PICK k \in 1..n : f[k] = a
    BY <1>8, <2>5
  <2> PICK b \in Int : b = last(a)
    BY <1>1, <1>9, <2>5
  <2>7. b >= a /\ b + 1 \notin S
    BY <1>1, <1>9, <2>5
  <2>8. a <= x
    BY <2>3
  <2>9. x <= b
    <3> SUFFICES ASSUME ~(x <= b) PROVE FALSE
      OBVIOUS
    <3>1. b + 1 \in a..x
      BY <2>7
    <3> QED BY <2>4, <2>7, <3>1
  <2> QED BY ONLY <2>6, <2>8, <2>9, b = last(a)
<1>14. Offsets(list) = S
  <2>1. ASSUME NEW x \in Offsets(list) PROVE x \in S
    <3> PICK k \in 1..n : x \in list[k].start..list[k].end
      BY <1>11, InOffsets
    <3> QED BY ZenonT(30), <1>1, <1>6, <1>9, <1>11
  <2>2. ASSUME NEW x \in S PROVE x \in Offsets(list)
    <3> PICK k \in 1..n : f[k] <= x /\ x <= last(f[k])
      BY <1>13
    <3>1. f[k] \in Int /\ last(f[k]) \in Int
      BY <1>0
    <3>2. x \in list[k].start..list[k].end
      BY <1>11, <3>1
    <3> QED BY <1>11, <3>2, InOffsets
  <2> QED BY <2>1, <2>2
<1> QED BY <1>11, <1>12, <1>14

-----------------------------------------------------------------------------
(* Folds *)

\* CountOf adds up the lengths, one range after the other.
LEMMA CountOfIs ==
  ASSUME NEW rl \in Seq(RangeType)
  PROVE  \E g \in [0..Len(rl) -> Int] :
            /\ g[0] = 0
            /\ \A k \in 1..Len(rl) : g[k] = g[k - 1] + Count(rl[k])
            /\ CountOf(rl) = g[Len(rl)]
<1> PICK n \in Nat : n = Len(rl)
  OBVIOUS
<1>1. DOMAIN rl = 1..n
  OBVIOUS
<1>2. ASSUME NEW k \in 1..n PROVE Count(rl[k]) \in Int
  <2>1. rl[k].start \in Int /\ rl[k].end \in Int
    BY ElementTyped
  <2> QED BY <2>1 DEF Count
<1> DEFINE Sums(f) == f = [s \in SUBSET (1..n) |->
                             IF s = {} THEN 0 ELSE f[s \ {Max(s)}] + Count(rl[Max(s)])]
<1>3. \E f : Sums(f) /\ f \in [SUBSET (1..n) -> Int]
  <2> PICK S : S = 1..n
    OBVIOUS
  <2> PICK Choose, Step : /\ Choose = [s \in SUBSET S |-> Max(s)]
                          /\ Step = [p \in S \X Int |-> p[2] + Count(rl[p[1]])]
    OBVIOUS
  <2>1. \A s \in SUBSET S : s # {} => Choose[s] = Max(s) /\ Max(s) \in s
    BY MaxPosition
  <2>2. \A x \in S, a \in Int : Step[<<x, a>>] = a + Count(rl[x]) /\ Step[<<x, a>>] \in Int
    BY <1>2
  <2>3. IsFiniteSet(S) /\ 0 \in Int
    BY FS_Interval
  <2>4. PICK f \in [SUBSET S -> Int] : Folded(f, S, 0, Choose, Step)
    <3>1. Folding(S, Int, Choose, Step)
      BY ZenonT(30), <2>1, <2>2 DEF Folding
    <3> QED BY ONLY <2>3, <3>1, FoldSolves
  <2>5. ASSUME NEW s \in SUBSET S, s # {}
        PROVE  f[s] = f[s \ {Max(s)}] + Count(rl[Max(s)])
    <3>1. Max(s) \in S /\ s \ {Max(s)} \in SUBSET S
      BY <2>1, <2>5
    <3> QED BY <2>1, <2>2, <2>4, <2>5, <3>1 DEF Folded
  <2>6. f = [s \in SUBSET S |-> IF s = {} THEN 0 ELSE f[s \ {Max(s)}] + Count(rl[Max(s)])]
    BY <2>4, <2>5 DEF Folded
  <2> QED BY <2>6
<1> PICK it : it = CHOOSE f : Sums(f)
  OBVIOUS
<1>4. CountOf(rl) = it[1..n]
  BY <1>1 DEF CountOf, FoldLeft, MapThenFoldSet
<1>5. Sums(it)
  <2> HIDE DEF Sums
  <2> QED BY <1>3
<1>6. /\ it[{}] = 0
      /\ \A k \in 1..n : it[1..k] = it[1..(k - 1)] + Count(rl[k])
  <2>1. {} \in SUBSET (1..n)
    OBVIOUS
  <2>2. ASSUME NEW k \in 1..n PROVE it[1..k] = it[1..(k - 1)] + Count(rl[k])
    <3>1. 1..k \in SUBSET (1..n)
      <4> HIDE DEF Sums
      <4> QED OBVIOUS
    <3>2. Max(1..k) = k /\ (1..k) \ {k} = 1..(k - 1) /\ 1..k # {}
      BY MaxPosition
    <3> QED BY ZenonT(30), <1>5, <3>1, <3>2
  <2> QED BY <1>5, <2>1, <2>2
<1> HIDE DEF Sums
<1> PICK g : g = [k \in 0..n |-> it[1..k]]
  OBVIOUS
<1>7. /\ g[0] = 0
      /\ \A k \in 1..n : k - 1 \in 0..n /\ g[k] = g[k - 1] + Count(rl[k])
      /\ g[n] = it[1..n]
  <2>1. 1..0 = {}
    OBVIOUS
  <2>2. \A k \in 0..n : g[k] = it[1..k]
    OBVIOUS
  <2> QED BY <1>6, <2>1, <2>2
<1>8. \A k \in 0..n : g[k] \in Int
  <2> DEFINE P == {k \in 0..n : g[k] \in Int}
  <2>1. 0 \in P
    BY <1>7
  <2>2. ASSUME NEW k \in 1..n, k - 1 \in P PROVE k \in P
    <3>1. g[k - 1] \in Int /\ g[k] = g[k - 1] + Count(rl[k]) /\ Count(rl[k]) \in Int
      BY <1>2, <1>7, <2>2
    <3> QED BY <3>1
  <2> HIDE DEF P
  <2>3. \A k \in 0..n : k \in P
    BY <2>1, <2>2, Upwards
  <2> QED BY <2>3 DEF P
<1> QED BY <1>4, <1>7, <1>8

-----------------------------------------------------------------------------
(* How many numbers a list stands for *)

\* What the first k ranges stand for.
Up(rl, k) == {x \in Int : \E m \in 1..k : x \in rl[m].start..rl[m].end}

LEMMA UpIs ==
  ASSUME NEW rl \in Seq(RangeType), Apart(rl, 0)
  PROVE  /\ Up(rl, 0) = {} /\ Up(rl, Len(rl)) = Offsets(rl)
         /\ \A k \in 1..Len(rl) :
               /\ rl[k].start \in Int /\ rl[k].end \in Int /\ rl[k].start <= rl[k].end
               /\ Up(rl, k) = Up(rl, k - 1) \cup (rl[k].start..rl[k].end)
               /\ \A x \in Up(rl, k - 1) : x \in Int /\ x < rl[k].start
<1> PICK n \in Nat : n = Len(rl)
  OBVIOUS
<1>1. Up(rl, 0) = {}
  BY DEF Up
<1>2. Up(rl, n) = Offsets(rl)
  <2>1. ASSUME NEW x, NEW m \in 1..n, x \in rl[m].start..rl[m].end PROVE x \in Int
    BY <2>1
  <2>2. \A x : x \in Offsets(rl) <=> \E k \in 1..n : x \in rl[k].start..rl[k].end
    BY InOffsets
  <2>3. \A x : x \in Up(rl, n) <=> \E k \in 1..n : x \in rl[k].start..rl[k].end
    BY <2>1 DEF Up
  <2> QED BY <2>2, <2>3
<1>3. ASSUME NEW k \in 1..n
      PROVE  /\ rl[k].start \in Int /\ rl[k].end \in Int /\ rl[k].start <= rl[k].end
             /\ Up(rl, k) = Up(rl, k - 1) \cup (rl[k].start..rl[k].end)
             /\ \A x \in Up(rl, k - 1) : x \in Int /\ x < rl[k].start
  <2>1. rl[k].start \in Int /\ rl[k].end \in Int /\ rl[k].start <= rl[k].end
    BY ElementTyped, InApart
  <2>2. \A m : m \in 1..k <=> m = k \/ m \in 1..(k - 1)
    OBVIOUS
  <2>3. rl[k].start..rl[k].end \subseteq Int
    OBVIOUS
  <2>4. Up(rl, k) = Up(rl, k - 1) \cup (rl[k].start..rl[k].end)
    BY <2>2, <2>3 DEF Up
  <2>5. ASSUME NEW x \in Up(rl, k - 1) PROVE x \in Int /\ x < rl[k].start
    <3>1. x \in Int
      BY DEF Up
    <3>2. PICK m \in 1..(k - 1) : x \in rl[m].start..rl[m].end
      BY DEF Up
    <3>3. m \in 1..n /\ m < k
      OBVIOUS
    <3> PICK a, b, c \in Int : rl[m].start = a /\ rl[m].end = b /\ rl[k].start = c
      BY <3>3, ElementTyped
    <3>4. b < c
      BY <3>3, InOrder
    <3> QED BY <3>1, <3>2, <3>4
  <2> QED BY <2>1, <2>4, <2>5
<1> QED BY <1>1, <1>2, <1>3

\* An interval behind a finite set of numbers.
LEMMA CountBehind ==
  ASSUME NEW S \in SUBSET Int, IsFiniteSet(S), NEW a \in Int, NEW b \in Int, a <= b,
         \A x \in S : x < a
  PROVE  /\ IsFiniteSet(S \cup (a..b))
         /\ Cardinality(S) \in Nat
         /\ Cardinality(S \cup (a..b)) = Cardinality(S) + (b - a + 1)
<1> PICK T : T = a..b
  OBVIOUS
<1>1. IsFiniteSet(T) /\ Cardinality(T) = b - a + 1
  BY FS_Interval
<1>2. S \cap T = {}
  OBVIOUS
<1>3. IsFiniteSet(S \cup T)
  BY <1>1, FS_Union
<1>4. Cardinality(S \cup T) = Cardinality(S) + Cardinality(T) - Cardinality(S \cap T)
  BY <1>1, FS_Union
<1>5. Cardinality(S) \in Nat /\ Cardinality(S \cap T) = 0
  BY <1>2, FS_CardinalityType, FS_EmptySet
<1> QED BY <1>1, <1>3, <1>4, <1>5

\* A list whose ranges do not overlap counts each of its numbers once.
LEMMA CountOfApart ==
  ASSUME NEW rl \in Seq(RangeType), Apart(rl, 0)
  PROVE  /\ IsFiniteSet(Offsets(rl)) /\ Cardinality(Offsets(rl)) \in Nat
         /\ CountOf(rl) = Cardinality(Offsets(rl))
<1> PICK n \in Nat : n = Len(rl)
  OBVIOUS
<1>1. PICK g \in [0..n -> Int] :
         /\ g[0] = 0
         /\ \A k \in 1..n : g[k] = g[k - 1] + Count(rl[k])
         /\ CountOf(rl) = g[n]
  BY CountOfIs
<1> DEFINE P == {k \in 0..n : /\ IsFiniteSet(Up(rl, k)) /\ Cardinality(Up(rl, k)) \in Nat
                              /\ g[k] = Cardinality(Up(rl, k))}
<1>2. 0 \in P
  <2>1. Up(rl, 0) = {} /\ IsFiniteSet({}) /\ Cardinality({}) = 0
    BY UpIs, FS_EmptySet
  <2>2. /\ IsFiniteSet(Up(rl, 0)) /\ Cardinality(Up(rl, 0)) \in Nat
        /\ g[0] = Cardinality(Up(rl, 0))
    <3>1. g[0] = 0 /\ 0 \in Nat
      BY <1>1
    <3>2. IsFiniteSet(Up(rl, 0)) /\ Cardinality(Up(rl, 0)) = 0
      BY ONLY <2>1, Zenon
    <3> QED BY ONLY <3>1, <3>2
  <2> QED BY <2>2
<1>3. ASSUME NEW k \in 1..n, k - 1 \in P
      PROVE  k \in P
  <2> PICK S : S = Up(rl, k - 1)
    OBVIOUS
  <2>1. S \in SUBSET Int /\ IsFiniteSet(S) /\ g[k - 1] = Cardinality(S)
    BY <1>3 DEF Up
  <2> PICK a, b \in Int : a = rl[k].start /\ b = rl[k].end
    BY UpIs
  <2>2. a <= b /\ Up(rl, k) = S \cup (a..b) /\ \A x \in S : x < a
    BY UpIs
  <2>3. /\ IsFiniteSet(S \cup (a..b)) /\ Cardinality(S) \in Nat
        /\ Cardinality(S \cup (a..b)) = Cardinality(S) + (b - a + 1)
    BY ZenonT(30), <2>1, <2>2, CountBehind
  <2>4. g[k] = g[k - 1] + (b - a + 1)
    BY <1>1 DEF Count
  <2>5. /\ IsFiniteSet(Up(rl, k)) /\ Cardinality(Up(rl, k)) \in Nat
        /\ g[k] = Cardinality(Up(rl, k))
    BY ONLY <2>1, <2>2, <2>3, <2>4, a \in Int, b \in Int
  <2> QED BY <2>5
<1>4. n \in P
  <2> HIDE DEF P
  <2>1. \A k \in 0..n : k \in P
    BY <1>2, <1>3, Upwards
  <2> QED BY <2>1
<1> QED BY <1>1, <1>4, UpIs

\* The numbers of a list that grows are as many as it is long.
LEMMA CountGrowing ==
  ASSUME NEW m \in Nat, NEW f, \A p \in 1..m : f[p] \in Int,
         \A p, q \in 1..m : p < q => f[p] < f[q]
  PROVE  /\ IsFiniteSet({f[p] : p \in 1..m})
         /\ Cardinality({f[p] : p \in 1..m}) = m
<1> PICK T : T = {f[p] : p \in 1..m}
  OBVIOUS
<1> PICK h : h = [p \in 1..m |-> f[p]]
  OBVIOUS
<1>1. h \in [1..m -> T] /\ \A t \in T : \E p \in 1..m : h[p] = t
  OBVIOUS
<1>2. ASSUME NEW p \in 1..m, NEW q \in 1..m, h[p] = h[q]
      PROVE  p = q
  <2>1. f[p] = f[q] /\ f[p] \in Int
    BY <1>2
  <2>2. ~(p < q) /\ ~(q < p)
    BY <2>1
  <2> QED BY <2>2
<1>3. h \in Surjection(1..m, T) /\ h \in Injection(1..m, T)
  <2>1. h \in Surjection(1..m, T)
    BY <1>1 DEF Surjection
  <2>2. h \in Injection(1..m, T)
    BY <1>1, <1>2 DEF Injection, IsInjective
  <2> QED BY <2>1, <2>2
<1>4. IsFiniteSet(1..m) /\ Cardinality(1..m) = m
  BY FS_Interval
<1>5. IsFiniteSet(T) /\ Cardinality(T) = m
  BY <1>3, <1>4, FS_Surjection
<1> QED BY <1>5

-----------------------------------------------------------------------------
(* The first numbers of a list *)

Singles(r) == [k \in 1..Count(r) |-> Interval(r.start + k - 1, r.start + k - 1)]

\* s lists numbers of S one by one in order, and as many as there are.
InSingles(s, S) ==
  /\ s \in Seq(RangeType)
  /\ \A p \in 1..Len(s) : s[p].start = s[p].end /\ s[p].start \in S
  /\ \A p, q \in 1..Len(s) : p < q => s[p].start < s[q].start
  /\ Len(s) = Cardinality(S)

LEMMA SinglesIs ==
  ASSUME NEW r \in RangeType
  PROVE  /\ Singles(r) \in Seq(RangeType)
         /\ r.start <= r.end =>
              /\ Len(Singles(r)) = r.end - r.start + 1
              /\ \A k \in 1..(r.end - r.start + 1) :
                    Singles(r)[k].start = r.start + k - 1 /\ Singles(r)[k].end = r.start + k - 1
<1> PICK a, b \in Int : r.start = a /\ r.end = b
  BY DEF RangeType
<1> PICK c \in Int : c = Count(r)
  BY DEF Count
<1>1. c = b - a + 1
  BY DEF Count
<1> PICK s : s = Singles(r)
  OBVIOUS
<1>2. s = [k \in 1..c |-> Interval(a + k - 1, a + k - 1)]
  BY DEF Singles
<1>3. \A k \in 1..c : /\ Interval(a + k - 1, a + k - 1) \in RangeType
                      /\ Interval(a + k - 1, a + k - 1).start = a + k - 1
                      /\ Interval(a + k - 1, a + k - 1).end = a + k - 1
  <2> SUFFICES ASSUME NEW k \in 1..c
               PROVE /\ Interval(a + k - 1, a + k - 1) \in RangeType
                     /\ Interval(a + k - 1, a + k - 1).start = a + k - 1
                     /\ Interval(a + k - 1, a + k - 1).end = a + k - 1
    OBVIOUS
  <2>1. a + k - 1 \in Int
    OBVIOUS
  <2> QED BY <2>1, RangeTyped
<1>4. s \in Seq(RangeType)
  <2>1. CASE c \in Nat
    BY <1>2, <1>3, <2>1
  <2>2. CASE c \notin Nat
    <3>1. 1..c = 1..0
      BY <2>2
    <3>2. s = [k \in 1..0 |-> Interval(a + k - 1, a + k - 1)]
      BY <1>2, <3>1
    <3> QED BY <3>2
  <2> QED BY <2>1, <2>2
<1>5. a <= b => Len(s) = c
  BY <1>1, <1>2
<1>6. \A k \in 1..c : s[k].start = a + k - 1 /\ s[k].end = a + k - 1
  BY <1>2, <1>3
<1> QED BY <1>1, <1>4, <1>5, <1>6

LEMMA FirstOfIs ==
  ASSUME NEW rl \in Seq(RangeType), NEW n
  PROVE  \E g \in [0..Len(rl) -> Seq(RangeType)] :
            /\ g[0] = <<>>
            /\ \A k \in 1..Len(rl) : g[k] = g[k - 1] \o Singles(rl[k])
            /\ FirstOf(rl, n) = SubSeq(g[Len(rl)], 1, Least(n, Len(g[Len(rl)])))
<1> PICK m \in Nat : m = Len(rl)
  OBVIOUS
<1> PICK A : A = Seq(RangeType)
  OBVIOUS
<1>1. DOMAIN rl = 1..m
  OBVIOUS
<1>2. ASSUME NEW k \in 1..m PROVE Singles(rl[k]) \in A
  BY ElementTyped, SinglesIs
<1> DEFINE Joins(f) == f = [s \in SUBSET (1..m) |->
                              IF s = {} THEN <<>> ELSE f[s \ {Max(s)}] \o Singles(rl[Max(s)])]
<1>3. \E f : Joins(f) /\ f \in [SUBSET (1..m) -> A]
  <2> PICK S : S = 1..m
    OBVIOUS
  <2> PICK Choose, Step : /\ Choose = [s \in SUBSET S |-> Max(s)]
                          /\ Step = [p \in S \X A |-> p[2] \o Singles(rl[p[1]])]
    OBVIOUS
  <2>1. \A s \in SUBSET S : s # {} => Choose[s] = Max(s) /\ Max(s) \in s
    BY MaxPosition
  <2>2. ASSUME NEW x \in S, NEW a \in A
        PROVE  Step[<<x, a>>] = a \o Singles(rl[x]) /\ Step[<<x, a>>] \in A
    <3>1. Step[<<x, a>>] = a \o Singles(rl[x])
      OBVIOUS
    <3>2. a \o Singles(rl[x]) \in A
      BY <1>2, ConcatProperties
    <3> QED BY <3>1, <3>2
  <2>3. IsFiniteSet(S) /\ <<>> \in A
    BY FS_Interval, EmptyList
  <2>4. PICK f \in [SUBSET S -> A] : Folded(f, S, <<>>, Choose, Step)
    <3>1. Folding(S, A, Choose, Step)
      BY ZenonT(30), <2>1, <2>2 DEF Folding
    <3> QED BY ONLY <2>3, <3>1, FoldSolves
  <2>5. ASSUME NEW s \in SUBSET S, s # {}
        PROVE  f[s] = f[s \ {Max(s)}] \o Singles(rl[Max(s)])
    <3>1. Max(s) \in S /\ s \ {Max(s)} \in SUBSET S
      BY <2>1, <2>5
    <3> QED BY <2>1, <2>2, <2>4, <2>5, <3>1 DEF Folded
  <2>6. f = [s \in SUBSET S |-> IF s = {} THEN <<>> ELSE f[s \ {Max(s)}] \o Singles(rl[Max(s)])]
    BY <2>4, <2>5 DEF Folded
  <2> QED BY <2>6
<1> PICK it : it = CHOOSE f : Joins(f)
  OBVIOUS
<1>4. FirstOf(rl, n) = SubSeq(it[1..m], 1, Least(n, Len(it[1..m])))
  BY <1>1 DEF FirstOf, FoldLeft, MapThenFoldSet, Singles
<1>5. Joins(it)
  <2> HIDE DEF Joins
  <2> QED BY <1>3
<1>6. /\ it[{}] = <<>>
      /\ \A k \in 1..m : it[1..k] = it[1..(k - 1)] \o Singles(rl[k])
  <2>1. {} \in SUBSET (1..m)
    OBVIOUS
  <2>2. ASSUME NEW k \in 1..m PROVE it[1..k] = it[1..(k - 1)] \o Singles(rl[k])
    <3>1. 1..k \in SUBSET (1..m)
      <4> HIDE DEF Joins
      <4> QED OBVIOUS
    <3>2. Max(1..k) = k /\ (1..k) \ {k} = 1..(k - 1) /\ 1..k # {}
      BY MaxPosition
    <3> QED BY ZenonT(30), <1>5, <3>1, <3>2
  <2> QED BY ZenonT(30), <1>5, <2>1, <2>2
<1> HIDE DEF Joins
<1> PICK g : g = [k \in 0..m |-> it[1..k]]
  OBVIOUS
<1>7. /\ g[0] = <<>>
      /\ \A k \in 1..m : k - 1 \in 0..m /\ g[k] = g[k - 1] \o Singles(rl[k])
      /\ g[m] = it[1..m]
  <2>1. 1..0 = {}
    OBVIOUS
  <2>2. \A k \in 0..m : g[k] = it[1..k]
    OBVIOUS
  <2>3. ASSUME NEW k \in 1..m
        PROVE  k - 1 \in 0..m /\ g[k] = g[k - 1] \o Singles(rl[k])
    <3>1. k - 1 \in 0..m /\ k \in 0..m
      OBVIOUS
    <3>2. g[k] = it[1..k] /\ g[k - 1] = it[1..(k - 1)]
      BY <2>2, <3>1
    <3> QED BY <1>6, <3>1, <3>2
  <2>4. g[0] = <<>> /\ g[m] = it[1..m]
    BY <1>6, <2>1, <2>2
  <2> QED BY <2>3, <2>4
<1>8. \A k \in 0..m : g[k] \in A
  <2> DEFINE P == {k \in 0..m : g[k] \in A}
  <2>1. 0 \in P
    BY <1>7, EmptyList
  <2>2. ASSUME NEW k \in 1..m, k - 1 \in P PROVE k \in P
    <3>1. g[k - 1] \in A /\ g[k] = g[k - 1] \o Singles(rl[k]) /\ Singles(rl[k]) \in A
      BY <1>2, <1>7, <2>2
    <3>2. g[k] \in A
      BY SMTT(30), <3>1, ConcatProperties
    <3> QED BY <3>2
  <2> HIDE DEF P
  <2>3. \A k \in 0..m : k \in P
    BY <2>1, <2>2, Upwards
  <2> QED BY <2>3 DEF P
<1> QED BY SMTT(30), <1>4, <1>7, <1>8

\* The numbers of a range behind them.
LEMMA SinglesGrow ==
  ASSUME NEW S \in SUBSET Int, IsFiniteSet(S), NEW s, InSingles(s, S),
         NEW r \in RangeType, r.start <= r.end, \A x \in S : x < r.start
  PROVE  InSingles(s \o Singles(r), S \cup (r.start..r.end))
<1> PICK a, b \in Int : a = r.start /\ b = r.end
  BY DEF RangeType
<1> PICK u : u = Singles(r)
  OBVIOUS
<1>1. a <= b /\ \A x \in S : x < a
  OBVIOUS
<1>2. /\ IsFiniteSet(S \cup (a..b)) /\ Cardinality(S) \in Nat
      /\ Cardinality(S \cup (a..b)) = Cardinality(S) + (b - a + 1)
  BY <1>1, CountBehind
<1> PICK d \in Nat : d = b - a + 1
  BY <1>1
<1>3. /\ u \in Seq(RangeType) /\ Len(u) = d
      /\ \A q \in 1..d : u[q].start = a + q - 1 /\ u[q].end = a + q - 1
  BY <1>1, SinglesIs
<1>4. /\ s \in Seq(RangeType) /\ Len(s) = Cardinality(S)
      /\ \A p \in 1..Len(s) : s[p].start = s[p].end /\ s[p].start \in S
      /\ \A p, q \in 1..Len(s) : p < q => s[p].start < s[q].start
  BY DEF InSingles
<1> PICK c \in Nat : c = Len(s)
  BY <1>4
<1> PICK t : t = s \o u
  OBVIOUS
<1>5. /\ t \in Seq(RangeType) /\ Len(t) = c + d
      /\ \A p \in 1..(c + d) : t[p] = IF p <= c THEN s[p] ELSE u[p - c]
  <2>1. s \in Seq(RangeType) /\ u \in Seq(RangeType) /\ Len(s) = c /\ Len(u) = d
    BY <1>3, <1>4
  <2> HIDE DEF RangeType
  <2>2. /\ t \in Seq(RangeType) /\ Len(t) = Len(s) + Len(u)
        /\ \A p \in 1..(Len(s) + Len(u)) : t[p] = IF p <= Len(s) THEN s[p] ELSE u[p - Len(s)]
    BY ONLY <2>1, t = s \o u, ConcatProperties
  <2> QED BY ONLY <2>1, <2>2
<1>6. ASSUME NEW p \in 1..c
      PROVE  /\ t[p] = s[p] /\ t[p].start = t[p].end
             /\ t[p].start \in S /\ t[p].start \in Int /\ t[p].start < a
  <2>1. p \in 1..(c + d) /\ p <= c
    OBVIOUS
  <2>2. t[p] = s[p]
    BY <1>5, <2>1
  <2> QED BY <1>1, <1>4, <2>2
<1>7. ASSUME NEW q \in 1..d
      PROVE  /\ t[c + q].start = a + q - 1 /\ t[c + q].start = t[c + q].end
             /\ t[c + q].start \in a..b /\ t[c + q].start \in Int /\ a <= t[c + q].start
  <2>1. c + q \in 1..(c + d) /\ ~(c + q <= c) /\ (c + q) - c = q
    BY SMTT(30)
  <2>2. t[c + q] = u[q]
    BY <1>5, <2>1
  <2>3. a + q - 1 \in a..b /\ a <= a + q - 1
    BY ONLY a \in Int, b \in Int, d \in Nat, d = b - a + 1, q \in 1..d
  <2> QED BY <1>3, <2>2, <2>3
<1>8. \A p \in 1..(c + d) : p \in 1..c \/ \E q \in 1..d : p = c + q
  <2> SUFFICES ASSUME NEW p \in 1..(c + d), p \notin 1..c
               PROVE  \E q \in 1..d : p = c + q
    OBVIOUS
  <2>1. p - c \in 1..d /\ p = c + (p - c)
    BY SMTT(30)
  <2> QED BY <2>1
<1>9. ASSUME NEW p \in 1..(c + d), NEW q \in 1..(c + d), p < q
      PROVE  t[p].start < t[q].start
  <2>1. CASE q \in 1..c
    <3>1. p \in 1..c
      BY <1>9, <2>1
    <3> QED BY <1>4, <1>6, <1>9, <2>1, <3>1
  <2>2. CASE p \in 1..c /\ q \notin 1..c
    <3> PICK l \in 1..d : q = c + l
      BY <1>8, <2>2
    <3> PICK x, y \in Int : x = t[p].start /\ y = t[q].start
      BY <1>6, <1>7, <2>2
    <3>1. x < a /\ a <= y
      BY <1>6, <1>7, <2>2
    <3>2. x < y
      BY ONLY <3>1, x \in Int, y \in Int, a \in Int
    <3> QED BY <3>2
  <2>3. CASE p \notin 1..c
    <3>1. q \notin 1..c
      BY <1>9, <2>3
    <3> PICK k \in 1..d : p = c + k
      BY <1>8, <2>3
    <3> PICK l \in 1..d : q = c + l
      BY <1>8, <3>1
    <3>2. t[p].start = a + k - 1 /\ t[q].start = a + l - 1
      BY <1>7
    <3> QED BY SMTT(30), <1>9, <3>2
  <2> QED BY <2>1, <2>2, <2>3
<1>10. \A p \in 1..(c + d) : t[p].start = t[p].end /\ t[p].start \in S \cup (a..b)
  <2> SUFFICES ASSUME NEW p \in 1..(c + d)
               PROVE  t[p].start = t[p].end /\ (t[p].start \in S \/ t[p].start \in a..b)
    BY ZenonT(30)
  <2>1. CASE p \in 1..c
    BY <1>6, <2>1
  <2>2. CASE p \notin 1..c
    <3> PICK q \in 1..d : p = c + q
      BY <1>8, <2>2
    <3> QED BY <1>7
  <2> QED BY <2>1, <2>2
<1>11. Len(t) = Cardinality(S \cup (a..b))
  BY <1>2, <1>4, <1>5
<1>12. InSingles(t, S \cup (a..b))
  BY ONLY <1>5, <1>9, <1>10, <1>11 DEF InSingles
<1> QED BY <1>12

\* The first n numbers of a list in order: n of them, or all there are, in a
\* list in order.
LEMMA FirstOfApart ==
  ASSUME NEW rl \in Seq(RangeType), Apart(rl, 0), NEW n \in Nat,
         n <= Cardinality(Offsets(rl))
  PROVE  /\ FirstOf(rl, n) \in Seq(RangeType) /\ Apart(FirstOf(rl, n), 0)
         /\ Offsets(FirstOf(rl, n)) \subseteq Offsets(rl)
         /\ Cardinality(Offsets(FirstOf(rl, n))) = n
<1> PICK m \in Nat : m = Len(rl)
  OBVIOUS
<1>1. PICK g \in [0..m -> Seq(RangeType)] :
         /\ g[0] = <<>>
         /\ \A k \in 1..m : g[k] = g[k - 1] \o Singles(rl[k])
         /\ FirstOf(rl, n) = SubSeq(g[m], 1, Least(n, Len(g[m])))
  BY FirstOfIs
<1> DEFINE P == {k \in 0..m : InSingles(g[k], Up(rl, k)) /\ IsFiniteSet(Up(rl, k))}
<1>2. 0 \in P
  <2>1. Up(rl, 0) = {} /\ IsFiniteSet({}) /\ Cardinality({}) = 0 /\ g[0] = <<>>
    BY <1>1, UpIs, FS_EmptySet
  <2>2. InSingles(<<>>, {})
    BY <2>1, EmptyList DEF InSingles
  <2>3. InSingles(g[0], Up(rl, 0)) /\ IsFiniteSet(Up(rl, 0))
    BY ONLY <2>1, <2>2, Zenon
  <2> QED BY <2>3
<1>3. ASSUME NEW k \in 1..m, k - 1 \in P
      PROVE  k \in P
  <2> PICK S, s, r : S = Up(rl, k - 1) /\ s = g[k - 1] /\ r = rl[k]
    OBVIOUS
  <2>1. S \in SUBSET Int /\ IsFiniteSet(S) /\ InSingles(s, S)
    BY <1>3 DEF Up
  <2>2. /\ r \in RangeType /\ r.start \in Int /\ r.end \in Int /\ r.start <= r.end
        /\ Up(rl, k) = S \cup (r.start..r.end) /\ \A x \in S : x < r.start
    BY UpIs, ElementTyped
  <2>3. IsFiniteSet(S \cup (r.start..r.end))
    BY <2>1, <2>2, CountBehind
  <2>4. g[k] = s \o Singles(r)
    BY <1>1
  <2>5. InSingles(s \o Singles(r), S \cup (r.start..r.end))
    BY <2>1, <2>2, SinglesGrow
  <2>6. InSingles(g[k], Up(rl, k)) /\ IsFiniteSet(Up(rl, k))
    BY ONLY <2>2, <2>3, <2>4, <2>5, Zenon
  <2> QED BY <2>6
<1>4. InSingles(g[m], Offsets(rl))
  <2> HIDE DEF P
  <2>1. \A k \in 0..m : k \in P
    BY <1>2, <1>3, Upwards
  <2>2. m \in P /\ Up(rl, m) = Offsets(rl)
    BY <2>1, UpIs
  <2> QED BY <2>2 DEF P
<1> PICK s : s = g[m]
  OBVIOUS
<1>5. /\ s \in Seq(RangeType) /\ n <= Len(s) /\ Len(s) \in Nat
      /\ \A p \in 1..Len(s) : s[p].start = s[p].end /\ s[p].start \in Offsets(rl)
      /\ \A p, q \in 1..Len(s) : p < q => s[p].start < s[q].start
  BY <1>4 DEF InSingles
<1> PICK t : t = SubSeq(s, 1, n)
  OBVIOUS
<1>6. t \in Seq(RangeType) /\ Len(t) = n /\ \A p \in 1..n : t[p] = s[p]
  BY <1>5
<1>7. FirstOf(rl, n) = t
  <2>1. Least(n, Len(s)) = n
    BY <1>5 DEF Least
  <2> QED BY <1>1, <2>1
<1>8. ASSUME NEW p \in 1..n
      PROVE  /\ t[p].start \in Int /\ t[p].start = t[p].end /\ t[p].start \in Offsets(rl)
             /\ p \in 1..Len(s)
  <2>1. p \in 1..Len(s)
    BY <1>5
  <2> QED BY <1>5, <1>6, <2>1, ElementTyped
<1>9. ASSUME NEW p \in 1..n, NEW q \in 1..n, p < q
      PROVE  t[p].start < t[q].start
  BY <1>5, <1>6, <1>8, <1>9
<1>10. Apart(t, 0)
  <2>1. \A p \in 1..n : t[p].start <= t[p].end
    BY <1>8
  <2>2. ASSUME NEW p \in 1..n, NEW q \in 1..n, p < q
        PROVE  t[p].end + 0 < t[q].start
    <3> PICK x, y \in Int : x = t[p].start /\ y = t[q].start
      BY <1>8
    <3>1. x < y /\ t[p].end = x
      BY <1>8, <1>9, <2>2
    <3> QED BY <3>1
  <2>3. 0 \in Nat
    OBVIOUS
  <2> QED BY ONLY <1>6, <2>1, <2>2, <2>3, InApart
<1>11. Offsets(t) = {t[p].start : p \in 1..n}
  <2>1. ASSUME NEW x
        PROVE  x \in Offsets(t) <=> \E p \in 1..n : x = t[p].start
    <3>1. \A p \in 1..n : x \in t[p].start..t[p].end <=> x = t[p].start
      <4> SUFFICES ASSUME NEW p \in 1..n PROVE x \in t[p].start..t[p].end <=> x = t[p].start
        OBVIOUS
      <4> PICK y \in Int : y = t[p].start /\ y = t[p].end
        BY <1>8
      <4> QED OBVIOUS
    <3>2. x \in Offsets(t) <=> \E p \in 1..n : x \in t[p].start..t[p].end
      BY <1>6, InOffsets
    <3> QED BY <3>1, <3>2
  <2> QED BY <2>1
<1>12. Cardinality({t[p].start : p \in 1..n}) = n
  <2> PICK f : f = [p \in 1..n |-> t[p].start]
    OBVIOUS
  <2>1. \A p \in 1..n : f[p] = t[p].start
    OBVIOUS
  <2>2. \A p \in 1..n : f[p] \in Int
    BY <1>8, <2>1
  <2>3. \A p, q \in 1..n : p < q => f[p] < f[q]
    BY <1>9, <2>1
  <2>4. Cardinality({f[p] : p \in 1..n}) = n
    BY ONLY <2>2, <2>3, n \in Nat, CountGrowing
  <2>5. {f[p] : p \in 1..n} = {t[p].start : p \in 1..n}
    BY <2>1
  <2> QED BY <2>4, <2>5
<1>13. Offsets(t) \subseteq Offsets(rl)
  BY ONLY <1>8, <1>11
<1>14. Cardinality(Offsets(t)) = n
  BY ONLY <1>11, <1>12, Zenon
<1> QED BY ONLY <1>6, <1>7, <1>10, <1>13, <1>14, Zenon

-----------------------------------------------------------------------------
(* Lists of symbols *)

\* Each block has a list in order, and not an empty one.
InLists(er) ==
  \A s \in DOMAIN er : er[s] \in Seq(RangeType) /\ Apart(er[s], 0) /\ er[s] # <<>>

\* A list in order is empty if it stands for nothing, and only then.
LEMMA EmptyOffsets ==
  ASSUME NEW rl \in Seq(RangeType), Apart(rl, 0)
  PROVE  rl = <<>> <=> Offsets(rl) = {}
<1>1. ASSUME rl # <<>> PROVE Offsets(rl) # {}
  <2>1. 1 \in 1..Len(rl)
    BY <1>1
  <2>2. rl[1].start <= rl[1].end
    BY <2>1, InApart
  <2> QED BY <2>1, <2>2, EndsInOffsets
<1> QED BY <1>1, EmptyList

\* A normal list is in order.
LEMMA NormalIsApart ==
  ASSUME NEW rl \in Seq(RangeType), Normal(rl)
  PROVE  Apart(rl, 0)
<1>1. /\ \A k \in 1..Len(rl) : rl[k].start <= rl[k].end
      /\ \A k, l \in 1..Len(rl) : k < l => rl[k].end + 1 < rl[l].start
  BY InApart DEF Normal
<1>2. ASSUME NEW k \in 1..Len(rl), NEW l \in 1..Len(rl), k < l
      PROVE  rl[k].end + 0 < rl[l].start
  <2> PICK a, c \in Int : rl[k].end = a /\ rl[l].start = c
    BY ElementTyped
  <2>1. a + 1 < c
    BY <1>1, <1>2
  <2> QED BY <2>1
<1>3. 0 \in Nat
  OBVIOUS
<1> QED BY ONLY <1>1, <1>2, <1>3, rl \in Seq(RangeType), InApart

LEMMA NumSrcSymTyped ==
  ASSUME NEW b \in Structures, NEW sbn \in Blocks(b)
  PROVE  /\ b.N \in Nat /\ sbn \in Nat /\ sbn < b.N
         /\ NumSrcSym(b, sbn) \in Nat /\ RprSymbols(b) \in Nat
<1> USE StructuresAssumption DEF AtRest
<1>1. b.N \in Nat /\ sbn \in Nat /\ sbn < b.N
  BY DEF Blocks
<1>2. RprSymbols(b) \in Nat
  BY DEF RprSymbols
<1>3. \A x \in Int : U32(x) \in Nat /\ U64(x) \in Nat
  BY WidthAssumption DEF U32, U64
<1> PICK n \in Nat : n = b.N
  BY <1>1
<1>4. SrcOffset(b, sbn) \in Nat
  <2>1. b.ESLen * b.A * sbn \in Int
    BY <1>1
  <2>2. U32(sbn - b.I) \in Nat
    BY <1>1, <1>3
  <2>3. b.ESLen * (b.I * b.A + U32(sbn - b.I) * b.ASmall) \in Int
    BY <2>2
  <2> QED BY <1>3, <2>1, <2>3 DEF SrcOffset
<1>5. SymbolsFrom(b, SrcOffset(b, sbn)) \in Nat
  <2> PICK x \in Nat : x = U32(b.TransferLen - SrcOffset(b, sbn))
    BY <1>3, <1>4
  <2> PICK l \in Nat \ {0} : l = b.ESLen
    OBVIOUS
  <2> PICK y \in Nat : y = U32(x + l - 1)
    BY <1>3
  <2>1. y \div l \in Nat
    OBVIOUS
  <2> QED BY <2>1 DEF SymbolsFrom
<1>6. NumSrcSym(b, sbn) \in Nat
  BY <1>5 DEF NumSrcSym
<1> QED BY <1>1, <1>2, <1>6

\* An ESIRange is made of normal lists of symbols of blocks.
LEMMA ESIRangesIs ==
  ASSUME NEW b \in Structures, NEW source \in BOOLEAN, NEW er \in ESIRanges(b, source)
  PROVE  /\ InLists(er) /\ DOMAIN er \subseteq Blocks(b)
         /\ \A s \in DOMAIN er : Normal(er[s]) /\ Offsets(er[s]) \subseteq ESIs(b, s, source)
<1> PICK f : /\ er = [sbn \in {s \in Blocks(b) : f[s] # {}} |-> ListOf(f[sbn])]
             /\ \A s \in Blocks(b) : f[s] \subseteq ESIs(b, s, source)
  BY DEF ESIRanges
<1>1. DOMAIN er = {s \in Blocks(b) : f[s] # {}}
  OBVIOUS
<1>2. ASSUME NEW s \in DOMAIN er
      PROVE  /\ er[s] \in Seq(RangeType) /\ Normal(er[s]) /\ Apart(er[s], 0) /\ er[s] # <<>>
             /\ Offsets(er[s]) \subseteq ESIs(b, s, source)
  <2>1. s \in Blocks(b) /\ f[s] # {} /\ er[s] = ListOf(f[s]) /\ f[s] \subseteq ESIs(b, s, source)
    BY <1>1
  <2> PICK n, r \in Nat : n = NumSrcSym(b, s) /\ r = RprSymbols(b)
    BY <2>1, NumSrcSymTyped
  <2>2. ESIs(b, s, source) \in SUBSET Int /\ IsFiniteSet(ESIs(b, s, source))
    <3>1. ESIs(b, s, source) = IF source THEN 0..(n - 1) ELSE n..(n + r - 1)
      BY DEF ESIs, SourceESIs, RepairESIs
    <3>2. IsFiniteSet(0..(n - 1)) /\ IsFiniteSet(n..(n + r - 1))
      <4>1. 0 \in Int /\ n - 1 \in Int /\ n \in Int /\ n + r - 1 \in Int
        OBVIOUS
      <4> QED BY ONLY <4>1, FS_Interval
    <3> QED BY <3>1, <3>2
  <2>3. f[s] \in SUBSET Int /\ IsFiniteSet(f[s])
    BY <2>1, <2>2, FS_Subset
  <2>4. er[s] \in Seq(RangeType) /\ Normal(er[s]) /\ Offsets(er[s]) = f[s]
    BY <2>1, <2>3, ListOfIs
  <2>5. Apart(er[s], 0)
    BY <2>4, NormalIsApart
  <2> QED BY <2>1, <2>4, <2>5, EmptyList
<1> QED BY <1>1, <1>2 DEF InLists

\* GetMissingESIs asks only for missing symbols, for those that repair symbols
\* do not stand in for.
LEMMA GetMissingIs ==
  ASSUME NEW b \in Structures, NEW m, NEW h, InLists(m), InLists(h),
         \A s \in DOMAIN m : s \in Blocks(b) /\ Offsets(m[s]) \subseteq SourceESIs(b, s),
         NEW er, er = GetMissingESIs(b, m, h)
  PROVE  /\ InLists(er) /\ DOMAIN er \subseteq DOMAIN m
         /\ \A s \in DOMAIN er : Normal(er[s])
         /\ \A s : /\ IsFiniteSet(Listed(m, s)) /\ IsFiniteSet(Listed(h, s))
                   /\ Listed(er, s) \subseteq Listed(m, s)
                   /\ Cardinality(Listed(er, s)) =
                        Greatest(Cardinality(Listed(m, s)) - Cardinality(Listed(h, s)), 0)
<1> DEFINE repairable(s) == IF s \in DOMAIN h THEN CountOf(h[s]) ELSE 0
           nothing(s) == CountOf(m[s]) = NumSrcSym(b, s) /\ repairable(s) = 0
           list(s) == IF nothing(s) THEN <<Interval(0, NumSrcSym(b, s) - 1)>>
                      ELSE Flatten(FirstOf(m[s], StillNeeded(CountOf(m[s]), repairable(s))))
<1>1. er = [s \in {t \in DOMAIN m : nothing(t) \/ CountOf(m[t]) > repairable(t)} |-> list(s)]
  BY DEF GetMissingESIs
<1>2. ASSUME NEW g, InLists(g), NEW s
      PROVE  /\ IsFiniteSet(Listed(g, s)) /\ Cardinality(Listed(g, s)) \in Nat
             /\ s \in DOMAIN g => Listed(g, s) = Offsets(g[s]) /\ Listed(g, s) # {}
             /\ (IF s \in DOMAIN g THEN CountOf(g[s]) ELSE 0) = Cardinality(Listed(g, s))
  <2>1. CASE s \in DOMAIN g
    <3>1. g[s] \in Seq(RangeType) /\ Apart(g[s], 0) /\ g[s] # <<>>
      BY <1>2, <2>1 DEF InLists
    <3>2. /\ IsFiniteSet(Offsets(g[s])) /\ Cardinality(Offsets(g[s])) \in Nat
          /\ CountOf(g[s]) = Cardinality(Offsets(g[s]))
      BY <3>1, CountOfApart
    <3>3. Offsets(g[s]) # {}
      BY <3>1, EmptyOffsets
    <3> QED BY <2>1, <3>2, <3>3 DEF Listed
  <2>2. CASE s \notin DOMAIN g
    <3>1. Listed(g, s) = {} /\ IsFiniteSet({}) /\ Cardinality({}) = 0
      BY <2>2, FS_EmptySet DEF Listed
    <3> QED BY <2>2, <3>1
  <2> QED BY <2>1, <2>2
<1>3. ASSUME NEW s \in DOMAIN m
      PROVE  /\ m[s] \in Seq(RangeType) /\ Apart(m[s], 0)
             /\ CountOf(m[s]) = Cardinality(Listed(m, s)) /\ Listed(m, s) = Offsets(m[s])
             /\ Listed(m, s) # {} /\ Cardinality(Listed(m, s)) \in Nat
             /\ repairable(s) = Cardinality(Listed(h, s)) /\ Cardinality(Listed(h, s)) \in Nat
             /\ NumSrcSym(b, s) \in Nat
             /\ Listed(m, s) \subseteq 0..(NumSrcSym(b, s) - 1)
  BY <1>2, NumSrcSymTyped DEF InLists, SourceESIs
<1> HIDE DEF repairable
<1>4. ASSUME NEW s \in DOMAIN er
      PROVE  /\ s \in DOMAIN m /\ er[s] = list(s)
             /\ nothing(s) \/ CountOf(m[s]) > repairable(s)
  BY <1>1
<1>5. ASSUME NEW s \in DOMAIN er
      PROVE  /\ er[s] \in Seq(RangeType) /\ Normal(er[s]) /\ er[s] # <<>>
             /\ Offsets(er[s]) \subseteq Listed(m, s)
             /\ Cardinality(Offsets(er[s])) = Cardinality(Listed(m, s)) - Cardinality(Listed(h, s))
             /\ Cardinality(Listed(m, s)) >= Cardinality(Listed(h, s))
  <2> PICK n, c, d \in Nat : n = NumSrcSym(b, s) /\ c = Cardinality(Listed(m, s))
                                /\ d = Cardinality(Listed(h, s))
    BY <1>3, <1>4
  <2>1. CASE nothing(s)
    <3>1. c = n /\ d = 0
      BY <1>3, <1>4, <2>1
    <3>2. IsFiniteSet(0..(n - 1)) /\ Cardinality(0..(n - 1)) = n
      <4>1. 0 \in Int /\ n - 1 \in Int /\ (n - 1) - 0 + 1 = n /\ (0 > n - 1 => n = 0)
        OBVIOUS
      <4> QED BY ONLY <4>1, FS_Interval
    <3>3. Listed(m, s) \subseteq 0..(n - 1) /\ Listed(m, s) # {}
      BY <1>3, <1>4
    <3>4. Listed(m, s) = 0..(n - 1)
      BY ONLY <3>1, <3>2, <3>3, c = Cardinality(Listed(m, s)), FS_Subset
    <3> PICK r : r = Interval(0, n - 1)
      OBVIOUS
    <3>5. r \in RangeType /\ r.start = 0 /\ r.end = n - 1 /\ 0 <= n - 1
      BY <3>3, RangeTyped
    <3>6. /\ <<r>> \in Seq(RangeType) /\ Len(<<r>>) = 1 /\ <<r>>[1] = r
          /\ Offsets(<<r>>) = 0..(n - 1)
      BY <3>5, SingleList
    <3>7. Normal(<<r>>)
      <4>1. DOMAIN <<r>> = {1}
        OBVIOUS
      <4> QED BY <3>5, <3>6, <4>1 DEF Normal, Apart
    <3>8. er[s] = <<r>>
      BY <1>4, <2>1
    <3>9. <<r>> # <<>>
      OBVIOUS
    <3> QED BY ONLY <3>1, <3>4, <3>6, <3>7, <3>8, <3>9, c = Cardinality(Listed(m, s)),
               d = Cardinality(Listed(h, s)), n \in Nat
  <2>2. CASE ~nothing(s)
    <3>1. c > d
      BY <1>3, <1>4, <2>2
    <3> PICK k \in Nat : k = c - d
      BY <3>1
    <3> PICK f : f = FirstOf(m[s], k)
      OBVIOUS
    <3>2. er[s] = Flatten(f)
      <4>1. StillNeeded(CountOf(m[s]), repairable(s)) = k
        BY <1>3, <1>4 DEF StillNeeded
      <4> QED BY <1>4, <2>2, <4>1
    <3>3. /\ f \in Seq(RangeType) /\ Apart(f, 0) /\ Offsets(f) \subseteq Listed(m, s)
          /\ Cardinality(Offsets(f)) = k
      <4>1. /\ m[s] \in Seq(RangeType) /\ Apart(m[s], 0) /\ k <= Cardinality(Offsets(m[s]))
            /\ Listed(m, s) = Offsets(m[s])
        BY <1>3, <1>4
      <4> QED BY <4>1, FirstOfApart
    <3>4. /\ er[s] \in Seq(RangeType) /\ Normal(er[s]) /\ Offsets(er[s]) = Offsets(f)
      BY <3>2, <3>3, FlattenApart
    <3>5. er[s] # <<>>
      <4> SUFFICES ASSUME er[s] = <<>> PROVE FALSE
        OBVIOUS
      <4>1. Offsets(f) = {}
        BY <3>4, EmptyList
      <4>2. Cardinality(Offsets(f)) = 0
        BY <4>1, FS_EmptySet
      <4> QED BY <3>1, <3>3, <4>2
    <3> QED BY ONLY SMTT(30), <3>1, <3>3, <3>4, <3>5, c = Cardinality(Listed(m, s)),
               d = Cardinality(Listed(h, s)), k = c - d, c \in Nat, d \in Nat
  <2> QED BY <2>1, <2>2
<1>6. InLists(er) /\ DOMAIN er \subseteq DOMAIN m /\ \A s \in DOMAIN er : Normal(er[s])
  BY <1>4, <1>5, NormalIsApart DEF InLists
<1>7. ASSUME NEW s
      PROVE  /\ Listed(er, s) \subseteq Listed(m, s)
             /\ Cardinality(Listed(er, s)) =
                  Greatest(Cardinality(Listed(m, s)) - Cardinality(Listed(h, s)), 0)
  <2> PICK c, d \in Nat : c = Cardinality(Listed(m, s)) /\ d = Cardinality(Listed(h, s))
    BY <1>2
  <2>1. CASE s \in DOMAIN er
    <3>1. Listed(er, s) = Offsets(er[s])
      BY <2>1 DEF Listed
    <3>2. Cardinality(Offsets(er[s])) = c - d /\ c >= d /\ Offsets(er[s]) \subseteq Listed(m, s)
      BY <1>5, <2>1
    <3>3. Greatest(c - d, 0) = c - d
      BY <3>2 DEF Greatest
    <3> QED BY <3>1, <3>2, <3>3
  <2>2. CASE s \notin DOMAIN er
    <3>1. Listed(er, s) = {} /\ Cardinality({}) = 0
      BY <2>2, FS_EmptySet DEF Listed
    <3>2. c <= d
      <4>1. CASE s \in DOMAIN m
        <5>1. ~(CountOf(m[s]) > repairable(s))
          BY <1>1, <2>2, <4>1
        <5> QED BY <1>3, <4>1, <5>1
      <4>2. CASE s \notin DOMAIN m
        <5>1. c = 0
          BY <4>2, FS_EmptySet DEF Listed
        <5> QED BY <5>1
      <4> QED BY <4>1, <4>2
    <3>3. Greatest(c - d, 0) = 0
      BY <3>2 DEF Greatest
    <3> QED BY <3>1, <3>3
  <2> QED BY <2>1, <2>2
<1> QED BY <1>2, <1>6, <1>7

-----------------------------------------------------------------------------
(* Blocks and their symbols *)

\* n symbols of L bytes hold the bytes o..(next - 1); perhaps the last is short.
Holds(o, next, L, n) ==
  /\ o \in Nat /\ next \in Nat /\ L \in Nat \ {0} /\ n \in Nat
  /\ o <= next /\ next - o <= L * n
  /\ n > 0 => L * (n - 1) < next - o

BytesAt(o, next, L, q) == (o + L * q)..(o + L * q + L - 1) \cap 0..(next - 1)

LEMMA CeilDivIs ==
  ASSUME NEW x \in Nat \ {0}, NEW y \in Nat \ {0}
  PROVE  /\ CeilDiv(x, y) \in Nat \ {0}
         /\ y * (CeilDiv(x, y) - 1) < x /\ x <= y * CeilDiv(x, y)
BY SMT DEF CeilDiv

\* A symbol begins in its block and lies in it.
LEMMA SymbolIn ==
  ASSUME NEW o, NEW next, NEW L, NEW n, Holds(o, next, L, n), NEW q \in 0..(n - 1)
  PROVE  /\ L * q \in Nat /\ o + L * q < next
         /\ \A x \in Int : x \in BytesAt(o, next, L, q) <=>
                              o + L * q <= x /\ x < o + L * q + L /\ x < next
         /\ BytesAt(o, next, L, q) \subseteq o..(next - 1)
         /\ o + L * q \in BytesAt(o, next, L, q)
         /\ q < n - 1 => o + L * q + L <= next
<1> USE DEF Holds
<1>1. L * q <= L * (n - 1) /\ L * q \in Nat /\ L * (n - 1) \in Nat
  <2>1. n - 1 \in Nat /\ q \in Nat /\ L \in Nat /\ q <= n - 1
    OBVIOUS
  <2> QED BY ONLY <2>1, ProductsOrder
<1> PICK p \in Nat : p = L * q
  BY <1>1
<1>2. o + p < next
  BY <1>1
<1>3. BytesAt(o, next, L, q) = (o + p)..(o + p + L - 1) \cap 0..(next - 1)
  BY DEF BytesAt
<1>4. q < n - 1 => o + p + L <= next
  <2> SUFFICES ASSUME q < n - 1 PROVE o + p + L <= next
    OBVIOUS
  <2>1. n - 1 \in Nat /\ q + 1 \in Nat /\ L \in Nat /\ q + 1 <= n - 1 /\ q \in Int /\ L \in Int
    OBVIOUS
  <2>2. L * (q + 1) <= L * (n - 1)
    BY ONLY <2>1, ProductsOrder
  <2>3. L * (q + 1) = L * q + L
    BY ONLY <2>1, 0 \in Int, Products
  <2> QED BY <1>1, <2>2, <2>3
<1> QED BY ONLY <1>2, <1>3, <1>4, p = L * q, p \in Nat, o \in Nat, next \in Nat, L \in Nat \ {0}

\* A byte of a block is a byte of one symbol of it.
LEMMA SymbolOf ==
  ASSUME NEW o, NEW next, NEW L, NEW n, Holds(o, next, L, n), NEW x \in o..(next - 1)
  PROVE  \E q \in 0..(n - 1) :
            /\ q = (x - o) \div L
            /\ x \in BytesAt(o, next, L, q)
            /\ \A p \in 0..(n - 1) : x \in BytesAt(o, next, L, p) => p = q
<1>0. o \in Nat /\ next \in Nat /\ L \in Nat \ {0} /\ n \in Nat /\ next - o <= L * n
  BY DEF Holds
<1> PICK y \in Nat : y = x - o
  BY <1>0
<1> PICK q, m \in Nat : q = y \div L /\ m = y % L
  BY <1>0, Quotients
<1>1. y = L * q + m /\ m < L
  BY <1>0, Quotients
<1>2. y < L * n
  <2>1. L * n \in Nat
    BY <1>0, ProductsOrder
  <2> QED BY <1>0, <2>1
<1>3. q < n
  BY ONLY <1>0, <1>2, y \in Nat, q = y \div L, QuotientBelow
<1>4. q \in 0..(n - 1)
  BY <1>0, <1>3
<1> PICK p \in Nat : p = L * q
  BY <1>4, SymbolIn
<1>5. x \in BytesAt(o, next, L, q)
  <2>1. o + p <= x /\ x < o + p + L /\ x < next
    BY ONLY <1>0, <1>1, p = L * q, y = x - o, x \in o..(next - 1), p \in Nat, m \in Nat
  <2> QED BY <1>4, <2>1, SymbolIn
<1>6. ASSUME NEW r \in 0..(n - 1), x \in BytesAt(o, next, L, r)
      PROVE  r = q
  <2> PICK u \in Nat : u = L * r
    BY SymbolIn
  <2>1. o + u <= x /\ x < o + u + L
    BY <1>6, SymbolIn
  <2>2. u <= y /\ y < u + L /\ p <= y /\ y < p + L
    BY ONLY <1>0, <1>1, <2>1, p = L * q, y = x - o, x \in o..(next - 1), p \in Nat, m \in Nat, u \in Nat
  <2>3. L * (r + 1) = u + L /\ L * (q + 1) = p + L
    BY <1>0, <1>4, Products
  <2>4. L * r <= y /\ y < L * (q + 1) /\ L * q <= y /\ y < L * (r + 1)
    BY <2>2, <2>3
  <2>5. r < q + 1 /\ q < r + 1
    <3>1. L \in Nat /\ r \in Nat /\ q \in Nat /\ r + 1 \in Nat /\ q + 1 \in Nat /\ y \in Nat
      BY <1>0
    <3> QED BY ONLY <2>4, <3>1, LessFactor
  <2> QED BY <1>4, <2>5
<1> QED BY <1>4, <1>5, <1>6

\* The place of a block, and the symbols it has, of the source or for repair.
BaseOf(b, sbn, source) == IF source THEN 0 ELSE NumSrcSym(b, sbn)

SymbolsOf(b, sbn, source) == IF source THEN NumSrcSym(b, sbn) ELSE RprSymbols(b)

LEMMA RepairIs ==
  ASSUME NEW b \in Structures, NEW sbn \in 0..b.N
  PROVE  /\ RprBlockSize(b) = b.ESLen * RprSymbols(b)
         /\ b.ESLen * RprSymbols(b) \in Nat
         /\ RprOffset(b, sbn) = b.ESLen * RprSymbols(b) * sbn
         /\ b.ESLen * RprSymbols(b) * sbn \in Nat
<1> PICK l, r, k \in Nat : l = b.ESLen /\ r = RprSymbols(b) /\ k = b.N
  BY StructuresAssumption DEF AtRest, RprSymbols
<1> PICK s \in Nat : s = l * r
  BY ProductsOrder
<1>1. sbn \in Nat /\ sbn <= k /\ Max64 \in Nat /\ k + 1 \in Nat
  BY WidthAssumption
<1>2. r = b.MaxNumEs - b.MaxSbLen /\ r * l = s
  <2>1. r * l = l * r
    BY ProductsOrder, Products, r \in Int, l \in Int
  <2> QED BY <2>1 DEF RprSymbols
<1>3. s * (k + 1) < Max64
  BY <1>2, StructuresAssumption DEF AtRest
<1>4. s * 1 <= s * (k + 1) /\ s * sbn <= s * (k + 1) /\ s * sbn \in Nat /\ s * 1 = s
      /\ s * (k + 1) \in Nat
  <2>1. 1 \in Nat /\ 1 <= k + 1 /\ sbn <= k + 1
    BY <1>1
  <2> QED BY ONLY <1>1, <2>1, s \in Nat, ProductsOrder
<1>5. s < Max64 /\ s * sbn < Max64
  BY <1>1, <1>3, <1>4
<1>6. RprBlockSize(b) = s
  BY <1>1, <1>2, <1>5, SmallKeeps DEF RprBlockSize, U64
<1>7. RprOffset(b, sbn) = s * sbn
  <2>1. RprOffset(b, sbn) = U64(s * sbn)
    BY <1>1, <1>6 DEF RprOffset
  <2> QED BY <1>1, <1>4, <1>5, <2>1, SmallKeeps DEF U64
<1> QED BY <1>4, <1>6, <1>7

LEMMA SrcOffsetTyped ==
  ASSUME NEW b \in Structures, NEW sbn \in Nat
  PROVE  SrcOffset(b, sbn) \in Nat /\ SrcBlockSize(b, sbn) \in Nat
<1> USE StructuresAssumption DEF AtRest
<1>1. \A x \in Int : U32(x) \in Nat /\ U64(x) \in Nat
  BY WidthAssumption DEF U32, U64
<1> PICK l, n, k, a, c \in Nat : l = b.ESLen /\ n = b.N /\ k = b.I /\ a = b.A /\ c = b.ASmall
  OBVIOUS
<1>2. /\ l * a * sbn \in Int /\ l * a \in Int /\ l * c \in Int
      /\ l * (k * a + U32(sbn - k) * c) \in Int
  <2>1. U32(sbn - k) \in Nat
    BY <1>1
  <2> QED BY <2>1
<1>3. SrcOffset(b, sbn) \in Nat
  BY <1>1, <1>2 DEF SrcOffset
<1>4. SrcBlockSize(b, sbn) \in Nat
  BY <1>1, <1>2, <1>3 DEF SrcBlockSize
<1> QED BY <1>3, <1>4

LEMMA BlockIs ==
  ASSUME NEW b \in Structures, NEW source \in BOOLEAN, NEW sbn \in Blocks(b)
  PROVE  /\ Holds(OffsetOf(b, sbn, source), OffsetOf(b, sbn + 1, source), b.ESLen,
                  SymbolsOf(b, sbn, source))
         /\ BaseOf(b, sbn, source) \in Nat
         /\ ESIs(b, sbn, source) = BaseOf(b, sbn, source)..
                                     (BaseOf(b, sbn, source) + SymbolsOf(b, sbn, source) - 1)
         /\ \A e \in Int :
               SymbolBytes(b, sbn, e, source) =
                 BytesAt(OffsetOf(b, sbn, source), OffsetOf(b, sbn + 1, source), b.ESLen,
                         e - BaseOf(b, sbn, source))
         /\ ~source \/ sbn # b.N - 1 =>
               OffsetOf(b, sbn, source) + b.ESLen * SymbolsOf(b, sbn, source)
                 = OffsetOf(b, sbn + 1, source)
         /\ source => OffsetOf(b, sbn, source) < OffsetOf(b, sbn + 1, source)
<1> PICK l \in Nat \ {0} : l = b.ESLen
  BY StructuresAssumption DEF AtRest
<1> PICK n, r \in Nat : n = NumSrcSym(b, sbn) /\ r = RprSymbols(b)
  BY NumSrcSymTyped
<1>1. sbn \in Nat /\ sbn + 1 \in Nat /\ sbn \in 0..b.N /\ sbn + 1 \in 0..b.N
  BY NumSrcSymTyped
<1>2. CASE source
  <2> PICK o, next, size \in Nat :
         /\ o = SrcOffset(b, sbn) /\ next = SrcOffset(b, sbn + 1) /\ size = SrcBlockSize(b, sbn)
    BY <1>1, SrcOffsetTyped
  <2>1. size > 0 /\ next = o + size
    BY StructuresAssumption DEF AtRest, Partition
  <2>2. n = CeilDiv(size, l)
    BY StructuresAssumption DEF AtRest, Symbols
  <2>3. n > 0 /\ l * (n - 1) < size /\ size <= l * n
    BY <2>1, <2>2, CeilDivIs
  <2>4. Holds(o, next, l, n)
    BY <2>1, <2>3 DEF Holds
  <2>5. sbn # b.N - 1 => o + l * n = next
    BY StructuresAssumption DEF AtRest, Symbols
  <2>6. OffsetOf(b, sbn, source) = o /\ OffsetOf(b, sbn + 1, source) = next
    BY <1>2 DEF OffsetOf
  <2>7. BaseOf(b, sbn, source) = 0 /\ SymbolsOf(b, sbn, source) = n
    BY <1>2 DEF BaseOf, SymbolsOf
  <2>8. ESIs(b, sbn, source) = 0..(0 + n - 1)
    BY <1>2 DEF ESIs, SourceESIs
  <2>9. ASSUME NEW e \in Int
        PROVE  SymbolBytes(b, sbn, e, source) = BytesAt(o, next, l, e - 0)
    <3>1. e - 0 = e /\ e * l = l * e
      OBVIOUS
    <3> QED BY <1>2, <2>6, <3>1 DEF SymbolBytes, BytesAt
  <2>10. o < next
    BY <2>1
  <2> HIDE DEF Blocks
  <2>11. 0 \in Nat
    OBVIOUS
  <2> QED BY ONLY <1>2, <2>10, <2>4, <2>5, <2>6, <2>7, <2>8, <2>9, <2>11, l = b.ESLen, Zenon
<1>3. CASE ~source
  <2> PICK s \in Nat : s = l * r
    BY ProductsOrder
  <2> PICK o, next \in Nat : o = RprOffset(b, sbn) /\ next = RprOffset(b, sbn + 1)
    BY <1>1, RepairIs
  <2>1. next = o + s
    <3>1. o = s * sbn /\ next = s * (sbn + 1)
      BY <1>1, RepairIs
    <3>2. s * (sbn + 1) = s * sbn + s
      <4>1. s \in Int /\ sbn \in Int /\ 0 \in Int
        BY <1>1
      <4> QED BY ONLY <4>1, Products
    <3> QED BY <3>1, <3>2
  <2>2. r > 0 => l * (r - 1) < s
    <3> SUFFICES ASSUME r > 0 PROVE l * (r - 1) < l * r
      OBVIOUS
    <3>1. r - 1 \in Nat /\ r - 1 < r /\ l \in Nat /\ l > 0
      OBVIOUS
    <3> QED BY ONLY <3>1, r \in Nat, ProductsOrder
  <2>3. Holds(o, next, l, r)
    <3>1. next - o <= l * r /\ o <= next
      BY <2>1
    <3>2. r > 0 => l * (r - 1) < next - o
      BY <2>1, <2>2
    <3> QED BY ONLY <3>1, <3>2, o \in Nat, next \in Nat, r \in Nat, l \in Nat \ {0} DEF Holds
  <2>6. OffsetOf(b, sbn, source) = o /\ OffsetOf(b, sbn + 1, source) = next
    BY <1>3 DEF OffsetOf
  <2>7. BaseOf(b, sbn, source) = n /\ SymbolsOf(b, sbn, source) = r
    BY <1>3 DEF BaseOf, SymbolsOf
  <2>8. ESIs(b, sbn, source) = n..(n + r - 1)
    BY <1>3 DEF ESIs, RepairESIs
  <2>9. ASSUME NEW e \in Int
        PROVE  SymbolBytes(b, sbn, e, source) = BytesAt(o, next, l, e - n)
    <3>1. (e - n) * l = l * (e - n)
      OBVIOUS
    <3> QED BY <1>3, <2>6, <3>1 DEF SymbolBytes, BytesAt
  <2>10. o + l * r = next
    BY <2>1
  <2> QED BY ONLY <1>3, <2>3, <2>10, <2>6, <2>7, <2>8, <2>9, l = b.ESLen, n \in Nat, Zenon
<1> QED BY <1>2, <1>3

\* The blocks follow one another, from byte 0 on.
LEMMA BlocksRise ==
  ASSUME NEW b \in Structures, NEW source \in BOOLEAN
  PROVE  /\ \A s \in 0..b.N : OffsetOf(b, s, source) \in Nat
         /\ \A s, t \in 0..b.N : s <= t => OffsetOf(b, s, source) <= OffsetOf(b, t, source)
         /\ OffsetOf(b, 0, source) = 0
<1> PICK n \in Nat : n = b.N
  BY StructuresAssumption DEF AtRest
<1>1. ASSUME NEW s \in 0..n PROVE OffsetOf(b, s, source) \in Nat
  BY SrcOffsetTyped, RepairIs DEF OffsetOf
<1>2. ASSUME NEW s \in 0..(n - 1) PROVE OffsetOf(b, s, source) <= OffsetOf(b, s + 1, source)
  <2>1. s \in Blocks(b)
    BY DEF Blocks
  <2> QED BY <2>1, BlockIs DEF Holds
<1>3. ASSUME NEW s \in 0..n, NEW t \in 0..n, s <= t
      PROVE  OffsetOf(b, s, source) <= OffsetOf(b, t, source)
  <2> DEFINE P == {d \in 0..(n - s) : OffsetOf(b, s, source) <= OffsetOf(b, s + d, source)}
  <2>1. 0 \in P
    <3>1. s + 0 = s /\ 0 \in 0..(n - s)
      OBVIOUS
    <3> QED BY <1>1, <3>1
  <2>2. ASSUME NEW d \in 1..(n - s), d - 1 \in P PROVE d \in P
    <3> PICK x, y, z \in Nat :
           /\ x = OffsetOf(b, s, source)
           /\ y = OffsetOf(b, s + (d - 1), source) /\ z = OffsetOf(b, s + d, source)
      <4>1. s + (d - 1) \in 0..n /\ s + d \in 0..n
        OBVIOUS
      <4> QED BY <1>1, <4>1
    <3>1. s + (d - 1) \in 0..(n - 1) /\ (s + (d - 1)) + 1 = s + d
      OBVIOUS
    <3>2. y <= z
      BY <1>2, <3>1
    <3>3. x <= y
      BY <2>2
    <3>4. x <= z
      BY <3>2, <3>3
    <3> QED BY <3>4
  <2> HIDE DEF P
  <2>3. \A d \in 0..(n - s) : d \in P
    BY SMTT(30), <2>1, <2>2, Upwards
  <2>4. t - s \in 0..(n - s) /\ s + (t - s) = t
    BY <1>3
  <2> QED BY <2>3, <2>4 DEF P
<1>4. OffsetOf(b, 0, source) = 0
  <2>1. SrcOffset(b, 0) = 0
    BY StructuresAssumption DEF AtRest, Partition
  <2>2. RprOffset(b, 0) = 0
    <3> PICK m \in Nat : m = b.ESLen * RprSymbols(b)
      BY RepairIs
    <3>1. RprOffset(b, 0) = m * 0
      BY RepairIs
    <3> QED BY <3>1
  <2> QED BY <2>1, <2>2 DEF OffsetOf
<1> QED BY <1>1, <1>3, <1>4

\* A byte lies in one block only.
LEMMA InOneBlock ==
  ASSUME NEW b \in Structures, NEW source \in BOOLEAN, NEW s \in Blocks(b), NEW t \in Blocks(b),
         NEW x \in Int, OffsetOf(b, s, source) <= x, x < OffsetOf(b, s + 1, source),
         OffsetOf(b, t, source) <= x, x < OffsetOf(b, t + 1, source)
  PROVE  s = t
<1>1. s \in 0..b.N /\ t \in 0..b.N /\ s + 1 \in 0..b.N /\ t + 1 \in 0..b.N /\ s \in Int /\ t \in Int
  BY NumSrcSymTyped
<1> PICK a, c, d, e \in Nat :
       /\ a = OffsetOf(b, s, source) /\ c = OffsetOf(b, s + 1, source)
       /\ d = OffsetOf(b, t, source) /\ e = OffsetOf(b, t + 1, source)
  BY <1>1, BlocksRise
<1>2. s < t => c <= d
  <2>1. s < t => s + 1 <= t
    BY <1>1
  <2> QED BY <1>1, <2>1, BlocksRise
<1>3. t < s => e <= a
  <2>1. t < s => t + 1 <= s
    BY <1>1
  <2> QED BY <1>1, <2>1, BlocksRise
<1> QED BY <1>1, <1>2, <1>3

\* The block that a byte is said to be in is the one it is in.
LEMMA SBNOfIs ==
  ASSUME NEW b \in Structures, NEW source \in BOOLEAN,
         NEW x \in 0..(OffsetOf(b, b.N, source) - 1)
  PROVE  /\ SBNOf(b, x, source) \in Blocks(b)
         /\ OffsetOf(b, SBNOf(b, x, source), source) <= x
         /\ x < OffsetOf(b, SBNOf(b, x, source) + 1, source)
<1> PICK n \in Nat : n = b.N /\ n < Max32
  BY StructuresAssumption DEF AtRest
<1>1. CASE source
  <2>1. x \in 0..(b.TransferLen - 1)
    BY <1>1, StructuresAssumption DEF OffsetOf, AtRest, Partition
  <2> QED BY <1>1, <2>1, StructuresAssumption DEF OffsetOf, SBNOf, AtRest, Lookup
<1>2. CASE ~source
  <2> PICK m \in Nat : m = b.ESLen * RprSymbols(b)
    BY RepairIs, n \in 0..b.N
  <2>1. /\ RprBlockSize(b) = m /\ RprOffset(b, n) = m * n /\ m * n \in Nat
        /\ \A s \in 0..n : RprOffset(b, s) = m * s
    BY RepairIs, n \in 0..b.N
  <2>2. x < m * n /\ x \in Nat
    BY <1>2, <2>1 DEF OffsetOf
  <2>3. m # 0
    BY <2>2
  <2> PICK q, r \in Nat : q = x \div m /\ r = x % m /\ x = m * q + r /\ r < m
    BY <2>2, <2>3, Quotients
  <2>4. q < n
    BY <2>2, <2>3, QuotientBelow
  <2>5. RepairSBN(b, x) = q
    <3>0. Max32 \in Nat
      BY WidthAssumption
    <3>1. q < Max32 /\ Max32 \in Nat
      BY ONLY <2>4, <3>0, n < Max32, q \in Nat, n \in Nat
    <3> QED BY <2>1, <3>1, SmallKeeps DEF RepairSBN, U32
  <2>6. SBNOf(b, x, source) = q
    BY <1>2, <2>5 DEF SBNOf
  <2>7. m * (q + 1) = m * q + m /\ m * q \in Nat
    <3>1. m \in Int /\ q \in Int /\ 0 \in Int
      OBVIOUS
    <3> QED BY ONLY <3>1, m \in Nat, q \in Nat, Products, ProductsOrder
  <2>8. q \in 0..n /\ q + 1 \in 0..n /\ q \in 0..(n - 1)
    BY ONLY <2>4, q \in Nat, n \in Nat
  <2>9. OffsetOf(b, q, source) = m * q /\ OffsetOf(b, q + 1, source) = m * (q + 1)
    BY <1>2, <2>1, <2>8 DEF OffsetOf
  <2>10. m * q <= x /\ x < m * q + m
    <3> PICK p \in Nat : p = m * q
      BY <2>7
    <3> QED BY ONLY p = m * q, p \in Nat, m \in Nat, r \in Nat, x = m * q + r, r < m
  <2>11. q \in Blocks(b)
    BY <2>8 DEF Blocks
  <2>12. m * q <= x /\ x < m * (q + 1)
    BY <2>7, <2>10
  <2> QED BY <2>6, <2>9, <2>11, <2>12
<1> QED BY <1>1, <1>2

\* What BlockIs says of the source.
LEMMA SourceBlockIs ==
  ASSUME NEW b \in Structures, NEW sbn \in Blocks(b)
  PROVE  /\ Holds(SrcOffset(b, sbn), SrcOffset(b, sbn + 1), b.ESLen, NumSrcSym(b, sbn))
         /\ ESIs(b, sbn, TRUE) = 0..(NumSrcSym(b, sbn) - 1)
         /\ \A e \in Int : SymbolBytes(b, sbn, e, TRUE) =
                             BytesAt(SrcOffset(b, sbn), SrcOffset(b, sbn + 1), b.ESLen, e)
         /\ sbn # b.N - 1 => SrcOffset(b, sbn) + b.ESLen * NumSrcSym(b, sbn)
                               = SrcOffset(b, sbn + 1)
<1>1. /\ \A s : OffsetOf(b, s, TRUE) = SrcOffset(b, s)
      /\ BaseOf(b, sbn, TRUE) = 0 /\ SymbolsOf(b, sbn, TRUE) = NumSrcSym(b, sbn)
      /\ TRUE \in BOOLEAN /\ \A e \in Int : e - 0 = e
  BY DEF OffsetOf, BaseOf, SymbolsOf
<1>2. ESIs(b, sbn, TRUE) = 0..(NumSrcSym(b, sbn) - 1)
  BY DEF ESIs, SourceESIs
<1>3. \A e \in Int : SymbolBytes(b, sbn, e, TRUE) =
         BytesAt(OffsetOf(b, sbn, TRUE), OffsetOf(b, sbn + 1, TRUE), b.ESLen, e - BaseOf(b, sbn, TRUE))
  BY <1>1, BlockIs
<1>4. ASSUME NEW e \in Int
      PROVE  SymbolBytes(b, sbn, e, TRUE) =
               BytesAt(SrcOffset(b, sbn), SrcOffset(b, sbn + 1), b.ESLen, e)
  <2>1. e - BaseOf(b, sbn, TRUE) = e
    BY <1>1
  <2>2. /\ OffsetOf(b, sbn, TRUE) = SrcOffset(b, sbn)
        /\ OffsetOf(b, sbn + 1, TRUE) = SrcOffset(b, sbn + 1)
    BY <1>1
  <2>3. SymbolBytes(b, sbn, e, TRUE) =
         BytesAt(OffsetOf(b, sbn, TRUE), OffsetOf(b, sbn + 1, TRUE), b.ESLen, e - BaseOf(b, sbn, TRUE))
    BY <1>3
  <2> QED BY ONLY <2>1, <2>2, <2>3, Zenon
<1>5. /\ Holds(OffsetOf(b, sbn, TRUE), OffsetOf(b, sbn + 1, TRUE), b.ESLen, SymbolsOf(b, sbn, TRUE))
      /\ sbn # b.N - 1 => OffsetOf(b, sbn, TRUE) + b.ESLen * SymbolsOf(b, sbn, TRUE)
                            = OffsetOf(b, sbn + 1, TRUE)
  BY <1>1, BlockIs
<1> QED BY ONLY <1>1, <1>2, <1>4, <1>5, Zenon

-----------------------------------------------------------------------------
(* The symbols of a block that a list covers *)

\* A block has less than 2^32 bytes, and so has what is before an offset in it.
LEMMA SourceBlockSmall ==
  ASSUME NEW b \in Structures, NEW sbn \in Blocks(b),
         NEW x \in Int, x <= SrcOffset(b, sbn + 1) - SrcOffset(b, sbn)
  PROVE  x < Max32
<1> PICK o, next, n \in Nat :
       o = SrcOffset(b, sbn) /\ next = SrcOffset(b, sbn + 1) /\ n = NumSrcSym(b, sbn)
  BY NumSrcSymTyped, SrcOffsetTyped
<1> PICK L \in Nat \ {0} : L = b.ESLen
  BY StructuresAssumption DEF AtRest
<1> PICK s \in Nat : s = b.MaxSbLen /\ n <= s
  BY StructuresAssumption DEF AtRest, Symbols
<1>1. Holds(o, next, L, n)
  BY SourceBlockIs
<1> PICK v, w \in Nat : v = L * n /\ w = L * s /\ v <= w
  <2>1. L \in Nat
    OBVIOUS
  <2> QED BY ONLY <2>1, n \in Nat, s \in Nat, n <= s, ProductsOrder
<1>2. next - o <= v
  BY <1>1 DEF Holds
<1>3. w + L <= Max32 /\ Max32 \in Nat
  BY StructuresAssumption, WidthAssumption DEF AtRest
<1>4. x <= next - o
  OBVIOUS
<1> QED BY ONLY <1>2, <1>3, <1>4, v <= w, v \in Nat, w \in Nat, L \in Nat \ {0}, x \in Int,
           next \in Nat, o \in Nat

\* The last symbol of a range is not before any symbol that is covered by it.
LEMMA LastWholeIs ==
  ASSUME NEW b \in Structures, NEW sbn \in Blocks(b), NEW r \in RangeType,
         NEW o, NEW next, NEW n, NEW L, NEW e \in 0..(n - 1),
         o = SrcOffset(b, sbn), next = SrcOffset(b, sbn + 1), n = NumSrcSym(b, sbn), L = b.ESLen,
         o <= r.start, r.start <= o + L * e, r.end < next,
         o + L * e + L <= r.end + 1 \/ (r.end + 1 = next /\ sbn = b.N - 1)
  PROVE  LastWholeSymbol(b, r, o) \in Int /\ e <= LastWholeSymbol(b, r, o)
<1>1. Holds(o, next, L, n)
  BY SourceBlockIs
<1>2. o \in Nat /\ next \in Nat /\ L \in Nat \ {0} /\ n \in Nat /\ next - o <= L * n
  BY <1>1 DEF Holds
<1> PICK u \in Nat : u = L * e /\ o + u < next
  BY <1>1, SymbolIn
<1> PICK a, z \in Int : a = r.start /\ z = r.end
  BY DEF RangeType
<1>3. o <= a /\ a <= o + u /\ z < next
  OBVIOUS
<1>4. o + u <= z
  BY <1>2, <1>3
<1> PICK y \in Nat : y = z - o + 1 /\ u < y
  BY <1>2, <1>4
<1>10. U32(y) = y
  <2>1. y <= SrcOffset(b, sbn + 1) - SrcOffset(b, sbn)
    BY <1>2, <1>3
  <2>2. y < Max32
    BY ONLY <2>1, b \in Structures, sbn \in Blocks(b), y \in Nat, Nat \subseteq Int, SourceBlockSmall
  <2>3. Max32 \in Nat
    BY WidthAssumption
  <2> QED BY ONLY <2>2, <2>3, y \in Nat, SmallKeeps DEF U32
<1> PICK q, m \in Nat : q = y \div L /\ m = y % L
  BY <1>2, Quotients
<1>5. y = L * q + m /\ m < L
  BY ZenonT(30), <1>2, Quotients
<1> PICK s \in Nat : s < Max32 /\ n <= s
  BY <1>2, StructuresAssumption DEF AtRest, Symbols
<1>6. q <= n
  <2>1. L * q <= y /\ y <= L * n
    <3> PICK w, v \in Nat : w = L * q /\ v = L * n
      BY <1>2, ProductsOrder
    <3> QED BY ONLY <1>2, <1>3, <1>5, w = L * q, v = L * n, y = z - o + 1, w \in Nat, v \in Nat,
               m \in Nat, z \in Int, y \in Nat
  <2>2. L * (n + 1) = L * n + L
    BY ONLY <1>2, L \in Int, n \in Int, 0 \in Int, Products
  <2>3. y < L * (n + 1)
    <3> PICK v \in Nat : v = L * n
      BY <1>2, ProductsOrder
    <3> QED BY ONLY <1>2, <2>1, <2>2, v = L * n, v \in Nat, y \in Nat
  <2>4. q < n + 1
    <3>1. L \in Nat /\ n + 1 \in Nat
      BY <1>2
    <3> QED BY ONLY <3>1, <2>1, <2>3, y \in Nat, q \in Nat, LessFactor
  <2> QED BY ONLY <2>4, <1>2, q \in Nat
<1>7. e < q + 1
  <2>1. L * (q + 1) = L * q + L
    BY ONLY <1>2, L \in Int, q \in Int, 0 \in Int, Products
  <2>2. L * e <= y /\ y < L * (q + 1)
    <3> PICK w \in Nat : w = L * q
      BY <1>2, ProductsOrder
    <3> QED BY ONLY <1>2, <1>5, <2>1, w = L * q, w \in Nat, u = L * e, u < y, u \in Nat,
               y \in Nat, m \in Nat
  <2>3. L \in Nat /\ e \in Nat /\ q + 1 \in Nat
    BY <1>2
  <2> QED BY ONLY <2>2, <2>3, y \in Nat, LessFactor
<1>8. CASE o + u + L <= z + 1
  <2>1. e + 1 < q + 1
    <3>1. L * (e + 1) = u + L /\ L * (q + 1) = L * q + L
      <4>1. L \in Int /\ e \in Int /\ q \in Int /\ 0 \in Int
        BY <1>2
      <4> QED BY ONLY <4>1, u = L * e, Products
    <3>2. L * (e + 1) <= y /\ y < L * (q + 1)
      <4> PICK w \in Nat : w = L * q
        BY <1>2, ProductsOrder
      <4> QED BY ONLY <1>2, <1>5, <1>8, <3>1, w = L * q, w \in Nat, u \in Nat, y \in Nat,
                 y = z - o + 1, m \in Nat, z \in Int
    <3>3. L \in Nat /\ e + 1 \in Nat /\ q + 1 \in Nat
      BY <1>2
    <3> QED BY ONLY <3>2, <3>3, y \in Nat, LessFactor
  <2> PICK d \in 0..1 : LastWholeSymbol(b, r, o) = U32(q - d)
    <3>1. LastWholeSymbol(b, r, o) =
            U32(q - (IF m # 0 /\ r.end # b.TransferLen - 1 THEN 1 ELSE 0))
      BY <1>10 DEF LastWholeSymbol
    <3>2. (IF m # 0 /\ r.end # b.TransferLen - 1 THEN 1 ELSE 0) \in 0..1
      OBVIOUS
    <3> QED BY <3>1, <3>2
  <2> PICK p \in Nat : p = q - d /\ e <= p /\ p <= q
    BY <2>1, <1>2
  <2>2. p < Max32 /\ Max32 \in Nat
    <3>1. Max32 \in Nat
      BY WidthAssumption
    <3> QED BY ONLY <1>6, <3>1, s < Max32, n <= s, <1>2, s \in Nat, p \in Nat, q \in Nat, p <= q
  <2>3. LastWholeSymbol(b, r, o) = p
    BY ONLY <2>2, p = q - d, p \in Nat, LastWholeSymbol(b, r, o) = U32(q - d), SmallKeeps DEF U32
  <2> QED BY <2>3
<1>9. CASE z + 1 = next /\ sbn = b.N - 1
  <2>1. z = b.TransferLen - 1
    <3>1. b.N \in Nat /\ sbn + 1 = b.N
      BY <1>9, NumSrcSymTyped
    <3>2. next = b.TransferLen
      BY <3>1, StructuresAssumption DEF AtRest, Partition
    <3> QED BY ONLY <1>2, <1>9, <3>2, z \in Int
  <2>2. LastWholeSymbol(b, r, o) = U32(q - 0)
    BY <1>10, <2>1 DEF LastWholeSymbol
  <2>3. q < Max32 /\ Max32 \in Nat /\ q - 0 = q
    <3>1. Max32 \in Nat
      BY WidthAssumption
    <3> QED BY ONLY <1>6, <3>1, s < Max32, n <= s, <1>2, s \in Nat, q \in Nat
  <2>4. LastWholeSymbol(b, r, o) = q
    BY ONLY <2>2, <2>3, q \in Nat, SmallKeeps DEF U32
  <2> QED BY <1>7, <1>2, <2>4
<1> QED BY <1>8, <1>9

\* A range gives all symbols of a block that it covers.
LEMMA WholeSymbolsIs ==
  ASSUME NEW b \in Structures, NEW sbn \in Blocks(b), NEW r \in RangeType,
         SrcOffset(b, sbn) <= r.start, r.start <= r.end, r.end < SrcOffset(b, sbn + 1)
  PROVE  /\ WholeSymbols(b, sbn, r).start \in Int /\ WholeSymbols(b, sbn, r).end \in Int
         /\ \A e \in 0..(NumSrcSym(b, sbn) - 1) :
               SymbolBytes(b, sbn, e, TRUE) \subseteq r.start..r.end =>
                  e \in WholeSymbols(b, sbn, r).start..WholeSymbols(b, sbn, r).end
<1> PICK o, next, n \in Nat :
       o = SrcOffset(b, sbn) /\ next = SrcOffset(b, sbn + 1) /\ n = NumSrcSym(b, sbn)
  BY NumSrcSymTyped, SrcOffsetTyped
<1> PICK L \in Nat \ {0} : L = b.ESLen
  BY StructuresAssumption DEF AtRest
<1> PICK a, z \in Int : a = r.start /\ z = r.end
  BY DEF RangeType
<1>1. Holds(o, next, L, n) /\ o <= a /\ a <= z /\ z < next
  BY SourceBlockIs
<1>2. Max32 \in Nat \ {0} /\ \A x \in Int : U32(x) \in Nat
  BY WidthAssumption DEF U32
<1> PICK first \in Int : first = FirstWholeSymbol(b, a - o)
  <2> PICK x \in Int : x = a - o
    OBVIOUS
  <2> PICK y \in Nat : y = U32(x)
    BY <1>2
  <2>1. y \div L + (IF x % L # 0 THEN 1 ELSE 0) \in Int
    OBVIOUS
  <2> QED BY <1>2, <2>1 DEF FirstWholeSymbol
<1> PICK last \in Nat : last = LastWholeSymbol(b, r, o)
  <2>1. \E q \in Int : LastWholeSymbol(b, r, o) = U32(q)
    <3> PICK y \in Int : y = r.end - o + 1
      BY z = r.end
    <3> PICK y32 \in Nat : y32 = U32(y)
      BY <1>2
    <3> PICK q \in Int : q = y32 \div L
      OBVIOUS
    <3>1. q - (IF y % L # 0 /\ r.end # b.TransferLen - 1 THEN 1 ELSE 0) \in Int
      OBVIOUS
    <3> QED BY <3>1 DEF LastWholeSymbol
  <2> QED BY <1>2, <2>1
<1>3. WholeSymbols(b, sbn, r) =
        Interval(first, IF U32(first + U32(first - last)) > n THEN U32(n - 1) ELSE last)
  BY DEF WholeSymbols
<1> PICK to \in Nat :
       to = IF U32(first + U32(first - last)) > n THEN U32(n - 1) ELSE last
  BY <1>2
<1>4. WholeSymbols(b, sbn, r).start = first /\ WholeSymbols(b, sbn, r).end = to
  BY SMTT(30), <1>3, RangeTyped
<1>5. ASSUME NEW e \in 0..(n - 1), SymbolBytes(b, sbn, e, TRUE) \subseteq a..z
      PROVE  first <= e /\ e <= to
  <2>1. SymbolBytes(b, sbn, e, TRUE) = BytesAt(o, next, L, e)
    <3>1. e \in Int
      OBVIOUS
    <3> QED BY <3>1, SourceBlockIs
  <2> PICK u \in Nat : /\ u = L * e /\ o + u < next
                       /\ \A x \in Int : x \in BytesAt(o, next, L, e) <=>
                              o + u <= x /\ x < o + u + L /\ x < next
    <3>1. /\ L * e \in Nat /\ o + L * e < next
          /\ \A x \in Int : x \in BytesAt(o, next, L, e) <=>
                              o + L * e <= x /\ x < o + L * e + L /\ x < next
      BY ONLY <1>1, e \in 0..(n - 1), SymbolIn
    <3> QED BY <3>1
  <2>0. ASSUME NEW x \in Int, o + u <= x, x < o + u + L, x < next
        PROVE  a <= x /\ x <= z
    <3>1. x \in a..z
      BY <1>5, <2>0, <2>1
    <3> QED BY <3>1
  <2>2. a <= o + u
    <3>1. o + u \in Int /\ o + u <= o + u /\ o + u < o + u + L
      OBVIOUS
    <3> QED BY <2>0, <3>1
  <2>3. o + u + L <= next => o + u + L <= z + 1
    <3> SUFFICES ASSUME o + u + L <= next PROVE o + u + L <= z + 1
      OBVIOUS
    <3> PICK x \in Int : x = o + u + L - 1
      OBVIOUS
    <3>1. o + u <= x /\ x < o + u + L /\ x < next
      OBVIOUS
    <3> QED BY <2>0, <3>1
  <2>4. o + u + L > next => z + 1 = next /\ sbn = b.N - 1
    <3> SUFFICES ASSUME o + u + L > next PROVE z + 1 = next /\ sbn = b.N - 1
      OBVIOUS
    <3> PICK x \in Int : x = next - 1
      OBVIOUS
    <3>1. o + u <= x /\ x < o + u + L /\ x < next
      OBVIOUS
    <3>4. x <= z
      BY <2>0, <3>1
    <3>2. z + 1 = next
      BY ONLY <1>1, <3>4, x = next - 1, x \in Int, z \in Int, next \in Nat
    <3>3. ASSUME sbn # b.N - 1 PROVE FALSE
      <4>1. o + L * n = next
        BY <3>3, SourceBlockIs
      <4>2. L * (e + 1) <= L * n
        <5>1. L \in Nat /\ e + 1 \in Nat /\ e + 1 <= n
          OBVIOUS
        <5> QED BY ONLY <5>1, n \in Nat, ProductsOrder
      <4>3. L * (e + 1) = u + L
        <5>1. L \in Int /\ e \in Int /\ 0 \in Int
          OBVIOUS
        <5> QED BY ONLY <5>1, u = L * e, Products
      <4> QED BY <4>1, <4>2, <4>3
    <3> QED BY <3>2, <3>3
  <2>5. e <= last
    <3>1. \/ o + L * e + L <= r.end + 1
          \/ r.end + 1 = next /\ sbn = b.N - 1
      BY <2>3, <2>4
    <3>2. o <= r.start /\ r.start <= o + L * e /\ r.end < next
      BY <1>1, <2>2
    <3> QED BY ONLY <3>1, <3>2, b \in Structures, sbn \in Blocks(b), r \in RangeType,
               o = SrcOffset(b, sbn), next = SrcOffset(b, sbn + 1), n = NumSrcSym(b, sbn),
               L = b.ESLen, e \in 0..(n - 1), last = LastWholeSymbol(b, r, o), LastWholeIs
  <2>6. first <= e
    <3> PICK x \in Nat : x = a - o /\ x <= u
      BY <1>1, <2>2
    <3> PICK q, m \in Nat : q = x \div L /\ m = x % L
      BY Quotients
    <3>1. x = L * q + m /\ m < L
      BY ZenonT(30), Quotients
    <3>2. U32(x) = x
      <4>1. x <= SrcOffset(b, sbn + 1) - SrcOffset(b, sbn)
        BY <1>1
      <4>2. x < Max32
        BY ONLY <4>1, b \in Structures, sbn \in Blocks(b), x \in Nat, Nat \subseteq Int,
                SourceBlockSmall
      <4> QED BY ONLY <1>2, <4>2, x \in Nat, SmallKeeps DEF U32
    <3> PICK d \in 0..1 : d = IF m # 0 THEN 1 ELSE 0
      OBVIOUS
    <3>3. first = U32(q + d)
      BY ONLY <3>2, first = FirstWholeSymbol(b, a - o), x = a - o, L = b.ESLen, q = x \div L,
              m = x % L, d = IF m # 0 THEN 1 ELSE 0 DEF FirstWholeSymbol
    <3> PICK w \in Nat : w = L * q
      BY ProductsOrder
    <3>4. L * (e + 1) = u + L
      <4>1. L \in Int /\ e \in Int /\ 0 \in Int
        OBVIOUS
      <4> QED BY ONLY <4>1, u = L * e, Products
    <3>5. q + d < e + 1
      <4>1. L * (q + d) \in Nat /\ L * (q + d) < L * (e + 1)
        <5>1. CASE d = 0
          <6>1. q + d = q
            BY <5>1
          <6> QED BY ONLY <3>1, <3>4, <6>1, w = L * q, w \in Nat, u \in Nat, m \in Nat, x \in Nat,
                     x <= u, L \in Nat \ {0}
        <5>2. CASE d = 1
          <6>1. L * (q + 1) = w + L
            BY ONLY w = L * q, L \in Nat \ {0}, q \in Nat, Nat \subseteq Int, 0 \in Int, Products
          <6>2. m # 0
            BY <5>2
          <6> QED BY ONLY <3>1, <3>4, <5>2, <6>1, <6>2, w = L * q, w \in Nat, u \in Nat, m \in Nat,
                     x \in Nat, x <= u, L \in Nat \ {0}
        <5> QED BY <5>1, <5>2
      <4>2. L \in Nat /\ q + d \in Nat /\ e + 1 \in Nat
        OBVIOUS
      <4> QED BY ONLY <4>1, <4>2, LessFactor
    <3> PICK s \in Nat : s < Max32 /\ n <= s
      BY StructuresAssumption DEF AtRest, Symbols
    <3>6. q + d \in Nat /\ q + d < Max32
      BY ONLY <1>2, <3>5, q \in Nat, d \in 0..1, e \in 0..(n - 1), n \in Nat, s \in Nat,
              s < Max32, n <= s
    <3>7. first = q + d
      BY ONLY <1>2, <3>3, <3>6, SmallKeeps DEF U32
    <3> QED BY ONLY <3>5, <3>7, q \in Nat, d \in 0..1, e \in 0..(n - 1), n \in Nat
  <2>7. e <= U32(n - 1)
    <3> PICK s \in Nat : s < Max32 /\ n <= s
      BY StructuresAssumption DEF AtRest, Symbols
    <3>1. n - 1 \in Nat /\ n - 1 < Max32 /\ Max32 \in Nat
      BY <1>2
    <3>2. U32(n - 1) = n - 1
      BY ONLY <3>1, SmallKeeps DEF U32
    <3> QED BY <3>2
  <2> QED BY <2>5, <2>6, <2>7
<1>6. ASSUME NEW e \in 0..(n - 1), SymbolBytes(b, sbn, e, TRUE) \subseteq a..z
      PROVE  e \in first..to
  <2>1. first <= e /\ e <= to
    BY <1>5, <1>6
  <2> QED BY ONLY <2>1, e \in 0..(n - 1), n \in Nat, first \in Int, to \in Nat
<1> QED BY ONLY <1>4, <1>6, a = r.start, z = r.end, n = NumSrcSym(b, sbn), first \in Int,
           to \in Nat, Nat \subseteq Int, Zenon

\* The bytes of a symbol are a range.
LEMMA SymbolRange ==
  ASSUME NEW o, NEW next, NEW L, NEW n, Holds(o, next, L, n), NEW q \in 0..(n - 1)
  PROVE  \E a, c \in Int : a <= c /\ BytesAt(o, next, L, q) = a..c
<1>1. o \in Nat /\ next \in Nat /\ L \in Nat \ {0} /\ n \in Nat
  BY DEF Holds
<1> PICK u \in Nat : u = L * q /\ o + u < next
  BY SymbolIn
<1> PICK a, c \in Int : a = o + u /\ c = (IF o + u + L <= next THEN o + u + L ELSE next) - 1
  BY <1>1
<1>2. a <= c
  BY <1>1
<1>3. BytesAt(o, next, L, q) = (o + u)..(o + u + L - 1) \cap 0..(next - 1)
  BY DEF BytesAt
<1>4. (o + u)..(o + u + L - 1) \cap 0..(next - 1) = a..c
  BY ONLY <1>1, a = o + u, c = (IF o + u + L <= next THEN o + u + L ELSE next) - 1, u \in Nat,
     o + u < next, a \in Int, c \in Int
<1> QED BY <1>2, <1>3, <1>4

\* The symbols of the ranges of a list.
SymbolsIn(b, sbn, list) ==
  UNION {WholeSymbols(b, sbn, list[k]).start..WholeSymbols(b, sbn, list[k]).end : k \in DOMAIN list}

\* The ranges are those of the bytes that are in the block, unless one of
\* them is refused.
LEMMA ForSBNSteps ==
  ASSUME NEW b, NEW sbn, NEW rl, ESRangeListForSBN(b, sbn, rl).ok
  PROVE  ESRangeListForSBN(b, sbn, rl).value =
           ListOf(SymbolsIn(b, sbn, ListOf(Offsets(rl) \cap
                     SrcOffset(b, sbn)..(SrcOffset(b, sbn) + SrcBlockSize(b, sbn) - 1))))
<1> DEFINE held == ListOf(Offsets(rl) \cap
                     SrcOffset(b, sbn)..(SrcOffset(b, sbn) + SrcBlockSize(b, sbn) - 1))
           bad == SelectInSeq(held, LAMBDA r : SrcOffset(b, sbn) >= r.start)
           ranges == {WholeSymbols(b, sbn, held[k]) :
                        k \in {m \in DOMAIN held : bad = 0 \/ m < bad}}
           list == ListOf(UNION {r.start..r.end : r \in ranges})
<1>1. ESRangeListForSBN(b, sbn, rl) = IF bad # 0 THEN Error(list) ELSE Ok(list)
  BY DEF ESRangeListForSBN
<1> HIDE DEF bad, held, list
<1>2. bad = 0 /\ ESRangeListForSBN(b, sbn, rl).value = list
  BY <1>1 DEF Error, Ok
<1>3. ranges = {WholeSymbols(b, sbn, held[k]) : k \in DOMAIN held}
  <2>1. {m \in DOMAIN held : bad = 0 \/ m < bad} = DOMAIN held
    BY <1>2
  <2> QED BY <2>1
<1> HIDE DEF ranges
<1>4. {r.start..r.end : r \in ranges} =
        {WholeSymbols(b, sbn, held[k]).start..WholeSymbols(b, sbn, held[k]).end : k \in DOMAIN held}
  BY ONLY <1>3, Zenon
<1>5. UNION {r.start..r.end : r \in ranges} = SymbolsIn(b, sbn, held)
  BY ONLY <1>4, Zenon DEF SymbolsIn
<1>6. list = ListOf(SymbolsIn(b, sbn, held))
  BY ONLY <1>5, Zenon DEF list
<1> QED BY ONLY <1>2, <1>6, Zenon DEF held

\* The symbols in a list of bytes of a block are finitely many, and all that
\* the list covers are among them.
LEMMA SymbolsInIs ==
  ASSUME NEW b \in Structures, NEW sbn \in Blocks(b), NEW list \in Seq(RangeType), Normal(list),
         \A x \in Offsets(list) : SrcOffset(b, sbn) <= x /\ x < SrcOffset(b, sbn + 1)
  PROVE  /\ SymbolsIn(b, sbn, list) \in SUBSET Int /\ IsFiniteSet(SymbolsIn(b, sbn, list))
         /\ \A e \in SourceESIs(b, sbn) :
               SymbolBytes(b, sbn, e, TRUE) \subseteq Offsets(list) => e \in SymbolsIn(b, sbn, list)
<1> PICK m \in Nat : m = Len(list)
  OBVIOUS
<1> DEFINE F(k) == WholeSymbols(b, sbn, list[k]).start..WholeSymbols(b, sbn, list[k]).end
<1>1. DOMAIN list = 1..m
  OBVIOUS
<1>2. ASSUME NEW k \in 1..m
      PROVE  /\ list[k] \in RangeType /\ SrcOffset(b, sbn) <= list[k].start
             /\ list[k].start <= list[k].end /\ list[k].end < SrcOffset(b, sbn + 1)
             /\ list[k].start \in Int /\ list[k].end \in Int
  <2>1. list[k] \in RangeType /\ list[k].start \in Int /\ list[k].end \in Int
    BY ElementTyped
  <2>2. list[k].start <= list[k].end
    BY 1 \in Nat, InApart DEF Normal
  <2>3. list[k].start \in Offsets(list) /\ list[k].end \in Offsets(list)
    BY <2>2, EndsInOffsets
  <2> QED BY <2>1, <2>2, <2>3
<1>3. ASSUME NEW k \in 1..m
      PROVE  F(k) \in SUBSET Int /\ IsFiniteSet(F(k))
  <2> PICK w : w = WholeSymbols(b, sbn, list[k])
    OBVIOUS
  <2>1. w.start \in Int /\ w.end \in Int
    BY <1>2, WholeSymbolsIs
  <2>2. IsFiniteSet(w.start..w.end) /\ w.start..w.end \in SUBSET Int
    BY ONLY <2>1, FS_Interval
  <2> QED BY <2>2
<1>4. SymbolsIn(b, sbn, list) = UNION {F(k) : k \in 1..m}
  BY <1>1 DEF SymbolsIn
<1>5. SymbolsIn(b, sbn, list) \in SUBSET Int /\ IsFiniteSet(SymbolsIn(b, sbn, list))
  <2> HIDE DEF F
  <2> PICK D : D = 1..m
    OBVIOUS
  <2> PICK f : f = [k \in D |-> F(k)]
    OBVIOUS
  <2> PICK T : T = {f[k] : k \in D}
    OBVIOUS
  <2>1. IsFiniteSet(D)
    BY ONLY D = 1..m, m \in Nat, 1 \in Int, m \in Int, FS_Interval
  <2>2. \A t \in T : IsFiniteSet(t) /\ t \in SUBSET Int
    <3>1. \A k \in D : IsFiniteSet(f[k]) /\ f[k] \in SUBSET Int
      BY <1>3
    <3> QED BY ONLY <3>1, T = {f[k] : k \in D}, Zenon
  <2>3. IsFiniteSet(T)
    <3>1. f \in [D -> T] /\ \A t \in T : \E k \in D : f[k] = t
      BY ONLY f = [k \in D |-> F(k)], T = {f[k] : k \in D}
    <3>2. f \in Surjection(D, T)
      BY ONLY <3>1 DEF Surjection
    <3> QED BY ONLY <2>1, <3>2, FS_Surjection
  <2>4. IsFiniteSet(UNION T)
    BY ONLY <2>2, <2>3, FS_UNION
  <2>5. {F(k) : k \in 1..m} = T
    BY ONLY f = [k \in D |-> F(k)], T = {f[k] : k \in D}, D = 1..m
  <2> QED BY ONLY <1>4, <2>2, <2>4, <2>5
<1>6. ASSUME NEW e \in SourceESIs(b, sbn), SymbolBytes(b, sbn, e, TRUE) \subseteq Offsets(list)
      PROVE  e \in SymbolsIn(b, sbn, list)
  <2> PICK n \in Nat : n = NumSrcSym(b, sbn)
    BY NumSrcSymTyped
  <2>1. e \in 0..(n - 1) /\ e \in Int
    BY DEF SourceESIs
  <2> PICK o, next, L : /\ o = SrcOffset(b, sbn) /\ next = SrcOffset(b, sbn + 1) /\ L = b.ESLen
    OBVIOUS
  <2>2. Holds(o, next, L, n) /\ SymbolBytes(b, sbn, e, TRUE) = BytesAt(o, next, L, e)
    BY <2>1, SourceBlockIs
  <2> PICK a, c \in Int : a <= c /\ BytesAt(o, next, L, e) = a..c
    BY ONLY <2>1, <2>2, SymbolRange
  <2>3. a..c \subseteq Offsets(list) /\ SymbolBytes(b, sbn, e, TRUE) = a..c
    BY <1>6, <2>2
  <2> PICK k \in 1..m : list[k].start <= a /\ c <= list[k].end
    BY ONLY <2>3, a <= c, a \in Int, c \in Int, list \in Seq(RangeType), Normal(list),
       m = Len(list), InOneRange
  <2>4. a..c \subseteq list[k].start..list[k].end
    BY ONLY SMTT(30), <1>2, k \in 1..m, list[k].start <= a, c <= list[k].end, a \in Int, c \in Int
  <2>5. SymbolBytes(b, sbn, e, TRUE) \subseteq list[k].start..list[k].end
    BY ONLY <2>3, <2>4
  <2>6. e \in F(k)
    <3>1. /\ list[k] \in RangeType /\ SrcOffset(b, sbn) <= list[k].start
          /\ list[k].start <= list[k].end /\ list[k].end < SrcOffset(b, sbn + 1)
      BY <1>2
    <3>2. e \in 0..(NumSrcSym(b, sbn) - 1)
      BY <2>1
    <3> QED BY ONLY <2>5, <3>1, <3>2, b \in Structures, sbn \in Blocks(b), WholeSymbolsIs DEF F
  <2> HIDE DEF F
  <2> QED BY ONLY <1>4, <2>6, k \in 1..m, Zenon
<1> QED BY <1>5, <1>6

\* ESRangeListForSBNFromRangeList names every symbol that the list covers.
LEMMA ForSBNIs ==
  ASSUME NEW b \in Structures, NEW sbn \in Blocks(b), NEW rl \in Seq(RangeType),
         ESRangeListForSBN(b, sbn, rl).ok
  PROVE  Covered(b, sbn, rl, TRUE) \subseteq Offsets(ESRangeListForSBN(b, sbn, rl).value)
<1> PICK o, next, size : o = SrcOffset(b, sbn) /\ next = SrcOffset(b, sbn + 1)
                            /\ size = SrcBlockSize(b, sbn)
  OBVIOUS
<1>1. o \in Nat /\ next \in Nat /\ size \in Nat /\ next = o + size
  <2>1. sbn \in Nat /\ sbn + 1 \in Nat
    BY NumSrcSymTyped
  <2>2. o \in Nat /\ size \in Nat
    BY <2>1, SrcOffsetTyped
  <2>3. next = o + size
    BY StructuresAssumption DEF AtRest, Partition
  <2> QED BY ONLY <2>2, <2>3
<1> PICK block : block = o..(o + size - 1)
  OBVIOUS
<1>2. block \in SUBSET Int /\ IsFiniteSet(block)
  <2>1. o \in Int /\ o + size - 1 \in Int
    BY SMTT(30), <1>1
  <2> QED BY ONLY <2>1, block = o..(o + size - 1), FS_Interval
<1> PICK held : held = Offsets(rl) \cap block
  OBVIOUS
<1>3. held \in SUBSET Int /\ IsFiniteSet(held)
  BY ONLY <1>2, held = Offsets(rl) \cap block, FS_Subset
<1> PICK list : list = ListOf(held)
  OBVIOUS
<1>4. list \in Seq(RangeType) /\ Normal(list) /\ Offsets(list) = held
  BY ONLY <1>3, list = ListOf(held), ListOfIs
<1>5. \A x \in Offsets(list) : SrcOffset(b, sbn) <= x /\ x < SrcOffset(b, sbn + 1)
  <2>1. \A x \in block : o <= x /\ x < next
    BY ONLY <1>1, block = o..(o + size - 1)
  <2>2. Offsets(list) \subseteq block
    BY <1>4
  <2> QED BY <2>1, <2>2
<1> PICK S : S = SymbolsIn(b, sbn, list)
  OBVIOUS
<1>6. /\ S \in SUBSET Int /\ IsFiniteSet(S)
      /\ \A e \in SourceESIs(b, sbn) :
            SymbolBytes(b, sbn, e, TRUE) \subseteq Offsets(list) => e \in S
  BY <1>4, <1>5, SymbolsInIs
<1>7. ESRangeListForSBN(b, sbn, rl).value = ListOf(S)
  BY ForSBNSteps
<1>8. Offsets(ListOf(S)) = S
  BY ONLY <1>6, ListOfIs
<1>9. ASSUME NEW e \in Covered(b, sbn, rl, TRUE)
      PROVE  e \in S
  <2>1. e \in SourceESIs(b, sbn) /\ SymbolBytes(b, sbn, e, TRUE) \subseteq Offsets(rl)
    BY DEF Covered, ESIs
  <2>2. SymbolBytes(b, sbn, e, TRUE) \subseteq block
    <3> PICK n \in Nat : n = NumSrcSym(b, sbn)
      BY NumSrcSymTyped
    <3>1. e \in 0..(n - 1) /\ e \in Int
      BY <2>1 DEF SourceESIs
    <3> PICK L : L = b.ESLen
      OBVIOUS
    <3>2. Holds(o, next, L, n) /\ SymbolBytes(b, sbn, e, TRUE) = BytesAt(o, next, L, e)
      BY <3>1, SourceBlockIs
    <3>3. BytesAt(o, next, L, e) \subseteq o..(next - 1)
      BY ONLY <3>1, <3>2, SymbolIn
    <3>4. o..(next - 1) \subseteq block
      BY ONLY <1>1, block = o..(o + size - 1)
    <3> QED BY ONLY <3>2, <3>3, <3>4
  <2> QED BY <1>4, <1>6, <2>1, <2>2
<1> QED BY ONLY <1>7, <1>8, <1>9

-----------------------------------------------------------------------------
(* Lists in any order *)

\* Ranges of which none is empty and no two overlap.
Scattered(rl) ==
  /\ \A k \in 1..Len(rl) : rl[k].start <= rl[k].end
  /\ \A k, l \in 1..Len(rl) : k # l => rl[k].end < rl[l].start \/ rl[l].end < rl[k].start

\* Such ranges can be put in order.
LEMMA FlattenScattered ==
  ASSUME NEW rl \in Seq(RangeType), Scattered(rl)
  PROVE  Normal(Flatten(rl))
<1> PICK n \in Nat : n = Len(rl)
  OBVIOUS
<1> PICK s : s = Sorted(rl)
  OBVIOUS
<1>1. s \in Seq(RangeType) /\ Len(s) = n
  BY SortedIs
<1>2. PICK f \in [1..n -> 1..n] :
        /\ \A p \in 1..n : s[p] = rl[f[p]]
        /\ \A k \in 1..n : \E p \in 1..n : f[p] = k
        /\ \A p, q \in 1..n : p < q => f[p] # f[q] /\ s[p].start <= s[q].start
  <2>1. Reordered(s, rl, n)
    BY SortedIs
  <2> QED BY ONLY <2>1, Zenon DEF Reordered
<1>3. ASSUME NEW p \in 1..n
      PROVE  f[p] \in 1..n /\ s[p] = rl[f[p]] /\ s[p].start <= s[p].end
             /\ s[p].start \in Int /\ s[p].end \in Int
  <2>1. f[p] \in 1..n /\ s[p] = rl[f[p]]
    BY <1>2
  <2> QED BY <2>1, ElementTyped DEF Scattered
<1>4. ASSUME NEW p \in 1..n, NEW q \in 1..n, p < q
      PROVE  s[p].start <= s[q].start /\ s[p].end <= s[q].end
  <2> PICK a, b, c, d \in Int :
         a = s[p].start /\ b = s[p].end /\ c = s[q].start /\ d = s[q].end
    BY <1>3
  <2>1. a <= b /\ c <= d
    BY <1>3
  <2>2. f[p] # f[q] /\ a <= c
    BY <1>2, <1>4
  <2>3. b < c \/ d < a
    BY <1>3, <2>2 DEF Scattered
  <2> QED BY SMTT(30), <2>1, <2>2, <2>3
<1>5. Stairs(s)
  BY <1>1, <1>3, <1>4 DEF Stairs
<1>6. Sorted(s) = s
  BY <1>1, <1>5, SortedStairs
<1>7. Flatten(rl) = Flatten(s)
  BY <1>6 DEF Flatten
<1> QED BY <1>1, <1>5, <1>7, FlattenStairs

LEMMA ScatteredConcat ==
  ASSUME NEW a \in Seq(RangeType), NEW b \in Seq(RangeType), Scattered(a), Scattered(b),
         Offsets(a) \cap Offsets(b) = {}
  PROVE  Scattered(a \o b)
<1> PICK m, n \in Nat : m = Len(a) /\ n = Len(b)
  OBVIOUS
<1> PICK al : al = a \o b
  OBVIOUS
<1>1. /\ al \in Seq(RangeType) /\ Len(al) = m + n
      /\ \A k \in 1..(m + n) : al[k] = IF k <= m THEN a[k] ELSE b[k - m]
  BY ConcatProperties
<1>2. ASSUME NEW k \in 1..(m + n)
      PROVE  \/ k \in 1..m /\ al[k] = a[k]
             \/ k - m \in 1..n /\ al[k] = b[k - m] /\ k > m
  BY <1>1
<1>3. ASSUME NEW k \in 1..m, NEW l \in 1..n
      PROVE  a[k].end < b[l].start \/ b[l].end < a[k].start
  <2> PICK p, q, r, s \in Int :
         p = a[k].start /\ q = a[k].end /\ r = b[l].start /\ s = b[l].end
    BY ElementTyped
  <2>1. p <= q /\ r <= s
    BY DEF Scattered
  <2> SUFFICES ASSUME ~(q < r), ~(s < p) PROVE FALSE
    OBVIOUS
  <2> PICK x \in Int : x = IF p <= r THEN r ELSE p
    OBVIOUS
  <2>2. x \in p..q /\ x \in r..s
    BY SMTT(30), <2>1
  <2>3. x \in Offsets(a) /\ x \in Offsets(b)
    BY <2>2, InOffsets
  <2> QED BY <2>3
<1>4. ASSUME NEW k \in 1..(m + n) PROVE al[k].start <= al[k].end
  BY <1>2 DEF Scattered
<1>5. ASSUME NEW k \in 1..(m + n), NEW l \in 1..(m + n), k # l
      PROVE  al[k].end < al[l].start \/ al[l].end < al[k].start
  <2>1. CASE k \in 1..m /\ al[k] = a[k] /\ l \in 1..m /\ al[l] = a[l]
    BY <1>5, <2>1 DEF Scattered
  <2>2. CASE k \in 1..m /\ al[k] = a[k] /\ l - m \in 1..n /\ al[l] = b[l - m]
    BY <1>3, <2>2
  <2>3. CASE k - m \in 1..n /\ al[k] = b[k - m] /\ l \in 1..m /\ al[l] = a[l]
    BY <1>3, <2>3
  <2>4. CASE k - m \in 1..n /\ al[k] = b[k - m] /\ l - m \in 1..n /\ al[l] = b[l - m]
    <3>1. k - m # l - m
      BY <1>5
    <3> QED BY <2>4, <3>1 DEF Scattered
  <2> QED BY <1>2, <2>1, <2>2, <2>3, <2>4
<1> QED BY <1>1, <1>4, <1>5 DEF Scattered

-----------------------------------------------------------------------------
(* Lists joined in a fold *)

\* `it` is the fold that puts the lists f[x] one behind the other, and takes
\* what `Choose` says behind the rest.
Joined(it, f, D, Choose) ==
  it = [s \in SUBSET D |-> IF s = {} THEN <<>> ELSE it[s \ {Choose[s]}] \o f[Choose[s]]]

Choosing(Choose, D) == \A s \in SUBSET D : s # {} => Choose[s] \in s

AllLists(f, D) == \A x \in D : f[x] \in Seq(RangeType)

LEMMA JoinedSolves ==
  ASSUME NEW D, IsFiniteSet(D), NEW Choose, Choosing(Choose, D), NEW f, AllLists(f, D)
  PROVE  \E it : Joined(it, f, D, Choose)
<1> PICK A : A = Seq(RangeType)
  OBVIOUS
<1> PICK Step : Step = [p \in D \X A |-> p[2] \o f[p[1]]]
  OBVIOUS
<1>1. ASSUME NEW x \in D, NEW a \in A
      PROVE  Step[<<x, a>>] = a \o f[x] /\ Step[<<x, a>>] \in A
  <2>1. Step[<<x, a>>] = a \o f[x]
    OBVIOUS
  <2>2. f[x] \in Seq(RangeType)
    BY DEF AllLists
  <2>3. a \o f[x] \in A
    BY <2>2, ConcatProperties
  <2> QED BY <2>1, <2>3
<1>2. Folding(D, A, Choose, Step)
  BY <1>1 DEF Folding, Choosing
<1>3. <<>> \in A
  OBVIOUS
<1> PICK it \in [SUBSET D -> A] : Folded(it, D, <<>>, Choose, Step)
  BY ONLY <1>2, <1>3, IsFiniteSet(D), FoldSolves
<1>4. ASSUME NEW s \in SUBSET D, s # {}
      PROVE  it[s] = it[s \ {Choose[s]}] \o f[Choose[s]]
  <2>1. Choose[s] \in D /\ s \ {Choose[s]} \in SUBSET D
    BY <1>4 DEF Choosing
  <2> QED BY <1>1, <1>4, <2>1 DEF Folded
<1>5. it = [s \in SUBSET D |-> IF s = {} THEN <<>> ELSE it[s \ {Choose[s]}] \o f[Choose[s]]]
  BY <1>4 DEF Folded
<1> QED BY <1>5 DEF Joined

\* The lists, each of ranges apart and no two with the same number in them.
Spread(f, D) ==
  /\ \A x \in D : Scattered(f[x])
  /\ \A x, y \in D : x # y => Offsets(f[x]) \cap Offsets(f[y]) = {}

\* l has what the lists f[x] for x in s have.
Gathered(l, f, s, D) ==
  /\ l \in Seq(RangeType)
  /\ Offsets(l) = UNION {Offsets(f[x]) : x \in s}
  /\ Spread(f, D) => Scattered(l)

LEMMA GatheredMore ==
  ASSUME NEW D, NEW f, AllLists(f, D), NEW s \in SUBSET D, NEW x \in s, NEW l,
         Gathered(l, f, s \ {x}, D)
  PROVE  Gathered(l \o f[x], f, s, D)
<1>1. l \in Seq(RangeType) /\ f[x] \in Seq(RangeType) /\ x \in D
  BY DEF Gathered, AllLists
<1>2. l \o f[x] \in Seq(RangeType)
  BY ONLY <1>1, ConcatProperties
<1>3. Offsets(l \o f[x]) = UNION {Offsets(f[y]) : y \in s}
  <2>1. Offsets(l \o f[x]) = Offsets(l) \cup Offsets(f[x])
    BY ONLY <1>1, OffsetsConcat
  <2>2. Offsets(l) = UNION {Offsets(f[y]) : y \in s \ {x}}
    BY DEF Gathered
  <2> HIDE DEF Offsets
  <2> QED BY ONLY <2>1, <2>2, x \in s
<1>4. ASSUME Spread(f, D) PROVE Scattered(l \o f[x])
  <2>1. Scattered(l) /\ Scattered(f[x])
    BY <1>1, <1>4 DEF Gathered, Spread
  <2>2. \A y \in s \ {x} : Offsets(f[y]) \cap Offsets(f[x]) = {}
    <3>1. \A y \in s \ {x} : y \in D /\ y # x
      OBVIOUS
    <3> QED BY ONLY <1>1, <1>4, <3>1 DEF Spread
  <2>3. Offsets(l) = UNION {Offsets(f[y]) : y \in s \ {x}}
    BY DEF Gathered
  <2>4. Offsets(l) \cap Offsets(f[x]) = {}
    BY ONLY <2>2, <2>3
  <2> QED BY ONLY <1>1, <2>1, <2>4, ScatteredConcat
<1> QED BY <1>2, <1>3, <1>4 DEF Gathered

LEMMA JoinedIs ==
  ASSUME NEW D, IsFiniteSet(D), NEW Choose, Choosing(Choose, D), NEW f, AllLists(f, D),
         NEW it, Joined(it, f, D, Choose)
  PROVE  Gathered(it[D], f, D, D)
<1> PICK n \in Nat : n = Cardinality(D)
  BY FS_CardinalityType
<1> DEFINE P == {k \in 0..n : \A s \in SUBSET D : Cardinality(s) <= k => Gathered(it[s], f, s, D)}
<1>1. it[{}] = <<>> /\ \A s \in SUBSET D : s # {} => it[s] = it[s \ {Choose[s]}] \o f[Choose[s]]
  <2>1. {} \in SUBSET D
    OBVIOUS
  <2> QED BY ONLY ZenonT(30), <2>1, Joined(it, f, D, Choose) DEF Joined
<1>2. Gathered(it[{}], f, {}, D)
  <2>1. Scattered(<<>>)
    BY DEF Scattered
  <2>2. UNION {Offsets(f[x]) : x \in {}} = {}
    OBVIOUS
  <2> QED BY ONLY <1>1, <2>1, <2>2, EmptyList DEF Gathered
<1>3. 0 \in P
  <2>1. ASSUME NEW s \in SUBSET D, Cardinality(s) <= 0 PROVE s = {}
    <3>1. IsFiniteSet(s) /\ Cardinality(s) \in Nat
      BY FS_Subset, FS_CardinalityType
    <3> QED BY <2>1, <3>1, FS_EmptySet
  <2> QED BY <1>2, <2>1
<1>4. ASSUME NEW k \in 1..n, k - 1 \in P
      PROVE  k \in P
  <2>1. ASSUME NEW s \in SUBSET D, Cardinality(s) <= k
        PROVE  Gathered(it[s], f, s, D)
    <3>1. CASE s = {}
      BY <1>2, <3>1
    <3>2. CASE s # {}
      <4> PICK x : x = Choose[s]
        OBVIOUS
      <4>1. x \in s /\ s \ {x} \in SUBSET D
        BY <3>2 DEF Choosing
      <4>2. Cardinality(s \ {x}) <= k - 1
        <5>1. IsFiniteSet(s) /\ Cardinality(s) \in Nat
          BY FS_Subset, FS_CardinalityType
        <5>2. Cardinality(s \ {x}) = Cardinality(s) - 1
          BY <4>1, <5>1, FS_RemoveElement
        <5> QED BY <2>1, <5>1, <5>2
      <4>3. Gathered(it[s \ {x}], f, s \ {x}, D)
        BY <1>4, <4>1, <4>2
      <4>4. Gathered(it[s \ {x}] \o f[x], f, s, D)
        BY ONLY <4>1, <4>3, AllLists(f, D), s \in SUBSET D, GatheredMore
      <4>5. it[s] = it[s \ {x}] \o f[x]
        BY <1>1, <3>2
      <4> QED BY ONLY <4>4, <4>5, Zenon
    <3> QED BY <3>1, <3>2
  <2> QED BY <2>1
<1>5. n \in P
  <2> HIDE DEF P
  <2>1. \A k \in 0..n : k \in P
    BY ONLY <1>3, <1>4, n \in Nat, Upwards
  <2> QED BY <2>1
<1>6. D \in SUBSET D /\ Cardinality(D) <= n
  OBVIOUS
<1> QED BY <1>5, <1>6

-----------------------------------------------------------------------------
(* From symbols to bytes *)

\* L bytes each, one behind the other from o on.
LEMMA Rows ==
  ASSUME NEW o \in Nat, NEW L \in Nat \ {0}, NEW a \in Nat, NEW c \in Nat, a <= c
  PROVE  /\ L * a \in Nat /\ L * (c + 1) \in Nat /\ L * a < L * (c + 1)
         /\ \A x \in Int : o + L * a <= x /\ x < o + L * (c + 1)
                              <=> \E q \in a..c : o + L * q <= x /\ x < o + L * q + L
<1>1. /\ a \in Int /\ c \in Int /\ L \in Int /\ L \in Nat /\ L > 0 /\ c + 1 \in Nat /\ a < c + 1
      /\ a <= c + 1 /\ 0 \in Int
  OBVIOUS
<1>2. L * a \in Nat /\ L * (c + 1) \in Nat /\ L * a < L * (c + 1)
  BY ONLY <1>1, a \in Nat, ProductsOrder
<1>3. ASSUME NEW x \in Int, o + L * a <= x, x < o + L * (c + 1)
      PROVE  \E q \in a..c : o + L * q <= x /\ x < o + L * q + L
  <2> PICK p, s \in Nat : p = L * a /\ s = L * (c + 1)
    BY <1>2
  <2> PICK y \in Nat : y = x - o /\ p <= y /\ y < s
    <3>1. x - o \in Nat /\ p <= x - o /\ x - o < s
      BY ONLY <1>3, p = L * a, s = L * (c + 1), p \in Nat, s \in Nat, x \in Int, o \in Nat
    <3> QED BY <3>1
  <2> PICK q, m \in Nat : q = y \div L /\ y = L * q + m /\ m < L
    BY ONLY Quotients, y \in Nat, L \in Nat \ {0}
  <2>1. q < c + 1
    BY ONLY QuotientBelow, y \in Nat, L \in Nat \ {0}, c + 1 \in Nat, <1>1, y < s, s = L * (c + 1),
       q = y \div L
  <2> PICK w \in Nat : w = L * q
    BY ONLY <1>1, q \in Nat, a \in Nat, ProductsOrder
  <2>2. a < q + 1
    <3>1. L * (q + 1) = w + L /\ q + 1 \in Nat
      BY ONLY <1>1, q \in Nat, q \in Int, w = L * q, Products
    <3>2. L * a <= y /\ y < L * (q + 1)
      BY ONLY <3>1, p = L * a, p <= y, y = L * q + m, m < L, w = L * q, w \in Nat, m \in Nat,
         L \in Nat \ {0}, y \in Nat, p \in Nat
    <3> QED BY ONLY <1>1, <3>1, <3>2, a \in Nat, y \in Nat, LessFactor
  <2>3. q \in a..c
    BY ONLY <2>1, <2>2, <1>1, q \in Nat
  <2>4. o + w <= x /\ x < o + w + L
    BY ONLY y = x - o, y = L * q + m, w = L * q, m < L, x \in Int, y \in Nat, w \in Nat, m \in Nat,
       o \in Nat, L \in Nat \ {0}
  <2> QED BY ONLY <2>3, <2>4, w = L * q
<1>4. ASSUME NEW x \in Int, NEW q \in a..c, o + L * q <= x, x < o + L * q + L
      PROVE  o + L * a <= x /\ x < o + L * (c + 1)
  <2>1. q \in Nat /\ q \in Int /\ a <= q /\ q + 1 <= c + 1 /\ q + 1 \in Nat
    BY ONLY <1>1, q \in a..c, a \in Nat, c \in Nat
  <2>2. L * a <= L * q /\ L * (q + 1) <= L * (c + 1) /\ L * (q + 1) = L * q + L /\ L * q \in Nat
    BY ONLY <1>1, <2>1, a \in Nat, ProductsOrder, Products
  <2> PICK p, s, w \in Nat : p = L * a /\ s = L * (c + 1) /\ w = L * q
    BY <1>2, <2>2
  <2> QED BY ONLY <1>4, <2>2, p = L * a, s = L * (c + 1), w = L * q, p \in Nat, s \in Nat, w \in Nat,
             L \in Nat \ {0}, x \in Int, o \in Nat
<1> QED BY ONLY <1>2, <1>3, <1>4

\* The bytes of a symbol, were it not cut at the end of the object.
WholeBytes(b, sbn, e, source) ==
  LET q == e - BaseOf(b, sbn, source)
  IN  (OffsetOf(b, sbn, source) + b.ESLen * q)..(OffsetOf(b, sbn, source) + b.ESLen * q + b.ESLen - 1)

\* A range of symbols of a block becomes one of bytes.
LEMMA BytesOfIs ==
  ASSUME NEW b \in Structures, NEW source \in BOOLEAN, NEW sbn \in Blocks(b),
         NEW r \in RangeType, r.start <= r.end, r.start..r.end \subseteq ESIs(b, sbn, source)
  PROVE  \E w \in RangeType :
            /\ BytesOf(b, sbn, r, source) = <<w>>
            /\ w.start \in Int /\ w.end \in Int /\ w.start <= w.end
            /\ \A x \in Int : x \in w.start..w.end
                                 <=> \E e \in r.start..r.end : x \in WholeBytes(b, sbn, e, source)
<1> PICK o, L, k, n : /\ o = OffsetOf(b, sbn, source) /\ L = b.ESLen
                      /\ k = BaseOf(b, sbn, source) /\ n = SymbolsOf(b, sbn, source)
  OBVIOUS
<1>1. o \in Nat /\ L \in Nat \ {0} /\ k \in Nat /\ n \in Nat /\ ESIs(b, sbn, source) = k..(k + n - 1)
  <2>1. Holds(o, OffsetOf(b, sbn + 1, source), L, n)
    BY BlockIs
  <2>2. k \in Nat /\ ESIs(b, sbn, source) = k..(k + n - 1)
    BY BlockIs
  <2> QED BY <2>1, <2>2 DEF Holds
<1> PICK p, q \in Int : p = r.start /\ q = r.end
  BY DEF RangeType
<1>2. p <= q /\ k <= p /\ q <= k + n - 1
  <2>1. p \in p..q /\ q \in p..q
    OBVIOUS
  <2>2. p \in k..(k + n - 1) /\ q \in k..(k + n - 1)
    BY <1>1, <2>1
  <2> QED BY SMTT(30), <1>1, <2>2
<1> PICK a, c \in Nat : a = p - k /\ c = q - k /\ a <= c
  BY ONLY <1>1, <1>2, p \in Int, q \in Int
<1>3. /\ L * a \in Nat /\ L * (c + 1) \in Nat /\ L * a < L * (c + 1)
      /\ \A x \in Int : o + L * a <= x /\ x < o + L * (c + 1)
                           <=> \E m \in a..c : o + L * m <= x /\ x < o + L * m + L
  BY ONLY <1>1, a \in Nat, c \in Nat, a <= c, Rows
<1> PICK u, v \in Nat : u = L * a /\ v = L * (c + 1) /\ u < v
  BY <1>3
<1> PICK w : w = Interval(o + u, o + v - 1)
  OBVIOUS
<1>4. w \in RangeType /\ w.start = o + u /\ w.end = o + v - 1
  <2>1. o + u \in Int /\ o + v - 1 \in Int
    BY ONLY <1>1, u \in Nat, v \in Nat
  <2> QED BY ONLY <2>1, w = Interval(o + u, o + v - 1), RangeTyped
<1>5. BytesOf(b, sbn, r, source) = <<w>>
  <2>1. a * L = u /\ (c + 1) * L = v
    <3>1. a \in Int /\ c + 1 \in Int /\ L \in Int /\ 0 \in Int
      BY ONLY <1>1, a \in Nat, c \in Nat
    <3> QED BY ONLY <3>1, u = L * a, v = L * (c + 1), Products
  <2>2. CASE source
    <3>1. k = 0 /\ p = a /\ q - 0 = c
      <4>1. k = 0
        BY <2>2 DEF BaseOf
      <4> QED BY ONLY <4>1, a = p - k, c = q - k, p \in Int, q \in Int
    <3>2. BytesOf(b, sbn, r, source) = <<Interval(o + p * L, LastByte(o, q - 0, L))>>
      BY <2>2 DEF BytesOf
    <3>3. p * L = u /\ LastByte(o, q - 0, L) = o + v - 1
      BY <2>1, <3>1 DEF LastByte
    <3> QED BY ONLY <3>2, <3>3, w = Interval(o + u, o + v - 1)
  <2>3. CASE ~source
    <3>1. NumSrcSym(b, sbn) = k
      BY <2>3 DEF BaseOf
    <3>2. ~(q + 1 - k < 0) /\ Greatest(p - k, 0) = a
      BY ONLY <1>1, a = p - k, c = q - k, a \in Nat, c \in Nat, p \in Int, q \in Int DEF Greatest
    <3>3. BytesOf(b, sbn, r, source) =
            <<Interval(o + Greatest(p - k, 0) * L, LastByte(o, q - k, L))>>
      BY <2>3, <3>1, <3>2 DEF BytesOf
    <3>4. Greatest(p - k, 0) * L = u /\ LastByte(o, q - k, L) = o + v - 1
      BY <2>1, <3>2 DEF LastByte
    <3> QED BY ONLY <3>3, <3>4, w = Interval(o + u, o + v - 1)
  <2> QED BY <2>2, <2>3
<1>6. ASSUME NEW x \in Int
      PROVE  x \in w.start..w.end <=> \E e \in p..q : x \in WholeBytes(b, sbn, e, source)
  <2>1. x \in w.start..w.end <=> o + u <= x /\ x < o + v
    BY ONLY <1>1, <1>4, u \in Nat, v \in Nat, x \in Int
  <2>2. x \in w.start..w.end <=> \E m \in a..c : o + L * m <= x /\ x < o + L * m + L
    BY ONLY <1>3, <2>1, u = L * a, v = L * (c + 1), x \in Int
  <2>3. ASSUME NEW e \in Int
        PROVE  x \in WholeBytes(b, sbn, e, source) <=> o + L * (e - k) <= x /\ x < o + L * (e - k) + L
    <3>0. L * (e - k) \in Int
      <4>1. L \in Int /\ e - k \in Int /\ 0 \in Int
        BY ONLY <1>1, e \in Int
      <4> QED BY ONLY <4>1, Products
    <3> PICK y \in Int : y = L * (e - k)
      BY ONLY <3>0
    <3>1. WholeBytes(b, sbn, e, source) = (o + y)..(o + y + L - 1)
      BY DEF WholeBytes
    <3> QED BY ONLY <1>1, <3>1, y = L * (e - k), y \in Int, x \in Int
  <2>4. ASSUME NEW m \in a..c, o + L * m <= x, x < o + L * m + L
        PROVE  \E e \in p..q : x \in WholeBytes(b, sbn, e, source)
    <3> PICK e \in Int : e = m + k
      BY <1>1
    <3>1. e \in p..q /\ e - k = m
      BY ONLY <1>1, e = m + k, e \in Int, m \in a..c, a = p - k, c = q - k, p \in Int, q \in Int
    <3> QED BY <2>3, <2>4, <3>1
  <2>5. ASSUME NEW e \in p..q, x \in WholeBytes(b, sbn, e, source)
        PROVE  \E m \in a..c : o + L * m <= x /\ x < o + L * m + L
    <3>1. e \in Int /\ e - k \in a..c
      BY ONLY <1>1, e \in p..q, a = p - k, c = q - k, p \in Int, q \in Int
    <3> QED BY <2>3, <2>5, <3>1
  <2> QED BY ONLY <2>2, <2>4, <2>5
<1>7. w.start <= w.end /\ w.start \in Int /\ w.end \in Int
  BY ONLY <1>1, <1>4, u < v, u \in Nat, v \in Nat
<1> QED BY ONLY <1>4, <1>5, <1>6, <1>7, p = r.start, q = r.end

LEMMA WholeBytesIs ==
  ASSUME NEW b \in Structures, NEW source \in BOOLEAN, NEW sbn \in Blocks(b),
         NEW e \in ESIs(b, sbn, source)
  PROVE  /\ \A x \in WholeBytes(b, sbn, e, source) :
               /\ x \in Int /\ OffsetOf(b, sbn, source) <= x
               /\ ~source \/ sbn # b.N - 1 => x < OffsetOf(b, sbn + 1, source)
               /\ x < OffsetOf(b, sbn + 1, source) + b.ESLen - 1
         /\ SymbolBytes(b, sbn, e, source) =
              WholeBytes(b, sbn, e, source) \cap 0..(OffsetOf(b, sbn + 1, source) - 1)
         /\ \A f \in ESIs(b, sbn, source) : f # e =>
               WholeBytes(b, sbn, e, source) \cap WholeBytes(b, sbn, f, source) = {}
<1> PICK o, next, L, k, n : /\ o = OffsetOf(b, sbn, source) /\ next = OffsetOf(b, sbn + 1, source)
                            /\ L = b.ESLen
                            /\ k = BaseOf(b, sbn, source) /\ n = SymbolsOf(b, sbn, source)
  OBVIOUS
<1>1. /\ Holds(o, next, L, n) /\ k \in Nat /\ ESIs(b, sbn, source) = k..(k + n - 1)
      /\ \A f \in Int : SymbolBytes(b, sbn, f, source) = BytesAt(o, next, L, f - k)
      /\ ~source \/ sbn # b.N - 1 => o + L * n = next
  BY BlockIs
<1>2. /\ o \in Nat /\ next \in Nat /\ L \in Nat \ {0} /\ n \in Nat
      /\ n > 0 => L * (n - 1) < next - o
  BY <1>1 DEF Holds
<1>3. ASSUME NEW f \in k..(k + n - 1)
      PROVE  \E q \in 0..(n - 1) : q = f - k /\ WholeBytes(b, sbn, f, source) =
                                                   (o + L * q)..(o + L * q + L - 1)
  <2>1. f - k \in 0..(n - 1)
    BY ONLY <1>1, <1>2, f \in k..(k + n - 1)
  <2> QED BY <2>1 DEF WholeBytes
<1> PICK q \in 0..(n - 1) : q = e - k /\ WholeBytes(b, sbn, e, source) =
                                           (o + L * q)..(o + L * q + L - 1)
  BY <1>1, <1>3
<1> PICK u, s \in Nat : u = L * q /\ s = L * n /\ u + L <= s
  <2>1. /\ L \in Nat /\ L \in Int /\ q \in Nat /\ q \in Int /\ 0 \in Int /\ q + 1 \in Nat /\ q + 1 <= n
        /\ n \in Nat
    BY ONLY <1>2, q \in 0..(n - 1)
  <2>2. L * q \in Nat /\ L * n \in Nat /\ L * (q + 1) <= L * n
    BY ONLY <2>1, ProductsOrder
  <2>3. L * (q + 1) = L * q + L
    BY ONLY <2>1, Products
  <2> QED BY <2>2, <2>3
<1> PICK W : W = WholeBytes(b, sbn, e, source)
  OBVIOUS
<1>4. \A x : x \in W <=> x \in Int /\ o + u <= x /\ x < o + u + L
  BY ONLY <1>2, u = L * q, u \in Nat, W = WholeBytes(b, sbn, e, source),
     WholeBytes(b, sbn, e, source) = (o + L * q)..(o + L * q + L - 1)
<1>5. s < next - o + L
  <2>1. L * n = L * (n - 1) + L
    <3>1. L \in Int /\ n - 1 \in Int /\ 0 \in Int /\ (n - 1) + 1 = n
      BY ONLY <1>2
    <3> QED BY ONLY <3>1, Products
  <2>2. n > 0
    BY <1>2
  <2> PICK t \in Int : t = L * (n - 1)
    <3>1. L \in Int /\ n - 1 \in Int /\ 0 \in Int
      BY ONLY <1>2
    <3>2. L * (n - 1) \in Int
      BY ONLY <3>1, Products
    <3> QED BY <3>2
  <2> QED BY ONLY <1>2, <2>1, <2>2, s = L * n, t = L * (n - 1), t \in Int, s \in Nat
<1>6. ASSUME NEW x \in W
      PROVE  /\ x \in Int /\ o <= x
             /\ ~source \/ sbn # b.N - 1 => x < next
             /\ x < next + L - 1
  <2>1. x \in Int /\ o + u <= x /\ x < o + u + L
    BY <1>4
  <2>2. o + L * n = next => x < next
    BY ONLY <1>2, <2>1, u + L <= s, s = L * n, u \in Nat, s \in Nat
  <2>3. x < next + L - 1 /\ o <= x
    BY ONLY <1>2, <1>5, <2>1, u + L <= s, u \in Nat, s \in Nat
  <2> QED BY <1>1, <2>1, <2>2, <2>3
<1>7. SymbolBytes(b, sbn, e, source) = W \cap 0..(next - 1)
  <2>1. e \in Int
    BY ONLY <1>1, <1>2, e \in ESIs(b, sbn, source)
  <2>2. SymbolBytes(b, sbn, e, source) = BytesAt(o, next, L, q)
    BY <1>1, <2>1
  <2> QED BY ONLY <2>2, W = WholeBytes(b, sbn, e, source),
          WholeBytes(b, sbn, e, source) = (o + L * q)..(o + L * q + L - 1) DEF BytesAt
<1>8. ASSUME NEW f \in ESIs(b, sbn, source), f # e
      PROVE  W \cap WholeBytes(b, sbn, f, source) = {}
  <2> PICK r \in 0..(n - 1) : r = f - k /\ WholeBytes(b, sbn, f, source) =
                                             (o + L * r)..(o + L * r + L - 1)
    <3>1. f \in k..(k + n - 1)
      BY <1>1
    <3> QED BY ONLY <1>3, <3>1, Zenon
  <2>0. e \in Int /\ f \in Int
    BY ONLY <1>1, <1>2, e \in ESIs(b, sbn, source), f \in ESIs(b, sbn, source)
  <2>1. r # q
    BY ONLY <1>1, <1>8, <2>0, q = e - k, r = f - k
  <2>2. /\ L \in Nat /\ L \in Int /\ q \in Nat /\ q \in Int /\ 0 \in Int /\ q + 1 \in Nat
        /\ r \in Nat /\ r \in Int /\ r + 1 \in Nat
    BY ONLY <1>2, q \in 0..(n - 1), r \in 0..(n - 1)
  <2>3. L * (q + 1) = L * q + L /\ L * (r + 1) = L * r + L /\ L * r \in Nat
    BY ONLY <2>2, Products, ProductsOrder
  <2>4. q < r => L * (q + 1) <= L * r
    <3>1. q < r => q + 1 <= r
      BY ONLY <2>2
    <3> QED BY ONLY <2>2, <3>1, ProductsOrder
  <2>5. r < q => L * (r + 1) <= L * q
    <3>1. r < q => r + 1 <= q
      BY ONLY <2>2
    <3> QED BY ONLY <2>2, <3>1, ProductsOrder
  <2> PICK v \in Nat : v = L * r
    BY <2>3
  <2>6. u + L <= v \/ v + L <= u
    BY ONLY <2>1, <2>2, <2>3, <2>4, <2>5, u = L * q, v = L * r, u \in Nat, v \in Nat
  <2>7. \A x \in Int : ~(o + u <= x /\ x < o + u + L /\ o + v <= x /\ x < o + v + L)
    BY ONLY <1>2, <2>6, u \in Nat, v \in Nat
  <2>8. \A x : x \in WholeBytes(b, sbn, f, source) <=> x \in Int /\ o + v <= x /\ x < o + v + L
    BY ONLY <1>2, v = L * r, v \in Nat,
       WholeBytes(b, sbn, f, source) = (o + L * r)..(o + L * r + L - 1)
  <2> QED BY ONLY <1>4, <2>7, <2>8
<1> QED BY ONLY <1>6, <1>7, <1>8, o = OffsetOf(b, sbn, source), L = b.ESLen,
           next = OffsetOf(b, sbn + 1, source), W = WholeBytes(b, sbn, e, source)

\* Symbols of two blocks have no byte in common.
LEMMA WholeBytesApart ==
  ASSUME NEW b \in Structures, NEW source \in BOOLEAN, NEW s \in Blocks(b), NEW t \in Blocks(b),
         s # t, NEW e \in ESIs(b, s, source), NEW f \in ESIs(b, t, source)
  PROVE  WholeBytes(b, s, e, source) \cap WholeBytes(b, t, f, source) = {}
<1>1. ASSUME NEW x, NEW p \in Blocks(b), NEW q \in Blocks(b), p < q,
             NEW g \in ESIs(b, p, source), NEW h \in ESIs(b, q, source),
             x \in WholeBytes(b, p, g, source), x \in WholeBytes(b, q, h, source)
      PROVE  FALSE
  <2> PICK n \in Nat : n = b.N
    BY NumSrcSymTyped
  <2>1. p \in 0..(n - 1) /\ q \in 0..(n - 1)
    BY DEF Blocks
  <2>2. p + 1 \in 0..n /\ q \in 0..n /\ p + 1 <= q /\ p # n - 1
    BY ONLY <1>1, <2>1, n \in Nat
  <2>3. x \in Int /\ x < OffsetOf(b, p + 1, source) /\ OffsetOf(b, q, source) <= x
    BY <1>1, <2>2, WholeBytesIs
  <2>4. /\ OffsetOf(b, p + 1, source) \in Nat /\ OffsetOf(b, q, source) \in Nat
        /\ OffsetOf(b, p + 1, source) <= OffsetOf(b, q, source)
    BY <2>2, BlocksRise
  <2> QED BY ONLY <2>3, <2>4
<1>2. s < t \/ t < s
  <2>1. s \in Int /\ t \in Int
    BY NumSrcSymTyped
  <2> QED BY ONLY <2>1, s # t
<1> QED BY <1>1, <1>2

\* What the lists of a block become.
BlockBytes(b, sbn, list, source) ==
  FoldLeft(LAMBDA l, r : l \o BytesOf(b, sbn, r, source), <<>>, list)

\* The bytes of all symbols of a list.
BytesOfSymbols(b, sbn, E, source) == UNION {WholeBytes(b, sbn, e, source) : e \in E}

LEMMA BytesOfRange ==
  ASSUME NEW b \in Structures, NEW source \in BOOLEAN, NEW sbn \in Blocks(b),
         NEW r \in RangeType, r.start <= r.end, r.start..r.end \subseteq ESIs(b, sbn, source)
  PROVE  /\ BytesOf(b, sbn, r, source) \in Seq(RangeType)
         /\ Scattered(BytesOf(b, sbn, r, source))
         /\ Offsets(BytesOf(b, sbn, r, source)) = BytesOfSymbols(b, sbn, r.start..r.end, source)
<1> PICK w \in RangeType :
       /\ BytesOf(b, sbn, r, source) = <<w>>
       /\ w.start \in Int /\ w.end \in Int /\ w.start <= w.end
       /\ \A x \in Int : x \in w.start..w.end
                            <=> \E e \in r.start..r.end : x \in WholeBytes(b, sbn, e, source)
  BY BytesOfIs
<1> PICK l : l = <<w>>
  OBVIOUS
<1>1. l \in Seq(RangeType) /\ Len(l) = 1 /\ l[1] = w /\ Offsets(l) = w.start..w.end
  BY ONLY w \in RangeType, w.start <= w.end, l = <<w>>, SingleList
<1>2. Scattered(l)
  <2>1. \A k \in 1..1 : k = 1
    OBVIOUS
  <2> QED BY ONLY <1>1, <2>1, w.start <= w.end DEF Scattered
<1>3. \A e \in r.start..r.end : WholeBytes(b, sbn, e, source) \subseteq Int
  BY WholeBytesIs
<1>4. w.start..w.end \subseteq Int
  OBVIOUS
<1>5. \A x : x \in w.start..w.end <=> \E e \in r.start..r.end : x \in WholeBytes(b, sbn, e, source)
  BY <1>3, <1>4
<1>6. w.start..w.end = BytesOfSymbols(b, sbn, r.start..r.end, source)
  BY ONLY <1>5, Zenon DEF BytesOfSymbols
<1> QED BY ONLY <1>1, <1>2, <1>6, l = <<w>>, BytesOf(b, sbn, r, source) = <<w>>

LEMMA BytesOfSets ==
  ASSUME NEW b \in Structures, NEW source \in BOOLEAN, NEW s \in Blocks(b), NEW t \in Blocks(b),
         NEW E \in SUBSET ESIs(b, s, source), NEW F \in SUBSET ESIs(b, t, source),
         s # t \/ E \cap F = {}
  PROVE  BytesOfSymbols(b, s, E, source) \cap BytesOfSymbols(b, t, F, source) = {}
<1>1. ASSUME NEW e \in E, NEW f \in F
      PROVE  WholeBytes(b, s, e, source) \cap WholeBytes(b, t, f, source) = {}
  <2>1. e \in ESIs(b, s, source) /\ f \in ESIs(b, t, source)
    OBVIOUS
  <2>2. CASE s # t
    BY <2>1, <2>2, WholeBytesApart
  <2>3. CASE s = t
    <3>1. e # f
      BY <2>3
    <3> QED BY <2>1, <2>3, <3>1, WholeBytesIs
  <2> QED BY <2>2, <2>3
<1>2. \A x : x \in BytesOfSymbols(b, s, E, source)
                <=> \E e \in E : x \in WholeBytes(b, s, e, source)
  BY ONLY Zenon DEF BytesOfSymbols
<1>3. \A x : x \in BytesOfSymbols(b, t, F, source)
                <=> \E f \in F : x \in WholeBytes(b, t, f, source)
  BY ONLY Zenon DEF BytesOfSymbols
<1> QED BY ONLY <1>1, <1>2, <1>3

LEMMA BlockBytesIs ==
  ASSUME NEW b \in Structures, NEW source \in BOOLEAN, NEW sbn \in Blocks(b),
         NEW list \in Seq(RangeType), Apart(list, 0), Offsets(list) \subseteq ESIs(b, sbn, source)
  PROVE  /\ BlockBytes(b, sbn, list, source) \in Seq(RangeType)
         /\ Scattered(BlockBytes(b, sbn, list, source))
         /\ Offsets(BlockBytes(b, sbn, list, source)) =
              BytesOfSymbols(b, sbn, Offsets(list), source)
<1> PICK n \in Nat : n = Len(list) /\ DOMAIN list = 1..n
  OBVIOUS
<1> PICK f : f = [k \in 1..n |-> BytesOf(b, sbn, list[k], source)]
  OBVIOUS
<1> DEFINE R(k) == list[k].start..list[k].end
<1>1. ASSUME NEW k \in 1..n
      PROVE  /\ list[k] \in RangeType /\ list[k].start <= list[k].end
             /\ R(k) \subseteq Offsets(list) /\ R(k) \subseteq ESIs(b, sbn, source)
  <2>1. list[k] \in RangeType /\ list[k].start <= list[k].end
    BY 0 \in Nat, ElementTyped, InApart
  <2>2. R(k) \subseteq Offsets(list)
    BY InOffsets
  <2> QED BY <2>1, <2>2
<1>2. ASSUME NEW k \in 1..n
      PROVE  /\ f[k] \in Seq(RangeType) /\ Scattered(f[k])
             /\ Offsets(f[k]) = BytesOfSymbols(b, sbn, R(k), source)
  <2>1. f[k] = BytesOf(b, sbn, list[k], source)
    OBVIOUS
  <2> QED BY ONLY <1>1, <2>1, k \in 1..n, b \in Structures, source \in BOOLEAN, sbn \in Blocks(b),
             BytesOfRange
<1>3. AllLists(f, 1..n)
  BY ONLY <1>2 DEF AllLists
<1>4. Spread(f, 1..n)
  <2>1. ASSUME NEW k \in 1..n, NEW m \in 1..n, k # m
        PROVE  Offsets(f[k]) \cap Offsets(f[m]) = {}
    <3>1. ASSUME NEW p \in 1..n, NEW q \in 1..n, p < q
          PROVE  R(p) \cap R(q) = {}
      <4> PICK a, c, d, e \in Int :
             a = list[p].start /\ c = list[p].end /\ d = list[q].start /\ e = list[q].end
        BY ElementTyped
      <4>1. c < d
        BY <3>1, InOrder
      <4>2. a..c \cap d..e = {}
        BY ONLY <4>1, a \in Int, c \in Int, d \in Int, e \in Int
      <4> QED BY ONLY <4>2, a = list[p].start, c = list[p].end, d = list[q].start, e = list[q].end
    <3>2. R(k) \cap R(m) = {}
      <4>1. k < m \/ m < k
        BY <2>1
      <4> QED BY ONLY <3>1, <4>1, k \in 1..n, m \in 1..n
    <3>3. R(k) \in SUBSET ESIs(b, sbn, source) /\ R(m) \in SUBSET ESIs(b, sbn, source)
      BY <1>1
    <3> HIDE DEF R
    <3>4. BytesOfSymbols(b, sbn, R(k), source) \cap BytesOfSymbols(b, sbn, R(m), source) = {}
      BY ONLY <3>2, <3>3, b \in Structures, source \in BOOLEAN, sbn \in Blocks(b), BytesOfSets
    <3> QED BY ONLY <1>2, <3>4, k \in 1..n, m \in 1..n, Zenon
  <2> QED BY ONLY <1>2, <2>1 DEF Spread
<1> PICK Choose : Choose = [s \in SUBSET (1..n) |-> Max(s)]
  OBVIOUS
<1>5. /\ Choosing(Choose, 1..n) /\ IsFiniteSet(1..n)
      /\ \A s \in SUBSET (1..n) : s # {} => Choose[s] = Max(s) /\ Max(s) \in 1..n
  <2>1. \A s \in SUBSET (1..n) : s # {} => Choose[s] = Max(s) /\ Max(s) \in s
    BY MaxPosition
  <2>2. IsFiniteSet(1..n)
    BY ONLY n \in Nat, n \in Int, 1 \in Int, FS_Interval
  <2> QED BY ONLY <2>1, <2>2, Zenon DEF Choosing
<1> DEFINE Joins(it) == it = [s \in SUBSET (1..n) |->
              IF s = {} THEN <<>> ELSE it[s \ {Max(s)}] \o BytesOf(b, sbn, list[Max(s)], source)]
<1>6. ASSUME NEW it PROVE Joins(it) <=> Joined(it, f, 1..n, Choose)
  <2>1. ASSUME NEW s \in SUBSET (1..n), s # {}
        PROVE  it[s \ {Max(s)}] \o BytesOf(b, sbn, list[Max(s)], source)
                 = it[s \ {Choose[s]}] \o f[Choose[s]]
    <3> PICK m : m = Max(s)
      OBVIOUS
    <3>1. Choose[s] = m /\ m \in 1..n
      BY ONLY <1>5, <2>1, s \in SUBSET (1..n), m = Max(s)
    <3>2. f[m] = BytesOf(b, sbn, list[m], source)
      BY ONLY <3>1, f = [k \in 1..n |-> BytesOf(b, sbn, list[k], source)]
    <3> QED BY ONLY <3>1, <3>2, m = Max(s), Zenon
  <2>2. [s \in SUBSET (1..n) |->
            IF s = {} THEN <<>> ELSE it[s \ {Max(s)}] \o BytesOf(b, sbn, list[Max(s)], source)]
        = [s \in SUBSET (1..n) |-> IF s = {} THEN <<>> ELSE it[s \ {Choose[s]}] \o f[Choose[s]]]
    BY ONLY <2>1
  <2> QED BY ONLY <2>2, Zenon DEF Joins, Joined
<1> PICK it : it = CHOOSE g : Joins(g)
  OBVIOUS
<1>7. BlockBytes(b, sbn, list, source) = it[1..n]
  BY DEF BlockBytes, FoldLeft, MapThenFoldSet
<1> HIDE DEF Joins
<1>8. \E g : Joins(g)
  BY ONLY <1>3, <1>5, <1>6, JoinedSolves
<1>9. Joined(it, f, 1..n, Choose)
  BY <1>6, <1>8
<1>10. Gathered(it[1..n], f, 1..n, 1..n)
  BY ONLY <1>3, <1>5, <1>9, JoinedIs
<1>11. UNION {Offsets(f[k]) : k \in 1..n} = BytesOfSymbols(b, sbn, Offsets(list), source)
  <2>1. UNION {Offsets(f[k]) : k \in 1..n} = UNION {BytesOfSymbols(b, sbn, R(k), source) : k \in 1..n}
    BY ONLY <1>2
  <2>2. \A e : e \in Offsets(list) <=> \E k \in 1..n : e \in R(k)
    BY InOffsets
  <2> HIDE DEF R
  <2>3. ASSUME NEW x
        PROVE  x \in UNION {BytesOfSymbols(b, sbn, R(k), source) : k \in 1..n}
                 <=> x \in BytesOfSymbols(b, sbn, Offsets(list), source)
    <3>1. \A S : x \in BytesOfSymbols(b, sbn, S, source)
                    <=> \E e \in S : x \in WholeBytes(b, sbn, e, source)
      BY ONLY Zenon DEF BytesOfSymbols
    <3>2. x \in UNION {BytesOfSymbols(b, sbn, R(k), source) : k \in 1..n}
            <=> \E k \in 1..n : x \in BytesOfSymbols(b, sbn, R(k), source)
      BY ONLY Zenon
    <3> QED BY ONLY <2>2, <3>1, <3>2, Zenon
  <2> QED BY ONLY <2>1, <2>3, Zenon
<1> QED BY ONLY <1>4, <1>7, <1>10, <1>11 DEF Gathered

\* Lists of symbols of blocks.
SymbolLists(er, b, source) ==
  /\ InLists(er) /\ DOMAIN er \subseteq Blocks(b)
  /\ \A s \in DOMAIN er : Offsets(er[s]) \subseteq ESIs(b, s, source)

AllBytes(b, er, source) ==
  UNION {BytesOfSymbols(b, s, Offsets(er[s]), source) : s \in DOMAIN er}

\* ToRangeList lists the bytes of all symbols.
LEMMA ToRangeListIs ==
  ASSUME NEW b \in Structures, NEW source \in BOOLEAN, NEW er, SymbolLists(er, b, source)
  PROVE  /\ ToRangeList(b, er, source) \in Seq(RangeType)
         /\ Normal(ToRangeList(b, er, source))
         /\ Offsets(ToRangeList(b, er, source)) = AllBytes(b, er, source)
<1> PICK D : D = DOMAIN er
  OBVIOUS
<1> PICK f : f = [s \in D |-> BlockBytes(b, s, er[s], source)]
  OBVIOUS
<1>1. ASSUME NEW s \in D
      PROVE  /\ er[s] \in Seq(RangeType) /\ Apart(er[s], 0) /\ er[s] # <<>> /\ s \in Blocks(b)
             /\ Offsets(er[s]) \subseteq ESIs(b, s, source)
  BY DEF SymbolLists, InLists
<1>2. ASSUME NEW s \in D
      PROVE  /\ f[s] \in Seq(RangeType) /\ Scattered(f[s])
             /\ Offsets(f[s]) = BytesOfSymbols(b, s, Offsets(er[s]), source)
  <2>1. f[s] = BlockBytes(b, s, er[s], source)
    OBVIOUS
  <2> QED BY ONLY <1>1, <2>1, s \in D, b \in Structures, source \in BOOLEAN, BlockBytesIs
<1>3. AllLists(f, D)
  BY ONLY <1>2 DEF AllLists
<1>4. Spread(f, D)
  <2>1. ASSUME NEW s \in D, NEW t \in D, s # t
        PROVE  Offsets(f[s]) \cap Offsets(f[t]) = {}
    <3>1. /\ s \in Blocks(b) /\ t \in Blocks(b)
          /\ Offsets(er[s]) \in SUBSET ESIs(b, s, source)
          /\ Offsets(er[t]) \in SUBSET ESIs(b, t, source)
      BY <1>1
    <3>2. BytesOfSymbols(b, s, Offsets(er[s]), source) \cap
            BytesOfSymbols(b, t, Offsets(er[t]), source) = {}
      BY ONLY <2>1, <3>1, b \in Structures, source \in BOOLEAN, BytesOfSets
    <3> QED BY ONLY <1>2, <3>2, s \in D, t \in D, Zenon
  <2> QED BY ONLY <1>2, <2>1 DEF Spread
<1> PICK Choose : Choose = [s \in SUBSET D |-> CHOOSE x \in s : TRUE]
  OBVIOUS
<1>5. /\ Choosing(Choose, D) /\ IsFiniteSet(D)
      /\ \A s \in SUBSET D : s # {} =>
            Choose[s] = (CHOOSE x \in s : TRUE) /\ (CHOOSE x \in s : TRUE) \in D
  <2>1. \A s \in SUBSET D : s # {} =>
           Choose[s] = (CHOOSE x \in s : TRUE) /\ (CHOOSE x \in s : TRUE) \in s
    OBVIOUS
  <2>2. IsFiniteSet(D)
    <3> PICK n \in Nat : n = b.N
      BY StructuresAssumption DEF AtRest
    <3>1. IsFiniteSet(Blocks(b)) /\ D \subseteq Blocks(b)
      <4>1. IsFiniteSet(0..(n - 1))
        BY ONLY n \in Nat, n - 1 \in Int, 0 \in Int, FS_Interval
      <4> QED BY <1>1, <4>1 DEF Blocks
    <3> QED BY ONLY <3>1, FS_Subset
  <2> QED BY ONLY <2>1, <2>2 DEF Choosing
<1> DEFINE bytes(s) == IF er[s] = <<>>
                       THEN <<Interval(OffsetOf(b, s, source), OffsetOf(b, s, source) +
                                (IF source THEN SrcBlockSize(b, s)
                                 ELSE (b.MaxNumEs - b.MaxSbLen) * b.ESLen) - 1)>>
                       ELSE BlockBytes(b, s, er[s], source)
           Joins(it) == it = [s \in SUBSET D |->
              IF s = {} THEN <<>>
              ELSE it[s \ {CHOOSE x \in s : TRUE}] \o bytes(CHOOSE x \in s : TRUE)]
<1>6. ASSUME NEW it PROVE Joins(it) <=> Joined(it, f, D, Choose)
  <2>1. ASSUME NEW s \in SUBSET D, s # {}
        PROVE  it[s \ {CHOOSE x \in s : TRUE}] \o bytes(CHOOSE x \in s : TRUE)
                 = it[s \ {Choose[s]}] \o f[Choose[s]]
    <3> PICK m : m = CHOOSE x \in s : TRUE
      OBVIOUS
    <3>1. Choose[s] = m /\ m \in D
      BY ONLY <1>5, <2>1, s \in SUBSET D, m = CHOOSE x \in s : TRUE
    <3>2. f[m] = bytes(m)
      BY ONLY <1>1, <3>1, f = [t \in D |-> BlockBytes(b, t, er[t], source)]
    <3> HIDE DEF bytes
    <3> QED BY ONLY <3>1, <3>2, m = CHOOSE x \in s : TRUE, Zenon
  <2> HIDE DEF bytes
  <2>2. [s \in SUBSET D |->
            IF s = {} THEN <<>>
            ELSE it[s \ {CHOOSE x \in s : TRUE}] \o bytes(CHOOSE x \in s : TRUE)]
        = [s \in SUBSET D |-> IF s = {} THEN <<>> ELSE it[s \ {Choose[s]}] \o f[Choose[s]]]
    BY ONLY <2>1
  <2> QED BY ONLY <2>2, Zenon DEF Joins, Joined
<1> PICK it : it = CHOOSE g : Joins(g)
  OBVIOUS
<1>7. ToRangeList(b, er, source) = Flatten(it[D])
  BY ZenonT(30) DEF ToRangeList, BlockBytes, FoldSet, MapThenFoldSet
<1> HIDE DEF Joins
<1>8. \E g : Joins(g)
  BY ONLY <1>3, <1>5, <1>6, JoinedSolves
<1>9. Joined(it, f, D, Choose)
  BY <1>6, <1>8
<1>10. Gathered(it[D], f, D, D)
  BY ONLY <1>3, <1>5, <1>9, JoinedIs
<1>11. it[D] \in Seq(RangeType) /\ Scattered(it[D]) /\ Offsets(it[D]) = AllBytes(b, er, source)
  <2>1. UNION {Offsets(f[s]) : s \in D} = AllBytes(b, er, source)
    BY ONLY <1>2, D = DOMAIN er DEF AllBytes
  <2> QED BY ONLY <1>4, <1>10, <2>1, Zenon DEF Gathered
<1>12. Normal(Flatten(it[D]))
  BY ONLY <1>11, FlattenScattered
<1>13. Flatten(it[D]) \in Seq(RangeType) /\ Offsets(Flatten(it[D])) = Offsets(it[D])
  BY ONLY <1>11, FlattenOffsets
<1> QED BY ONLY <1>7, <1>11, <1>12, <1>13, Zenon

\* Within the object these are the bytes that the symbols have, and behind it
\* there is less than a symbol.
LEMMA AllBytesIs ==
  ASSUME NEW b \in Structures, NEW source \in BOOLEAN, NEW er, SymbolLists(er, b, source)
  PROVE  /\ AllBytes(b, er, source) \cap 0..(OffsetOf(b, b.N, source) - 1)
              = BytesOfESIs(b, er, source)
         /\ \A x \in AllBytes(b, er, source) :
               x \in Int /\ 0 <= x /\ x < OffsetOf(b, b.N, source) + b.ESLen - 1
<1> PICK n \in Nat, L \in Nat \ {0} : n = b.N /\ L = b.ESLen
  BY StructuresAssumption DEF AtRest
<1> PICK top \in Nat : top = OffsetOf(b, b.N, source)
  BY n \in 0..b.N, BlocksRise
<1>1. ASSUME NEW s \in DOMAIN er
      PROVE  s \in Blocks(b) /\ Offsets(er[s]) \subseteq ESIs(b, s, source)
  BY DEF SymbolLists
<1>2. ASSUME NEW s \in Blocks(b), NEW e \in ESIs(b, s, source)
      PROVE  /\ WholeBytes(b, s, e, source) \cap 0..(top - 1) = SymbolBytes(b, s, e, source)
             /\ \A x \in WholeBytes(b, s, e, source) : x \in Int /\ 0 <= x /\ x < top + L - 1
  <2> PICK W, next, o : W = WholeBytes(b, s, e, source) /\ next = OffsetOf(b, s + 1, source)
                        /\ o = OffsetOf(b, s, source)
    OBVIOUS
  <2>1. /\ \A x \in W : /\ x \in Int /\ o <= x
                        /\ ~source \/ s # n - 1 => x < next
                        /\ x < next + L - 1
        /\ SymbolBytes(b, s, e, source) = W \cap 0..(next - 1)
    BY WholeBytesIs
  <2>2. o \in Nat /\ next \in Nat /\ next <= top /\ (s = n - 1 => next = top)
    <3>1. s \in 0..(n - 1)
      BY DEF Blocks
    <3>2. s \in 0..n /\ s + 1 \in 0..n /\ n \in 0..n /\ s + 1 <= n /\ (s = n - 1 => s + 1 = n)
      BY ONLY <3>1, n \in Nat
    <3> QED BY <3>2, BlocksRise
  <2>3. \A x \in W : x \in Int /\ 0 <= x /\ x < top + L - 1
    BY ONLY <2>1, <2>2, top \in Nat, L \in Nat \ {0}
  <2>4. W \cap 0..(top - 1) = W \cap 0..(next - 1)
    <3>1. ASSUME NEW x \in W PROVE x \in 0..(top - 1) <=> x \in 0..(next - 1)
      BY ONLY <2>1, <2>2, <3>1, top \in Nat, source \in BOOLEAN, n \in Nat
    <3> QED BY ONLY <3>1
  <2> QED BY ONLY <2>1, <2>3, <2>4, W = WholeBytes(b, s, e, source)
<1>3. ASSUME NEW x
      PROVE  x \in AllBytes(b, er, source) <=>
         \E s \in DOMAIN er : \E e \in Offsets(er[s]) : x \in WholeBytes(b, s, e, source)
  <2>1. x \in AllBytes(b, er, source) <=>
         \E s \in DOMAIN er : x \in BytesOfSymbols(b, s, Offsets(er[s]), source)
    BY ONLY Zenon DEF AllBytes
  <2>2. ASSUME NEW s
        PROVE  x \in BytesOfSymbols(b, s, Offsets(er[s]), source) <=>
                 \E e \in Offsets(er[s]) : x \in WholeBytes(b, s, e, source)
    BY ONLY Zenon DEF BytesOfSymbols
  <2> QED BY ONLY <2>1, <2>2, Zenon
<1>4. ASSUME NEW x
      PROVE  x \in BytesOfESIs(b, er, source) <=>
         \E s \in DOMAIN er : \E e \in Offsets(er[s]) : x \in SymbolBytes(b, s, e, source)
  <2> DEFINE Of(s) == UNION {SymbolBytes(b, s, e, source) : e \in Offsets(er[s]) \cap ESIs(b, s, source)}
  <2>1. x \in BytesOfESIs(b, er, source) <=> \E s \in DOMAIN er : x \in Of(s)
    <3>1. BytesOfESIs(b, er, source) = UNION {Of(s) : s \in DOMAIN er}
      BY DEF BytesOfESIs
    <3> HIDE DEF Of
    <3> QED BY ONLY <3>1, Zenon
  <2>2. ASSUME NEW s \in DOMAIN er
        PROVE  x \in Of(s) <=> \E e \in Offsets(er[s]) : x \in SymbolBytes(b, s, e, source)
    <3>1. Offsets(er[s]) \cap ESIs(b, s, source) = Offsets(er[s])
      BY <1>1
    <3>2. Of(s) = UNION {SymbolBytes(b, s, e, source) : e \in Offsets(er[s])}
      BY ONLY <3>1, Zenon
    <3> HIDE DEF Of
    <3> QED BY ONLY <3>2, Zenon
  <2> HIDE DEF Of
  <2> QED BY ONLY <2>1, <2>2, Zenon
<1>5. ASSUME NEW s \in DOMAIN er, NEW e \in Offsets(er[s])
      PROVE  /\ WholeBytes(b, s, e, source) \cap 0..(top - 1) = SymbolBytes(b, s, e, source)
             /\ \A x \in WholeBytes(b, s, e, source) : x \in Int /\ 0 <= x /\ x < top + L - 1
  BY <1>1, <1>2
<1>6. AllBytes(b, er, source) \cap 0..(top - 1) = BytesOfESIs(b, er, source)
  BY ONLY <1>3, <1>4, <1>5
<1>7. \A x \in AllBytes(b, er, source) : x \in Int /\ 0 <= x /\ x < top + L - 1
  BY ONLY <1>3, <1>5
<1> QED BY ONLY <1>6, <1>7, top = OffsetOf(b, b.N, source), L = b.ESLen

=============================================================================
