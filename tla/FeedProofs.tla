----------------------------- MODULE FeedProofs -----------------------------
(* Safety of Feed for any finite number of goroutines and subscriptions and *)
(* any number of channels and Sends: types, locks, the accounting of cases, *)
(* and no delivery after the end of a subscription.                         *)
EXTENDS Feed, ListLemmas

-----------------------------------------------------------------------------
(* Case lists *)

\* What Find returns.
LEMMA FindIsCase ==
  ASSUME NEW S, NEW cs \in Seq(S), NEW c
  PROVE  /\ Find(cs, c) \in 0..Len(cs)
         /\ Find(cs, c) # 0 => cs[Find(cs, c)].ch = c
         /\ Find(cs, c) = 0 => \A k \in 1..Len(cs) : cs[k].ch # c
<1> DEFINE I == {k \in 1..Len(cs) : cs[k].ch = c}
<1>1. Find(cs, c) = IF I # {} THEN Min(I) ELSE 0
  BY DEF Find, SelectInSeq
<1>2. CASE I # {}
  <2>1. PICK m \in I : \A k \in I : m <= k
    <3>1. I \in SUBSET Nat
      OBVIOUS
    <3> HIDE DEF I
    <3> QED BY <1>2, <3>1, LeastElement
  <2>2. Min(I) \in I
    BY <2>1 DEF Min
  <2> QED BY <1>1, <1>2, <2>2
<1>3. CASE I = {}
  BY <1>1, <1>3
<1> QED BY <1>2, <1>3

LEMMA CaseListChannels ==
  ASSUME NEW cs, IsCaseList(cs), NEW k \in 2..Len(cs)
  PROVE  cs[k].ch \in Channels /\ cs[k].send \in 0..MaxSends
BY DEF IsCaseList, Cases

LEMMA DeleteCase ==
  ASSUME NEW cs, IsCaseList(cs), NEW c \in Channels
  PROVE  /\ IsCaseList(Delete(cs, c))
         /\ Find(cs, c) # 0 => Find(cs, c) >= 2 /\ Len(Delete(cs, c)) = Len(cs) - 1
         /\ Find(cs, c) = 0 => Delete(cs, c) = cs
<1> DEFINE k == Find(cs, c)
           S == Cases \cup {Case(RemoveSub)}
<1>1. cs \in Seq(S) /\ k \in 0..Len(cs) /\ (k # 0 => cs[k].ch = c)
  BY FindIsCase DEF IsCaseList
<1>2. k # 1
  BY <1>1, FeedAssumption DEF IsCaseList, Case
<1>3. Delete(cs, c) = RemoveAt(cs, k)
  BY DEF Delete
<1>4. CASE k = 0
  BY <1>1, <1>3, <1>4 DEF RemoveAt, IsCaseList
<1>5. CASE k # 0
  <2> HIDE DEF k
  <2>1. k \in 2..Len(cs)
    BY <1>1, <1>2, <1>5 DEF IsCaseList
  <2>2. /\ RemoveAt(cs, k) \in Seq(S)
        /\ Len(RemoveAt(cs, k)) = Len(cs) - 1
        /\ \A j \in 1..(Len(cs) - 1) : RemoveAt(cs, k)[j] = IF j < k THEN cs[j] ELSE cs[j + 1]
    <3>1. cs \in Seq(S) /\ k \in 1..Len(cs)
      BY <1>1, <2>1
    <3> HIDE DEF S
    <3> QED BY <3>1, RemoveAtProperties
  <2>3. IsCaseList(RemoveAt(cs, k))
    BY SMTT(30), <2>1, <2>2 DEF IsCaseList
  <2> QED BY <1>3, <2>1, <2>2, <2>3 DEF k
<1> QED BY <1>4, <1>5

LEMMA DeactivateCase ==
  ASSUME NEW cs, IsCaseList(cs), NEW n \in 2..Len(cs), NEW k \in 2..n
  PROVE  IsCaseList(Deactivate(cs, k, n)) /\ Len(Deactivate(cs, k, n)) = Len(cs)
BY SMTT(30) DEF IsCaseList, Deactivate

LEMMA WithSendCase ==
  ASSUME NEW cs, IsCaseList(cs), NEW v \in 0..MaxSends
  PROVE  IsCaseList(WithSend(cs, v)) /\ Len(WithSend(cs, v)) = Len(cs)
<1>1. cs \in Seq(Cases \cup {Case(RemoveSub)}) /\ DOMAIN cs = 1..Len(cs) /\ Len(cs) \in Nat
  BY DEF IsCaseList
<1>2. \A k \in 2..Len(cs) : [cs[k] EXCEPT !.send = v] \in Cases
  BY <1>1 DEF IsCaseList, Cases
<1>3. WithSend(cs, v) \in [1..Len(cs) -> Cases \cup {Case(RemoveSub)}]
  BY <1>1, <1>2 DEF WithSend, IsCaseList
<1>4. Len(WithSend(cs, v)) = Len(cs)
  BY <1>1, <1>3
<1> QED BY <1>1, <1>2, <1>3, <1>4 DEF WithSend, IsCaseList

LEMMA MergeCase ==
  ASSUME NEW cs, IsCaseList(cs), NEW ib \in Seq({Case(c) : c \in Channels})
  PROVE  IsCaseList(cs \o ib) /\ Len(cs \o ib) = Len(cs) + Len(ib)
<1>1. \A c \in Channels : Case(c) \in Cases
  BY FeedAssumption DEF Case, Cases, NoValue
<1>2. ib \in Seq(Cases)
  BY <1>1
<1> HIDE DEF Case, Cases
<1> QED BY <1>2 DEF IsCaseList

LEMMA EmptyNotCaseList == ~IsCaseList(<<>>) /\ IsCaseList(<<Case(RemoveSub)>>)
BY DEF IsCaseList

-----------------------------------------------------------------------------
(* Counting the cases of a channel *)

Positions(cs, c) == {k \in DOMAIN cs : cs[k].ch = c}

LEMMA CountType ==
  ASSUME NEW S, NEW cs \in Seq(S), NEW c
  PROVE  /\ IsFiniteSet(Positions(cs, c))
         /\ CountIn(cs, c) = Cardinality(Positions(cs, c))
         /\ CountIn(cs, c) \in Nat
         /\ CountIn(cs, c) > 0 <=> \E k \in 1..Len(cs) : cs[k].ch = c
         /\ CountIn(cs, c) > 0 <=> Find(cs, c) # 0
<1>1. Positions(cs, c) \in SUBSET (1..Len(cs)) /\ IsFiniteSet(1..Len(cs))
  BY FS_Interval DEF Positions
<1>2. IsFiniteSet(Positions(cs, c))
  BY <1>1, FS_Subset
<1>3. Cardinality(Positions(cs, c)) \in Nat
  BY <1>2, FS_CardinalityType
<1>4. Cardinality(Positions(cs, c)) = 0 <=> Positions(cs, c) = {}
  BY <1>2, FS_EmptySet
<1>5. Positions(cs, c) # {} <=> \E k \in 1..Len(cs) : cs[k].ch = c
  BY DEF Positions
<1>6. Positions(cs, c) # {} <=> Find(cs, c) # 0
  BY <1>5, FindIsCase
<1> QED BY <1>2, <1>3, <1>4, <1>5, <1>6 DEF CountIn, Positions

LEMMA CountEmpty ==
  ASSUME NEW c
  PROVE  CountIn(<<>>, c) = 0
<1>1. {k \in DOMAIN <<>> : <<>>[k].ch = c} = {}
  OBVIOUS
<1> QED BY <1>1, FS_EmptySet DEF CountIn

\* Two lists whose cases of c correspond have as many of them.
LEMMA CountBijection ==
  ASSUME NEW S, NEW a \in Seq(S), NEW T, NEW c, NEW f \in Bijection(Positions(a, c), T)
  PROVE  Cardinality(T) = CountIn(a, c) /\ IsFiniteSet(T)
<1>1. ExistsBijection(Positions(a, c), T)
  BY DEF ExistsBijection
<1> QED BY <1>1, CountType, FS_Bijection

LEMMA CountAppend ==
  ASSUME NEW S, NEW cs \in Seq(S), NEW x \in S, NEW c
  PROVE  CountIn(Append(cs, x), c) = CountIn(cs, c) + (IF x.ch = c THEN 1 ELSE 0)
<1>1. Positions(Append(cs, x), c) =
        IF x.ch = c THEN Positions(cs, c) \cup {Len(cs) + 1} ELSE Positions(cs, c)
  BY DEF Positions
<1>2. Len(cs) + 1 \notin Positions(cs, c)
  BY DEF Positions
<1>3. Append(cs, x) \in Seq(S)
  OBVIOUS
<1>4. Cardinality(Positions(cs, c) \cup {Len(cs) + 1}) = Cardinality(Positions(cs, c)) + 1
  BY <1>2, CountType, FS_AddElement
<1>5. CountIn(Append(cs, x), c) = Cardinality(Positions(Append(cs, x), c))
  BY <1>3, CountType
<1> QED BY <1>1, <1>4, <1>5, CountType

LEMMA CountRemoveAt ==
  ASSUME NEW S, NEW cs \in Seq(S), NEW k \in 1..Len(cs), NEW c
  PROVE  CountIn(RemoveAt(cs, k), c) = CountIn(cs, c) - (IF cs[k].ch = c THEN 1 ELSE 0)
<1> DEFINE I == Positions(cs, c) \ {k}
           J == Positions(RemoveAt(cs, k), c)
           f == [j \in I |-> IF j < k THEN j ELSE j - 1]
<1>1. /\ RemoveAt(cs, k) \in Seq(S)
      /\ Len(RemoveAt(cs, k)) = Len(cs) - 1
      /\ \A j \in 1..(Len(cs) - 1) : RemoveAt(cs, k)[j] = IF j < k THEN cs[j] ELSE cs[j + 1]
  BY RemoveAtProperties
<1>2. I \subseteq (1..Len(cs)) \ {k} /\ J \subseteq 1..(Len(cs) - 1)
  BY <1>1 DEF Positions
<1>3. f \in [I -> J]
  <2> SUFFICES ASSUME NEW j \in I PROVE (IF j < k THEN j ELSE j - 1) \in J
    OBVIOUS
  <2>1. j \in 1..Len(cs) /\ j # k /\ cs[j].ch = c
    BY DEF Positions
  <2>2. CASE j < k
    BY <1>1, <2>1, <2>2 DEF Positions
  <2>3. CASE ~(j < k)
    <3>1. j - 1 \in 1..(Len(cs) - 1) /\ ~(j - 1 < k) /\ (j - 1) + 1 = j
      BY <2>1, <2>3
    <3>2. RemoveAt(cs, k)[j - 1] = cs[j]
      BY <1>1, <3>1
    <3> QED BY <1>1, <2>1, <2>3, <3>1, <3>2 DEF Positions
  <2> QED BY <2>2, <2>3
<1>4. \A i, j \in I : f[i] = f[j] => i = j
  BY <1>2
<1>5. \A j \in J : \E i \in I : f[i] = j
  <2> SUFFICES ASSUME NEW j \in J PROVE \E i \in I : f[i] = j
    OBVIOUS
  <2>1. j < k => j \in I /\ f[j] = j
    BY <1>1, <1>2 DEF Positions
  <2>2. ~(j < k) => j + 1 \in I /\ f[j + 1] = j
    BY SMTT(30), <1>1, <1>2 DEF Positions
  <2> QED BY <2>1, <2>2
<1>6. f \in Bijection(I, J)
  <2> HIDE DEF f, I, J
  <2> QED BY <1>3, <1>4, <1>5 DEF Bijection, Injection, Surjection, IsInjective
<1>7. IsFiniteSet(I) /\ Cardinality(I) = CountIn(cs, c) - (IF cs[k].ch = c THEN 1 ELSE 0)
  <2>1. k \in Positions(cs, c) <=> cs[k].ch = c
    BY DEF Positions
  <2> QED BY <2>1, CountType, FS_RemoveElement
<1>8. Cardinality(J) = Cardinality(I)
  <2> HIDE DEF f, I, J
  <2> QED BY <1>6, <1>7, FS_Bijection DEF ExistsBijection
<1> QED BY <1>1, <1>7, <1>8, CountType

LEMMA CountConcat ==
  ASSUME NEW S, NEW a \in Seq(S), NEW b \in Seq(S), NEW c
  PROVE  CountIn(a \o b, c) = CountIn(a, c) + CountIn(b, c)
<1> DEFINE I == Positions(a, c)
           J == Positions(b, c)
           K == {Len(a) + j : j \in J}
           f == [j \in J |-> Len(a) + j]
<1>1. /\ a \o b \in Seq(S)
      /\ Len(a \o b) = Len(a) + Len(b)
      /\ \A i \in 1..(Len(a) + Len(b)) :
            (a \o b)[i] = IF i <= Len(a) THEN a[i] ELSE b[i - Len(a)]
  BY ConcatProperties
<1>2. Len(a) \in Nat /\ Len(b) \in Nat /\ I \subseteq 1..Len(a) /\ J \subseteq 1..Len(b)
  BY DEF Positions
<1>3. Positions(a \o b, c) = I \cup K
  <2>1. ASSUME NEW i \in I PROVE i \in Positions(a \o b, c)
    BY <1>1, <1>2, <2>1 DEF Positions
  <2>2. ASSUME NEW j \in J PROVE Len(a) + j \in Positions(a \o b, c)
    <3>1. /\ Len(a) + j \in 1..(Len(a) + Len(b))
          /\ ~(Len(a) + j <= Len(a))
          /\ (Len(a) + j) - Len(a) = j
      BY <1>2
    <3>2. (a \o b)[Len(a) + j] = b[j]
      BY <1>1, <3>1
    <3> QED BY <1>1, <3>1, <3>2 DEF Positions
  <2>3. ASSUME NEW i \in Positions(a \o b, c) PROVE i \in I \cup K
    <3>1. i \in 1..(Len(a) + Len(b)) /\ (a \o b)[i].ch = c
      BY <1>1 DEF Positions
    <3>2. CASE i <= Len(a)
      BY <1>1, <1>2, <3>1, <3>2 DEF Positions
    <3>3. CASE ~(i <= Len(a))
      <4>1. i - Len(a) \in 1..Len(b) /\ i = Len(a) + (i - Len(a))
        BY <1>2, <3>1, <3>3
      <4>2. b[i - Len(a)].ch = c
        BY <1>1, <3>1, <3>3
      <4>3. i - Len(a) \in J
        BY <4>1, <4>2 DEF Positions
      <4> QED BY <4>1, <4>3
    <3> QED BY <3>2, <3>3
  <2> QED BY <2>1, <2>2, <2>3
<1>4. I \cap K = {}
  BY <1>2
<1>5. f \in Bijection(J, K)
  <2>1. f \in [J -> K] /\ \A k \in K : \E j \in J : f[j] = k
    OBVIOUS
  <2>2. \A i, j \in J : f[i] = f[j] => i = j
    BY <1>2
  <2> HIDE DEF f, J, K
  <2> QED BY <2>1, <2>2 DEF Bijection, Injection, Surjection, IsInjective
<1>6. Cardinality(K) = CountIn(b, c) /\ IsFiniteSet(K)
  <2> HIDE DEF f, K
  <2> QED BY <1>5, CountBijection
<1>7. Cardinality(I) = CountIn(a, c) /\ IsFiniteSet(I)
  BY CountType
<1>8. Cardinality(I \cup K) = Cardinality(I) + Cardinality(K)
  <2> HIDE DEF I, K
  <2>1. CountIn(a, c) \in Nat /\ CountIn(b, c) \in Nat
    BY CountType
  <2>2. Cardinality({}) = 0
    BY FS_EmptySet
  <2>3. Cardinality(I \cup K) = Cardinality(I) + Cardinality(K) - Cardinality(I \cap K)
    BY <1>6, <1>7, FS_Union
  <2>4. Cardinality(I \cap K) = 0
    BY <1>4, <2>2
  <2>5. Cardinality(I) \in Nat /\ Cardinality(K) \in Nat
    BY <1>6, <1>7, <2>1
  <2> QED BY <2>3, <2>4, <2>5
<1>9. CountIn(a \o b, c) = Cardinality(Positions(a \o b, c))
  BY <1>1, CountType
<1> QED BY <1>3, <1>6, <1>7, <1>8, <1>9

LEMMA CountDeactivate ==
  ASSUME NEW cs, IsCaseList(cs), NEW n \in 2..Len(cs), NEW k \in 2..n, NEW c
  PROVE  CountIn(Deactivate(cs, k, n), c) = CountIn(cs, c)
<1> DEFINE S == Cases \cup {Case(RemoveSub)}
           I == Positions(cs, c)
           J == Positions(Deactivate(cs, k, n), c)
           f == [j \in I |-> IF j = k THEN n ELSE IF j = n THEN k ELSE j]
<1>1. cs \in Seq(S) /\ Deactivate(cs, k, n) \in Seq(S)
      /\ Len(Deactivate(cs, k, n)) = Len(cs)
  BY DeactivateCase DEF IsCaseList
<1>2. \A j \in 1..Len(cs) :
        Deactivate(cs, k, n)[j] = IF j = n THEN cs[k] ELSE IF j = k THEN cs[n] ELSE cs[j]
  BY <1>1 DEF Deactivate
<1>3. \A j : j \in I <=> j \in 1..Len(cs) /\ cs[j].ch = c
  BY <1>1 DEF Positions
<1>4. \A j : j \in J <=> j \in 1..Len(cs) /\ Deactivate(cs, k, n)[j].ch = c
  BY <1>1 DEF Positions
<1>5. k \in 1..Len(cs) /\ n \in 1..Len(cs)
  BY <1>1
<1>6. f \in [I -> J]
  BY <1>2, <1>3, <1>4, <1>5
<1>7. \A i, j \in I : f[i] = f[j] => i = j
  OBVIOUS
<1>8. \A j \in J : \E i \in I : f[i] = j
  <2> SUFFICES ASSUME NEW j \in J PROVE \E i \in I : f[i] = j
    OBVIOUS
  <2>1. CASE j = n
    BY <1>2, <1>3, <1>4, <1>5, <2>1
  <2>2. CASE j = k /\ j # n
    BY <1>2, <1>3, <1>4, <1>5, <2>2
  <2>3. CASE j # k /\ j # n
    BY <1>2, <1>3, <1>4, <1>5, <2>3
  <2> QED BY <2>1, <2>2, <2>3
<1>9. f \in Bijection(I, J)
  <2> HIDE DEF f, I, J
  <2> QED BY <1>6, <1>7, <1>8 DEF Bijection, Injection, Surjection, IsInjective
<1>10. Cardinality(J) = CountIn(cs, c)
  <2> HIDE DEF f, J, S
  <2> QED BY <1>1, <1>9, CountBijection
<1> QED BY <1>1, <1>10, CountType

LEMMA CountWithSend ==
  ASSUME NEW cs, IsCaseList(cs), NEW v \in 0..MaxSends, NEW c
  PROVE  CountIn(WithSend(cs, v), c) = CountIn(cs, c)
<1>1. \A k \in DOMAIN cs : WithSend(cs, v)[k].ch = cs[k].ch
  <2> SUFFICES ASSUME NEW k \in DOMAIN cs PROVE WithSend(cs, v)[k].ch = cs[k].ch
    OBVIOUS
  <2>1. CASE k = 1
    BY <2>1 DEF WithSend
  <2>2. CASE k # 1
    <3>1. k \in 2..Len(cs)
      BY <2>2 DEF IsCaseList
    <3>2. cs[k] \in Cases
      BY <3>1 DEF IsCaseList
    <3> QED BY <2>2, <3>2 DEF WithSend, Cases
  <2> QED BY <2>1, <2>2
<1>2. DOMAIN WithSend(cs, v) = DOMAIN cs
  BY DEF WithSend
<1>3. {k \in DOMAIN WithSend(cs, v) : WithSend(cs, v)[k].ch = c} = {k \in DOMAIN cs : cs[k].ch = c}
  BY <1>1, <1>2
<1> QED BY <1>3 DEF CountIn

\* What delete(find(c)) does to the number of cases of every channel d.
LEMMA CountDelete ==
  ASSUME NEW cs, IsCaseList(cs), NEW c \in Channels, NEW d, Find(cs, c) # 0
  PROVE  CountIn(Delete(cs, c), d) = CountIn(cs, d) - (IF d = c THEN 1 ELSE 0)
<1> DEFINE S == Cases \cup {Case(RemoveSub)}
<1>1. cs \in Seq(S) /\ Find(cs, c) \in 1..Len(cs) /\ cs[Find(cs, c)].ch = c
  BY FindIsCase DEF IsCaseList
<1> HIDE DEF S
<1> QED BY <1>1, CountRemoveAt DEF Delete

-----------------------------------------------------------------------------
(* The prefix of the case list that a running Send owns *)

Prefix(cs, n) == SubSeq(cs, 1, n)

\* find() returns the first case of the channel, so it lies in the prefix as
\* soon as the prefix has a case of the channel.
LEMMA FindIsFirst ==
  ASSUME NEW S, NEW cs \in Seq(S), NEW c, NEW j \in 1..Len(cs), cs[j].ch = c
  PROVE  Find(cs, c) \in 1..j
<1> DEFINE I == {k \in 1..Len(cs) : cs[k].ch = c}
<1>1. Find(cs, c) = IF I # {} THEN Min(I) ELSE 0
  BY DEF Find, SelectInSeq
<1>2. PICK m \in I : \A k \in I : m <= k
  <2>1. I \in SUBSET Nat /\ I # {}
    OBVIOUS
  <2> HIDE DEF I
  <2> QED BY <2>1, LeastElement
<1>3. Min(I) \in I /\ \A k \in I : Min(I) <= k
  BY <1>2 DEF Min
<1> QED BY <1>1, <1>3

LEMMA PrefixCase ==
  ASSUME NEW cs, IsCaseList(cs), NEW n \in 1..Len(cs)
  PROVE  /\ IsCaseList(Prefix(cs, n))
         /\ Len(Prefix(cs, n)) = n
         /\ \A j \in 1..n : Prefix(cs, n)[j] = cs[j]
<1> DEFINE S == Cases \cup {Case(RemoveSub)}
<1>1. cs \in Seq(S) /\ Len(cs) \in Nat /\ DOMAIN cs = 1..Len(cs)
  BY DEF IsCaseList
<1>2. \A j \in 1..n : cs[j] \in S
  BY <1>1
<1>3. Prefix(cs, n) = [j \in 1..n |-> cs[j]]
  <2> HIDE DEF S
  <2> QED BY <1>1 DEF Prefix
<1>4. Prefix(cs, n) \in Seq(S) /\ Len(Prefix(cs, n)) = n
  <2> HIDE DEF S
  <2> QED BY <1>2, <1>3
<1> QED BY <1>1, <1>3, <1>4 DEF IsCaseList

\* Only the channels of the cases count.
LEMMA CountSame ==
  ASSUME NEW S, NEW a \in Seq(S), NEW b \in Seq(S), Len(a) = Len(b), NEW c,
         \A j \in 1..Len(a) : a[j].ch = b[j].ch
  PROVE  CountIn(a, c) = CountIn(b, c)
<1>1. {k \in DOMAIN a : a[k].ch = c} = {k \in DOMAIN b : b[k].ch = c}
  OBVIOUS
<1> QED BY <1>1 DEF CountIn

LEMMA PrefixWhole ==
  ASSUME NEW cs, IsCaseList(cs), NEW c
  PROVE  CountIn(Prefix(cs, Len(cs)), c) = CountIn(cs, c)
<1>1. Len(cs) \in 1..Len(cs) /\ cs \in Seq(Cases \cup {Case(RemoveSub)})
  BY DEF IsCaseList
<1>2. /\ Prefix(cs, Len(cs)) \in Seq(Cases \cup {Case(RemoveSub)})
      /\ Len(Prefix(cs, Len(cs))) = Len(cs)
      /\ \A j \in 1..Len(cs) : Prefix(cs, Len(cs))[j] = cs[j]
  BY <1>1, PrefixCase DEF IsCaseList
<1> QED BY <1>1, <1>2, CountSame

LEMMA PrefixBound ==
  ASSUME NEW cs, IsCaseList(cs), NEW n \in 1..Len(cs), NEW c
  PROVE  /\ CountIn(Prefix(cs, n), c) \in Nat
         /\ CountIn(Prefix(cs, n), c) <= CountIn(cs, c)
<1> DEFINE S == Cases \cup {Case(RemoveSub)}
<1>1. cs \in Seq(S) /\ Prefix(cs, n) \in Seq(S)
  BY PrefixCase DEF IsCaseList
<1>2. Positions(Prefix(cs, n), c) \subseteq Positions(cs, c)
  <2>1. DOMAIN Prefix(cs, n) = 1..n /\ DOMAIN cs = 1..Len(cs) /\ 1..n \subseteq 1..Len(cs)
    BY PrefixCase DEF IsCaseList
  <2> QED BY <2>1, PrefixCase DEF Positions
<1>3. /\ IsFiniteSet(Positions(cs, c))
      /\ CountIn(cs, c) = Cardinality(Positions(cs, c))
      /\ CountIn(Prefix(cs, n), c) = Cardinality(Positions(Prefix(cs, n), c))
      /\ CountIn(Prefix(cs, n), c) \in Nat
  <2> HIDE DEF S
  <2> QED BY <1>1, CountType
<1> QED BY <1>2, <1>3, FS_Subset

\* The prefix of length 1 is the case of removeSub.
LEMMA PrefixOfOne ==
  ASSUME NEW cs, IsCaseList(cs), NEW c \in Channels
  PROVE  CountIn(Prefix(cs, 1), c) = 0
<1>1. Len(cs) \in Nat /\ 1 \in 1..Len(cs) /\ cs[1] = Case(RemoveSub)
  BY DEF IsCaseList
<1>2. DOMAIN Prefix(cs, 1) = {1} /\ Prefix(cs, 1)[1] = Case(RemoveSub)
  <2>1. /\ IsCaseList(Prefix(cs, 1)) /\ Len(Prefix(cs, 1)) = 1
        /\ \A j \in 1..1 : Prefix(cs, 1)[j] = cs[j]
    BY <1>1, PrefixCase
  <2>2. DOMAIN Prefix(cs, 1) = 1..Len(Prefix(cs, 1))
    BY <2>1 DEF IsCaseList
  <2> QED BY <1>1, <2>1, <2>2
<1>3. {k \in DOMAIN Prefix(cs, 1) : Prefix(cs, 1)[k].ch = c} = {}
  BY <1>2, FeedAssumption DEF Case
<1> QED BY <1>3, FS_EmptySet DEF CountIn

\* cases = cases.deactivate(k): the prefix loses the case at k and no other.
LEMMA PrefixDeactivate ==
  ASSUME NEW cs, IsCaseList(cs), NEW n \in 2..Len(cs), NEW k \in 2..n, NEW c
  PROVE  CountIn(Prefix(Deactivate(cs, k, n), n - 1), c)
           = CountIn(Prefix(cs, n), c) - (IF cs[k].ch = c THEN 1 ELSE 0)
<1> DEFINE S == Cases \cup {Case(RemoveSub)}
           p == Prefix(cs, n)
           d == Deactivate(p, k, n)
           q == Prefix(Deactivate(cs, k, n), n - 1)
<1>1. Len(cs) \in Nat /\ n \in 1..Len(cs) /\ n - 1 \in 1..Len(cs)
  BY DEF IsCaseList
<1>2. IsCaseList(p) /\ Len(p) = n /\ \A j \in 1..n : p[j] = cs[j]
  BY <1>1, PrefixCase
<1>3. IsCaseList(d) /\ Len(d) = n /\ CountIn(d, c) = CountIn(p, c)
  <2> HIDE DEF p
  <2> QED BY <1>2, DeactivateCase, CountDeactivate
<1>4. \A j \in 1..n : d[j] = IF j = n THEN cs[k] ELSE IF j = k THEN cs[n] ELSE cs[j]
  BY <1>2 DEF Deactivate, IsCaseList
<1>5. /\ RemoveAt(d, n) \in Seq(S) /\ Len(RemoveAt(d, n)) = n - 1
      /\ \A j \in 1..(n - 1) : RemoveAt(d, n)[j] = d[j]
      /\ CountIn(RemoveAt(d, n), c) = CountIn(d, c) - (IF d[n].ch = c THEN 1 ELSE 0)
  <2>1. d \in Seq(S) /\ n \in 1..Len(d)
    BY <1>3 DEF IsCaseList
  <2> HIDE DEF S, d
  <2>2. /\ RemoveAt(d, n) \in Seq(S) /\ Len(RemoveAt(d, n)) = n - 1
        /\ \A j \in 1..(n - 1) : RemoveAt(d, n)[j] = IF j < n THEN d[j] ELSE d[j + 1]
    BY <1>3, <2>1, RemoveAtProperties
  <2>3. CountIn(RemoveAt(d, n), c) = CountIn(d, c) - (IF d[n].ch = c THEN 1 ELSE 0)
    BY <2>1, CountRemoveAt
  <2>4. n \in Nat
    BY <1>1
  <2> QED BY <2>2, <2>3, <2>4
<1>6. /\ q \in Seq(S) /\ Len(q) = n - 1
      /\ \A j \in 1..(n - 1) : q[j] = Deactivate(cs, k, n)[j]
  BY ZenonT(30), <1>1, DeactivateCase, PrefixCase DEF IsCaseList
<1>7. \A j \in 1..(n - 1) :
        Deactivate(cs, k, n)[j] = IF j = k THEN cs[n] ELSE cs[j]
  BY <1>1 DEF Deactivate, IsCaseList
<1> HIDE DEF S, p, d, q
<1>8. CountIn(q, c) = CountIn(RemoveAt(d, n), c)
  <2>1. \A j \in 1..(n - 1) : RemoveAt(d, n)[j].ch = q[j].ch
    BY <1>4, <1>5, <1>6, <1>7
  <2> QED BY <1>5, <1>6, <2>1, CountSame
<1>9. d[n] = cs[k]
  BY <1>4
<1> QED BY <1>3, <1>5, <1>8, <1>9 DEF p, q

\* The case that Send deletes is taken from the prefix if the prefix has one
\* of its channel, and every other case of the prefix stays in it.
LEMMA PrefixDelete ==
  ASSUME NEW cs, IsCaseList(cs), NEW n \in 1..Len(cs), NEW c \in Channels, Find(cs, c) # 0, NEW d
  PROVE  CountIn(Prefix(Delete(cs, c), Shrunk(n, Find(cs, c))), d)
           = CountIn(Prefix(cs, n), d)
               - (IF d = c /\ CountIn(Prefix(cs, n), c) > 0 THEN 1 ELSE 0)
<1> DEFINE S == Cases \cup {Case(RemoveSub)}
           k == Find(cs, c)
           p == Prefix(cs, n)
           q == Prefix(Delete(cs, c), Shrunk(n, k))
<1>1. /\ cs \in Seq(S) /\ Len(cs) \in Nat /\ k \in 2..Len(cs) /\ cs[k].ch = c
      /\ IsCaseList(Delete(cs, c)) /\ Len(Delete(cs, c)) = Len(cs) - 1
  BY FindIsCase, DeleteCase DEF IsCaseList
<1>2. \A j \in 1..(Len(cs) - 1) : Delete(cs, c)[j] = IF j < k THEN cs[j] ELSE cs[j + 1]
  <2>1. cs \in Seq(S) /\ k \in 1..Len(cs)
    BY <1>1
  <2> HIDE DEF S
  <2> QED BY <2>1, RemoveAtProperties DEF Delete
<1>3. IsCaseList(p) /\ Len(p) = n /\ \A j \in 1..n : p[j] = cs[j]
  BY PrefixCase
<1>4. CountIn(p, c) > 0 <=> k <= n
  <2>1. p \in Seq(S) /\ (CountIn(p, c) > 0 <=> \E j \in 1..n : p[j].ch = c)
    <3>1. p \in Seq(S)
      BY <1>3 DEF IsCaseList
    <3> HIDE DEF S, p
    <3> QED BY <1>3, <3>1, CountType
  <2>2. k <= n => \E j \in 1..n : p[j].ch = c
    BY <1>1, <1>3
  <2>3. ASSUME NEW j \in 1..n, p[j].ch = c PROVE k <= n
    <3>1. j \in 1..Len(cs) /\ cs[j].ch = c /\ cs \in Seq(S)
      BY <1>1, <1>3, <2>3
    <3>2. k \in 1..j
      <4> HIDE DEF S
      <4> QED BY <3>1, FindIsFirst
    <3> QED BY <3>2
  <2> QED BY <2>1, <2>2, <2>3
<1>5. Shrunk(n, k) \in 1..(Len(cs) - 1)
  BY <1>1 DEF Shrunk
<1>6. q \in Seq(S) /\ Len(q) = Shrunk(n, k) /\ \A j \in 1..Shrunk(n, k) : q[j] = Delete(cs, c)[j]
  BY <1>1, <1>5, PrefixCase DEF IsCaseList
<1>7. CASE k > n
  <2>1. Shrunk(n, k) = n /\ \A j \in 1..n : q[j].ch = p[j].ch
    BY <1>1, <1>2, <1>3, <1>5, <1>6, <1>7 DEF Shrunk
  <2>2. p \in Seq(S)
    BY <1>3 DEF IsCaseList
  <2>3. CountIn(q, d) = CountIn(p, d)
    <3> HIDE DEF S, p, q, k
    <3> QED BY <1>3, <1>6, <2>1, <2>2, CountSame
  <2>4. CountIn(p, d) \in Nat
    BY PrefixBound
  <2> QED BY <1>1, <1>4, <1>7, <2>3, <2>4
<1>8. CASE k <= n
  <2>1. p \in Seq(S) /\ k \in 1..Len(p)
    BY <1>1, <1>3, <1>8 DEF IsCaseList
  <2>2. /\ RemoveAt(p, k) \in Seq(S) /\ Len(RemoveAt(p, k)) = n - 1
        /\ \A j \in 1..(n - 1) : RemoveAt(p, k)[j] = IF j < k THEN p[j] ELSE p[j + 1]
        /\ CountIn(RemoveAt(p, k), d) = CountIn(p, d) - (IF p[k].ch = d THEN 1 ELSE 0)
    <3> HIDE DEF S, p, k
    <3> QED BY <1>3, <2>1, RemoveAtProperties, CountRemoveAt
  <2>3. Shrunk(n, k) = n - 1
    BY <1>8 DEF Shrunk
  <2>4. \A j \in 1..(n - 1) : RemoveAt(p, k)[j].ch = q[j].ch
    <3> SUFFICES ASSUME NEW j \in 1..(n - 1) PROVE RemoveAt(p, k)[j] = q[j]
      OBVIOUS
    <3>1. j \in 1..n /\ j + 1 \in 1..n /\ j \in 1..(Len(cs) - 1)
      BY <1>1
    <3> QED BY <1>2, <1>3, <1>6, <2>2, <2>3, <3>1
  <2>5. CountIn(q, d) = CountIn(RemoveAt(p, k), d)
    <3> HIDE DEF S, p, q, k
    <3> QED BY <1>6, <2>2, <2>3, <2>4, CountSame
  <2>6. p[k].ch = c
    BY <1>1, <1>3, <1>8
  <2> QED BY <1>4, <1>8, <2>2, <2>5, <2>6
<1> QED BY <1>1, <1>7, <1>8

-----------------------------------------------------------------------------
(* The inductive invariant behind TypeOK and LockDiscipline *)

\* What a goroutine knows at each place.
PlacesOK ==
  \A t \in Threads :
     /\ pc[t] \in Holding => sendCases # <<>>
     /\ pc[t] \in {"once", "unselect", "unlist", "handoff", "unlock", "close"} => sub[t] \in Subs
     /\ pc[t] = "drop" => recv[t] \in Channels
     /\ pc[t] \in Sending => cases[t] \in 1..Len(sendCases)
     /\ pc[t] = "try" => idx[t] >= 2

Inv1 == TypeOK /\ LockDiscipline /\ PlacesOK

LEMMA PlaceNames ==
  /\ "idle" \in Places /\ "once" \in Places /\ "unselect" \in Places
  /\ "unlist" \in Places /\ "handoff" \in Places /\ "unlock" \in Places /\ "close" \in Places
  /\ "acquire" \in Places /\ "merge" \in Places /\ "try" \in Places
  /\ "select" \in Places /\ "drop" \in Places /\ "release" \in Places
BY DEF Places, Holding

LEMMA InitInv1 == Init => Inv1
<1> SUFFICES ASSUME Init PROVE Inv1
  OBVIOUS
<1>1. TypeOK
  BY FeedAssumption DEF Init, TypeOK, ListsOK, UsersOK, ThreadsOK, Places, NoValue
<1>2. LockDiscipline
  BY FeedAssumption DEF Init, LockDiscipline, Holding
<1>3. PlacesOK
  BY DEF Init, PlacesOK, Holding, Sending
<1> QED BY <1>1, <1>2, <1>3 DEF Inv1

LEMMA InitOnceInv1 ==
  ASSUME Inv1, InitOnce
  PROVE  /\ IsCaseList(sendCases')
         /\ sendCases' # <<>>
         /\ sendLock' \in {0, 1}
         /\ (sendLock' = 1) <=> (\A t \in Threads : pc[t] \notin Holding)
         /\ sendCases # <<>> => sendCases' = sendCases
<1>1. CASE sendCases = <<>>
  BY <1>1, EmptyNotCaseList DEF Inv1, InitOnce, LockDiscipline, PlacesOK
<1>2. CASE sendCases # <<>>
  BY <1>2, EmptyNotCaseList DEF Inv1, InitOnce, LockDiscipline, TypeOK, ListsOK
<1> QED BY <1>1, <1>2

LEMMA SubscribeInv1 ==
  ASSUME Inv1, NEW t \in Threads, NEW s \in Subs, Subscribe(t, s)
  PROVE  Inv1'
<1> USE FeedAssumption
<1>1. IsCaseList(sendCases') /\ sendCases' # <<>> /\ sendLock' \in {0, 1}
  BY InitOnceInv1 DEF Subscribe
<1>2. inbox' \in Seq({Case(c) : c \in Channels})
  BY DEF Subscribe, Inv1, TypeOK, ListsOK
<1>3. UsersOK' /\ ThreadsOK'
  BY DEF Subscribe, Inv1, TypeOK, UsersOK, ThreadsOK, userVars, sendVars
<1>4. TypeOK'
  BY <1>1, <1>2, <1>3 DEF Subscribe, Inv1, TypeOK, ListsOK
<1>5. LockDiscipline'
  BY InitOnceInv1 DEF Subscribe, Inv1, LockDiscipline
<1>6. PlacesOK'
  BY InitOnceInv1 DEF Subscribe, Inv1, PlacesOK, sendVars, Holding, Sending
<1> QED BY <1>4, <1>5, <1>6 DEF Inv1

LEMMA UnsubscribeInv1 ==
  ASSUME Inv1, NEW t \in Threads, NEW s \in Subs, Unsubscribe(t, s)
  PROVE  Inv1'
<1> USE FeedAssumption
<1>1. inbox' \in Seq({Case(c) : c \in Channels})
  <2> DEFINE S == {Case(c) : c \in Channels}
  <2>1. inbox \in Seq(S)
    BY DEF Inv1, TypeOK, ListsOK
  <2>2. InInbox(s) \in 0..Len(inbox)
    BY <2>1, FindIsCase DEF InInbox
  <2>3. InInbox(s) # 0 => RemoveAt(inbox, InInbox(s)) \in Seq(S)
    <3> HIDE DEF S
    <3> QED BY <2>1, <2>2, RemoveAtProperties
  <2> QED BY <2>1, <2>3 DEF Unsubscribe
<1>2. UsersOK'
  BY DEF Unsubscribe, Inv1, TypeOK, UsersOK, userVars
<1>3. ThreadsOK'
  BY PlaceNames DEF Unsubscribe, Inv1, TypeOK, ThreadsOK, sendVars
<1>4. TypeOK'
  BY <1>1, <1>2, <1>3 DEF Unsubscribe, Inv1, TypeOK, ListsOK
<1>5. /\ pc[t] = "idle" /\ pc'[t] \in {"close", "unselect"}
      /\ \A u \in Threads : u # t => pc'[u] = pc[u] /\ sub'[u] = sub[u]
      /\ sub'[t] = s
  BY DEF Unsubscribe, Inv1, TypeOK, ThreadsOK
<1>6. LockDiscipline'
  BY <1>5 DEF Unsubscribe, Inv1, LockDiscipline, Holding
<1>7. PlacesOK'
  BY <1>5 DEF Unsubscribe, Inv1, PlacesOK, Holding, Sending, sendVars
<1> QED BY <1>4, <1>6, <1>7 DEF Inv1

LEMMA UnsubscribeAgainInv1 ==
  ASSUME Inv1, NEW t \in Threads, NEW s \in Subs, UnsubscribeAgain(t, s)
  PROVE  Inv1'
<1> USE FeedAssumption
<1>1. TypeOK'
  BY PlaceNames DEF UnsubscribeAgain, Inv1, TypeOK, ListsOK, UsersOK, ThreadsOK, feedVars, userVars,
         sendVars
<1>2. /\ pc[t] = "idle" /\ pc'[t] = "once" /\ sub'[t] = s
      /\ \A u \in Threads : u # t => pc'[u] = pc[u] /\ sub'[u] = sub[u]
  BY DEF UnsubscribeAgain, Inv1, TypeOK, ThreadsOK
<1>3. LockDiscipline'
  BY <1>2 DEF UnsubscribeAgain, Inv1, LockDiscipline, Holding, feedVars
<1>4. PlacesOK'
  BY <1>2 DEF UnsubscribeAgain, Inv1, PlacesOK, Holding, Sending, feedVars, sendVars
<1> QED BY <1>1, <1>3, <1>4 DEF Inv1

LEMMA OnceReturnInv1 ==
  ASSUME Inv1, NEW t \in Threads, OnceReturn(t)
  PROVE  Inv1'
<1> USE FeedAssumption
<1>1. TypeOK'
  BY PlaceNames DEF OnceReturn, Inv1, TypeOK, ListsOK, UsersOK, ThreadsOK, feedVars, userVars,
         sendVars
<1>2. /\ pc[t] = "once" /\ pc'[t] = "idle"
      /\ \A u \in Threads : u # t => pc'[u] = pc[u] /\ sub'[u] = sub[u]
  BY DEF OnceReturn, Inv1, TypeOK, ThreadsOK
<1>3. LockDiscipline'
  BY <1>2 DEF OnceReturn, Inv1, LockDiscipline, Holding, feedVars
<1>4. PlacesOK'
  BY <1>2 DEF OnceReturn, Inv1, PlacesOK, Holding, Sending, feedVars, sendVars
<1> QED BY <1>1, <1>3, <1>4 DEF Inv1

LEMMA UnsubTakeLockInv1 ==
  ASSUME Inv1, NEW t \in Threads, UnsubTakeLock(t)
  PROVE  Inv1'
<1> USE FeedAssumption
<1>1. TypeOK'
  <2>1. ListsOK' /\ UsersOK'
    BY DEF UnsubTakeLock, Inv1, TypeOK, ListsOK, UsersOK, userVars
  <2>2. ThreadsOK'
    BY PlaceNames DEF UnsubTakeLock, Inv1, TypeOK, ThreadsOK, sendVars
  <2> QED BY <2>1, <2>2 DEF UnsubTakeLock, Inv1, TypeOK
<1>2. /\ pc[t] = "unselect" /\ pc'[t] = "unlist"
      /\ \A u \in Threads : u # t => pc'[u] = pc[u]
  BY DEF UnsubTakeLock, Inv1, TypeOK, ThreadsOK
<1>3. LockDiscipline'
  BY <1>2 DEF UnsubTakeLock, Inv1, LockDiscipline, Holding
<1>4. PlacesOK'
  BY <1>2 DEF UnsubTakeLock, Inv1, PlacesOK, LockDiscipline, Holding, Sending, sendVars
<1> QED BY <1>1, <1>3, <1>4 DEF Inv1

LEMMA UnsubDeleteInv1 ==
  ASSUME Inv1, NEW t \in Threads, UnsubDelete(t)
  PROVE  Inv1'
<1> USE FeedAssumption
<1>1. /\ pc[t] = "unlist" /\ pc'[t] = "handoff"
      /\ \A u \in Threads : u # t => pc'[u] = pc[u]
  BY DEF UnsubDelete, Inv1, TypeOK, ThreadsOK
<1>2. IsCaseList(sendCases) /\ sub[t] \in Subs
  BY <1>1 DEF Inv1, TypeOK, ListsOK, PlacesOK, Holding
<1>3. ChanOf[sub[t]] \in Channels
  BY <1>2
<1>4. IsCaseList(sendCases') /\ sendCases' # <<>>
  BY <1>2, <1>3, DeleteCase, EmptyNotCaseList DEF UnsubDelete
<1>5. TypeOK'
  <2>1. ListsOK' /\ UsersOK'
    BY <1>2, <1>4 DEF UnsubDelete, Inv1, TypeOK, ListsOK, UsersOK, userVars
  <2>2. ThreadsOK'
    BY PlaceNames DEF UnsubDelete, Inv1, TypeOK, ThreadsOK, sendVars
  <2> QED BY <2>1, <2>2 DEF UnsubDelete, Inv1, TypeOK
<1>6. LockDiscipline'
  BY <1>1, <1>4 DEF UnsubDelete, Inv1, LockDiscipline, Holding
<1>7. \A u \in Threads : u # t => pc[u] \notin Holding
  BY <1>1 DEF Inv1, LockDiscipline, Holding
<1>8. PlacesOK'
  BY <1>1, <1>4, <1>7 DEF UnsubDelete, Inv1, PlacesOK, Holding, Sending, sendVars
<1> QED BY <1>5, <1>6, <1>8 DEF Inv1

LEMMA UnsubHandOffInv1 ==
  ASSUME Inv1, NEW t \in Threads, UnsubHandOff(t)
  PROVE  Inv1'
<1> USE FeedAssumption
<1>1. TypeOK'
  BY PlaceNames DEF UnsubHandOff, Inv1, TypeOK, ListsOK, UsersOK, ThreadsOK, userVars, sendVars
<1>2. /\ pc[t] = "handoff" /\ pc'[t] = "unlock"
      /\ \A u \in Threads : u # t => pc'[u] = pc[u] /\ pc[u] \notin Holding
  BY DEF UnsubHandOff, Inv1, TypeOK, ThreadsOK, LockDiscipline, Holding
<1>3. LockDiscipline'
  BY <1>2 DEF UnsubHandOff, Inv1, LockDiscipline, PlacesOK, Holding
<1>4. PlacesOK'
  BY <1>2 DEF UnsubHandOff, Inv1, PlacesOK, Holding, Sending, sendVars
<1> QED BY <1>1, <1>3, <1>4 DEF Inv1

LEMMA UnsubUnlockInv1 ==
  ASSUME Inv1, NEW t \in Threads, UnsubUnlock(t)
  PROVE  Inv1'
<1> USE FeedAssumption
<1>1. TypeOK'
  BY PlaceNames DEF UnsubUnlock, Inv1, TypeOK, ListsOK, UsersOK, ThreadsOK, userVars, sendVars
<1>2. /\ pc[t] = "unlock" /\ pc'[t] = "close" /\ mu = t
      /\ \A u \in Threads : u # t => pc'[u] = pc[u] /\ pc[u] \notin {"handoff", "unlock"}
  BY DEF UnsubUnlock, Inv1, TypeOK, ThreadsOK, LockDiscipline
<1>3. LockDiscipline'
  BY <1>2 DEF UnsubUnlock, Inv1, LockDiscipline, Holding
<1>4. PlacesOK'
  BY <1>2 DEF UnsubUnlock, Inv1, PlacesOK, Holding, Sending, sendVars
<1> QED BY <1>1, <1>3, <1>4 DEF Inv1

LEMMA UnsubCloseInv1 ==
  ASSUME Inv1, NEW t \in Threads, UnsubClose(t)
  PROVE  Inv1'
<1> USE FeedAssumption
<1>1. TypeOK'
  BY PlaceNames DEF UnsubClose, Inv1, TypeOK, ListsOK, UsersOK, ThreadsOK, PlacesOK, feedVars, userVars,
         sendVars
<1>2. /\ pc[t] = "close" /\ pc'[t] = "idle"
      /\ \A u \in Threads : u # t => pc'[u] = pc[u] /\ sub'[u] = sub[u]
  BY DEF UnsubClose, Inv1, TypeOK, ThreadsOK
<1>3. LockDiscipline'
  BY <1>2 DEF UnsubClose, Inv1, LockDiscipline, Holding, feedVars
<1>4. PlacesOK'
  BY <1>2 DEF UnsubClose, Inv1, PlacesOK, Holding, Sending, feedVars, sendVars
<1> QED BY <1>1, <1>3, <1>4 DEF Inv1

LEMMA SendCallInv1 ==
  ASSUME Inv1, NEW t \in Threads, SendCall(t)
  PROVE  Inv1'
<1> USE FeedAssumption
<1>1. IsCaseList(sendCases') /\ sendCases' # <<>> /\ sendLock' \in {0, 1}
  BY InitOnceInv1 DEF SendCall
<1>2. calls' \in 0..MaxSends
  BY DEF SendCall, Inv1, TypeOK, UsersOK
<1>3. UsersOK' /\ ThreadsOK'
  BY <1>2, PlaceNames DEF SendCall, Inv1, TypeOK, UsersOK, ThreadsOK, userVars
<1>4. TypeOK'
  BY <1>1, <1>3 DEF SendCall, Inv1, TypeOK, ListsOK
<1>5. /\ pc[t] = "idle" /\ pc'[t] = "acquire"
      /\ \A u \in Threads : u # t => pc'[u] = pc[u]
  BY DEF SendCall, Inv1, TypeOK, ThreadsOK
<1>6. LockDiscipline'
  BY <1>5, InitOnceInv1 DEF SendCall, Inv1, LockDiscipline, Holding
<1>7. PlacesOK'
  BY <1>5, InitOnceInv1 DEF SendCall, Inv1, PlacesOK, Holding, Sending
<1> QED BY <1>4, <1>6, <1>7 DEF Inv1

LEMMA SendAcquireInv1 ==
  ASSUME Inv1, NEW t \in Threads, SendAcquire(t)
  PROVE  Inv1'
<1> USE FeedAssumption
<1>1. TypeOK'
  <2>1. ListsOK' /\ UsersOK'
    BY DEF SendAcquire, Inv1, TypeOK, ListsOK, UsersOK, userVars
  <2>2. ThreadsOK'
    BY PlaceNames DEF SendAcquire, Inv1, TypeOK, ThreadsOK, sendVars
  <2> QED BY <2>1, <2>2 DEF SendAcquire, Inv1, TypeOK
<1>2. /\ pc[t] = "acquire" /\ pc'[t] = "merge"
      /\ \A u \in Threads : u # t => pc'[u] = pc[u]
  BY DEF SendAcquire, Inv1, TypeOK, ThreadsOK
<1>3. LockDiscipline'
  BY <1>2 DEF SendAcquire, Inv1, LockDiscipline, Holding
<1>4. PlacesOK'
  BY <1>2 DEF SendAcquire, Inv1, PlacesOK, LockDiscipline, Holding, Sending, sendVars
<1> QED BY <1>1, <1>3, <1>4 DEF Inv1

LEMMA SendMergeInv1 ==
  ASSUME Inv1, NEW t \in Threads, SendMerge(t)
  PROVE  Inv1'
<1> USE FeedAssumption
<1>1. /\ pc[t] = "merge" /\ pc'[t] = "try"
      /\ \A u \in Threads : u # t => pc'[u] = pc[u] /\ pc[u] \notin Holding
  BY DEF SendMerge, Inv1, TypeOK, ThreadsOK, LockDiscipline, Holding
<1>2. /\ IsCaseList(sendCases) /\ inbox \in Seq({Case(c) : c \in Channels})
      /\ value[t] \in 0..MaxSends
  BY <1>1 DEF Inv1, TypeOK, ListsOK, ThreadsOK, PlacesOK, Holding
<1>3. IsCaseList(sendCases \o inbox) /\ Len(sendCases \o inbox) = Len(sendCases) + Len(inbox)
  BY <1>2, MergeCase
<1>4. /\ IsCaseList(sendCases') /\ sendCases' # <<>>
      /\ Len(sendCases') = Len(sendCases) + Len(inbox)
  <2>1. sendCases' = WithSend(sendCases \o inbox, value[t])
    BY DEF SendMerge
  <2>2. IsCaseList(sendCases') /\ Len(sendCases') = Len(sendCases \o inbox)
    BY <1>2, <1>3, <2>1, WithSendCase
  <2> QED BY <1>3, <2>2, EmptyNotCaseList
<1>5. Len(sendCases) + Len(inbox) \in Nat
  BY <1>2 DEF IsCaseList
<1>6. UsersOK'
  BY <1>2 DEF SendMerge, Inv1, TypeOK, UsersOK
<1>7. ThreadsOK'
  <2>1. pc' \in [Threads -> Places]
    BY PlaceNames DEF SendMerge, Inv1, TypeOK, ThreadsOK
  <2>2. cases' \in [Threads -> Nat]
    BY <1>5 DEF SendMerge, Inv1, TypeOK, ThreadsOK
  <2> QED BY <2>1, <2>2 DEF SendMerge, Inv1, TypeOK, ThreadsOK
<1>8. TypeOK'
  BY <1>4, <1>6, <1>7 DEF SendMerge, Inv1, TypeOK, ListsOK
<1>9. LockDiscipline'
  BY <1>1, <1>4 DEF SendMerge, Inv1, LockDiscipline, Holding
<1>10. cases'[t] = Len(sendCases') /\ idx'[t] = 2
  BY <1>4 DEF SendMerge, Inv1, TypeOK, ThreadsOK
<1>11. PlacesOK'
  BY <1>1, <1>4, <1>5, <1>10 DEF SendMerge, Inv1, PlacesOK, Holding, Sending
<1> QED BY <1>8, <1>9, <1>11 DEF Inv1

\* What Deliver needs and keeps, in the fast path and after Select.
LEMMA DeliverInv1 ==
  ASSUME Inv1, NEW t \in Threads, pc[t] \in Sending, NEW k \in 2..cases[t],
         NEW v \in 0..MaxSends, Deliver(t, k, v)
  PROVE  /\ sendLock' \in {0, 1} /\ mu' \in Threads \cup {NoThread}
         /\ ListsOK' /\ UsersOK'
         /\ cases' \in [Threads -> Nat] /\ nsent' \in [Threads -> Nat]
         /\ sendCases' # <<>>
         /\ \A u \in Threads : cases[u] \in 1..Len(sendCases) => cases'[u] \in 1..Len(sendCases')
<1> USE FeedAssumption
<1>1. IsCaseList(sendCases) /\ cases[t] \in 2..Len(sendCases) /\ cases[t] \in Nat
  BY SMTT(30) DEF Inv1, TypeOK, ListsOK, ThreadsOK, PlacesOK, Holding, Sending, IsCaseList
<1>2. sendCases[k].ch \in Channels
  BY <1>1, CaseListChannels
<1>3. IsCaseList(sendCases') /\ sendCases' # <<>> /\ Len(sendCases') = Len(sendCases)
  BY <1>1, DeactivateCase, EmptyNotCaseList DEF Deliver
<1>4. UsersOK'
  BY <1>2 DEF Deliver, Inv1, TypeOK, UsersOK
<1>5. cases' \in [Threads -> Nat] /\ nsent' \in [Threads -> Nat]
  <2>1. cases \in [Threads -> Nat] /\ nsent \in [Threads -> Nat]
    BY DEF Inv1, TypeOK, ThreadsOK
  <2>2. /\ cases' = [cases EXCEPT ![t] = cases[t] - 1]
        /\ nsent' = [nsent EXCEPT ![t] = nsent[t] + 1]
    BY DEF Deliver
  <2>3. cases[t] - 1 \in Nat /\ nsent[t] + 1 \in Nat
    BY <1>1, <2>1
  <2> QED BY <2>1, <2>2, <2>3
<1>6. \A u \in Threads : cases[u] \in 1..Len(sendCases) => cases'[u] \in 1..Len(sendCases')
  BY <1>1, <1>3 DEF Deliver, Inv1, TypeOK, ThreadsOK
<1> QED BY <1>3, <1>4, <1>5, <1>6 DEF Deliver, Inv1, TypeOK, ListsOK

LEMMA TrySendInv1 ==
  ASSUME Inv1, NEW t \in Threads, TrySend(t)
  PROVE  Inv1'
<1> USE FeedAssumption
<1>1. /\ pc[t] \in Sending /\ idx[t] \in 2..cases[t] /\ value[t] \in 0..MaxSends
      /\ Deliver(t, idx[t], value[t])
  BY DEF TrySend, Inv1, TypeOK, ThreadsOK, PlacesOK, Sending
<1>2. /\ sendLock' \in {0, 1} /\ mu' \in Threads \cup {NoThread}
      /\ ListsOK' /\ UsersOK'
      /\ cases' \in [Threads -> Nat] /\ nsent' \in [Threads -> Nat]
      /\ sendCases' # <<>>
      /\ \A u \in Threads : cases[u] \in 1..Len(sendCases) => cases'[u] \in 1..Len(sendCases')
  BY <1>1, DeliverInv1
<1>3. TypeOK'
  BY <1>2 DEF TrySend, Deliver, Inv1, TypeOK, ThreadsOK
<1>4. LockDiscipline'
  BY SMTT(30), <1>1, <1>2 DEF TrySend, Deliver, Inv1, LockDiscipline, PlacesOK
<1>5. PlacesOK'
  BY SMTT(30), <1>1, <1>2 DEF TrySend, Deliver, Inv1, PlacesOK
<1> QED BY <1>3, <1>4, <1>5 DEF Inv1

LEMMA TrySendFullInv1 ==
  ASSUME Inv1, NEW t \in Threads, TrySendFull(t)
  PROVE  Inv1'
<1> USE FeedAssumption
<1>1. idx' \in [Threads -> Nat] /\ idx'[t] >= 2 /\ \A u \in Threads : u # t => idx'[u] = idx[u]
  BY DEF TrySendFull, Inv1, TypeOK, ThreadsOK, PlacesOK
<1>2. TypeOK'
  BY <1>1 DEF TrySendFull, Inv1, TypeOK, ListsOK, UsersOK, ThreadsOK, feedVars, userVars
<1>3. LockDiscipline'
  BY DEF TrySendFull, Inv1, LockDiscipline, feedVars
<1>4. PlacesOK'
  BY <1>1 DEF TrySendFull, Inv1, PlacesOK, feedVars
<1> QED BY <1>2, <1>3, <1>4 DEF Inv1

LEMMA TryDoneInv1 ==
  ASSUME Inv1, NEW t \in Threads, TryDone(t)
  PROVE  Inv1'
<1> USE FeedAssumption
<1>1. pc' \in [Threads -> Places]
  BY PlaceNames DEF TryDone, Inv1, TypeOK, ThreadsOK
<1>2. TypeOK'
  BY <1>1 DEF TryDone, Inv1, TypeOK, ListsOK, UsersOK, ThreadsOK, feedVars, userVars, sendVars
<1>3. /\ pc[t] = "try" /\ pc'[t] \in {"release", "select"}
      /\ \A u \in Threads : u # t => pc'[u] = pc[u]
  BY DEF TryDone, Inv1, TypeOK, ThreadsOK
<1>4. LockDiscipline'
  BY <1>3 DEF TryDone, Inv1, LockDiscipline, Holding, feedVars
<1>5. PlacesOK'
  BY <1>3 DEF TryDone, Inv1, PlacesOK, Holding, Sending, feedVars, sendVars
<1> QED BY <1>2, <1>4, <1>5 DEF Inv1

LEMMA SelectSendInv1 ==
  ASSUME Inv1, NEW t \in Threads, SelectSend(t)
  PROVE  Inv1'
<1> USE FeedAssumption
<1>1. PICK k \in 2..cases[t] : Deliver(t, k, sendCases[k].send)
  BY DEF SelectSend
<1>2. pc[t] \in Sending /\ sendCases[k].send \in 0..MaxSends
  <2>1. pc[t] = "select"
    BY DEF SelectSend
  <2>2. IsCaseList(sendCases) /\ k \in 2..Len(sendCases)
    BY <2>1 DEF Inv1, TypeOK, ListsOK, ThreadsOK, PlacesOK, Holding, Sending, IsCaseList
  <2> QED BY <2>1, <2>2, CaseListChannels DEF Sending
<1>3. /\ sendLock' \in {0, 1} /\ mu' \in Threads \cup {NoThread}
      /\ ListsOK' /\ UsersOK'
      /\ cases' \in [Threads -> Nat] /\ nsent' \in [Threads -> Nat]
      /\ sendCases' # <<>>
      /\ \A u \in Threads : cases[u] \in 1..Len(sendCases) => cases'[u] \in 1..Len(sendCases')
  BY <1>1, <1>2, DeliverInv1
<1>4. /\ pc[t] = "select" /\ pc'[t] = "try" /\ idx'[t] = 2
      /\ \A u \in Threads : u # t => pc'[u] = pc[u] /\ idx'[u] = idx[u]
  BY DEF SelectSend, Inv1, TypeOK, ThreadsOK
<1>5. ThreadsOK'
  BY <1>1, <1>3, PlaceNames DEF SelectSend, Deliver, Inv1, TypeOK, ThreadsOK
<1>6. LockDiscipline'
  BY ZenonT(30), <1>1, <1>3, <1>4 DEF Deliver, Inv1, LockDiscipline, PlacesOK, Holding
<1>7. PlacesOK'
  BY SMTT(30), <1>1, <1>3, <1>4 DEF Deliver, Inv1, PlacesOK, Holding, Sending
<1> QED BY <1>3, <1>5, <1>6, <1>7 DEF Inv1, TypeOK

LEMMA SelectRemoveInv1 ==
  ASSUME Inv1, NEW t \in Threads, NEW u \in Threads, SelectRemove(t, u)
  PROVE  Inv1'
<1> USE FeedAssumption
<1>1. pc[t] = "select" /\ pc[u] = "unselect" /\ t # u /\ sub[u] \in Subs
  BY DEF SelectRemove, Inv1, PlacesOK
<1>2. /\ pc'[t] = "drop" /\ pc'[u] = "close" /\ recv'[t] \in Channels
      /\ \A w \in Threads : w # t /\ w # u => pc'[w] = pc[w]
      /\ \A w \in Threads : w # t => recv'[w] = recv[w]
  BY <1>1 DEF SelectRemove, Inv1, TypeOK, ThreadsOK
<1>3. ListsOK' /\ UsersOK'
  BY <1>1 DEF SelectRemove, Inv1, TypeOK, ListsOK, UsersOK, feedVars, userVars
<1>4. ThreadsOK'
  BY <1>1, PlaceNames DEF SelectRemove, Inv1, TypeOK, ThreadsOK
<1>5. LockDiscipline'
  <2>1. \A w \in Threads : (pc'[w] \in Holding <=> pc[w] \in Holding)
                          /\ (pc'[w] \in {"handoff", "unlock"} <=> pc[w] \in {"handoff", "unlock"})
    BY <1>1, <1>2 DEF Holding
  <2> QED BY <2>1 DEF SelectRemove, Inv1, LockDiscipline, feedVars
<1>6. PlacesOK'
  BY <1>1, <1>2 DEF SelectRemove, Inv1, PlacesOK, Holding, Sending, feedVars
<1> QED BY <1>3, <1>4, <1>5, <1>6 DEF SelectRemove, Inv1, TypeOK, feedVars

\* The prefix keeps the case of removeSub only because the case is found.
LEMMA SendDropInv1 ==
  ASSUME Inv1, RemovalFindsCase, NEW t \in Threads, SendDrop(t)
  PROVE  Inv1'
<1> USE FeedAssumption
<1>1. /\ pc[t] = "drop" /\ pc'[t] = "try" /\ idx'[t] = 2
      /\ \A u \in Threads : u # t => pc'[u] = pc[u] /\ pc[u] \notin Holding
  BY DEF SendDrop, Inv1, TypeOK, ThreadsOK, LockDiscipline, Holding
<1>2. /\ IsCaseList(sendCases) /\ recv[t] \in Channels /\ Find(sendCases, recv[t]) # 0
      /\ cases[t] \in 1..Len(sendCases) /\ Len(sendCases) \in Nat
  BY <1>1 DEF Inv1, TypeOK, ListsOK, PlacesOK, RemovalFindsCase, Holding, Sending, IsCaseList
<1>3. /\ IsCaseList(sendCases') /\ sendCases' # <<>> /\ Len(sendCases') = Len(sendCases) - 1
      /\ Find(sendCases, recv[t]) \in 2..Len(sendCases)
  <2>1. Find(sendCases, recv[t]) \in 0..Len(sendCases)
    BY <1>2, FindIsCase DEF IsCaseList
  <2> QED BY <1>2, <2>1, DeleteCase, EmptyNotCaseList DEF SendDrop
<1>4. cases'[t] \in 1..Len(sendCases') /\ cases' \in [Threads -> Nat]
  BY SMTT(30), <1>2, <1>3 DEF SendDrop, Shrunk, Inv1, TypeOK, ThreadsOK
<1>5. UsersOK'
  BY DEF SendDrop, Inv1, TypeOK, UsersOK, userVars
<1>6. ThreadsOK'
  BY <1>4, PlaceNames DEF SendDrop, Inv1, TypeOK, ThreadsOK
<1>7. TypeOK'
  BY <1>3, <1>5, <1>6 DEF SendDrop, Inv1, TypeOK, ListsOK
<1>8. LockDiscipline'
  BY <1>1, <1>3 DEF SendDrop, Inv1, LockDiscipline, Holding
<1>9. PlacesOK'
  BY <1>1, <1>3, <1>4 DEF SendDrop, Inv1, PlacesOK, Holding, Sending
<1> QED BY <1>7, <1>8, <1>9 DEF Inv1

LEMMA SendReleaseInv1 ==
  ASSUME Inv1, NEW t \in Threads, SendRelease(t)
  PROVE  Inv1'
<1> USE FeedAssumption
<1>1. /\ pc[t] = "release" /\ pc'[t] = "idle"
      /\ \A u \in Threads : u # t => pc'[u] = pc[u] /\ pc[u] \notin Holding
  BY DEF SendRelease, Inv1, TypeOK, ThreadsOK, LockDiscipline, Holding
<1>2. IsCaseList(sendCases)
  BY <1>1 DEF Inv1, TypeOK, ListsOK, PlacesOK, Holding
<1>3. IsCaseList(sendCases') /\ sendCases' # <<>>
  BY <1>2, WithSendCase, EmptyNotCaseList DEF SendRelease, NoValue
<1>4. ListsOK' /\ UsersOK'
  BY <1>3 DEF SendRelease, Inv1, TypeOK, ListsOK, UsersOK, userVars
<1>5. ThreadsOK'
  BY PlaceNames DEF SendRelease, Inv1, TypeOK, ThreadsOK, NoValue
<1>6. LockDiscipline'
  BY <1>1, <1>3 DEF SendRelease, Inv1, LockDiscipline, Holding
<1>7. PlacesOK'
  BY <1>1, <1>3 DEF SendRelease, Inv1, PlacesOK, Holding, Sending
<1> QED BY <1>4, <1>5, <1>6, <1>7 DEF SendRelease, Inv1, TypeOK

LEMMA ReceiveInv1 ==
  ASSUME Inv1, NEW c \in Channels, Receive(c)
  PROVE  Inv1'
<1>1. TypeOK'
  BY SMTT(30) DEF Receive, Inv1, TypeOK, ListsOK, UsersOK, ThreadsOK, feedVars, sendVars
<1>2. LockDiscipline' /\ PlacesOK'
  BY DEF Receive, Inv1, LockDiscipline, PlacesOK, feedVars, sendVars
<1> QED BY <1>1, <1>2 DEF Inv1

LEMMA StutterInv1 == Inv1 /\ UNCHANGED vars => Inv1'
<1> SUFFICES ASSUME Inv1, UNCHANGED vars PROVE Inv1'
  OBVIOUS
<1>1. TypeOK'
  BY DEF vars, Inv1, TypeOK, ListsOK, UsersOK, ThreadsOK, feedVars, userVars, sendVars
<1>2. LockDiscipline' /\ PlacesOK'
  BY DEF vars, Inv1, LockDiscipline, PlacesOK, feedVars, sendVars
<1> QED BY <1>1, <1>2 DEF Inv1

LEMMA StepInv1 == Inv1 /\ RemovalFindsCase /\ [Next]_vars => Inv1'
<1> SUFFICES ASSUME Inv1, RemovalFindsCase, [Next]_vars PROVE Inv1'
  OBVIOUS
<1>1. CASE \E t \in Threads, s \in Subs :
             Subscribe(t, s) \/ Unsubscribe(t, s) \/ UnsubscribeAgain(t, s)
  BY <1>1, SubscribeInv1, UnsubscribeInv1, UnsubscribeAgainInv1
<1>2. ASSUME NEW t \in Threads, SendCall(t) \/ Step(t) PROVE Inv1'
  BY <1>2, SendCallInv1, OnceReturnInv1, UnsubTakeLockInv1, UnsubDeleteInv1, UnsubHandOffInv1,
     UnsubUnlockInv1, UnsubCloseInv1, SendAcquireInv1, SendMergeInv1, TrySendInv1,
      TrySendFullInv1, TryDoneInv1,
     SelectSendInv1, SelectRemoveInv1, SendDropInv1, SendReleaseInv1 DEF Step
<1>3. CASE \E c \in Channels : Receive(c)
  BY <1>3, ReceiveInv1
<1>4. CASE Quiescent \/ UNCHANGED vars
  BY <1>4, StutterInv1 DEF Quiescent
<1> QED BY <1>1, <1>2, <1>3, <1>4 DEF Next

-----------------------------------------------------------------------------
(* The inductive invariant behind CasesAccounted and RemovalFindsCase *)

\* Places at which a goroutine ends the subscription sub[t].
Ending == {"unselect", "unlist", "handoff", "unlock", "close"}

\* One goroutine ends a subscription, and status says how far it is.
EndingOK ==
  \A t \in Threads : pc[t] \in Ending =>
     /\ status[sub[t]] = IF pc[t] \in {"unselect", "unlist"} THEN "leaving" ELSE "left"
     /\ \A u \in Threads : pc[u] \in Ending /\ sub[u] = sub[t] => u = t

\* The subscriptions whose case is about to be deleted from sendCases have
\* their cases there; the inbox has none of them to offer.
CasesEnough ==
  \A c \in Channels :
     CountIn(sendCases, c) >= Cardinality(With(c, {"leaving"})) + Cardinality(Dropping(c))

Inv2 == EndingOK /\ CasesAccounted /\ CasesEnough

WithIn(st, c, ss) == {s \in Subs : ChanOf[s] = c /\ st[s] \in ss}

\* How the number of subscriptions of c in states ss changes when s becomes v.
Moves(st, st2, s, v, c, ss) ==
  Cardinality(WithIn(st2, c, ss))
    = Cardinality(WithIn(st, c, ss)) - (IF ChanOf[s] = c /\ st[s] \in ss THEN 1 ELSE 0)
        + (IF ChanOf[s] = c /\ v \in ss THEN 1 ELSE 0)

LEMMA WithChange ==
  ASSUME NEW st, NEW st2, NEW s \in Subs, NEW v, NEW c, NEW ss,
         \A x \in Subs : st2[x] = IF x = s THEN v ELSE st[x]
  PROVE  Moves(st, st2, s, v, c, ss)
<1> DEFINE W == WithIn(st, c, ss)
           V == WithIn(st2, c, ss)
<1>1. IsFiniteSet(W) /\ IsFiniteSet(W \ {s})
  <2>1. W \in SUBSET Subs /\ W \ {s} \in SUBSET Subs
    BY DEF WithIn
  <2> HIDE DEF W
  <2> QED BY <2>1, FeedAssumption, FS_Subset
<1>2. Cardinality(W) \in Nat
  BY <1>1, FS_CardinalityType
<1>3. Cardinality(W \ {s}) = Cardinality(W) - (IF ChanOf[s] = c /\ st[s] \in ss THEN 1 ELSE 0)
  <2>1. s \in W <=> ChanOf[s] = c /\ st[s] \in ss
    BY DEF WithIn
  <2> HIDE DEF W
  <2> QED BY <1>1, <1>2, <2>1, FS_RemoveElement
<1>4. V = IF ChanOf[s] = c /\ v \in ss THEN (W \ {s}) \cup {s} ELSE W \ {s}
  BY DEF WithIn
<1>5. Cardinality((W \ {s}) \cup {s}) = Cardinality(W \ {s}) + 1
  <2> HIDE DEF W
  <2> QED BY <1>1, FS_AddElement
<1> HIDE DEF W, V
<1>6. Cardinality(V) = Cardinality(W) - (IF ChanOf[s] = c /\ st[s] \in ss THEN 1 ELSE 0)
                         + (IF ChanOf[s] = c /\ v \in ss THEN 1 ELSE 0)
  <2>1. CASE ChanOf[s] = c /\ v \in ss
    BY <1>2, <1>3, <1>4, <1>5, <2>1
  <2>2. CASE ~(ChanOf[s] = c /\ v \in ss)
    BY <1>2, <1>3, <1>4, <2>2
  <2> QED BY <2>1, <2>2
<1> QED BY <1>6 DEF W, V, Moves

LEMMA WithSubset ==
  ASSUME NEW st, NEW c
  PROVE  /\ Cardinality(WithIn(st, c, {"leaving"})) \in Nat
         /\ Cardinality(WithIn(st, c, {"live", "leaving"})) \in Nat
         /\ Cardinality(WithIn(st, c, {"leaving"}))
              <= Cardinality(WithIn(st, c, {"live", "leaving"}))
<1>1. /\ WithIn(st, c, {"leaving"}) \in SUBSET WithIn(st, c, {"live", "leaving"})
      /\ WithIn(st, c, {"live", "leaving"}) \in SUBSET Subs
  BY DEF WithIn
<1>2. IsFiniteSet(WithIn(st, c, {"live", "leaving"}))
  BY <1>1, FeedAssumption, FS_Subset
<1> QED BY <1>1, <1>2, FS_Subset, FS_CardinalityType

LEMMA DroppingType ==
  ASSUME NEW c
  PROVE  IsFiniteSet(Dropping(c)) /\ Cardinality(Dropping(c)) \in Nat
<1>1. Dropping(c) \in SUBSET Threads
  BY DEF Dropping
<1> QED BY <1>1, FeedAssumption, FS_Subset, FS_CardinalityType

\* Every list of a typed state can be counted.
LEMMA CountTypes ==
  ASSUME Inv1, NEW c \in Channels
  PROVE  /\ CountIn(inbox, c) \in Nat
         /\ CountIn(sendCases, c) \in Nat
         /\ CountIn(sendCases, c) > 0 <=> Find(sendCases, c) # 0
         /\ CountIn(inbox, c) > 0 <=> Find(inbox, c) # 0
<1>1. inbox \in Seq({Case(d) : d \in Channels})
  BY DEF Inv1, TypeOK, ListsOK
<1>2. sendCases \in Seq(Cases \cup {Case(RemoveSub)})
  BY EmptySeq DEF Inv1, TypeOK, ListsOK, IsCaseList
<1> QED BY <1>1, <1>2, CountType

LEMMA FindsCase == Inv1 /\ Inv2 => RemovalFindsCase
<1> SUFFICES ASSUME Inv1, Inv2, NEW t \in Threads
             PROVE  /\ pc[t] = "unlist" => Find(sendCases, ChanOf[sub[t]]) # 0
                    /\ pc[t] = "drop" => Find(sendCases, recv[t]) # 0
  BY DEF RemovalFindsCase
<1>1. CASE pc[t] = "unlist"
  <2> DEFINE c == ChanOf[sub[t]]
  <2>1. sub[t] \in Subs /\ c \in Channels /\ status[sub[t]] = "leaving"
    BY <1>1, FeedAssumption DEF Inv1, PlacesOK, Inv2, EndingOK, Ending
  <2>2. With(c, {"leaving"}) # {} /\ With(c, {"leaving"}) \in SUBSET Subs
    BY <2>1 DEF With
  <2>3. Cardinality(With(c, {"leaving"})) \in Nat \ {0}
    BY <2>2, FeedAssumption, FS_Subset, FS_CardinalityType, FS_EmptySet
  <2>4. CountIn(sendCases, c) > 0
    BY <2>1, <2>3, DroppingType, CountTypes DEF Inv2, CasesEnough
  <2> QED BY <1>1, <2>1, <2>4, CountTypes
<1>2. CASE pc[t] = "drop"
  <2>1. recv[t] \in Channels /\ t \in Dropping(recv[t])
    BY <1>2 DEF Inv1, PlacesOK, Dropping
  <2>2. Cardinality(Dropping(recv[t])) \in Nat \ {0}
    BY <2>1, DroppingType, FS_EmptySet
  <2>3. Cardinality(With(recv[t], {"leaving"})) \in Nat
    BY WithSubset DEF With, WithIn
  <2>4. CountIn(sendCases, recv[t]) > 0
    BY <2>1, <2>2, <2>3, CountTypes DEF Inv2, CasesEnough
  <2> QED BY <1>2, <2>1, <2>4, CountTypes
<1> QED BY <1>1, <1>2

LEMMA InitInv2 == Init => Inv2
<1> SUFFICES ASSUME Init PROVE Inv2
  OBVIOUS
<1>1. EndingOK
  BY DEF Init, EndingOK, Ending
<1>2. ASSUME NEW c \in Channels
      PROVE  /\ With(c, {"leaving"}) = {} /\ With(c, {"live", "leaving"}) = {}
             /\ Dropping(c) = {} /\ CountIn(sendCases, c) = 0 /\ CountIn(inbox, c) = 0
  BY CountEmpty DEF Init, With, Dropping
<1>3. Cardinality({}) = 0
  BY FS_EmptySet
<1>4. CasesAccounted
  BY <1>2, <1>3 DEF CasesAccounted
<1>5. CasesEnough
  BY <1>2, <1>3 DEF CasesEnough
<1> QED BY <1>1, <1>4, <1>5 DEF Inv2

\* The numbers the two counting invariants relate, for one channel, and that
\* they are preserved by changes that agree.
Live(c) == Cardinality(With(c, {"live", "leaving"}))
Leaving(c) == Cardinality(With(c, {"leaving"}))
Drops(c) == Cardinality(Dropping(c))

LEMMA Inv2Numbers ==
  Inv2 <=> /\ EndingOK
           /\ \A c \in Channels :
                 /\ CountIn(inbox, c) + CountIn(sendCases, c) = Live(c) + Drops(c)
                 /\ CountIn(sendCases, c) >= Leaving(c) + Drops(c)
BY DEF Inv2, CasesAccounted, CasesEnough, Live, Leaving, Drops

LEMMA NumberTypes ==
  ASSUME NEW c
  PROVE  Live(c) \in Nat /\ Leaving(c) \in Nat /\ Drops(c) \in Nat /\ Leaving(c) <= Live(c)
BY WithSubset, DroppingType DEF Live, Leaving, Drops, With, WithIn

\* How they change when the status of s becomes v.
StatusMoves(s, v, c) ==
  /\ Live(c)' = Live(c) - (IF ChanOf[s] = c /\ status[s] \in {"live", "leaving"} THEN 1 ELSE 0)
                        + (IF ChanOf[s] = c /\ v \in {"live", "leaving"} THEN 1 ELSE 0)
  /\ Leaving(c)' = Leaving(c) - (IF ChanOf[s] = c /\ status[s] = "leaving" THEN 1 ELSE 0)
                              + (IF ChanOf[s] = c /\ v = "leaving" THEN 1 ELSE 0)

LEMMA LiveChange ==
  ASSUME Inv1, NEW s \in Subs, NEW v, status' = [status EXCEPT ![s] = v], NEW c
  PROVE  StatusMoves(s, v, c)
<1>1. \A x \in Subs : status'[x] = IF x = s THEN v ELSE status[x]
  BY DEF Inv1, TypeOK, UsersOK
<1>2. /\ Live(c) = Cardinality(WithIn(status, c, {"live", "leaving"}))
      /\ Leaving(c) = Cardinality(WithIn(status, c, {"leaving"}))
      /\ Live(c)' = Cardinality(WithIn(status', c, {"live", "leaving"}))
      /\ Leaving(c)' = Cardinality(WithIn(status', c, {"leaving"}))
  BY DEF Live, Leaving, With, WithIn
<1>3. /\ Moves(status, status', s, v, c, {"live", "leaving"})
      /\ Moves(status, status', s, v, c, {"leaving"})
  BY <1>1, WithChange
<1>4. (status[s] \in {"leaving"} <=> status[s] = "leaving") /\ (v \in {"leaving"} <=> v = "leaving")
  OBVIOUS
<1> QED BY <1>2, <1>3, <1>4 DEF Moves, StatusMoves

LEMMA InitOnceCount ==
  ASSUME InitOnce, NEW c \in Channels
  PROVE  CountIn(sendCases, c)' = CountIn(sendCases, c)
<1>1. CASE sendCases = <<>>
  <2>1. CountIn(<<Case(RemoveSub)>>, c) = 0
    <3>1. {k \in DOMAIN <<Case(RemoveSub)>> : <<Case(RemoveSub)>>[k].ch = c} = {}
      BY FeedAssumption DEF Case
    <3> QED BY <3>1, FS_EmptySet DEF CountIn
  <2>2. CountIn(sendCases, c) = 0
    BY <1>1, CountEmpty
  <2>3. CountIn(sendCases, c)' = CountIn(<<Case(RemoveSub)>>, c)
    BY <1>1 DEF InitOnce, CountIn
  <2> QED BY <2>1, <2>2, <2>3
<1>2. CASE sendCases # <<>>
  BY <1>2 DEF InitOnce, CountIn
<1> QED BY <1>1, <1>2

\* The steps that move cases between the lists or do not touch them.
LEMMA QuietInv2 ==
  ASSUME Inv1, Inv2, EndingOK',
         \A c \in Channels :
            /\ (CountIn(inbox, c) + CountIn(sendCases, c))' = CountIn(inbox, c) + CountIn(sendCases, c)
            /\ CountIn(sendCases, c)' >= CountIn(sendCases, c)
            /\ CountIn(sendCases, c)' \in Nat
            /\ Live(c)' = Live(c) /\ Leaving(c)' = Leaving(c) /\ Drops(c)' = Drops(c)
  PROVE  Inv2'
<1> SUFFICES ASSUME NEW c \in Channels
             PROVE  /\ (CountIn(inbox, c) + CountIn(sendCases, c) = Live(c) + Drops(c))'
                    /\ (CountIn(sendCases, c) >= Leaving(c) + Drops(c))'
  BY DEF Inv2, CasesAccounted, CasesEnough, Live, Leaving, Drops
<1> QED BY Inv2Numbers, NumberTypes, CountTypes

\* Nothing but the place of goroutines changes, none enters or leaves "drop".
LEMMA SameDrops ==
  ASSUME NEW c, \A t \in Threads : (pc'[t] = "drop" /\ recv'[t] = c) <=> (pc[t] = "drop" /\ recv[t] = c)
  PROVE  Drops(c)' = Drops(c)
<1>1. Dropping(c)' = Dropping(c)
  BY DEF Dropping
<1> QED BY <1>1 DEF Drops

LEMMA SameStatus ==
  ASSUME UNCHANGED status, NEW c
  PROVE  Live(c)' = Live(c) /\ Leaving(c)' = Leaving(c)
BY DEF Live, Leaving, With

LEMMA SameLists ==
  ASSUME Inv1, UNCHANGED <<inbox, sendCases>>, NEW c \in Channels
  PROVE  /\ (CountIn(inbox, c) + CountIn(sendCases, c))' = CountIn(inbox, c) + CountIn(sendCases, c)
         /\ CountIn(sendCases, c)' >= CountIn(sendCases, c)
         /\ CountIn(sendCases, c)' \in Nat
<1>1. CountIn(inbox, c)' = CountIn(inbox, c) /\ CountIn(sendCases, c)' = CountIn(sendCases, c)
  BY DEF CountIn
<1> QED BY <1>1, CountTypes

LEMMA SubscribeInv2 ==
  ASSUME Inv1, Inv2, NEW t \in Threads, NEW s \in Subs, Subscribe(t, s)
  PROVE  Inv2'
<1> USE FeedAssumption
<1>1. EndingOK'
  BY DEF Subscribe, Inv1, TypeOK, ThreadsOK, UsersOK, PlacesOK, Inv2, EndingOK, Ending
<1>2. ASSUME NEW c \in Channels
      PROVE  /\ (CountIn(inbox, c) + CountIn(sendCases, c) = Live(c) + Drops(c))'
             /\ (CountIn(sendCases, c) >= Leaving(c) + Drops(c))'
  <2>1. CountIn(inbox, c)' = CountIn(inbox, c) + (IF ChanOf[s] = c THEN 1 ELSE 0)
    <3> DEFINE S == {Case(d) : d \in Channels}
    <3>1. inbox \in Seq(S) /\ Case(ChanOf[s]) \in S
      BY DEF Inv1, TypeOK, ListsOK
    <3>2. CountIn(Append(inbox, Case(ChanOf[s])), c)
            = CountIn(inbox, c) + (IF Case(ChanOf[s]).ch = c THEN 1 ELSE 0)
      <4> HIDE DEF S
      <4> QED BY <3>1, CountAppend
    <3>3. CountIn(inbox, c)' = CountIn(Append(inbox, Case(ChanOf[s])), c)
      BY DEF Subscribe, CountIn
    <3> QED BY <3>2, <3>3 DEF Case
  <2>2. CountIn(sendCases, c)' = CountIn(sendCases, c)
    BY InitOnceCount DEF Subscribe
  <2>3. Live(c)' = Live(c) + (IF ChanOf[s] = c THEN 1 ELSE 0) /\ Leaving(c)' = Leaving(c)
    <3>1. status[s] = "new" /\ status' = [status EXCEPT ![s] = "live"]
      BY DEF Subscribe
    <3>2. StatusMoves(s, "live", c)
      BY <3>1, LiveChange
    <3> QED BY <3>1, <3>2, NumberTypes DEF StatusMoves
  <2>4. Drops(c)' = Drops(c)
    BY DEF Subscribe, Drops, Dropping, sendVars
  <2> QED BY <1>2, <2>1, <2>2, <2>3, <2>4, Inv2Numbers, NumberTypes, CountTypes
<1> QED BY <1>1, <1>2 DEF Inv2, CasesAccounted, CasesEnough, Live, Leaving, Drops

LEMMA UnsubscribeInv2 ==
  ASSUME Inv1, Inv2, NEW t \in Threads, NEW s \in Subs, Unsubscribe(t, s)
  PROVE  Inv2'
<1> USE FeedAssumption
<1>1. /\ pc[t] = "idle" /\ sub'[t] = s /\ status[s] = "live"
      /\ \A u \in Threads : u # t => pc'[u] = pc[u] /\ sub'[u] = sub[u]
      /\ pc'[t] = IF InInbox(s) # 0 THEN "close" ELSE "unselect"
      /\ status' = [status EXCEPT ![s] = IF InInbox(s) # 0 THEN "left" ELSE "leaving"]
  BY DEF Unsubscribe, Inv1, TypeOK, ThreadsOK
<1>2. EndingOK'
  <2>1. status'[s] = IF InInbox(s) # 0 THEN "left" ELSE "leaving"
    BY <1>1 DEF Inv1, TypeOK, UsersOK
  <2>2. \A u \in Threads : pc[u] \in Ending => sub[u] # s /\ status'[sub[u]] = status[sub[u]]
    BY <1>1 DEF Inv2, EndingOK, Ending, Inv1, TypeOK, UsersOK, PlacesOK
  <2> QED BY <1>1, <2>1, <2>2 DEF Inv2, EndingOK, Ending
<1>3. ASSUME NEW c \in Channels
      PROVE  /\ (CountIn(inbox, c) + CountIn(sendCases, c) = Live(c) + Drops(c))'
             /\ (CountIn(sendCases, c) >= Leaving(c) + Drops(c))'
  <2>1. Drops(c)' = Drops(c)
    <3>1. \A u \in Threads : pc'[u] = "drop" <=> pc[u] = "drop"
      BY <1>1
    <3>2. Dropping(c)' = Dropping(c)
      BY <3>1 DEF Unsubscribe, Dropping, sendVars
    <3> QED BY <3>2 DEF Drops
  <2>2. CountIn(sendCases, c)' = CountIn(sendCases, c)
    BY DEF Unsubscribe, CountIn
  <2>3. CASE InInbox(s) # 0
    <3>1. CountIn(inbox, c)' = CountIn(inbox, c) - (IF ChanOf[s] = c THEN 1 ELSE 0)
      <4> DEFINE S == {Case(d) : d \in Channels}
                 k == InInbox(s)
      <4>1. inbox \in Seq(S) /\ k \in 1..Len(inbox) /\ inbox[k].ch = ChanOf[s]
        BY <2>3, FindIsCase DEF Inv1, TypeOK, ListsOK, InInbox
      <4>2. CountIn(RemoveAt(inbox, k), c)
              = CountIn(inbox, c) - (IF inbox[k].ch = c THEN 1 ELSE 0)
        <5> HIDE DEF S, k
        <5> QED BY <4>1, CountRemoveAt
      <4>3. CountIn(inbox, c)' = CountIn(RemoveAt(inbox, k), c)
        BY <2>3 DEF Unsubscribe, CountIn
      <4> QED BY <4>1, <4>2, <4>3
    <3>2. Live(c)' = Live(c) - (IF ChanOf[s] = c THEN 1 ELSE 0) /\ Leaving(c)' = Leaving(c)
      <4>1. status' = [status EXCEPT ![s] = "left"]
        BY <1>1, <2>3
      <4>2. StatusMoves(s, "left", c)
        BY <4>1, LiveChange
      <4> QED BY <1>1, <4>2, NumberTypes DEF StatusMoves
    <3> QED BY <2>1, <2>2, <3>1, <3>2, Inv2Numbers, NumberTypes, CountTypes
  <2>4. CASE InInbox(s) = 0
    <3>1. CountIn(inbox, c)' = CountIn(inbox, c)
      BY <2>4 DEF Unsubscribe, CountIn
    <3>2. Live(c)' = Live(c) /\ Leaving(c)' = Leaving(c) + (IF ChanOf[s] = c THEN 1 ELSE 0)
      <4>1. status' = [status EXCEPT ![s] = "leaving"]
        BY <1>1, <2>4
      <4>2. StatusMoves(s, "leaving", c)
        BY <4>1, LiveChange
      <4> QED BY <1>1, <4>2, NumberTypes DEF StatusMoves
    <3>3. Leaving(c)' <= Live(c)'
      BY WithSubset DEF Live, Leaving, With, WithIn
    <3>4. ChanOf[s] = c => CountIn(inbox, c) = 0
      BY <2>4, CountTypes DEF InInbox
    <3> QED BY <2>1, <2>2, <3>1, <3>2, <3>3, <3>4, Inv2Numbers, NumberTypes, CountTypes
  <2> QED BY <2>3, <2>4
<1> QED BY <1>2, <1>3 DEF Inv2, CasesAccounted, CasesEnough, Live, Leaving, Drops

LEMMA UnsubscribeAgainInv2 ==
  ASSUME Inv1, Inv2, NEW t \in Threads, NEW s \in Subs, UnsubscribeAgain(t, s)
  PROVE  Inv2'
<1> USE DEF UnsubscribeAgain, Inv1, TypeOK, ThreadsOK, feedVars, sendVars
<1>1. EndingOK'
  BY DEF PlacesOK, Inv2, EndingOK, Ending
<1>2. ASSUME NEW c PROVE Drops(c)' = Drops(c)
  BY SameDrops
<1>3. UNCHANGED <<status, inbox, sendCases>>
  OBVIOUS
<1> QED BY <1>1, <1>2, <1>3, SameStatus, SameLists, QuietInv2 DEF Inv1

LEMMA OnceReturnInv2 ==
  ASSUME Inv1, Inv2, NEW t \in Threads, OnceReturn(t)
  PROVE  Inv2'
<1> USE DEF OnceReturn, Inv1, TypeOK, ThreadsOK, feedVars, sendVars
<1>1. EndingOK'
  BY DEF PlacesOK, Inv2, EndingOK, Ending
<1>2. ASSUME NEW c PROVE Drops(c)' = Drops(c)
  BY SameDrops
<1>3. UNCHANGED <<status, inbox, sendCases>>
  OBVIOUS
<1> QED BY <1>1, <1>2, <1>3, SameStatus, SameLists, QuietInv2 DEF Inv1

LEMMA UnsubTakeLockInv2 ==
  ASSUME Inv1, Inv2, NEW t \in Threads, UnsubTakeLock(t)
  PROVE  Inv2'
<1> USE DEF UnsubTakeLock, Inv1, TypeOK, ThreadsOK, sendVars
<1>1. EndingOK'
  BY DEF PlacesOK, Inv2, EndingOK, Ending
<1>2. ASSUME NEW c PROVE Drops(c)' = Drops(c)
  BY SameDrops
<1>3. UNCHANGED <<status, inbox, sendCases>>
  OBVIOUS
<1> QED BY <1>1, <1>2, <1>3, SameStatus, SameLists, QuietInv2

LEMMA UnsubHandOffInv2 ==
  ASSUME Inv1, Inv2, NEW t \in Threads, UnsubHandOff(t)
  PROVE  Inv2'
<1> USE DEF UnsubHandOff, Inv1, TypeOK, ThreadsOK, sendVars
<1>1. EndingOK'
  BY DEF PlacesOK, Inv2, EndingOK, Ending
<1>2. ASSUME NEW c PROVE Drops(c)' = Drops(c)
  BY SameDrops
<1>3. UNCHANGED <<status, inbox, sendCases>>
  OBVIOUS
<1> QED BY <1>1, <1>2, <1>3, SameStatus, SameLists, QuietInv2

LEMMA UnsubUnlockInv2 ==
  ASSUME Inv1, Inv2, NEW t \in Threads, UnsubUnlock(t)
  PROVE  Inv2'
<1> USE DEF UnsubUnlock, Inv1, TypeOK, ThreadsOK, sendVars
<1>1. EndingOK'
  BY DEF PlacesOK, Inv2, EndingOK, Ending
<1>2. ASSUME NEW c PROVE Drops(c)' = Drops(c)
  BY SameDrops
<1>3. UNCHANGED <<status, inbox, sendCases>>
  OBVIOUS
<1> QED BY <1>1, <1>2, <1>3, SameStatus, SameLists, QuietInv2

LEMMA UnsubDeleteInv2 ==
  ASSUME Inv1, Inv2, NEW t \in Threads, UnsubDelete(t)
  PROVE  Inv2'
<1> USE FeedAssumption
<1> DEFINE s == sub[t]
           d == ChanOf[s]
<1>1. s \in Subs /\ d \in Channels /\ status[s] = "leaving" /\ pc[t] = "unlist"
  BY DEF UnsubDelete, Inv1, PlacesOK, Inv2, EndingOK, Ending
<1>2. IsCaseList(sendCases) /\ Find(sendCases, d) # 0
  BY <1>1, FindsCase DEF RemovalFindsCase, Inv1, TypeOK, ListsOK, PlacesOK, Holding
<1>3. /\ sendCases' = Delete(sendCases, d) /\ inbox' = inbox
      /\ status' = [status EXCEPT ![s] = "left"]
      /\ pc' = [pc EXCEPT ![t] = "handoff"] /\ sub' = sub /\ recv' = recv
  BY DEF UnsubDelete, sendVars
<1>4. EndingOK'
  <2>1. \A u \in Threads : pc'[u] \in Ending => pc[u] \in Ending
    BY <1>1, <1>3 DEF Inv1, TypeOK, ThreadsOK, Ending
  <2>2. \A u \in Threads : pc'[u] \in Ending /\ u # t => sub[u] # s /\ pc'[u] = pc[u]
    BY <1>1, <1>3, <2>1 DEF Inv1, TypeOK, ThreadsOK, Inv2, EndingOK, Ending
  <2>3. pc'[t] = "handoff" /\ status'[s] = "left"
    BY <1>1, <1>3 DEF Inv1, TypeOK, ThreadsOK, UsersOK
  <2>4. \A u \in Threads : pc'[u] \in Ending /\ u # t => status'[sub[u]] = status[sub[u]]
    BY <1>1, <1>3, <2>2 DEF Inv1, TypeOK, ThreadsOK, UsersOK
  <2> HIDE DEF s, d
  <2> QED BY <1>1, <1>3, <2>1, <2>2, <2>3, <2>4 DEF Inv2, EndingOK, Ending, s
<1> HIDE DEF s, d
<1>5. ASSUME NEW c \in Channels
      PROVE  /\ (CountIn(inbox, c) + CountIn(sendCases, c) = Live(c) + Drops(c))'
             /\ (CountIn(sendCases, c) >= Leaving(c) + Drops(c))'
  <2>1. CountIn(sendCases, c)' = CountIn(sendCases, c) - (IF c = d THEN 1 ELSE 0)
    <3>1. CountIn(Delete(sendCases, d), c) = CountIn(sendCases, c) - (IF c = d THEN 1 ELSE 0)
      BY <1>1, <1>2, CountDelete
    <3>2. CountIn(sendCases, c)' = CountIn(Delete(sendCases, d), c)
      BY <1>3 DEF CountIn
    <3> QED BY <3>1, <3>2
  <2>2. CountIn(inbox, c)' = CountIn(inbox, c)
    BY <1>3 DEF CountIn
  <2>3. /\ Live(c)' = Live(c) - (IF c = d THEN 1 ELSE 0)
        /\ Leaving(c)' = Leaving(c) - (IF c = d THEN 1 ELSE 0)
    <3>1. StatusMoves(s, "left", c)
      BY <1>1, <1>3, LiveChange
    <3> QED BY <1>1, <3>1, NumberTypes DEF StatusMoves, d
  <2>4. Drops(c)' = Drops(c)
    BY <1>1, <1>3, SameDrops DEF Inv1, TypeOK, ThreadsOK
  <2> QED BY <2>1, <2>2, <2>3, <2>4, Inv2Numbers, NumberTypes, CountTypes
<1> QED BY <1>4, <1>5 DEF Inv2, CasesAccounted, CasesEnough, Live, Leaving, Drops

LEMMA UnsubCloseInv2 ==
  ASSUME Inv1, Inv2, NEW t \in Threads, UnsubClose(t)
  PROVE  Inv2'
<1> USE FeedAssumption
<1> DEFINE s == sub[t]
<1>1. s \in Subs /\ status[s] = "left" /\ pc[t] = "close"
  BY DEF UnsubClose, Inv1, PlacesOK, Inv2, EndingOK, Ending
<1>2. /\ status' = [status EXCEPT ![s] = "closed"]
      /\ pc' = [pc EXCEPT ![t] = "idle"] /\ sub' = [sub EXCEPT ![t] = NoSub]
      /\ UNCHANGED <<inbox, sendCases, recv>>
  BY DEF UnsubClose, sendVars, feedVars
<1>3. EndingOK'
  <2>1. \A u \in Threads : pc'[u] \in Ending => u # t /\ pc'[u] = pc[u] /\ sub'[u] = sub[u]
    BY <1>2 DEF Inv1, TypeOK, ThreadsOK, Ending
  <2>2. \A u \in Threads : pc'[u] \in Ending => sub[u] # s
    BY <1>1, <2>1 DEF Inv2, EndingOK, Ending
  <2>3. \A u \in Threads : pc'[u] \in Ending => status'[sub'[u]] = status[sub[u]]
    BY <1>1, <1>2, <2>1, <2>2 DEF Inv1, TypeOK, UsersOK
  <2> HIDE DEF s
  <2> QED BY <2>1, <2>3 DEF Inv2, EndingOK
<1> HIDE DEF s
<1>4. ASSUME NEW c \in Channels
      PROVE  Live(c)' = Live(c) /\ Leaving(c)' = Leaving(c)
  <2>1. status' = [status EXCEPT ![s] = "closed"]
    BY <1>2
  <2>2. StatusMoves(s, "closed", c)
    BY <1>1, <2>1, LiveChange
  <2> QED BY <1>1, <2>2, NumberTypes DEF StatusMoves
<1>5. ASSUME NEW c \in Channels PROVE Drops(c)' = Drops(c)
  BY <1>1, <1>2, SameDrops DEF Inv1, TypeOK, ThreadsOK
<1> QED BY <1>2, <1>3, <1>4, <1>5, SameLists, QuietInv2

LEMMA SendCallInv2 ==
  ASSUME Inv1, Inv2, NEW t \in Threads, SendCall(t)
  PROVE  Inv2'
<1>1. EndingOK'
  BY DEF SendCall, Inv1, TypeOK, ThreadsOK, PlacesOK, Inv2, EndingOK, Ending
<1>2. ASSUME NEW c PROVE Drops(c)' = Drops(c)
  BY SameDrops DEF SendCall, Inv1, TypeOK, ThreadsOK
<1>3. ASSUME NEW c \in Channels
      PROVE  /\ (CountIn(inbox, c) + CountIn(sendCases, c))' = CountIn(inbox, c) + CountIn(sendCases, c)
             /\ CountIn(sendCases, c)' >= CountIn(sendCases, c)
             /\ CountIn(sendCases, c)' \in Nat
  <2>1. CountIn(inbox, c)' = CountIn(inbox, c)
    BY DEF SendCall, CountIn
  <2>2. CountIn(sendCases, c)' = CountIn(sendCases, c)
    BY InitOnceCount DEF SendCall
  <2> QED BY <2>1, <2>2, CountTypes
<1>4. UNCHANGED status
  BY DEF SendCall
<1> QED BY <1>1, <1>2, <1>3, <1>4, SameStatus, QuietInv2

LEMMA SendAcquireInv2 ==
  ASSUME Inv1, Inv2, NEW t \in Threads, SendAcquire(t)
  PROVE  Inv2'
<1> USE DEF SendAcquire, Inv1, TypeOK, ThreadsOK, sendVars
<1>1. EndingOK'
  BY DEF PlacesOK, Inv2, EndingOK, Ending
<1>2. ASSUME NEW c PROVE Drops(c)' = Drops(c)
  BY SameDrops
<1>3. UNCHANGED <<status, inbox, sendCases>>
  OBVIOUS
<1> QED BY <1>1, <1>2, <1>3, SameStatus, SameLists, QuietInv2

LEMMA MergeCount ==
  ASSUME Inv1, NEW t \in Threads, SendMerge(t), NEW c \in Channels
  PROVE  /\ CountIn(inbox, c)' = 0
         /\ CountIn(sendCases, c)' = CountIn(sendCases, c) + CountIn(inbox, c)
<1>1. CountIn(inbox, c)' = 0
  <2>1. CountIn(inbox, c)' = CountIn(<<>>, c)
    BY DEF SendMerge, CountIn
  <2> QED BY <2>1, CountEmpty
<1>2. /\ IsCaseList(sendCases) /\ inbox \in Seq({Case(e) : e \in Channels})
      /\ value[t] \in 0..MaxSends
  BY DEF SendMerge, Inv1, TypeOK, ListsOK, ThreadsOK, PlacesOK, Holding
<1>3. CountIn(sendCases \o inbox, c) = CountIn(sendCases, c) + CountIn(inbox, c)
  <2> DEFINE S == Cases \cup {Case(RemoveSub)}
  <2>1. \A e \in Channels : Case(e) \in S
    BY FeedAssumption DEF Case, Cases, NoValue
  <2>2. sendCases \in Seq(S) /\ inbox \in Seq(S)
    <3>1. sendCases \in Seq(S)
      BY <1>2 DEF IsCaseList
    <3>2. {Case(e) : e \in Channels} \in SUBSET S
      BY <2>1
    <3> HIDE DEF S, Case
    <3> QED BY <1>2, <3>1, <3>2
  <2> HIDE DEF S
  <2> QED BY <2>2, CountConcat
<1>4. CountIn(WithSend(sendCases \o inbox, value[t]), c) = CountIn(sendCases \o inbox, c)
  BY <1>2, MergeCase, CountWithSend
<1>5. CountIn(sendCases, c)' = CountIn(WithSend(sendCases \o inbox, value[t]), c)
  BY DEF SendMerge, CountIn
<1> QED BY <1>1, <1>3, <1>4, <1>5

LEMMA SendMergeInv2 ==
  ASSUME Inv1, Inv2, NEW t \in Threads, SendMerge(t)
  PROVE  Inv2'
<1>1. EndingOK'
  BY DEF SendMerge, Inv1, TypeOK, ThreadsOK, PlacesOK, Inv2, EndingOK, Ending
<1>2. ASSUME NEW c PROVE Drops(c)' = Drops(c)
  BY SameDrops DEF SendMerge, Inv1, TypeOK, ThreadsOK
<1>3. ASSUME NEW c \in Channels
      PROVE  /\ (CountIn(inbox, c) + CountIn(sendCases, c))' = CountIn(inbox, c) + CountIn(sendCases, c)
             /\ CountIn(sendCases, c)' >= CountIn(sendCases, c)
             /\ CountIn(sendCases, c)' \in Nat
  BY MergeCount, CountTypes
<1>4. UNCHANGED status
  BY DEF SendMerge
<1> QED BY <1>1, <1>2, <1>3, <1>4, SameStatus, QuietInv2

\* A delivery permutes sendCases.
LEMMA DeliverInv2 ==
  ASSUME Inv1, Inv2, NEW t \in Threads, pc[t] \in {"try", "select"},
         NEW k \in 2..cases[t], NEW v, Deliver(t, k, v),
         \A u \in Threads : u # t => pc'[u] = pc[u], pc'[t] = "try"
  PROVE  Inv2'
<1>1. EndingOK'
  BY DEF Deliver, Inv2, EndingOK, Ending
<1>2. ASSUME NEW c PROVE Drops(c)' = Drops(c)
  BY SameDrops DEF Deliver
<1>3. ASSUME NEW c \in Channels
      PROVE  /\ (CountIn(inbox, c) + CountIn(sendCases, c))' = CountIn(inbox, c) + CountIn(sendCases, c)
             /\ CountIn(sendCases, c)' >= CountIn(sendCases, c)
             /\ CountIn(sendCases, c)' \in Nat
  <2>1. CountIn(inbox, c)' = CountIn(inbox, c)
    BY DEF Deliver, CountIn
  <2>2. IsCaseList(sendCases) /\ cases[t] \in 1..Len(sendCases) /\ Len(sendCases) \in Nat
    BY DEF Inv1, TypeOK, ListsOK, PlacesOK, Holding, Sending, IsCaseList
  <2>3. cases[t] \in 2..Len(sendCases)
    BY <2>2
  <2>4. CountIn(Deactivate(sendCases, k, cases[t]), c) = CountIn(sendCases, c)
    BY <2>2, <2>3, CountDeactivate
  <2>5. CountIn(sendCases, c)' = CountIn(Deactivate(sendCases, k, cases[t]), c)
    BY DEF Deliver, CountIn
  <2> QED BY <2>1, <2>4, <2>5, CountTypes
<1>4. UNCHANGED status
  BY DEF Deliver
<1> QED BY <1>1, <1>2, <1>3, <1>4, SameStatus, QuietInv2

LEMMA TrySendInv2 ==
  ASSUME Inv1, Inv2, NEW t \in Threads, TrySend(t)
  PROVE  Inv2'
<1>1. idx[t] \in 2..cases[t]
  BY DEF TrySend, Inv1, TypeOK, ThreadsOK, PlacesOK
<1>2. /\ pc[t] = "try" /\ pc'[t] = "try" /\ Deliver(t, idx[t], value[t])
      /\ \A u \in Threads : u # t => pc'[u] = pc[u]
  BY DEF TrySend
<1> QED BY <1>1, <1>2, DeliverInv2

LEMMA SelectSendInv2 ==
  ASSUME Inv1, Inv2, NEW t \in Threads, SelectSend(t)
  PROVE  Inv2'
<1>1. PICK k \in 2..cases[t] : Deliver(t, k, sendCases[k].send)
  BY DEF SelectSend
<1>2. /\ pc[t] = "select" /\ pc'[t] = "try"
      /\ \A u \in Threads : u # t => pc'[u] = pc[u]
  BY DEF SelectSend, Inv1, TypeOK, ThreadsOK
<1> QED BY <1>1, <1>2, DeliverInv2

LEMMA TrySendFullInv2 ==
  ASSUME Inv1, Inv2, NEW t \in Threads, TrySendFull(t)
  PROVE  Inv2'
<1> USE DEF TrySendFull, feedVars
<1>1. EndingOK'
  BY DEF Inv2, EndingOK, Ending
<1>2. ASSUME NEW c PROVE Drops(c)' = Drops(c)
  BY SameDrops
<1>3. UNCHANGED <<status, inbox, sendCases>>
  OBVIOUS
<1> QED BY <1>1, <1>2, <1>3, SameStatus, SameLists, QuietInv2

LEMMA TryDoneInv2 ==
  ASSUME Inv1, Inv2, NEW t \in Threads, TryDone(t)
  PROVE  Inv2'
<1> USE DEF TryDone, Inv1, TypeOK, ThreadsOK, feedVars, sendVars
<1>1. EndingOK'
  BY DEF PlacesOK, Inv2, EndingOK, Ending
<1>2. ASSUME NEW c PROVE Drops(c)' = Drops(c)
  BY SameDrops
<1>3. UNCHANGED <<status, inbox, sendCases>>
  OBVIOUS
<1> QED BY <1>1, <1>2, <1>3, SameStatus, SameLists, QuietInv2 DEF Inv1

LEMMA SelectRemoveInv2 ==
  ASSUME Inv1, Inv2, NEW t \in Threads, NEW u \in Threads, SelectRemove(t, u)
  PROVE  Inv2'
<1> USE FeedAssumption
<1> DEFINE s == sub[u]
           d == ChanOf[s]
<1>1. s \in Subs /\ d \in Channels /\ status[s] = "leaving" /\ pc[u] = "unselect" /\ pc[t] = "select"
  BY DEF SelectRemove, Inv1, PlacesOK, Inv2, EndingOK, Ending
<1>2. /\ status' = [status EXCEPT ![s] = "left"] /\ recv' = [recv EXCEPT ![t] = d]
      /\ pc' = [pc EXCEPT ![t] = "drop", ![u] = "close"] /\ sub' = sub
      /\ inbox' = inbox /\ sendCases' = sendCases
  BY DEF SelectRemove, feedVars
<1>3. EndingOK'
  <2>1. pc'[t] = "drop" /\ pc'[u] = "close" /\ \A x \in Threads : x # t /\ x # u => pc'[x] = pc[x]
    BY <1>1, <1>2 DEF Inv1, TypeOK, ThreadsOK
  <2>2. \A x \in Threads : pc'[x] \in Ending => pc[x] \in Ending
    BY <1>1, <2>1 DEF Ending
  <2>3. \A x \in Threads : pc'[x] \in Ending /\ x # u => sub[x] # s /\ pc'[x] = pc[x]
    BY <1>1, <2>1, <2>2 DEF Inv2, EndingOK, Ending
  <2>4. status'[s] = "left"
    BY <1>1, <1>2 DEF Inv1, TypeOK, UsersOK
  <2>5. \A x \in Threads : pc'[x] \in Ending /\ x # u => status'[sub[x]] = status[sub[x]]
    BY <1>1, <1>2, <2>3 DEF Inv1, TypeOK, UsersOK
  <2> HIDE DEF d
  <2>6. ASSUME NEW x \in Threads, pc'[x] \in Ending
        PROVE  status'[sub[x]] = IF pc'[x] \in {"unselect", "unlist"} THEN "leaving" ELSE "left"
    <3>1. CASE x = u
      BY <2>1, <2>4, <3>1
    <3>2. CASE x # u
      BY <2>2, <2>3, <2>5, <2>6, <3>2 DEF Inv2, EndingOK
    <3> QED BY <3>1, <3>2
  <2>7. ASSUME NEW x \in Threads, NEW y \in Threads, pc'[x] \in Ending, pc'[y] \in Ending,
               sub[y] = sub[x]
        PROVE  y = x
    BY <2>2, <2>7 DEF Inv2, EndingOK
  <2> QED BY <1>2, <2>6, <2>7 DEF EndingOK
<1> HIDE DEF s, d
<1>4. ASSUME NEW c \in Channels
      PROVE  /\ (CountIn(inbox, c) + CountIn(sendCases, c) = Live(c) + Drops(c))'
             /\ (CountIn(sendCases, c) >= Leaving(c) + Drops(c))'
  <2>1. CountIn(inbox, c)' = CountIn(inbox, c) /\ CountIn(sendCases, c)' = CountIn(sendCases, c)
    BY <1>2 DEF CountIn
  <2>2. /\ Live(c)' = Live(c) - (IF c = d THEN 1 ELSE 0)
        /\ Leaving(c)' = Leaving(c) - (IF c = d THEN 1 ELSE 0)
    <3>1. status' = [status EXCEPT ![s] = "left"]
      BY <1>2
    <3>2. StatusMoves(s, "left", c)
      BY <1>1, <3>1, LiveChange
    <3> QED BY <1>1, <3>2, NumberTypes DEF StatusMoves, d
  <2>3. Drops(c)' = Drops(c) + (IF c = d THEN 1 ELSE 0)
    <3>1. /\ recv'[t] = d /\ pc'[t] = "drop"
          /\ \A x \in Threads : x # t => recv'[x] = recv[x] /\ (pc'[x] = "drop" <=> pc[x] = "drop")
      BY <1>1, <1>2 DEF Inv1, TypeOK, ThreadsOK
    <3>2. t \notin Dropping(c)
      BY <1>1 DEF Dropping
    <3>3. Dropping(c)' = IF c = d THEN Dropping(c) \cup {t} ELSE Dropping(c)
      BY <1>1, <3>1 DEF Dropping
    <3>4. Cardinality(Dropping(c) \cup {t}) = Cardinality(Dropping(c)) + 1
      BY <3>2, DroppingType, FS_AddElement
    <3> QED BY <3>3, <3>4, DroppingType DEF Drops
  <2> QED BY <2>1, <2>2, <2>3, Inv2Numbers, NumberTypes, CountTypes
<1> QED BY <1>3, <1>4 DEF Inv2, CasesAccounted, CasesEnough, Live, Leaving, Drops

LEMMA SendDropInv2 ==
  ASSUME Inv1, Inv2, NEW t \in Threads, SendDrop(t)
  PROVE  Inv2'
<1> DEFINE d == recv[t]
<1>1. d \in Channels /\ pc[t] = "drop" /\ d # RemoveSub
  BY FeedAssumption DEF SendDrop, Inv1, PlacesOK
<1>2. IsCaseList(sendCases) /\ Find(sendCases, d) # 0
  BY <1>1, FindsCase DEF RemovalFindsCase, Inv1, TypeOK, ListsOK, PlacesOK, Holding
<1>3. /\ sendCases' = Delete(sendCases, d) /\ inbox' = inbox /\ status' = status
      /\ recv' = [recv EXCEPT ![t] = RemoveSub]
      /\ pc' = [pc EXCEPT ![t] = "try"] /\ sub' = sub
  BY DEF SendDrop
<1>4. EndingOK'
  BY <1>1, <1>3 DEF Inv1, TypeOK, ThreadsOK, PlacesOK, Inv2, EndingOK, Ending
<1> HIDE DEF d
<1>5. ASSUME NEW c \in Channels
      PROVE  /\ (CountIn(inbox, c) + CountIn(sendCases, c) = Live(c) + Drops(c))'
             /\ (CountIn(sendCases, c) >= Leaving(c) + Drops(c))'
  <2>1. CountIn(sendCases, c)' = CountIn(sendCases, c) - (IF c = d THEN 1 ELSE 0)
    <3>1. CountIn(Delete(sendCases, d), c) = CountIn(sendCases, c) - (IF c = d THEN 1 ELSE 0)
      BY <1>1, <1>2, CountDelete
    <3>2. CountIn(sendCases, c)' = CountIn(Delete(sendCases, d), c)
      BY <1>3 DEF CountIn
    <3> QED BY <3>1, <3>2
  <2>2. CountIn(inbox, c)' = CountIn(inbox, c)
    BY <1>3 DEF CountIn
  <2>3. Live(c)' = Live(c) /\ Leaving(c)' = Leaving(c)
    BY <1>3, SameStatus
  <2>4. Drops(c)' = Drops(c) - (IF c = d THEN 1 ELSE 0)
    <3>1. /\ pc'[t] = "try"
          /\ \A x \in Threads : x # t => recv'[x] = recv[x] /\ pc'[x] = pc[x]
      BY <1>1, <1>3 DEF Inv1, TypeOK, ThreadsOK
    <3>2. t \in Dropping(c) <=> c = d
      BY <1>1 DEF Dropping, d
    <3>3. Dropping(c)' = Dropping(c) \ {t}
      BY <1>1, <3>1 DEF Dropping
    <3>4. Cardinality(Dropping(c) \ {t})
            = Cardinality(Dropping(c)) - (IF t \in Dropping(c) THEN 1 ELSE 0)
      <4>1. CASE t \in Dropping(c)
        BY <4>1, DroppingType, FS_RemoveElement
      <4>2. CASE t \notin Dropping(c)
        <5>1. Dropping(c) \ {t} = Dropping(c)
          BY <4>2
        <5> QED BY <4>2, <5>1, DroppingType
      <4> QED BY <4>1, <4>2
    <3> QED BY <3>2, <3>3, <3>4, DroppingType DEF Drops
  <2> QED BY <2>1, <2>2, <2>3, <2>4, Inv2Numbers, NumberTypes, CountTypes
<1> QED BY <1>4, <1>5 DEF Inv2, CasesAccounted, CasesEnough, Live, Leaving, Drops

LEMMA SendReleaseInv2 ==
  ASSUME Inv1, Inv2, NEW t \in Threads, SendRelease(t)
  PROVE  Inv2'
<1>1. EndingOK'
  BY DEF SendRelease, Inv1, TypeOK, ThreadsOK, PlacesOK, Inv2, EndingOK, Ending
<1>2. ASSUME NEW c PROVE Drops(c)' = Drops(c)
  BY SameDrops DEF SendRelease, Inv1, TypeOK, ThreadsOK
<1>3. ASSUME NEW c \in Channels
      PROVE  /\ (CountIn(inbox, c) + CountIn(sendCases, c))' = CountIn(inbox, c) + CountIn(sendCases, c)
             /\ CountIn(sendCases, c)' >= CountIn(sendCases, c)
             /\ CountIn(sendCases, c)' \in Nat
  <2>1. CountIn(inbox, c)' = CountIn(inbox, c)
    BY DEF SendRelease, CountIn
  <2>2. IsCaseList(sendCases) /\ NoValue \in 0..MaxSends
    BY FeedAssumption DEF SendRelease, Inv1, TypeOK, ListsOK, PlacesOK, Holding, NoValue
  <2>3. CountIn(WithSend(sendCases, NoValue), c) = CountIn(sendCases, c)
    BY <2>2, CountWithSend
  <2>4. CountIn(sendCases, c)' = CountIn(WithSend(sendCases, NoValue), c)
    BY DEF SendRelease, CountIn
  <2> QED BY <2>1, <2>3, <2>4, CountTypes
<1>4. UNCHANGED status
  BY DEF SendRelease
<1> QED BY <1>1, <1>2, <1>3, <1>4, SameStatus, QuietInv2

LEMMA StillInv2 ==
  ASSUME Inv1, Inv2, UNCHANGED <<pc, sub, recv, status, inbox, sendCases>>
  PROVE  Inv2'
<1>1. EndingOK'
  BY DEF Inv2, EndingOK
<1>2. ASSUME NEW c PROVE Drops(c)' = Drops(c)
  BY SameDrops
<1> QED BY <1>1, <1>2, SameStatus, SameLists, QuietInv2

LEMMA StepInv2 == Inv1 /\ Inv2 /\ [Next]_vars => Inv2'
<1> SUFFICES ASSUME Inv1, Inv2, [Next]_vars PROVE Inv2'
  OBVIOUS
<1>1. CASE \E t \in Threads, s \in Subs :
             Subscribe(t, s) \/ Unsubscribe(t, s) \/ UnsubscribeAgain(t, s)
  BY <1>1, SubscribeInv2, UnsubscribeInv2, UnsubscribeAgainInv2
<1>2. ASSUME NEW t \in Threads, SendCall(t) \/ Step(t) PROVE Inv2'
  BY <1>2, SendCallInv2, OnceReturnInv2, UnsubTakeLockInv2, UnsubDeleteInv2, UnsubHandOffInv2,
     UnsubUnlockInv2, UnsubCloseInv2, SendAcquireInv2, SendMergeInv2, TrySendInv2,
      TrySendFullInv2, TryDoneInv2,
     SelectSendInv2, SelectRemoveInv2, SendDropInv2, SendReleaseInv2 DEF Step
<1>3. CASE \E c \in Channels : Receive(c)
  BY <1>3, StillInv2 DEF Receive, feedVars, sendVars
<1>4. CASE Quiescent \/ UNCHANGED vars
  BY <1>4, StillInv2 DEF Quiescent, vars, feedVars, sendVars
<1> QED BY <1>1, <1>2, <1>3, <1>4 DEF Next

Inv == Inv1 /\ Inv2

\* The inductive invariant holds in every reachable state.
THEOREM Invariance == Spec => []Inv
<1>1. Init => Inv
  BY InitInv1, InitInv2 DEF Inv
<1>2. Inv /\ [Next]_vars => Inv'
  BY StepInv1, StepInv2, FindsCase DEF Inv
<1> QED BY <1>1, <1>2, PTL DEF Spec

-----------------------------------------------------------------------------
(* The theorems *)

\* Every variable has its type, and sendCases, once initialised, starts with
\* the case of removeSub and holds user channels behind it, whatever the
\* order in which remove() and Send delete from it.
THEOREM TypeCorrect == Spec => []TypeOK
<1>1. Inv => TypeOK
  BY DEF Inv, Inv1
<1> QED BY <1>1, Invariance, PTL

\* The token of sendLock is out exactly while one goroutine owns sendCases:
\* Send and remove() exclude each other, and the token is neither lost nor
\* duplicated when a Send and an Unsubscribe meet.
THEOREM LockSafe == Spec => []LockDiscipline
<1>1. Inv => LockDiscipline
  BY DEF Inv, Inv1
<1> QED BY <1>1, Invariance, PTL

\* No case is lost, left behind or deleted twice.
THEOREM CasesSafe == Spec => []CasesAccounted
<1>1. Inv => CasesAccounted
  BY DEF Inv, Inv2
<1> QED BY <1>1, Invariance, PTL

\* find() never returns -1 to the delete() of remove() and of Send.
THEOREM RemovalSafe == Spec => []RemovalFindsCase
<1>1. Inv => RemovalFindsCase
  BY FindsCase DEF Inv
<1> QED BY <1>1, Invariance, PTL

\* A value that is delivered goes into the channel of a case in sendCases,
\* and no case waits to be dropped while the lock holder delivers.
LEMMA DeliverToMember ==
  ASSUME Inv, NEW t \in Threads, pc[t] \in {"try", "select"},
         NEW k \in 2..cases[t], NEW v, Deliver(t, k, v),
         NEW c \in Channels, out'[c] # out[c]
  PROVE  With(c, {"live", "leaving"}) # {}
<1>1. IsCaseList(sendCases) /\ k \in 2..Len(sendCases)
  BY DEF Inv, Inv1, TypeOK, ListsOK, ThreadsOK, PlacesOK, Holding, Sending, IsCaseList
<1>2. sendCases[k].ch = c
  BY <1>1, CaseListChannels DEF Deliver, Inv, Inv1, TypeOK, UsersOK
<1>3. CountIn(sendCases, c) > 0
  <2>1. sendCases \in Seq(Cases \cup {Case(RemoveSub)}) /\ k \in 1..Len(sendCases)
    BY <1>1 DEF IsCaseList
  <2> QED BY <1>2, <2>1, CountType
<1>4. Dropping(c) = {}
  BY DEF Dropping, Inv, Inv1, LockDiscipline, Holding
<1>5. Drops(c) = 0
  BY <1>4, FS_EmptySet DEF Drops
<1>6. Live(c) > 0
  <2>1. CountIn(inbox, c) \in Nat /\ CountIn(sendCases, c) \in Nat
    BY CountTypes DEF Inv
  <2>2. CountIn(inbox, c) + CountIn(sendCases, c) = Live(c) + Drops(c)
    BY Inv2Numbers DEF Inv
  <2> QED BY <1>3, <1>5, <2>1, <2>2, NumberTypes
<1> QED BY <1>6, FS_EmptySet DEF Live

\* A value goes into a channel only while one of its subscriptions has not
\* ended: nothing is delivered after Unsubscribe returned, also when the
\* Unsubscribe met a Send that was blocked on that channel.
THEOREM NoLateDelivery == Spec => NoDeliveryAfterLeave
<1>1. ASSUME Inv, [Next]_vars, NEW c \in Channels, out'[c] # out[c]
      PROVE  With(c, {"live", "leaving"}) # {}
  <2>1. PICK t \in Threads : TrySend(t) \/ SelectSend(t)
    <3>1. CASE UNCHANGED vars
      BY <1>1, <3>1 DEF vars, userVars
    <3>2. CASE \E t \in Threads, s \in Subs :
                 Subscribe(t, s) \/ Unsubscribe(t, s) \/ UnsubscribeAgain(t, s)
      BY <1>1, <3>2 DEF Subscribe, Unsubscribe, UnsubscribeAgain, userVars
    <3>3. CASE \E d \in Channels : Receive(d)
      BY <1>1, <3>3 DEF Receive
    <3>4. CASE Quiescent
      BY <1>1, <3>4 DEF Quiescent, vars, userVars
    <3>5. CASE \E t \in Threads : SendCall(t) \/ Step(t)
      <4>1. PICK t \in Threads : SendCall(t) \/ Step(t)
        BY <3>5
      <4>2. /\ ~SendCall(t) /\ ~OnceReturn(t) /\ ~UnsubTakeLock(t) /\ ~UnsubDelete(t)
            /\ ~UnsubHandOff(t) /\ ~UnsubUnlock(t) /\ ~UnsubClose(t)
        BY <1>1 DEF SendCall, OnceReturn, UnsubTakeLock, UnsubDelete, UnsubHandOff, UnsubUnlock,
                    UnsubClose, userVars
      <4>3. /\ ~SendAcquire(t) /\ ~SendMerge(t) /\ ~TrySendFull(t) /\ ~TryDone(t)
            /\ ~SendDrop(t) /\ ~SendRelease(t)
        BY <1>1 DEF SendAcquire, SendMerge, TrySendFull, TryDone, SendDrop, SendRelease, userVars
      <4>4. ~\E u \in Threads : SelectRemove(t, u)
        BY <1>1 DEF SelectRemove, userVars
      <4> QED BY <4>1, <4>2, <4>3, <4>4 DEF Step
    <3> QED BY <1>1, <3>1, <3>2, <3>3, <3>4, <3>5 DEF Next
  <2>2. CASE TrySend(t)
    <3>1. idx[t] \in 2..cases[t] /\ pc[t] = "try" /\ Deliver(t, idx[t], value[t])
      BY <1>1, <2>2 DEF TrySend, Inv, Inv1, TypeOK, ThreadsOK, PlacesOK
    <3> QED BY <1>1, <3>1, DeliverToMember
  <2>3. CASE SelectSend(t)
    <3>1. pc[t] = "select" /\ \E k \in 2..cases[t] : Deliver(t, k, sendCases[k].send)
      BY <2>3 DEF SelectSend
    <3> QED BY <1>1, <3>1, DeliverToMember
  <2> QED BY <2>1, <2>2, <2>3
<1>2. Inv /\ [Next]_vars =>
        [\A c \in Channels : out'[c] # out[c] => With(c, {"live", "leaving"}) # {}]_vars
  BY <1>1
<1> QED BY <1>2, Invariance, PTL DEF Spec, NoDeliveryAfterLeave

=============================================================================
