--------------------------- MODULE BlockingProofs ---------------------------
(***************************************************************************)
(* A structure cuts its object as it should for all sizes that fit its     *)
(* fields, whatever updates made it, and a query that runs beside an       *)
(* update neither divides by zero nor, while a stream grows, errs on what  *)
(* was there.  First the arithmetic of a structure that is Cut, then the   *)
(* invariant of the updates (BlockingInv), then that of a query beside a   *)
(* growing stream (StreamInv).                                             *)
(***************************************************************************)
EXTENDS BlockingShared, ListLemmas

-----------------------------------------------------------------------------
(* Quotients *)

LEMMA CeilDivIs ==
  ASSUME NEW x \in Nat \ {0}, NEW y \in Nat \ {0}
  PROVE  /\ CeilDiv(x, y) \in Nat \ {0}
         /\ y * (CeilDiv(x, y) - 1) < x /\ x <= y * CeilDiv(x, y)
BY SMT DEF CeilDiv

-----------------------------------------------------------------------------
(* Stores *)

Fields == DOMAIN Zero

Structure == [Fields -> Nat]

IsStores(stores) == stores \in Seq(Fields \X Nat)

LEMMA FieldsAre ==
  Fields = {"N", "I", "A", "ASmall", "ESLen", "T", "TransferLen", "MaxSbLen", "MaxNumEs",
            "NumEsPerGroup"}
BY DEF Fields, Zero

LEMMA LastStore ==
  ASSUME NEW b \in Structure, NEW stores, IsStores(stores), NEW f, NEW k \in 1..Len(stores),
         stores[k][1] = f, \A j \in 1..Len(stores) : stores[j][1] = f => j <= k
  PROVE  StoredAll(b, stores)[f] = stores[k][2]
<1> DEFINE ks == {j \in DOMAIN stores : stores[j][1] = f}
<1>1. DOMAIN stores = 1..Len(stores) /\ f \in Fields
  BY DEF IsStores
<1>2. k \in ks /\ \A j \in ks : j \in Int /\ k >= j
  BY <1>1
<1>3. Max(ks) = k
  BY <1>2 DEF Max
<1>4. StoredAll(b, stores)[f] = IF ks = {} THEN b[f] ELSE stores[Max(ks)][2]
  BY <1>1 DEF StoredAll, Structure
<1> QED BY <1>2, <1>3, <1>4

LEMMA NoStore ==
  ASSUME NEW b \in Structure, NEW stores, IsStores(stores), NEW f \in Fields,
         \A j \in 1..Len(stores) : stores[j][1] # f
  PROVE  StoredAll(b, stores)[f] = b[f]
BY DEF StoredAll, Structure, IsStores

LEMMA StoredAllStructure ==
  ASSUME NEW b \in Structure, NEW stores, IsStores(stores)
  PROVE  StoredAll(b, stores) \in Structure
<1>1. ASSUME NEW f \in Fields
      PROVE  StoredAll(b, stores)[f] \in Nat
  <2> DEFINE ks == {j \in DOMAIN stores : stores[j][1] = f}
  <2>1. StoredAll(b, stores)[f] = IF ks = {} THEN b[f] ELSE stores[Max(ks)][2]
    BY DEF StoredAll, Structure
  <2>2. CASE ks = {}
    BY <2>1, <2>2 DEF Structure
  <2>3. CASE ks # {}
    <3>0. Len(stores) \in Nat
      BY DEF IsStores
    <3>1. ks \in SUBSET (1..Len(stores))
      BY DEF IsStores
    <3>2. PICK k \in ks : \A j \in ks : k >= j
      BY <2>3, <3>1, <3>0, GreatestElement
    <3>3. Max(ks) \in ks
      BY <3>2 DEF Max
    <3> QED BY SMTT(30), <2>1, <2>3, <3>1, <3>3 DEF IsStores
  <2> QED BY <2>2, <2>3
<1> QED BY <1>1 DEF StoredAll, Structure

\* A store done is a store less to do.
LEMMA StoreStep ==
  ASSUME NEW b \in Structure, NEW stores, IsStores(stores), stores # <<>>
  PROVE  StoredAll(Stored(b, Head(stores)), Tail(stores)) = StoredAll(b, stores)
<1> DEFINE c == Stored(b, Head(stores))
           n == Len(stores)
<1>1. n \in Nat /\ Len(Tail(stores)) = n - 1 /\ IsStores(Tail(stores)) /\ n > 0
  BY DEF IsStores
<1>2. \A j \in 1..(n - 1) : Tail(stores)[j] = stores[j + 1]
  BY DEF IsStores
<1>3. stores[1] \in Fields \X Nat /\ Head(stores) = stores[1]
  BY <1>1 DEF IsStores
<1>4. /\ c \in Structure
      /\ c[stores[1][1]] = stores[1][2]
      /\ \A f \in Fields : f # stores[1][1] => c[f] = b[f]
  BY <1>3 DEF Stored, Structure
<1>5. PICK rest : rest = Tail(stores)
  OBVIOUS
<1> HIDE DEF c
<1>6. ASSUME NEW f \in Fields
      PROVE  StoredAll(c, rest)[f] = StoredAll(b, stores)[f]
  <2> DEFINE ks == {j \in 1..(n - 1) : rest[j][1] = f}
  <2>1. CASE ks # {}
    <3>1. PICK m \in ks : \A k \in ks : k <= m
      <4>1. ks \in SUBSET (1..(n - 1)) /\ n - 1 \in Nat
        BY <1>1
      <4> HIDE DEF ks
      <4> QED BY <2>1, <4>1, GreatestElement
    <3>2. StoredAll(c, rest)[f] = rest[m][2]
      <4>1. /\ IsStores(rest) /\ m \in 1..Len(rest) /\ rest[m][1] = f
            /\ \A j \in 1..Len(rest) : rest[j][1] = f => j <= m
        BY <1>1, <1>5, <3>1
      <4> QED BY <1>4, <4>1, LastStore
    <3>3. /\ m + 1 \in 1..n /\ stores[m + 1][1] = f
          /\ \A j \in 1..n : stores[j][1] = f => j <= m + 1
      <4>1. ASSUME NEW j \in 1..n, stores[j][1] = f, j > m + 1
            PROVE  FALSE
        <5>1. j - 1 \in 1..(n - 1) /\ rest[j - 1] = stores[j]
          BY <1>1, <1>2, <1>5, <3>1, <4>1
        <5> QED BY <1>1, <3>1, <4>1, <5>1
      <4> QED BY <1>1, <1>2, <1>5, <3>1, <4>1
    <3>4. StoredAll(b, stores)[f] = stores[m + 1][2]
      BY <1>1, <3>3, LastStore
    <3> QED BY <1>2, <1>5, <3>1, <3>2, <3>4
  <2>2. CASE ks = {} 
    <3>1. StoredAll(c, rest)[f] = c[f]
      <4>1. IsStores(rest) /\ \A j \in 1..Len(rest) : rest[j][1] # f
        BY <1>1, <1>5, <2>2
      <4> QED BY <1>4, <4>1, NoStore
    <3>2. \A j \in 2..n : stores[j][1] # f
      <4>1. ASSUME NEW j \in 2..n, stores[j][1] = f
            PROVE  FALSE
        <5>1. j - 1 \in 1..(n - 1) /\ rest[j - 1] = stores[j]
          BY <1>1, <1>2, <1>5
        <5> QED BY <2>2, <4>1, <5>1
      <4> QED BY <4>1
    <3>3. CASE stores[1][1] = f
      BY <1>1, <1>4, <1>5, <3>1, <3>2, <3>3, LastStore
    <3>4. CASE stores[1][1] # f
      <4>1. \A j \in 1..n : stores[j][1] # f
        BY <1>1, <3>2, <3>4
      <4> QED BY <1>4, <3>1, <3>4, <4>1, NoStore
    <3> QED BY <3>3, <3>4
  <2> QED BY <2>1, <2>2
<1>7. StoredAll(c, rest) \in Structure /\ StoredAll(b, stores) \in Structure
  BY <1>1, <1>4, <1>5, StoredAllStructure
<1> QED BY <1>5, <1>6, <1>7 DEF Structure, c

\* A field keeps its value or has that of its last store.
LEMMA StoredAllCases ==
  ASSUME NEW b \in Structure, NEW stores, IsStores(stores), NEW f \in Fields
  PROVE  \/ /\ \A j \in 1..Len(stores) : stores[j][1] # f
            /\ StoredAll(b, stores)[f] = b[f]
         \/ \E k \in 1..Len(stores) :
               /\ stores[k][1] = f
               /\ \A j \in 1..Len(stores) : stores[j][1] = f => j <= k
               /\ StoredAll(b, stores)[f] = stores[k][2]
<1> DEFINE ks == {j \in 1..Len(stores) : stores[j][1] = f}
<1>1. CASE ks = {}
  <2>1. \A j \in 1..Len(stores) : stores[j][1] # f
    BY <1>1
  <2> QED BY <2>1, NoStore
<1>2. CASE ks # {}
  <2>1. PICK m \in ks : \A k \in ks : k <= m
    <3>1. ks \in SUBSET (1..Len(stores)) /\ Len(stores) \in Nat
      BY DEF IsStores
    <3> HIDE DEF ks
    <3> QED BY <1>2, <3>1, GreatestElement
  <2>2. /\ m \in 1..Len(stores) /\ stores[m][1] = f
        /\ \A j \in 1..Len(stores) : stores[j][1] = f => j <= m
    BY <2>1
  <2>3. StoredAll(b, stores)[f] = stores[m][2]
    BY <2>2, LastStore
  <2> QED BY <2>2, <2>3
<1> QED BY <1>1, <1>2

LEMMA StoredAllAppends ==
  ASSUME NEW b \in Structure, NEW s, NEW u, IsStores(s), IsStores(u)
  PROVE  /\ IsStores(s \o u)
         /\ StoredAll(b, s \o u) = StoredAll(StoredAll(b, s), u)
<1>1. PICK m, n \in Nat : m = Len(s) /\ n = Len(u)
  BY DEF IsStores
<1>2. PICK c : c = StoredAll(b, s) /\ c \in Structure
  BY StoredAllStructure
<1>3. PICK v : v = s \o u
  OBVIOUS
<1>4. /\ IsStores(v) /\ Len(v) = m + n
      /\ \A i \in 1..m : v[i] = s[i]
      /\ \A i \in 1..n : v[m + i] = u[i]
      /\ \A i \in (m + 1)..(m + n) : v[i] = u[i - m]
  BY <1>1, <1>3 DEF IsStores
<1>5. ASSUME NEW f \in Fields
      PROVE  StoredAll(b, v)[f] = StoredAll(c, u)[f]
  <2>1. CASE \E k \in 1..n : /\ u[k][1] = f
                             /\ \A j \in 1..n : u[j][1] = f => j <= k
                             /\ StoredAll(c, u)[f] = u[k][2]
    <3>1. PICK k \in 1..n : /\ u[k][1] = f
                            /\ \A j \in 1..n : u[j][1] = f => j <= k
                            /\ StoredAll(c, u)[f] = u[k][2]
      BY <2>1
    <3>2. m + k \in 1..Len(v) /\ v[m + k] = u[k]
      BY <1>4
    <3>3. ASSUME NEW j \in 1..Len(v), v[j][1] = f
          PROVE  j <= m + k
      <4>1. CASE j > m
        <5>1. j - m \in 1..n /\ v[j] = u[j - m]
          BY <1>4, <4>1
        <5>2. j - m <= k
          BY <3>1, <3>3, <5>1
        <5> QED BY <5>2
      <4> QED BY <4>1
    <3>4. PICK p \in 1..Len(v) : p = m + k /\ v[p] = u[k]
      BY <3>2
    <3>5. v[p][1] = f /\ \A j \in 1..Len(v) : v[j][1] = f => j <= p
      BY <3>1, <3>3, <3>4
    <3>6. StoredAll(b, v)[f] = v[p][2]
      <4>1. IsStores(v)
        BY <1>4
      <4> QED BY <3>5, <4>1, LastStore
    <3> QED BY <3>1, <3>4, <3>6
  <2>2. CASE (\A j \in 1..n : u[j][1] # f) /\ StoredAll(c, u)[f] = c[f]
    <3>1. \A j \in 1..Len(v) : v[j][1] = f => j <= m
      <4>1. ASSUME NEW j \in 1..Len(v), v[j][1] = f, j > m
            PROVE  FALSE
        <5>1. j - m \in 1..n /\ v[j] = u[j - m]
          BY <1>4, <4>1
        <5> QED BY <2>2, <4>1, <5>1
      <4> QED BY <4>1
    <3>2. CASE \E k \in 1..m : /\ s[k][1] = f
                               /\ \A j \in 1..m : s[j][1] = f => j <= k
                               /\ c[f] = s[k][2]
      <4>1. PICK k \in 1..m : /\ s[k][1] = f
                              /\ \A j \in 1..m : s[j][1] = f => j <= k
                              /\ c[f] = s[k][2]
        BY <3>2
      <4>2. k \in 1..Len(v) /\ v[k] = s[k]
        BY <1>4
      <4>3. ASSUME NEW j \in 1..Len(v), v[j][1] = f
            PROVE  j <= k
        <5>1. j \in 1..m /\ v[j] = s[j]
          BY <1>4, <3>1, <4>3
        <5> QED BY <4>1, <4>3, <5>1
      <4> QED BY SMTT(30), <1>4, <2>2, <4>1, <4>2, <4>3, LastStore
    <3>3. CASE (\A j \in 1..m : s[j][1] # f) /\ c[f] = b[f]
      <4>1. ASSUME NEW j \in 1..Len(v)
            PROVE  v[j][1] # f
        <5>1. CASE j \in 1..m
          BY <1>4, <3>3, <5>1
        <5>2. CASE j \notin 1..m
          BY <1>4, <3>1, <5>2
        <5> QED BY <5>1, <5>2
      <4> QED BY <1>4, <2>2, <3>3, <4>1, NoStore
    <3> QED BY <1>1, <1>2, <3>2, <3>3, StoredAllCases
  <2> QED BY <1>1, <1>2, <2>1, <2>2, StoredAllCases
<1>6. StoredAll(b, v) \in Structure /\ StoredAll(c, u) \in Structure
  BY <1>2, <1>4, StoredAllStructure
<1> QED BY <1>2, <1>3, <1>4, <1>5, <1>6 DEF Structure

LEMMA StoredNone ==
  ASSUME NEW b \in Structure
  PROVE  IsStores(<<>>) /\ StoredAll(b, <<>>) = b
<1>1. IsStores(<<>>)
  BY DEF IsStores
<1>2. ASSUME NEW f \in Fields
      PROVE  StoredAll(b, <<>>)[f] = b[f]
  BY <1>1, NoStore
<1> QED BY <1>1, <1>2, StoredAllStructure DEF Structure

LEMMA StoredIs ==
  ASSUME NEW b \in Structure, NEW s \in Fields \X Nat
  PROVE  Stored(b, s) \in Structure
BY DEF Stored, Structure

LEMMA StoredOne ==
  ASSUME NEW b \in Structure, NEW s \in Fields \X Nat
  PROVE  IsStores(<<s>>) /\ StoredAll(b, <<s>>) = Stored(b, s)
<1>1. IsStores(<<s>>)
  BY DEF IsStores
<1>2. Head(<<s>>) = s /\ Tail(<<s>>) = <<>> /\ <<s>> # <<>>
  OBVIOUS
<1>3. StoredAll(Stored(b, s), <<>>) = StoredAll(b, <<s>>)
  BY <1>1, <1>2, StoreStep
<1> QED BY <1>1, <1>3, StoredNone, StoredIs

LEMMA StoredTwo ==
  ASSUME NEW b \in Structure, NEW s \in Fields \X Nat, NEW u \in Fields \X Nat
  PROVE  IsStores(<<s, u>>) /\ StoredAll(b, <<s, u>>) = Stored(Stored(b, s), u)
<1>1. IsStores(<<s, u>>)
  BY DEF IsStores
<1>2. Head(<<s, u>>) = s /\ Tail(<<s, u>>) = <<u>> /\ <<s, u>> # <<>>
  OBVIOUS
<1>3. StoredAll(Stored(b, s), <<u>>) = StoredAll(b, <<s, u>>)
  BY <1>1, <1>2, StoreStep
<1> QED BY <1>1, <1>3, StoredOne, StoredIs

LEMMA StoredThree ==
  ASSUME NEW b \in Structure, NEW s \in Fields \X Nat, NEW u \in Fields \X Nat,
         NEW v \in Fields \X Nat
  PROVE  /\ IsStores(<<s, u, v>>)
         /\ StoredAll(b, <<s, u, v>>) = Stored(Stored(Stored(b, s), u), v)
<1>1. IsStores(<<s, u, v>>)
  BY DEF IsStores
<1>2. Head(<<s, u, v>>) = s /\ Tail(<<s, u, v>>) = <<u, v>> /\ <<s, u, v>> # <<>>
  OBVIOUS
<1>3. StoredAll(Stored(b, s), <<u, v>>) = StoredAll(b, <<s, u, v>>)
  BY <1>1, <1>2, StoreStep
<1> QED BY <1>1, <1>3, StoredTwo, StoredIs

-----------------------------------------------------------------------------
(* What an update makes *)

\* All blocks have MaxSbLen symbols, the last one at most: a stream, or
\* symbols of one byte, and then I is whatever an earlier update left.
Uniform(b) == b.A = b.MaxSbLen /\ b.ASmall = b.MaxSbLen

\* The blocks of RFC 5052 9.1: I of them are larger by a symbol.
Balanced(b) ==
  /\ b.I < b.N
  /\ b.ASmall > 0
  /\ b.A = IF b.I > 0 THEN b.ASmall + 1 ELSE b.ASmall
  /\ b.N * b.ASmall + b.I = b.T
  /\ b.A <= b.MaxSbLen

Cut(b) ==
  /\ b.I < Max32
  /\ b.N > 0 /\ b.N < Max32
  /\ b.ESLen > 0
  /\ b.MaxSbLen > 0 /\ b.MaxSbLen < Max32
  /\ b.TransferLen \in Lengths /\ b.TransferLen > 0 /\ b.TransferLen < Max64
  /\ b.ESLen * (b.T - 1) < b.TransferLen /\ b.TransferLen <= b.ESLen * b.T
  /\ b.MaxSbLen * (b.N - 1) < b.T /\ b.T <= b.MaxSbLen * b.N
  /\ Uniform(b) \/ Balanced(b)

\* The symbols before a block, and the symbols of one.
Before(b, sbn) ==
  IF sbn < b.I THEN b.A * sbn ELSE b.I * b.A + (sbn - b.I) * b.ASmall

Full(b, sbn) == IF sbn < b.I THEN b.A ELSE b.ASmall

LEMMA StructureFields ==
  ASSUME NEW b \in Structure
  PROVE  /\ b.N \in Nat /\ b.I \in Nat /\ b.A \in Nat /\ b.ASmall \in Nat
         /\ b.ESLen \in Nat /\ b.T \in Nat /\ b.TransferLen \in Nat
         /\ b.MaxSbLen \in Nat /\ b.MaxNumEs \in Nat /\ b.NumEsPerGroup \in Nat
BY FieldsAre DEF Structure

\* The symbols before a block of a cut object are some of its symbols, and the
\* blocks follow one another.
LEMMA BlocksFollow ==
  ASSUME NEW b \in Structure, Cut(b), NEW sbn \in Nat, sbn < b.N
  PROVE  /\ Before(b, sbn) \in Nat
         /\ Before(b, sbn) <= b.T - 1
         /\ Full(b, sbn) \in Nat /\ Full(b, sbn) > 0
         /\ Before(b, sbn + 1) = Before(b, sbn) + Full(b, sbn)
<1> PICK N, I, A, S, T, M \in Nat :
       b.N = N /\ b.I = I /\ b.A = A /\ b.ASmall = S /\ b.T = T /\ b.MaxSbLen = M
  BY StructureFields
<1>1. M > 0 /\ M * (N - 1) < T /\ sbn < N
  BY DEF Cut
<1>2. CASE Uniform(b)
  <2>1. A = M /\ S = M
    BY <1>2 DEF Uniform
  <2>2. /\ Before(b, sbn) = IF sbn < I THEN M * sbn ELSE I * M + (sbn - I) * M
        /\ Before(b, sbn + 1) = IF sbn + 1 < I THEN M * (sbn + 1) ELSE I * M + (sbn + 1 - I) * M
        /\ Full(b, sbn) = M
    BY <2>1 DEF Before, Full
  <2>3. I * M + (sbn - I) * M = M * sbn /\ I * M + (sbn + 1 - I) * M = M * sbn + M
    BY Products
  <2>4. M * sbn \in Nat /\ M * sbn <= M * (N - 1) /\ M * (N - 1) \in Nat
    BY <1>1, ProductsOrder
  <2>5. M * (sbn + 1) = M * sbn + M
    BY Products
  <2> QED BY <1>1, <2>2, <2>3, <2>4, <2>5
<1>3. CASE Balanced(b)
  <2>1. I < N /\ S > 0 /\ N * S + I = T /\ A = IF I > 0 THEN S + 1 ELSE S
    BY <1>3 DEF Balanced
  <2>2. /\ N * S \in Nat /\ sbn * S \in Nat /\ (sbn + 1) * S <= N * S
        /\ (sbn + 1) * S = sbn * S + S
    <3>1. S * (sbn + 1) <= S * N
      BY <1>1, ProductsOrder
    <3>2. S * (sbn + 1) = (sbn + 1) * S /\ S * N = N * S
      BY Products
    <3> QED BY <3>1, <3>2, ProductsOrder, Products
  <2>3. CASE sbn < I
    <3>1. A = S + 1 /\ Before(b, sbn) = A * sbn /\ Full(b, sbn) = A
      BY <2>1, <2>3 DEF Before, Full
    <3>2. A * sbn = sbn * S + sbn /\ A * (sbn + 1) = A * sbn + A
      BY <3>1, Products
    <3>3. Before(b, sbn + 1) = A * sbn + A
      <4>1. CASE sbn + 1 < I
        BY <3>2, <4>1 DEF Before
      <4>2. CASE sbn + 1 = I
        <5>1. Before(b, sbn + 1) = (sbn + 1) * A + 0 * S
          BY <4>2 DEF Before
        <5>2. (sbn + 1) * A = A * (sbn + 1) /\ 0 * S = 0
          BY Products
        <5> QED BY <3>2, <5>1, <5>2
      <4> QED BY <2>3, <4>1, <4>2
    <3> QED BY <2>1, <2>2, <2>3, <3>1, <3>2, <3>3
  <2>4. CASE ~(sbn < I)
    <3>1. /\ Before(b, sbn) = I * A + (sbn - I) * S
          /\ Before(b, sbn + 1) = I * A + (sbn + 1 - I) * S
          /\ Full(b, sbn) = S
      BY <2>4 DEF Before, Full
    <3>2. I * A = I * S + I
      BY <2>1, Products
    <3>3. (sbn - I) * S = sbn * S - I * S /\ (sbn + 1 - I) * S = sbn * S + S - I * S
      BY Products
    <3>4. I * S \in Nat
      BY ProductsOrder
    <3> QED BY <2>1, <2>2, <3>1, <3>2, <3>3, <3>4
  <2> QED BY <2>3, <2>4
<1> QED BY <1>2, <1>3 DEF Cut

\* Its offset is that of its first symbol.
LEMMA OffsetIs ==
  ASSUME NEW b \in Structure, Cut(b), NEW sbn \in Nat, sbn < b.N
  PROVE  /\ SrcOffset(b, sbn) = b.ESLen * Before(b, sbn)
         /\ SrcOffset(b, sbn) \in Nat /\ SrcOffset(b, sbn) < b.TransferLen
<1> PICK E, I, A, S, T, L \in Nat :
       b.ESLen = E /\ b.I = I /\ b.A = A /\ b.ASmall = S /\ b.T = T /\ b.TransferLen = L
  BY StructureFields
<1>1. L < Max64 /\ E * (T - 1) < L /\ b.N < Max32 /\ Max64 \in Nat /\ Max32 \in Nat
  BY WidthAssumption DEF Cut
<1>2. PICK F \in Nat : F = Before(b, sbn) /\ F <= T - 1
  BY BlocksFollow
<1>3. E * F \in Nat /\ E * F <= E * (T - 1)
  BY <1>2, ProductsOrder
<1>4. E * F < L /\ U64(E * F) = E * F
  <2>1. E * F < L /\ E * F < Max64
    BY <1>1, <1>2, <1>3, Products
  <2> QED BY <1>1, <1>3, <2>1, SmallKeeps DEF U64
<1>5. SrcOffset(b, sbn) = U64(E * F)
  <2>1. CASE sbn < I
    <3>1. E * A * sbn = E * (A * sbn)
      OBVIOUS
    <3> QED BY <1>2, <2>1, <3>1, StructureFields DEF SrcOffset, Before
  <2>2. CASE ~(sbn < I)
    <3>1. sbn - I \in Nat /\ sbn - I < Max32
      BY <1>1, <2>2, StructureFields
    <3>2. U32(sbn - I) = sbn - I
      BY <1>1, <3>1, SmallKeeps DEF U32
    <3> QED BY <1>2, <2>2, <3>2, StructureFields DEF SrcOffset, Before
  <2> QED BY <2>1, <2>2
<1> QED BY <1>2, <1>3, <1>4, <1>5

\* The size of a block is that of its symbols, and the last block is the rest.
LEMMA SizeIs ==
  ASSUME NEW b \in Structure, Cut(b), NEW sbn \in Nat, sbn < b.N
  PROVE  SrcBlockSize(b, sbn) = IF sbn = b.N - 1 THEN b.TransferLen - SrcOffset(b, sbn)
                                ELSE b.ESLen * Full(b, sbn)
<1> PICK N, E, I, T, L \in Nat :
       b.N = N /\ b.ESLen = E /\ b.I = I /\ b.T = T /\ b.TransferLen = L
  BY StructureFields
<1>1. /\ L < Max64 /\ E * (T - 1) < L /\ N > 0 /\ N < Max32 /\ sbn < N
      /\ Max64 \in Nat /\ Max32 \in Nat
  BY WidthAssumption DEF Cut
<1>2. U32(N - 1) = N - 1
  BY <1>1, SmallKeeps DEF U32
<1>3. CASE sbn = N - 1
  <2>1. PICK o \in Nat : o = SrcOffset(b, sbn) /\ o < L
    BY OffsetIs
  <2>2. U64(L - o) = L - o
    <3>1. L - o \in Nat /\ L - o < Max64
      BY <1>1, <2>1
    <3> QED BY <1>1, <3>1, SmallKeeps DEF U64
  <2> QED BY <1>2, <1>3, <2>1, <2>2 DEF SrcBlockSize
<1>4. CASE sbn # N - 1
  <2>1. PICK F, f \in Nat : F = Before(b, sbn) /\ f = Full(b, sbn) /\ F + f <= T - 1
    <3>1. sbn + 1 \in Nat /\ sbn + 1 < b.N
      BY <1>1, <1>4
    <3>2. Before(b, sbn + 1) <= b.T - 1
      BY <3>1, BlocksFollow
    <3> QED BY <3>2, BlocksFollow
  <2>2. E * f \in Nat /\ E * f <= E * (T - 1)
    BY <2>1, ProductsOrder
  <2>3. U64(E * f) = E * f
    <3>1. E * f < Max64 /\ E * (T - 1) \in Int
      BY <1>1, <2>1, <2>2, Products
    <3> QED BY <1>1, <2>2, <3>1, SmallKeeps DEF U64
  <2>4. SrcBlockSize(b, sbn) = U64(E * f)
    BY <1>1, <1>2, <1>4, <2>1 DEF SrcBlockSize, Full
  <2> QED BY <1>4, <2>1, <2>3, <2>4
<1> QED BY <1>3, <1>4

LEMMA CutPartition ==
  ASSUME NEW b \in Structure, Cut(b)
  PROVE  Partition(b)
<1> PICK N, E, T, L \in Nat :
       b.N = N /\ b.ESLen = E /\ b.T = T /\ b.TransferLen = L
  BY StructureFields
<1>1. N > 0 /\ E > 0 /\ L > 0
  BY DEF Cut
<1>2. SrcOffset(b, 0) = 0
  <2>1. Before(b, 0) = 0
    <3>1. PICK I, A, S \in Nat : b.I = I /\ b.A = A /\ b.ASmall = S
      BY StructureFields
    <3>2. A * 0 = 0 /\ 0 * A = 0 /\ (0 - 0) * S = 0
      OBVIOUS
    <3> QED BY <3>1, <3>2 DEF Before
  <2> QED BY <1>1, <2>1, OffsetIs
<1>3. SrcOffset(b, N) = L
  BY DEF SrcOffset
<1>4. ASSUME NEW sbn \in Blocks(b)
      PROVE  /\ SrcBlockSize(b, sbn) > 0
             /\ SrcOffset(b, sbn + 1) = SrcOffset(b, sbn) + SrcBlockSize(b, sbn)
  <2>1. sbn \in Nat /\ sbn < N
    BY DEF Blocks
  <2>2. PICK o \in Nat : o = SrcOffset(b, sbn) /\ o < L
    BY <2>1, OffsetIs
  <2>3. CASE sbn = N - 1
    <3>1. SrcBlockSize(b, sbn) = L - o
      BY <2>1, <2>2, <2>3, SizeIs
    <3> QED BY <1>3, <2>2, <2>3, <3>1
  <2>4. CASE sbn # N - 1
    <3>1. PICK F, f \in Nat : /\ F = Before(b, sbn) /\ f = Full(b, sbn) /\ f > 0
                              /\ F + f = Before(b, sbn + 1)
      BY <2>1, BlocksFollow
    <3>2. o = E * F /\ SrcOffset(b, sbn + 1) = E * (F + f) /\ SrcBlockSize(b, sbn) = E * f
      BY <2>1, <2>2, <2>4, <3>1, OffsetIs, SizeIs
    <3>3. E * (F + f) = E * F + E * f /\ E * f > 0
      BY <1>1, <3>1
    <3> QED BY <2>2, <3>2, <3>3
  <2> QED BY <2>3, <2>4
<1> QED BY <1>1, <1>2, <1>3, <1>4 DEF Partition

\* A block and a symbol more fit into 32 bits, and the end of a block that is
\* not cut short into 64: what is left of an object is counted in uint32.
Short(b) ==
  /\ b.ESLen * b.MaxSbLen + b.ESLen <= Max32
  /\ b.TransferLen + b.ESLen * b.MaxSbLen <= Max64

LEMMA FullAtMost ==
  ASSUME NEW b \in Structure, Cut(b), NEW sbn \in Nat, sbn < b.N
  PROVE  Full(b, sbn) <= b.MaxSbLen
<1>1. /\ b.A \in Nat /\ b.ASmall \in Nat /\ b.MaxSbLen \in Nat /\ b.I \in Nat
  BY StructureFields
<1> QED BY <1>1 DEF Cut, Uniform, Balanced, Full

\* The blocks have all the symbols, the last one no more than it may.
LEMMA LastBlock ==
  ASSUME NEW b \in Structure, Cut(b), NEW sbn \in Nat, sbn = b.N - 1
  PROVE  b.T <= Before(b, sbn) + Full(b, sbn)
<1> PICK N, I, A, S, T, M \in Nat :
       b.N = N /\ b.I = I /\ b.A = A /\ b.ASmall = S /\ b.T = T /\ b.MaxSbLen = M
  BY StructureFields
<1>1. T <= M * N /\ N = sbn + 1
  BY DEF Cut
<1>2. CASE Uniform(b)
  <2>1. A = M /\ S = M
    BY <1>2 DEF Uniform
  <2>2. /\ Before(b, sbn) = IF sbn < I THEN M * sbn ELSE I * M + (sbn - I) * M
        /\ Full(b, sbn) = M
    BY <2>1 DEF Before, Full
  <2>3. I * M + (sbn - I) * M = M * sbn /\ M * (sbn + 1) = M * sbn + M /\ M * sbn \in Int
    BY Products
  <2> QED BY <1>1, <2>2, <2>3
<1>3. CASE Balanced(b)
  <2>1. I < N /\ N * S + I = T /\ A = IF I > 0 THEN S + 1 ELSE S
    BY <1>3 DEF Balanced
  <2>2. /\ Before(b, sbn) = I * A + (sbn - I) * S /\ Full(b, sbn) = S
    BY <1>1, <2>1 DEF Before, Full
  <2>3. I * A = I * S + I
    BY <2>1, Products
  <2>4. (sbn - I) * S = sbn * S - I * S /\ (sbn + 1) * S = sbn * S + S
    BY Products
  <2>5. I * S \in Int /\ sbn * S \in Int
    BY Products
  <2> QED BY <1>1, <2>1, <2>2, <2>3, <2>4, <2>5
<1> QED BY <1>2, <1>3 DEF Cut

\* The least number of symbols that hold so many bytes.
LEMMA CeilDivUnique ==
  ASSUME NEW x \in Nat \ {0}, NEW y \in Nat \ {0}, NEW q \in Nat,
         y * (q - 1) < x, x <= y * q
  PROVE  CeilDiv(x, y) = q
<1>1. PICK c \in Nat \ {0} : c = CeilDiv(x, y) /\ y * (c - 1) < x /\ x <= y * c
  BY CeilDivIs
<1>2. q > 0
  <2>1. y * 0 = 0
    OBVIOUS
  <2> QED BY <2>1
<1>3. q - 1 \in Nat /\ c - 1 \in Nat
  BY <1>2
<1>4. y * (q - 1) \in Nat /\ y * (c - 1) \in Nat /\ y * q \in Nat /\ y * c \in Nat
  BY <1>3, ProductsOrder
<1>5. q - 1 < c
  <2>1. y * (q - 1) < y * c
    BY <1>1, <1>4
  <2> QED BY <1>3, <1>4, <2>1, LessFactor
<1>6. c - 1 < q
  <2>1. y * (c - 1) < y * q
    BY <1>1, <1>4
  <2> QED BY <1>3, <1>4, <2>1, LessFactor
<1> QED BY <1>1, <1>5, <1>6

LEMMA CutSymbols ==
  ASSUME NEW b \in Structure, Cut(b), Short(b)
  PROVE  Symbols(b)
<1> PICK N, E, T, L, M \in Nat :
       b.N = N /\ b.ESLen = E /\ b.T = T /\ b.TransferLen = L /\ b.MaxSbLen = M
  BY StructureFields
<1>1. /\ N > 0 /\ E > 0 /\ L > 0 /\ E * (T - 1) < L /\ L <= E * T
      /\ E * M + E <= Max32 /\ L + E * M <= Max64 /\ Max32 \in Nat /\ Max64 \in Nat
  BY WidthAssumption DEF Cut, Short
<1> SUFFICES ASSUME NEW sbn \in Blocks(b)
             PROVE  /\ NumSrcSym(b, sbn) = CeilDiv(SrcBlockSize(b, sbn), E)
                    /\ NumSrcSym(b, sbn) <= M
                    /\ SrcOffset(b, sbn) + E * NumSrcSym(b, sbn)
                          = IF sbn = N - 1 THEN E * T ELSE SrcOffset(b, sbn + 1)
  BY DEF Symbols
<1>2. sbn \in Nat /\ sbn < N
  BY DEF Blocks
<1>3. PICK F, f, o \in Nat :
         /\ F = Before(b, sbn) /\ f = Full(b, sbn) /\ f > 0 /\ f <= M /\ F <= T - 1
         /\ F + f = Before(b, sbn + 1) /\ o = SrcOffset(b, sbn) /\ o = E * F /\ o < L
  BY <1>2, BlocksFollow, OffsetIs, FullAtMost
<1>4. E * f \in Nat /\ E * M \in Nat /\ E * f <= E * M /\ E * (F + f) = E * F + E * f
  BY <1>3, ProductsOrder
<1>5. CASE sbn # N - 1
  <2>1. NumSrcSym(b, sbn) = f
    BY <1>2, <1>3, <1>5 DEF NumSrcSym, Full
  <2>2. SrcBlockSize(b, sbn) = E * f
    BY <1>2, <1>3, <1>5, SizeIs
  <2>3. CeilDiv(E * f, E) = f
    <3>1. E * (f - 1) < E * f /\ E * f > 0
      BY <1>1, <1>3
    <3> QED BY <1>1, <1>4, <3>1, CeilDivUnique
  <2>4. SrcOffset(b, sbn + 1) = E * (F + f)
    <3>1. sbn + 1 \in Nat /\ sbn + 1 < b.N
      BY <1>2, <1>5
    <3> QED BY <1>3, <3>1, OffsetIs
  <2> QED BY <1>3, <1>4, <1>5, <2>1, <2>2, <2>3, <2>4
<1>6. CASE sbn = N - 1
  <2>1. PICK q \in Nat : q = T - F /\ q > 0 /\ q <= f
    <3>1. T <= F + f
      BY <1>2, <1>3, <1>6, LastBlock
    <3> QED BY <1>3, <3>1
  <2>2. PICK r \in Nat : r = L - o /\ r > 0 /\ SrcBlockSize(b, sbn) = r
    <3>1. SrcBlockSize(b, sbn) = L - o
      BY <1>2, <1>3, <1>6, SizeIs
    <3>2. L - o \in Nat /\ L - o > 0
      BY <1>3
    <3> QED BY <3>1, <3>2
  <2>3. E * (q - 1) < r /\ r <= E * q
    <3>1. E * (q - 1) = E * (T - 1) - E * F
      <4>1. q - 1 = (T - 1) - F
        BY <2>1
      <4>2. ((T - 1) - F) * E = (T - 1) * E - F * E
        BY Products
      <4>3. ((T - 1) - F) * E = E * ((T - 1) - F) /\ (T - 1) * E = E * (T - 1) /\ F * E = E * F
        BY Products
      <4> QED BY <4>1, <4>2, <4>3
    <3>2. E * q = E * T - E * F
      <4>1. (T - F) * E = T * E - F * E
        BY Products
      <4>2. (T - F) * E = E * (T - F) /\ T * E = E * T /\ F * E = E * F
        BY Products
      <4> QED BY <2>1, <4>1, <4>2
    <3>3. E * (T - 1) \in Int /\ E * F \in Int /\ E * T \in Int
      BY Products
    <3> QED BY <1>1, <1>3, <2>2, <3>1, <3>2, <3>3
  <2>4. CeilDiv(r, E) = q
    BY <1>1, <2>1, <2>2, <2>3, CeilDivUnique
  <2>5. E * q \in Nat /\ E * q <= E * f
    BY <2>1, ProductsOrder
  <2>6. U64(o + E * f) = o + E * f
    <3>1. o + E * f \in Nat /\ o + E * f < Max64
      BY <1>1, <1>3, <1>4
    <3> QED BY <1>1, <3>1, SmallKeeps DEF U64
  <2>7. SymbolsFrom(b, o) = q
    <3>1. r < Max32 /\ r + E - 1 \in Nat /\ r + E - 1 < Max32
      BY <1>1, <1>4, <2>2, <2>3, <2>5
    <3>2. U32(r) = r /\ U32(r + E - 1) = r + E - 1
      BY <1>1, <3>1, SmallKeeps DEF U32
    <3>3. SymbolsFrom(b, o) = (r + E - 1) \div E
      BY <2>2, <3>2 DEF SymbolsFrom
    <3> QED BY <2>4, <3>3 DEF CeilDiv
  <2>8. NumSrcSym(b, sbn) = q
    <3>1. CASE o + E * f > L
      BY <1>2, <1>3, <1>6, <2>6, <2>7, <3>1 DEF NumSrcSym, Full
    <3>2. CASE ~(o + E * f > L)
      <4>1. NumSrcSym(b, sbn) = f
        BY <1>2, <1>3, <1>6, <2>6, <3>2 DEF NumSrcSym, Full
      <4>2. CeilDiv(r, E) = f
        <5>1. r = E * f
          BY <1>1, <1>3, <1>4, <2>2, <2>3, <2>5, <3>2
        <5>2. E * (f - 1) < E * f /\ E * f > 0
          BY <1>1, <1>3
        <5> QED BY <1>1, <1>4, <5>1, <5>2, CeilDivUnique
      <4> QED BY <2>4, <4>1, <4>2
    <3> QED BY <3>1, <3>2
  <2>9. o + E * q = E * T
    <3>1. (T - F) * E = T * E - F * E
      BY Products
    <3>2. (T - F) * E = E * (T - F) /\ T * E = E * T /\ F * E = E * F /\ E * T \in Int /\ E * F \in Int
      BY Products
    <3> QED BY <1>3, <2>1, <3>1, <3>2
  <2> QED BY <1>3, <1>6, <2>1, <2>2, <2>4, <2>8, <2>9
<1> QED BY <1>5, <1>6

\* The block that SourceSBN finds for a symbol is the one that has it.
LEMMA BlockOfSymbol ==
  ASSUME NEW b \in Structure, Cut(b), Max32 * Max32 <= Max64,
         NEW offset \in Nat, offset < b.TransferLen
  PROVE  LET sbn == SourceSBN(b, offset)
             symbol == offset \div b.ESLen
         IN  /\ sbn \in Nat /\ sbn < b.N
             /\ Before(b, sbn) <= symbol /\ symbol < Before(b, sbn + 1)
<1> PICK N, E, I, A, S, T, L, M \in Nat :
       /\ b.N = N /\ b.ESLen = E /\ b.I = I /\ b.A = A /\ b.ASmall = S
       /\ b.T = T /\ b.TransferLen = L /\ b.MaxSbLen = M
  BY StructureFields
<1>1. /\ N > 0 /\ E > 0 /\ M > 0 /\ N < Max32 /\ L <= E * T /\ I < Max32 /\ M < Max32
      /\ T <= M * N /\ Max64 \in Nat /\ Max32 \in Nat
  BY WidthAssumption DEF Cut
<1>2. A > 0 /\ S > 0 /\ A <= M
  BY <1>1 DEF Cut, Uniform, Balanced
<1>3. PICK x \in Nat : x = offset \div E /\ x < T
  <2>1. offset < E * T
    BY <1>1, Products
  <2>2. E \in Nat \ {0}
    BY <1>1
  <2>3. offset \div E \in Nat
    BY <2>2, Quotients
  <2>4. offset \div E < T
    BY <2>1, <2>2, QuotientBelow
  <2> QED BY <2>3, <2>4
<1>4. U64(A * I) = A * I
  <2>1. A * I <= A * Max32 /\ Max32 * A <= Max32 * M /\ Max32 * M < Max32 * Max32
    BY <1>1, <1>2, ProductsOrder
  <2>2. A * Max32 = Max32 * A /\ A * I \in Nat /\ Max32 * A \in Nat /\ Max32 * M \in Nat
    BY <1>1, ProductsOrder, Products
  <2>3. A * I < Max64
    BY <1>1, <2>1, <2>2, Products
  <2> QED BY <1>1, <2>2, <2>3, SmallKeeps DEF U64
<1>5. PICK large \in Nat : large = A * I
  BY ProductsOrder
<1>6. I * A = large
  BY <1>5, Products
<1>7. CASE x < large
  <2>1. PICK q \in Nat : /\ q = x \div A /\ A * q <= x /\ x < A * (q + 1)
    <3>1. x \div A \in Nat /\ x % A \in Nat /\ x = A * (x \div A) + (x % A) /\ x % A < A
      BY <1>2, Quotients
    <3>2. A * (x \div A + 1) = A * (x \div A) + A /\ A * (x \div A) \in Nat
      BY <3>1, Products, ProductsOrder
    <3> QED BY <3>1, <3>2
  <2>2. q < I
    BY <1>5, <1>7, <2>1, LessFactor
  <2>3. q < N
    <3>1. CASE Uniform(b)
      <4>1. A * q <= x /\ x < A * N
        BY <1>1, <1>3, <2>1, <3>1, Products DEF Uniform
      <4> QED BY <4>1, LessFactor
    <3>2. CASE Balanced(b)
      BY <2>2, <3>2 DEF Balanced
    <3> QED BY <3>1, <3>2 DEF Cut
  <2>4. SourceSBN(b, offset) = q
    BY <1>3, <1>4, <1>5, <1>7, <2>1, <2>3 DEF SourceSBN
  <2>5. Before(b, q) = A * q
    BY <2>2 DEF Before
  <2>6. Before(b, q + 1) = A * (q + 1)
    <3>1. Before(b, q + 1) = Before(b, q) + Full(b, q) /\ Full(b, q) = A
      BY <2>2, <2>3, BlocksFollow DEF Full
    <3>2. A * (q + 1) = A * q + A
      BY Products
    <3> QED BY <2>5, <3>1, <3>2
  <2> QED BY <1>3, <2>1, <2>3, <2>4, <2>5, <2>6
<1>8. CASE ~(x < large)
  <2>1. PICK y \in Nat : y = x - large
    BY <1>8
  <2>2. PICK q \in Nat : /\ q = y \div S /\ S * q <= y /\ y < S * (q + 1)
    <3>1. y \div S \in Nat /\ y % S \in Nat /\ y = S * (y \div S) + (y % S) /\ y % S < S
      BY <1>2, Quotients
    <3>2. S * (y \div S + 1) = S * (y \div S) + S /\ S * (y \div S) \in Nat
      BY <3>1, Products, ProductsOrder
    <3> QED BY <3>1, <3>2
  <2>3. q + I < N
    <3>1. CASE Uniform(b)
      <4>1. A = M /\ S = M
        BY <3>1 DEF Uniform
      <4>2. I < N
        <5>1. N <= I => M * N <= M * I
          BY ProductsOrder
        <5> QED BY <1>1, <1>3, <1>5, <1>8, <4>1, <5>1, Products
      <4>3. y < S * (N - I)
        <5>1. (N - I) * M = N * M - I * M /\ M * (N - I) = (N - I) * M /\ M * N = N * M
          BY Products
        <5> QED BY <1>1, <1>3, <1>6, <2>1, <4>1, <5>1, Products
      <4>4. N - I \in Nat
        BY <4>2
      <4>5. q < N - I
        BY <2>2, <4>3, <4>4, LessFactor
      <4> QED BY <4>5
    <3>2. CASE Balanced(b)
      <4>1. I < N /\ N * S + I = T /\ A = IF I > 0 THEN S + 1 ELSE S
        BY <3>2 DEF Balanced
      <4>2. y < S * (N - I)
        <5>1. I * A = I * S + I
          <6>1. CASE I > 0
            BY <4>1, <6>1, Products
          <6>2. CASE I = 0
            <7>1. 0 * A = 0 /\ 0 * S = 0
              BY Products
            <7> QED BY <6>2, <7>1
          <6> QED BY <6>1, <6>2
        <5>2. (N - I) * S = N * S - I * S /\ S * (N - I) = (N - I) * S
          BY Products
        <5>3. N * S \in Nat /\ I * S \in Nat
          BY ProductsOrder
        <5> QED BY <1>3, <1>6, <2>1, <4>1, <5>1, <5>2, <5>3
      <4>3. N - I \in Nat
        BY <4>1
      <4>4. q < N - I
        BY <2>2, <4>2, <4>3, LessFactor
      <4> QED BY <4>4
    <3> QED BY <3>1, <3>2 DEF Cut
  <2>4. SourceSBN(b, offset) = q + I
    BY <1>3, <1>4, <1>5, <1>8, <2>1, <2>2, <2>3 DEF SourceSBN
  <2>5. Before(b, q + I) = large + q * S /\ Before(b, q + I + 1) = large + (q + 1) * S
    <3>1. q + I - I = q /\ q + I + 1 - I = q + 1
      OBVIOUS
    <3> QED BY <1>6, <3>1 DEF Before
  <2>6. q * S = S * q /\ (q + 1) * S = S * (q + 1)
    BY Products
  <2>7. S * q \in Nat /\ S * (q + 1) \in Nat
    BY ProductsOrder
  <2> QED BY <1>3, <1>8, <2>1, <2>2, <2>3, <2>4, <2>5, <2>6, <2>7
<1> QED BY <1>7, <1>8

LEMMA CutLookup ==
  ASSUME NEW b \in Structure, Cut(b), Max32 * Max32 <= Max64
  PROVE  Lookup(b)
<1> PICK N, E, T, L \in Nat :
       b.N = N /\ b.ESLen = E /\ b.T = T /\ b.TransferLen = L
  BY StructureFields
<1>1. ASSUME NEW offset \in 0..(L - 1)
      PROVE  LET sbn == SourceSBN(b, offset)
             IN  /\ sbn \in Blocks(b)
                 /\ SrcOffset(b, sbn) <= offset /\ offset < SrcOffset(b, sbn + 1)
  <2>1. offset \in Nat /\ offset < L /\ E > 0
    BY DEF Cut
  <2>2. PICK x \in Nat : x = offset \div E /\ E * x <= offset /\ offset < E * (x + 1)
    <3>1. E \in Nat \ {0}
      BY <2>1
    <3>2. /\ offset \div E \in Nat /\ offset % E \in Nat
          /\ offset = E * (offset \div E) + (offset % E) /\ offset % E < E
      BY <2>1, <3>1, Quotients
    <3>3. E * (offset \div E + 1) = E * (offset \div E) + E /\ E * (offset \div E) \in Nat
      BY <3>2, Products, ProductsOrder
    <3> QED BY <3>2, <3>3
  <2>3. PICK sbn \in Nat : /\ sbn = SourceSBN(b, offset) /\ sbn < N
                           /\ Before(b, sbn) <= x /\ x < Before(b, sbn + 1)
    BY <2>1, <2>2, BlockOfSymbol
  <2>4. PICK F \in Nat : F = Before(b, sbn) /\ SrcOffset(b, sbn) = E * F
    BY <2>3, BlocksFollow, OffsetIs
  <2>5. E * F <= E * x /\ E * F \in Nat /\ E * x \in Nat
    BY <2>3, <2>4, ProductsOrder
  <2>6. offset < SrcOffset(b, sbn + 1)
    <3>1. CASE sbn + 1 < N
      <4>1. PICK G \in Nat : G = Before(b, sbn + 1) /\ SrcOffset(b, sbn + 1) = E * G
        BY <3>1, BlocksFollow, OffsetIs
      <4>2. E * (x + 1) <= E * G /\ E * (x + 1) \in Nat /\ E * G \in Nat
        BY <2>3, <4>1, ProductsOrder
      <4> QED BY <2>1, <2>2, <4>1, <4>2
    <3>2. CASE sbn + 1 = N
      BY <2>1, <3>2 DEF SrcOffset
    <3> QED BY <2>3, <3>1, <3>2
  <2> QED BY <2>1, <2>2, <2>3, <2>4, <2>5, <2>6 DEF Blocks
<1> QED BY <1>1 DEF Lookup

-----------------------------------------------------------------------------
(* Updates *)

\* A product of two sizes of 32 bits fits into 64, and the arguments an update
\* is called with make fewer than 2^32 blocks and no sum that wraps around.
Fits ==
  /\ Max32 * Max32 <= Max64
  /\ \A len \in Lengths \ {0}, es \in ESLens \ {0} : len + es <= Max64
  /\ \A len \in Lengths \ {0}, max \in MaxSbLens \ {0}, es \in ESLens \ {0} :
        CeilDiv(CeilDiv(len, es), max) < Max32

\* No size of a block is ever zero, and the arguments of the update stay.
Sound(stores) ==
  \A k \in 1..Len(stores) :
     /\ stores[k][1] \notin {"MaxSbLen", "ESLen"}
     /\ stores[k][1] \in {"A", "ASmall"} => stores[k][2] > 0

EndsWell(stores) == stores[Len(stores)][1] # "TransferLen"

LEMMA Appends ==
  ASSUME NEW s, NEW u, IsStores(s), IsStores(u)
  PROVE  /\ Sound(s) /\ Sound(u) => Sound(s \o u)
         /\ u # <<>> => s \o u # <<>> /\ (s \o u)[Len(s \o u)] = u[Len(u)]
<1>1. PICK m, n \in Nat : m = Len(s) /\ n = Len(u)
  BY DEF IsStores
<1>2. PICK v : v = s \o u
  OBVIOUS
<1>3. /\ Len(v) = m + n
      /\ \A i \in 1..m : v[i] = s[i]
      /\ \A i \in (m + 1)..(m + n) : v[i] = u[i - m]
  BY <1>1, <1>2 DEF IsStores
<1>4. ASSUME Sound(s), Sound(u), NEW k \in 1..(m + n)
      PROVE  /\ v[k][1] \notin {"MaxSbLen", "ESLen"}
             /\ v[k][1] \in {"A", "ASmall"} => v[k][2] > 0
  <2>1. CASE k <= m
    BY <1>1, <1>3, <1>4, <2>1 DEF Sound
  <2>2. CASE k > m
    <3>1. k - m \in 1..n /\ v[k] = u[k - m]
      BY <1>3, <2>2
    <3> QED BY <1>1, <1>4, <3>1 DEF Sound
  <2> QED BY <2>1, <2>2
<1>5. ASSUME u # <<>>
      PROVE  v # <<>> /\ v[Len(v)] = u[Len(u)]
  <2>1. n > 0
    BY <1>1, <1>5 DEF IsStores
  <2>2. v[m + n] = u[m + n - m] /\ m + n - m = n
    BY <1>3, <2>1
  <2> QED BY <1>1, <1>3, <2>1, <2>2
<1> QED BY <1>2, <1>3, <1>4, <1>5 DEF Sound

\* What every update stores first.
First(b, len) == [b EXCEPT !.ASmall = b.MaxSbLen, !.A = b.MaxSbLen, !.TransferLen = len]

FirstStores(b, len) == Sizes(b) \o <<<<"TransferLen", len>>>>

LEMMA FirstStored ==
  ASSUME NEW b \in Structure, NEW len \in Nat
  PROVE  /\ IsStores(FirstStores(b, len)) /\ FirstStores(b, len) # <<>>
         /\ First(b, len) \in Structure
         /\ StoredAll(b, FirstStores(b, len)) = First(b, len)
         /\ b.MaxSbLen > 0 => Sound(FirstStores(b, len))
<1>1. PICK M \in Nat : M = b.MaxSbLen
  BY StructureFields
<1> DEFINE s1 == <<"ASmall", M>>
           s2 == <<"A", M>>
           s3 == <<"TransferLen", len>>
<1>2. s1 \in Fields \X Nat /\ s2 \in Fields \X Nat /\ s3 \in Fields \X Nat
  BY FieldsAre
<1>3. Stored(Stored(Stored(b, s1), s2), s3) = First(b, len)
  BY <1>1 DEF Stored, First
<1>4. (M > 0 => Sound(<<s1, s2>>)) /\ Sound(<<s3>>)
  BY DEF Sound
<1>5. FirstStores(b, len) = <<s1, s2>> \o <<s3>>
  BY <1>1 DEF FirstStores, Sizes
<1> HIDE DEF s1, s2, s3
<1>6. PICK c \in Structure : /\ c = Stored(Stored(b, s1), s2)
                            /\ IsStores(<<s1, s2>>) /\ StoredAll(b, <<s1, s2>>) = c
  BY <1>2, StoredIs, StoredTwo
<1>7. PICK d \in Structure : /\ d = Stored(c, s3) /\ IsStores(<<s3>>) /\ StoredAll(c, <<s3>>) = d
  BY <1>2, StoredIs, StoredOne
<1>8. PICK s, u : /\ s = <<s1, s2>> /\ u = <<s3>> /\ u # <<>>
                  /\ IsStores(s) /\ IsStores(u) /\ StoredAll(b, s) = c /\ StoredAll(c, u) = d
  BY <1>6, <1>7
<1>9. IsStores(s \o u) /\ StoredAll(b, s \o u) = d
  BY <1>8, StoredAllAppends
<1>10. (M > 0 => Sound(s \o u)) /\ s \o u # <<>>
  BY <1>4, <1>8, Appends
<1> QED BY <1>1, <1>3, <1>5, <1>6, <1>7, <1>8, <1>9, <1>10

LEMMA ThenStored ==
  ASSUME NEW b \in Structure, NEW len \in Nat, NEW u, IsStores(u)
  PROVE  LET s == FirstStores(b, len) \o u
         IN  /\ IsStores(s) /\ s # <<>>
             /\ StoredAll(b, s) = StoredAll(First(b, len), u)
             /\ b.MaxSbLen > 0 /\ Sound(u) => Sound(s)
             /\ u # <<>> => s[Len(s)] = u[Len(u)]
<1>1. PICK h, c : /\ h = FirstStores(b, len) /\ c = First(b, len)
                  /\ IsStores(h) /\ h # <<>> /\ c \in Structure /\ StoredAll(b, h) = c
                  /\ b.MaxSbLen > 0 => Sound(h)
  BY FirstStored
<1>2. IsStores(h \o u) /\ StoredAll(b, h \o u) = StoredAll(c, u)
  BY <1>1, StoredAllAppends
<1>3. /\ Sound(h) /\ Sound(u) => Sound(h \o u)
      /\ u # <<>> => (h \o u)[Len(h \o u)] = u[Len(u)]
  BY <1>1, Appends
<1>4. h \o u # <<>>
  <2>1. Len(h) \in Nat \ {0} /\ Len(u) \in Nat /\ Len(h \o u) = Len(h) + Len(u)
    BY <1>1 DEF IsStores
  <2> QED BY <2>1
<1> QED BY <1>1, <1>2, <1>3, <1>4

\* The numbers of symbols and of blocks that an update finds.
LEMMA Numbers ==
  ASSUME Fits, NEW b \in Structure, b.MaxSbLen \in MaxSbLens, b.ESLen \in ESLens,
         NEW len \in Lengths, len > 0, b.MaxSbLen > 0, b.ESLen > 0
  PROVE  LET t == CeilDiv64(len, b.ESLen)
             n == U32(CeilDiv64(t, b.MaxSbLen))
         IN  /\ t \in Nat \ {0} /\ n \in Nat \ {0} /\ n < Max32
             /\ b.ESLen * (t - 1) < len /\ len <= b.ESLen * t
             /\ b.MaxSbLen * (n - 1) < t /\ t <= b.MaxSbLen * n
             /\ len \in Nat /\ len < Max64 /\ b.MaxSbLen < Max32
<1>1. PICK M, E \in Nat \ {0} : b.MaxSbLen = M /\ b.ESLen = E
  BY StructureFields
<1>2. /\ len \in Nat \ {0} /\ len < Max64 /\ M < Max32 /\ Max32 \in Nat /\ Max64 \in Nat
  BY <1>1, ArgumentAssumption, WidthAssumption
<1>3. PICK t \in Nat \ {0} : t = CeilDiv(len, E) /\ E * (t - 1) < len /\ len <= E * t
  BY <1>2, CeilDivIs
<1>4. PICK n \in Nat \ {0} : n = CeilDiv(t, M) /\ M * (n - 1) < t /\ t <= M * n
  BY CeilDivIs
<1>5. len \in Lengths \ {0} /\ M \in MaxSbLens \ {0} /\ E \in ESLens \ {0}
  BY <1>1, <1>2
<1>6. n < Max32
  BY <1>3, <1>4, <1>5 DEF Fits
<1>7. CeilDiv64(len, E) = t
  <2>1. len + E - 1 \in Nat /\ len + E - 1 < Max64
    BY <1>2, <1>5 DEF Fits
  <2> QED BY <1>2, <1>3, <2>1, SmallKeeps DEF CeilDiv64, CeilDiv, U64
<1>8. CeilDiv64(t, M) = n
  <2>1. M * (n + 1) <= M * Max32 /\ Max32 * M <= Max32 * Max32 /\ M * Max32 = Max32 * M
    BY <1>2, <1>6, Products, ProductsOrder
  <2>2. M * (n + 1) = M * n + M
    BY Products
  <2>3. t + M - 1 \in Nat /\ t + M - 1 < Max64
    <3>1. PICK x, y \in Int : x = M * n /\ y = M * Max32 /\ x + M <= y /\ y <= Max64
      <4>1. M * n \in Int /\ M * Max32 \in Int /\ Max32 * Max32 \in Int
        BY <1>2, Products
      <4> QED BY <1>2, <2>1, <2>2, <4>1 DEF Fits
    <3> QED BY <1>2, <1>4, <3>1
  <2> QED BY <1>2, <1>4, <2>3, SmallKeeps DEF CeilDiv64, CeilDiv, U64
<1>9. U32(n) = n
  BY <1>2, <1>6, SmallKeeps DEF U32
<1> QED BY <1>1, <1>2, <1>3, <1>4, <1>6, <1>7, <1>8, <1>9

\* What an update that succeeds does to a structure.
Makes(b, stores) ==
  /\ IsStores(stores) /\ stores # <<>>
  /\ Sound(stores) /\ EndsWell(stores)
  /\ Cut(StoredAll(b, stores))

LEMMA MakesStream ==
  ASSUME Fits, NEW b \in Structure, b.MaxSbLen \in MaxSbLens, b.ESLen \in ESLens,
         NEW len \in Lengths, len > 0, Succeeds(b, TRUE)
  PROVE  Makes(b, Stores(b, len, TRUE))
<1>1. PICK M, E \in Nat : b.MaxSbLen = M /\ b.ESLen = E /\ M > 0 /\ E > 0
  BY StructureFields DEF Succeeds
<1>2. PICK t, n \in Nat \ {0} : t = CeilDiv64(len, E) /\ n = U32(CeilDiv64(t, M))
  BY <1>1, Numbers
<1>3. /\ n < Max32 /\ E * (t - 1) < len /\ len <= E * t /\ M * (n - 1) < t /\ t <= M * n
      /\ len \in Nat /\ len < Max64 /\ M < Max32
  BY <1>1, <1>2, Numbers
<1> DEFINE s1 == <<"T", t>>
           s2 == <<"N", n>>
           s3 == <<"I", n>>
           f == First(b, len)
<1>4. Stores(b, len, TRUE) = FirstStores(b, len) \o <<s1, s2, s3>>
  BY <1>1, <1>2 DEF Stores, StreamBlocks, FirstStores
<1>5. f \in Structure
  BY <1>3, FirstStored
<1>6. s1 \in Fields \X Nat /\ s2 \in Fields \X Nat /\ s3 \in Fields \X Nat
  BY FieldsAre
<1>7. Sound(<<s1, s2, s3>>) /\ EndsWell(<<s1, s2, s3>>)
  BY DEF Sound, EndsWell
<1>8. Cut(Stored(Stored(Stored(f, s1), s2), s3))
  <2>1. PICK c : c = Stored(Stored(Stored(f, s1), s2), s3)
    OBVIOUS
  <2>2. /\ c.I = n /\ c.N = n /\ c.T = t /\ c.ESLen = E /\ c.MaxSbLen = M
        /\ c.TransferLen = len /\ c.A = M /\ c.ASmall = M
    BY <1>1, <1>5, <2>1, FieldsAre DEF Stored, First, Structure
  <2> QED BY <1>1, <1>3, <2>1, <2>2 DEF Cut, Uniform
<1> HIDE DEF s1, s2, s3, f
<1>9. PICK u : u = <<s1, s2, s3>> /\ IsStores(u) /\ u # <<>> /\ Cut(StoredAll(f, u))
  <2>1. /\ IsStores(<<s1, s2, s3>>)
        /\ StoredAll(f, <<s1, s2, s3>>) = Stored(Stored(Stored(f, s1), s2), s3)
    BY <1>5, <1>6, StoredThree
  <2>2. <<s1, s2, s3>> # <<>>
    OBVIOUS
  <2> QED BY <1>8, <2>1, <2>2, Zenon
<1>10. LET s == FirstStores(b, len) \o u
       IN  /\ IsStores(s) /\ s # <<>> /\ StoredAll(b, s) = StoredAll(f, u)
           /\ Sound(s) /\ s[Len(s)] = u[Len(u)]
  BY <1>1, <1>3, <1>7, <1>9, ThenStored DEF f
<1> QED BY <1>4, <1>7, <1>9, <1>10 DEF Makes, EndsWell

LEMMA MakesBytes ==
  ASSUME Fits, NEW b \in Structure, b.MaxSbLen \in MaxSbLens, b.ESLen \in ESLens, b.I < Max32,
         NEW len \in Lengths, len > 0, Succeeds(b, FALSE), ~(b.ESLen > 1)
  PROVE  Makes(b, Stores(b, len, FALSE))
<1>1. PICK M, E \in Nat : b.MaxSbLen = M /\ b.ESLen = E /\ M > 0 /\ E > 0 /\ ~(E > 1)
  BY StructureFields DEF Succeeds, Validated
<1>2. PICK t, n \in Nat \ {0} : t = CeilDiv64(len, E) /\ n = U32(CeilDiv64(t, M))
  BY <1>1, Numbers
<1>3. /\ n < Max32 /\ E * (t - 1) < len /\ len <= E * t /\ M * (n - 1) < t /\ t <= M * n
      /\ len \in Nat /\ len < Max64 /\ M < Max32
  BY <1>1, <1>2, Numbers
<1> DEFINE s1 == <<"T", t>>
           s2 == <<"N", n>>
           s3 == <<"A", M>>
           s4 == <<"ASmall", M>>
           f == First(b, len)
<1>4. Stores(b, len, FALSE) = FirstStores(b, len) \o (<<s1, s2>> \o <<s3, s4>>)
  BY <1>1, <1>2 DEF Stores, FirstStores
<1>5. f \in Structure
  BY <1>3, FirstStored
<1>6. /\ s1 \in Fields \X Nat /\ s2 \in Fields \X Nat
      /\ s3 \in Fields \X Nat /\ s4 \in Fields \X Nat
  BY FieldsAre
<1>7. Sound(<<s1, s2>>) /\ Sound(<<s3, s4>>) /\ EndsWell(<<s3, s4>>)
  BY <1>1 DEF Sound, EndsWell
<1>8. Cut(Stored(Stored(Stored(Stored(f, s1), s2), s3), s4))
  <2>1. PICK c : c = Stored(Stored(Stored(Stored(f, s1), s2), s3), s4)
    OBVIOUS
  <2>2. /\ c.I = b.I /\ c.N = n /\ c.T = t /\ c.ESLen = E /\ c.MaxSbLen = M
        /\ c.TransferLen = len /\ c.A = M /\ c.ASmall = M
    BY <1>1, <1>5, <2>1, FieldsAre DEF Stored, First, Structure
  <2> QED BY <1>1, <1>3, <2>1, <2>2 DEF Cut, Uniform
<1> HIDE DEF s1, s2, s3, s4, f
<1>9. PICK u, g : /\ u = <<s1, s2>> /\ g = Stored(Stored(f, s1), s2) /\ g \in Structure
                  /\ IsStores(u) /\ g = StoredAll(f, u)
  <2>1. IsStores(<<s1, s2>>) /\ StoredAll(f, <<s1, s2>>) = Stored(Stored(f, s1), s2)
    BY <1>5, <1>6, StoredTwo
  <2>2. Stored(Stored(f, s1), s2) \in Structure
    BY <1>5, <1>6, StoredIs
  <2> QED BY <2>1, <2>2, Zenon
<1>10. PICK v : v = <<s3, s4>> /\ IsStores(v) /\ v # <<>> /\ Cut(StoredAll(g, v))
  <2>1. IsStores(<<s3, s4>>) /\ StoredAll(g, <<s3, s4>>) = Stored(Stored(g, s3), s4)
    BY <1>6, <1>9, StoredTwo
  <2>2. <<s3, s4>> # <<>>
    OBVIOUS
  <2> QED BY <1>8, <1>9, <2>1, <2>2, Zenon
<1>11. PICK w : /\ w = u \o v /\ IsStores(w) /\ w # <<>> /\ StoredAll(f, w) = StoredAll(g, v)
                /\ Sound(w) /\ w[Len(w)] = v[Len(v)]
  <2>1. IsStores(u \o v) /\ StoredAll(f, u \o v) = StoredAll(g, v)
    BY <1>5, <1>9, <1>10, StoredAllAppends
  <2>2. Sound(u) /\ Sound(v)
    BY <1>7, <1>9, <1>10
  <2>3. Sound(u \o v) /\ u \o v # <<>> /\ (u \o v)[Len(u \o v)] = v[Len(v)]
    BY <1>9, <1>10, <2>2, Appends
  <2> QED BY <2>1, <2>3, Zenon
<1>12. LET s == FirstStores(b, len) \o w
       IN  /\ IsStores(s) /\ s # <<>> /\ StoredAll(b, s) = StoredAll(f, w)
           /\ Sound(s) /\ s[Len(s)] = w[Len(w)]
  BY <1>1, <1>3, <1>11, ThenStored DEF f
<1> QED BY <1>4, <1>7, <1>9, <1>10, <1>11, <1>12 DEF Makes, EndsWell

LEMMA MakesEven ==
  ASSUME Fits, NEW b \in Structure, b.MaxSbLen \in MaxSbLens, b.ESLen \in ESLens,
         NEW len \in Lengths, len > 0, Succeeds(b, FALSE), b.ESLen > 1
  PROVE  Makes(b, Stores(b, len, FALSE))
<1>1. PICK M, E \in Nat : b.MaxSbLen = M /\ b.ESLen = E /\ M > 0 /\ E > 1
  BY StructureFields DEF Succeeds, Validated
<1>2. PICK t, n \in Nat \ {0} : t = CeilDiv64(len, E) /\ n = U32(CeilDiv64(t, M))
  BY <1>1, Numbers
<1>3. /\ n < Max32 /\ E * (t - 1) < len /\ len <= E * t /\ M * (n - 1) < t /\ t <= M * n
      /\ len \in Nat /\ len < Max64 /\ M < Max32
  BY <1>1, <1>2, Numbers
<1>4. PICK q, r \in Nat : q = t \div n /\ r = t % n /\ t = n * q + r /\ r < n
  BY Quotients
<1>5. q > 0
  <2>1. n <= t
    <3>1. n - 1 <= M * (n - 1)
      BY <1>1, <1>2
    <3> QED BY <1>3, <3>1, Products
  <2>2. n * 0 = 0 /\ (q = 0 => t = r)
    BY <1>4, Products
  <2> QED BY <1>4, <2>1, <2>2
<1>6. q <= M /\ (r > 0 => q + 1 <= M)
  <2>1. n * q \in Nat /\ n * M \in Nat /\ M * n = n * M /\ n * (q + 1) = n * q + n
    BY Products, ProductsOrder
  <2>2. n * q < n * (M + 1) /\ (r > 0 => n * q < n * M)
    <3>1. n * (M + 1) = n * M + n
      BY Products
    <3> QED BY <1>3, <1>4, <2>1, <3>1
  <2>3. q < M + 1
    BY <2>1, <2>2, LessFactor
  <2>4. r > 0 => q < M
    BY <2>1, <2>2, LessFactor
  <2> QED BY <2>3, <2>4
<1> DEFINE s1 == <<"T", t>>
           s2 == <<"N", n>>
           s3 == <<"A", q>>
           s4 == <<"ASmall", q>>
           s5 == <<"I", r>>
           s6 == <<"A", q + 1>>
           f == First(b, len)
           last == IF r > 0 THEN <<s6>> ELSE <<>>
           g == Stored(Stored(f, s1), s2)
           h == Stored(Stored(Stored(g, s3), s4), s5)
           c == IF r > 0 THEN Stored(h, s6) ELSE h
<1>7. Stores(b, len, FALSE)
        = FirstStores(b, len) \o (<<s1, s2>> \o (<<s3, s4, s5>> \o last))
  BY ZenonT(30), <1>1, <1>2, <1>4 DEF Stores, FirstStores, Even
<1>8. f \in Structure
  BY <1>3, FirstStored
<1>9. /\ s1 \in Fields \X Nat /\ s2 \in Fields \X Nat /\ s3 \in Fields \X Nat
      /\ s4 \in Fields \X Nat /\ s5 \in Fields \X Nat /\ s6 \in Fields \X Nat
  BY FieldsAre
<1>10. /\ Sound(<<s1, s2>>) /\ Sound(<<s3, s4, s5>>) /\ Sound(last)
       /\ EndsWell(<<s3, s4, s5>>) /\ EndsWell(<<s6>>)
  BY SMTT(30), <1>5 DEF Sound, EndsWell
<1>11. Cut(c)
  <2>1. /\ c.I = r /\ c.N = n /\ c.T = t /\ c.ESLen = E /\ c.MaxSbLen = M
        /\ c.TransferLen = len /\ c.A = (IF r > 0 THEN q + 1 ELSE q) /\ c.ASmall = q
    <3>1. CASE r > 0
      BY <1>1, <1>8, <3>1, FieldsAre DEF Stored, First, Structure
    <3>2. CASE ~(r > 0)
      BY <1>1, <1>8, <3>2, FieldsAre DEF Stored, First, Structure
    <3> QED BY <3>1, <3>2
  <2> HIDE DEF c
  <2>2. Balanced(c)
    BY <1>4, <1>5, <1>6, <2>1 DEF Balanced
  <2>3. r < Max32
    BY <1>3, <1>4, WidthAssumption
  <2> QED BY <1>1, <1>3, <2>1, <2>2, <2>3 DEF Cut
<1> HIDE DEF s1, s2, s3, s4, s5, s6, f
<1>12. g \in Structure /\ IsStores(<<s1, s2>>) /\ StoredAll(f, <<s1, s2>>) = g
  BY <1>8, <1>9, StoredIs, StoredTwo
<1> HIDE DEF g
<1>13. /\ h \in Structure /\ IsStores(<<s3, s4, s5>>) /\ StoredAll(g, <<s3, s4, s5>>) = h
       /\ <<s3, s4, s5>> # <<>>
  <2>1. IsStores(<<s3, s4, s5>>) /\ StoredAll(g, <<s3, s4, s5>>) = h
    BY <1>9, <1>12, StoredThree
  <2>2. <<s3, s4, s5>> # <<>>
    OBVIOUS
  <2> QED BY <1>9, <1>12, <2>1, <2>2, StoredIs
<1> HIDE DEF h
<1>14. IsStores(last) /\ StoredAll(h, last) = c /\ (last # <<>> => EndsWell(last))
  <2>1. CASE r > 0
    <3>1. IsStores(<<s6>>) /\ StoredAll(h, <<s6>>) = Stored(h, s6)
      BY <1>9, <1>13, StoredOne
    <3> QED BY <1>10, <2>1, <3>1
  <2>2. CASE ~(r > 0)
    BY <1>13, <2>2, StoredNone
  <2> QED BY <2>1, <2>2
<1> HIDE DEF last, c
<1>15. PICK u : u = <<s1, s2>>
  OBVIOUS
<1>16. PICK v : v = <<s3, s4, s5>>
  OBVIOUS
<1>17. PICK w : /\ w = v \o last /\ IsStores(w) /\ StoredAll(g, w) = c
                /\ w # <<>> /\ Sound(w) /\ EndsWell(w)
  <2>1. IsStores(v \o last) /\ StoredAll(g, v \o last) = c
    BY <1>12, <1>13, <1>14, <1>16, StoredAllAppends
  <2>2. Sound(v \o last)
    BY <1>10, <1>13, <1>14, <1>16, Appends
  <2>3. v \o last # <<>> /\ EndsWell(v \o last)
    <3>1. CASE last = <<>>
      <4>1. v \o last = v
        BY <1>13, <1>16, <3>1 DEF IsStores
      <4> QED BY <1>10, <1>13, <1>16, <4>1
    <3>2. CASE last # <<>>
      BY <1>13, <1>14, <1>16, <3>2, Appends DEF EndsWell
    <3> QED BY <3>1, <3>2
  <2> QED BY <2>1, <2>2, <2>3, Zenon
<1>18. PICK x : /\ x = u \o w /\ IsStores(x) /\ StoredAll(f, x) = c
                /\ x # <<>> /\ Sound(x) /\ x[Len(x)] = w[Len(w)]
  <2>1. IsStores(u \o w) /\ StoredAll(f, u \o w) = c
    BY <1>8, <1>12, <1>15, <1>17, StoredAllAppends
  <2>2. Sound(u)
    BY <1>10, <1>15
  <2>3. Sound(u \o w) /\ u \o w # <<>> /\ (u \o w)[Len(u \o w)] = w[Len(w)]
    BY <1>12, <1>15, <1>17, <2>2, Appends
  <2> QED BY <2>1, <2>3, Zenon
<1>19. LET s == FirstStores(b, len) \o x
       IN  /\ IsStores(s) /\ s # <<>> /\ StoredAll(b, s) = StoredAll(f, x)
           /\ Sound(s) /\ s[Len(s)] = x[Len(x)]
  BY <1>1, <1>3, <1>18, ThenStored DEF f
<1> QED BY <1>7, <1>11, <1>15, <1>16, <1>17, <1>18, <1>19 DEF Makes, EndsWell

\* An update that fails leaves the number of large blocks; it has no block of
\* no symbols either, unless that is what it was asked for.
LEMMA FailedStores ==
  ASSUME NEW b \in Structure, NEW len \in Nat, NEW stream \in BOOLEAN, ~Succeeds(b, stream)
  PROVE  LET s == Stores(b, len, stream)
         IN  /\ IsStores(s) /\ s # <<>>
             /\ b.MaxSbLen > 0 => Sound(s)
             /\ StoredAll(b, s) \in Structure /\ StoredAll(b, s).I = b.I
             /\ ~stream => ~EndsWell(s)
<1> DEFINE f == First(b, len)
<1>1. f \in Structure /\ f.I = b.I
  <2>1. f \in Structure
    BY FirstStored
  <2>2. f.I = b.I
    BY FieldsAre DEF First, Structure
  <2> QED BY <2>1, <2>2
<1>2. CASE stream /\ b.ESLen > 0
  <2>1. PICK t \in Nat : t = CeilDiv64(len, b.ESLen)
    <3>1. PICK E \in Nat \ {0} : E = b.ESLen
      BY <1>2, StructureFields
    <3> QED BY <3>1, Quotients, WidthAssumption DEF CeilDiv64, U64
  <2>2. Stores(b, len, stream) = FirstStores(b, len) \o <<<<"T", t>>>>
    BY <1>2, <2>1 DEF Stores, FirstStores
  <2>3. PICK s \in Fields \X Nat : s = <<"T", t>>
    BY FieldsAre
  <2>4. IsStores(<<s>>) /\ Stored(f, s) \in Structure /\ StoredAll(f, <<s>>) = Stored(f, s)
    BY <1>1, StoredIs, StoredOne
  <2>5. Stored(f, s).I = f.I
    BY <1>1, <2>3, FieldsAre DEF Stored, Structure
  <2>6. Sound(<<s>>)
    BY <2>3 DEF Sound
  <2>7. PICK u : u = <<s>>
    OBVIOUS
  <2>8. PICK w : w = Stores(b, len, stream) /\ w = FirstStores(b, len) \o u
    BY <2>2, <2>3, <2>7
  <2>9. /\ IsStores(w) /\ w # <<>> /\ StoredAll(b, w) = StoredAll(f, u)
        /\ b.MaxSbLen > 0 /\ Sound(u) => Sound(w)
    BY <2>4, <2>7, <2>8, ThenStored
  <2> HIDE DEF f
  <2> QED BY <1>1, <1>2, <2>4, <2>5, <2>6, <2>7, <2>8, <2>9
<1>3. CASE ~(stream /\ b.ESLen > 0)
  <2>1. Stores(b, len, stream) = FirstStores(b, len) \o <<>>
    BY <1>3 DEF Stores, FirstStores
  <2>2. FirstStores(b, len) \o <<>> = FirstStores(b, len)
    BY FirstStored DEF IsStores
  <2>3. ~EndsWell(FirstStores(b, len))
    <3>1. IsStores(Sizes(b)) /\ IsStores(<<<<"TransferLen", len>>>>)
      BY StructureFields, FieldsAre DEF IsStores, Sizes
    <3> QED BY <3>1, Appends DEF FirstStores, EndsWell
  <2> QED BY <1>1, <2>1, <2>2, <2>3, FirstStored
<1> QED BY <1>2, <1>3

-----------------------------------------------------------------------------
(* The invariant *)

IsList(s) == s \in Seq({s[i] : i \in 1..Len(s)})

IsQuery(r) ==
  r = [query |-> r.query, arg |-> r.arg, seen |-> r.seen, base |-> r.base,
       during |-> r.during, steady |-> r.steady]

\* What is left to do ends with a number of large blocks of 32 bits.
Stored32 == bs \in Structure /\ IsStores(todo) /\ StoredAll(bs, todo).I < Max32

InUse == good => bs.MaxSbLen \in MaxSbLens \ {0} /\ bs.ESLen \in ESLens \ {0}

Updating == todo # <<>> => good

\* The object is cut, or will be once the stores that are left are done.
WillBeCut == good /\ (todo # <<>> => EndsWell(todo)) => Cut(StoredAll(bs, todo))

\* No block size is zero, now or after any of the stores that are left; and
\* that stays when an update fails under a query.
NeverZero == good \/ rd # NoQuery => bs.A > 0 /\ bs.ASmall > 0 /\ Sound(todo)

Loaded ==
  /\ IsQuery(rd) /\ IsList(rd.seen)
  /\ rd.query = "SourceSBN" /\ Len(rd.seen) >= 3 => rd.seen[3] # 0

BlockingInv == Stored32 /\ InUse /\ Updating /\ WillBeCut /\ NeverZero /\ Loaded

LEMMA ListAppend ==
  ASSUME NEW s, IsList(s), NEW x
  PROVE  /\ IsList(Append(s, x)) /\ Len(s) \in Nat
         /\ Len(Append(s, x)) = Len(s) + 1
         /\ \A i \in 1..Len(s) : Append(s, x)[i] = s[i]
         /\ Append(s, x)[Len(s) + 1] = x
<1> DEFINE S == {s[i] : i \in 1..Len(s)} \cup {x}
<1>1. s \in Seq(S)
  BY DEF IsList
<1>2. PICK t : t = Append(s, x)
  OBVIOUS
<1> HIDE DEF S
<1>3. /\ t \in Seq(S) /\ Len(t) = Len(s) + 1 /\ Len(s) \in Nat
      /\ \A i \in 1..Len(s) : t[i] = s[i]
      /\ t[Len(s) + 1] = x
  BY <1>1, <1>2 DEF S
<1>4. t \in Seq({t[i] : i \in 1..Len(t)})
  BY <1>3
<1> QED BY <1>2, <1>3, <1>4 DEF IsList

LEMMA CutSizes ==
  ASSUME NEW b \in Structure, Cut(b)
  PROVE  b.A > 0 /\ b.ASmall > 0 /\ b.I < Max32
<1>1. /\ b.A \in Nat /\ b.ASmall \in Nat /\ b.MaxSbLen \in Nat
      /\ b.MaxSbLen > 0 /\ b.I < Max32
  BY StructureFields DEF Cut
<1> QED BY <1>1 DEF Cut, Uniform, Balanced

\* An update, whatever it finds.
LEMMA UpdateMakes ==
  ASSUME Fits, NEW b \in Structure, b.MaxSbLen \in MaxSbLens, b.ESLen \in ESLens, b.I < Max32,
         NEW len \in Lengths, len > 0, NEW stream \in BOOLEAN, Succeeds(b, stream)
  PROVE  /\ Makes(b, Stores(b, len, stream))
         /\ b.MaxSbLen > 0 /\ b.ESLen > 0
<1>1. CASE stream
  <2>1. stream = TRUE
    BY <1>1
  <2> QED BY <2>1, MakesStream DEF Succeeds
<1>2. CASE ~stream
  <2>1. stream = FALSE
    BY <1>2
  <2>2. b.MaxSbLen > 0 /\ b.ESLen > 0
    BY <2>1 DEF Succeeds, Validated
  <2> QED BY <2>1, <2>2, MakesBytes, MakesEven
<1> QED BY <1>1, <1>2

LEMMA StoresKeep ==
  ASSUME NEW b \in Structure, NEW stores, IsStores(stores), Sound(stores)
  PROVE  StoredAll(b, stores).MaxSbLen = b.MaxSbLen /\ StoredAll(b, stores).ESLen = b.ESLen
<1>1. \A j \in 1..Len(stores) : stores[j][1] # "MaxSbLen" /\ stores[j][1] # "ESLen"
  BY DEF Sound
<1>2. "MaxSbLen" \in Fields /\ "ESLen" \in Fields
  BY FieldsAre
<1> QED BY <1>1, <1>2, NoStore

LEMMA ParametersAre ==
  ASSUME NEW b \in Structure, NEW max \in Nat, NEW es \in Nat, NEW group \in Nat, NEW p,
         p = Parameters(b, max, es, group)
  PROVE  /\ p \in Structure /\ p.MaxSbLen = max /\ p.ESLen = es /\ p.NumEsPerGroup = group
         /\ p.I = b.I /\ p.A = b.A /\ p.ASmall = b.ASmall
<1>1. PICK m \in Nat : m = IF b.MaxNumEs = 0 THEN max ELSE b.MaxNumEs
  BY StructureFields
<1>2. p = [b EXCEPT !["ESLen"] = es, !["MaxSbLen"] = max, !["NumEsPerGroup"] = group,
                    !["MaxNumEs"] = m]
  BY <1>1, FieldsAre DEF Parameters, Structure
<1>3. p \in Structure
  BY <1>1, <1>2 DEF Structure
<1> QED BY <1>2, <1>3, FieldsAre DEF Structure

LEMMA ParametersStay ==
  ASSUME NEW b \in Structure, NEW p,
         p = Parameters(b, b.MaxSbLen, b.ESLen, b.NumEsPerGroup)
  PROVE  /\ p \in Structure /\ p.MaxSbLen = b.MaxSbLen /\ p.ESLen = b.ESLen
         /\ p.NumEsPerGroup = b.NumEsPerGroup /\ p.I = b.I /\ p.A = b.A /\ p.ASmall = b.ASmall
<1>1. PICK m \in Nat : m = IF b.MaxNumEs = 0 THEN b.MaxSbLen ELSE b.MaxNumEs
  BY StructureFields
<1>2. p = [b EXCEPT !["MaxNumEs"] = m]
  <2>1. p = [b EXCEPT !["ESLen"] = b.ESLen, !["MaxSbLen"] = b.MaxSbLen,
                      !["NumEsPerGroup"] = b.NumEsPerGroup, !["MaxNumEs"] = m]
    BY <1>1, FieldsAre DEF Parameters, Structure
  <2> QED BY <2>1, FieldsAre DEF Structure
<1>3. p \in Structure
  BY <1>1, <1>2 DEF Structure
<1> QED BY <1>2, <1>3, FieldsAre DEF Structure

LEMMA InitBlocking == Init => BlockingInv
<1> SUFFICES ASSUME Init
             PROVE  BlockingInv
  OBVIOUS
<1>1. bs \in Structure /\ bs.I = 0
  BY FieldsAre DEF Init, Zero, Structure
<1>2. StoredAll(bs, todo) = bs /\ IsStores(todo)
  BY <1>1, StoredNone DEF Init
<1>3. Loaded
  BY DEF Init, NoQuery, Loaded, IsQuery, IsList
<1> QED BY <1>1, <1>2, <1>3, WidthAssumption
        DEF Init, BlockingInv, Stored32, InUse, Updating, WillBeCut, NeverZero

LEMMA UpdateStep ==
  ASSUME Fits, BlockingInv, NEW b \in {bs, Zero}, NEW len \in Lengths, NEW max \in MaxSbLens,
         NEW es \in ESLens, NEW group \in Groups, NEW stream \in BOOLEAN,
         Update(b, len, max, es, group, stream)
  PROVE  BlockingInv'
<1>1. b \in Structure /\ b.I < Max32
  <2>1. CASE b = bs
    <3>1. StoredAll(bs, <<>>) = bs /\ bs \in Structure
      BY StoredNone DEF BlockingInv, Stored32
    <3> QED BY <2>1, <3>1 DEF BlockingInv, Stored32, Update, Idle
  <2>2. CASE b = Zero
    BY <2>2, FieldsAre, WidthAssumption DEF Zero, Structure
  <2> QED BY <2>1, <2>2
<1>2. PICK p \in Structure : /\ p = Parameters(b, max, es, group)
                             /\ p.MaxSbLen = max /\ p.ESLen = es /\ p.I = b.I
  <2>1. max \in Nat /\ es \in Nat /\ group \in Nat
    BY ArgumentAssumption, WidthAssumption
  <2> QED BY <1>1, <2>1, ParametersAre
<1>3. PICK s : s = Stores(p, len, stream)
  OBVIOUS
<1>4. /\ bs' = StoredAll(p, s) /\ good' = Succeeds(p, stream) /\ todo' = <<>> /\ len > 0
      /\ rd' = rd /\ rd = NoQuery
  BY <1>2, <1>3 DEF Update, Idle
<1>5. Loaded'
  BY <1>4 DEF BlockingInv, Loaded
<1>6. IsStores(s) /\ bs' \in Structure /\ bs'.I < Max32
  <2>1. CASE Succeeds(p, stream)
    <3>1. IsStores(s) /\ Cut(StoredAll(p, s))
      BY <1>1, <1>2, <1>3, <1>4, <2>1, UpdateMakes DEF Makes
    <3> QED BY <1>4, <3>1, StoredAllStructure, CutSizes
  <2>2. CASE ~Succeeds(p, stream)
    BY <1>1, <1>2, <1>3, <1>4, <2>2, ArgumentAssumption, FailedStores
  <2> QED BY <2>1, <2>2
<1>7. IsStores(todo') /\ StoredAll(bs', todo') = bs'
  BY <1>4, <1>6, StoredNone
<1>8. ASSUME good'
      PROVE  /\ bs'.MaxSbLen = max /\ bs'.ESLen = es /\ max > 0 /\ es > 0
             /\ Cut(bs') /\ bs'.A > 0 /\ bs'.ASmall > 0
  <2>1. Makes(p, s) /\ max > 0 /\ es > 0
    BY <1>1, <1>2, <1>3, <1>4, <1>8, UpdateMakes
  <2>2. bs'.MaxSbLen = max /\ bs'.ESLen = es
    BY <1>2, <1>4, <2>1, StoresKeep DEF Makes
  <2>3. Cut(bs')
    BY <1>4, <2>1 DEF Makes
  <2> QED BY <1>6, <2>1, <2>2, <2>3, CutSizes
<1>9. Sound(<<>>)
  BY DEF Sound
<1> QED BY <1>4, <1>5, <1>6, <1>7, <1>8, <1>9
        DEF BlockingInv, Stored32, InUse, Updating, WillBeCut, NeverZero

\* The stores of an update depend on its arguments only.
LEMMA StoresOfParameters ==
  ASSUME NEW b, NEW p, p.MaxSbLen = b.MaxSbLen, p.ESLen = b.ESLen,
         p.NumEsPerGroup = b.NumEsPerGroup, NEW len, NEW stream
  PROVE  Stores(p, len, stream) = Stores(b, len, stream) /\ Succeeds(p, stream) = Succeeds(b, stream)
BY DEF Stores, Succeeds, Validated, Sizes, StreamBlocks, Even

LEMMA UpdateLengthStep ==
  ASSUME Fits, BlockingInv, NEW len \in Lengths, NEW stream \in BOOLEAN, UpdateLength(len, stream)
  PROVE  BlockingInv'
<1>1. /\ todo = <<>> /\ good /\ len > 0 /\ todo' = Stores(bs, len, stream) /\ good' = good
      /\ bs' = Parameters(bs, bs.MaxSbLen, bs.ESLen, bs.NumEsPerGroup)
      /\ rd' = IF rd = NoQuery THEN rd ELSE [rd EXCEPT !.during = @ + 1, !.steady = @ /\ growing']
  BY DEF UpdateLength
<1>2. /\ bs \in Structure /\ StoredAll(bs, <<>>) = bs /\ bs.I < Max32
      /\ bs.MaxSbLen \in MaxSbLens \ {0} /\ bs.ESLen \in ESLens \ {0}
      /\ bs.A > 0 /\ bs.ASmall > 0
  BY <1>1, StoredNone DEF BlockingInv, Stored32, InUse, NeverZero
<1>3. PICK p \in Structure : /\ p = bs' /\ p.MaxSbLen = bs.MaxSbLen /\ p.ESLen = bs.ESLen
                             /\ p.NumEsPerGroup = bs.NumEsPerGroup /\ p.I = bs.I
                             /\ p.A = bs.A /\ p.ASmall = bs.ASmall
  BY <1>1, <1>2, ParametersStay
<1>4. PICK s : s = todo' /\ s = Stores(p, len, stream)
  BY <1>1, <1>3, StoresOfParameters
<1>5. /\ IsStores(s) /\ s # <<>> /\ Sound(s) /\ StoredAll(p, s).I < Max32
      /\ EndsWell(s) => Cut(StoredAll(p, s))
  <2>1. /\ p.MaxSbLen \in MaxSbLens /\ p.ESLen \in ESLens /\ p.I < Max32
        /\ p.MaxSbLen > 0 /\ p.ESLen > 0
    BY <1>2, <1>3, StructureFields
  <2>2. CASE Succeeds(p, stream)
    <3>1. Makes(p, s)
      BY <1>1, <1>4, <2>1, <2>2, UpdateMakes
    <3> QED BY <3>1, StoredAllStructure, CutSizes DEF Makes
  <2>3. CASE ~Succeeds(p, stream)
    <3>1. len \in Nat /\ ~stream
      BY <2>1, <2>3, ArgumentAssumption, WidthAssumption DEF Succeeds
    <3> QED BY <1>4, <2>1, <2>3, <3>1, FailedStores
  <2> QED BY <2>2, <2>3
<1>6. Loaded'
  <2>1. CASE rd = NoQuery
    BY <1>1, <2>1 DEF BlockingInv, Loaded
  <2>2. CASE rd # NoQuery
    <3>1. IsQuery(rd)
      BY DEF BlockingInv, Loaded
    <3>2. IsQuery(rd') /\ rd'.query = rd.query /\ rd'.seen = rd.seen
      BY <1>1, <2>2, <3>1 DEF IsQuery
    <3> QED BY <3>2 DEF BlockingInv, Loaded
  <2> QED BY <2>1, <2>2
<1>7. Stored32'
  BY <1>3, <1>4, <1>5 DEF Stored32
<1>8. InUse' /\ Updating'
  BY <1>1, <1>2, <1>3 DEF InUse, Updating
<1>9. WillBeCut'
  BY <1>3, <1>4, <1>5 DEF WillBeCut
<1>10. NeverZero'
  BY <1>2, <1>3, <1>4, <1>5 DEF NeverZero
<1> QED BY <1>6, <1>7, <1>8, <1>9, <1>10 DEF BlockingInv

LEMMA StoreActionStep ==
  ASSUME BlockingInv, Store
  PROVE  BlockingInv'
<1>1. /\ todo # <<>> /\ bs' = Stored(bs, Head(todo)) /\ todo' = Tail(todo) /\ rd' = rd
      /\ good' = IF Len(todo) = 1 THEN EndsWell(todo) ELSE good
  BY DEF Store, EndsWell
<1>2. /\ bs \in Structure /\ IsStores(todo) /\ StoredAll(bs, todo).I < Max32 /\ good
      /\ bs.MaxSbLen \in MaxSbLens \ {0} /\ bs.ESLen \in ESLens \ {0}
      /\ bs.A > 0 /\ bs.ASmall > 0 /\ Sound(todo)
      /\ EndsWell(todo) => Cut(StoredAll(bs, todo))
  BY <1>1 DEF BlockingInv, Stored32, InUse, Updating, WillBeCut, NeverZero
<1>3. PICK n \in Nat \ {0} : n = Len(todo)
  BY <1>1, <1>2 DEF IsStores
<1>4. PICK s, rest : /\ s \in Fields \X Nat /\ s = Head(todo) /\ s = todo[1] /\ rest = Tail(todo)
                     /\ Len(rest) = n - 1 /\ IsStores(rest)
                     /\ \A j \in 1..(n - 1) : rest[j] = todo[j + 1]
  <2>1. todo[1] \in Fields \X Nat /\ Head(todo) = todo[1]
    BY <1>2, <1>3 DEF IsStores
  <2>2. /\ Len(Tail(todo)) = n - 1 /\ IsStores(Tail(todo))
        /\ \A j \in 1..(n - 1) : Tail(todo)[j] = todo[j + 1]
    BY <1>1, <1>2, <1>3 DEF IsStores
  <2> QED BY <2>1, <2>2, Zenon
<1>5. bs' \in Structure /\ StoredAll(bs', rest) = StoredAll(bs, todo)
  BY <1>1, <1>2, <1>4, StoredIs, StoreStep
<1>6. Sound(rest)
  <2>1. ASSUME NEW k \in 1..(n - 1)
        PROVE  /\ rest[k][1] \notin {"MaxSbLen", "ESLen"}
               /\ rest[k][1] \in {"A", "ASmall"} => rest[k][2] > 0
    <3>1. k + 1 \in 1..Len(todo) /\ rest[k] = todo[k + 1]
      BY <1>3, <1>4
    <3> QED BY <1>2, <3>1 DEF Sound
  <2> QED BY <1>4, <2>1 DEF Sound
<1>7. /\ bs'.MaxSbLen = bs.MaxSbLen /\ bs'.ESLen = bs.ESLen /\ bs'.A > 0 /\ bs'.ASmall > 0
  <2>1. /\ s[1] \notin {"MaxSbLen", "ESLen"}
        /\ s[1] \in {"A", "ASmall"} => s[2] > 0
    BY <1>2, <1>3, <1>4 DEF Sound
  <2> QED BY <1>1, <1>2, <1>4, <2>1, FieldsAre DEF Stored, Structure
<1>8. CASE n = 1
  <2>1. rest = <<>>
    BY <1>4, <1>8 DEF IsStores
  <2>2. good' => Cut(StoredAll(bs', rest))
    BY <1>1, <1>2, <1>3, <1>5, <1>8
  <2> QED BY <1>1, <1>2, <1>4, <1>5, <1>6, <1>7, <2>1, <2>2
          DEF BlockingInv, Stored32, InUse, Updating, WillBeCut, NeverZero, Loaded
<1>9. CASE n # 1
  <2>1. rest # <<>> /\ EndsWell(rest) = EndsWell(todo) /\ good'
    <3>1. n - 1 \in 1..(n - 1) /\ n - 1 + 1 = n
      BY <1>9
    <3>2. rest[n - 1] = todo[n]
      BY <1>4, <3>1
    <3>3. rest # <<>>
      BY <1>4, <1>9
    <3> QED BY <1>1, <1>2, <1>3, <1>4, <1>9, <3>2, <3>3 DEF EndsWell
  <2> QED BY <1>1, <1>2, <1>4, <1>5, <1>6, <1>7, <2>1
          DEF BlockingInv, Stored32, InUse, Updating, WillBeCut, NeverZero, Loaded
<1> QED BY <1>8, <1>9

LEMMA QueryStep ==
  ASSUME BlockingInv, \/ \E query \in Queries : \E arg \in Args(query) : Ask(query, arg)
                      \/ Load \/ Reply
  PROVE  BlockingInv'
<1>1. /\ bs' = bs /\ good' = good /\ todo' = todo /\ (rd' # NoQuery => good \/ rd # NoQuery)
  BY DEF Ask, Load, Reply
<1>2. /\ IsQuery(rd) /\ IsList(rd.seen)
      /\ rd.query = "SourceSBN" /\ Len(rd.seen) >= 3 => rd.seen[3] # 0
  BY DEF BlockingInv, Loaded
<1>3. Loaded'
  <2>1. CASE \E query \in Queries : \E arg \in Args(query) : Ask(query, arg)
    BY <2>1 DEF Ask, Loaded, IsQuery, IsList
  <2>2. CASE Reply
    BY <2>2 DEF Reply, NoQuery, Loaded, IsQuery, IsList
  <2>3. CASE Load
    <3>1. PICK x : /\ rd' = [rd EXCEPT !.seen = Append(@, x)]
                   /\ x = bs[Loads[Len(rd.seen) + 1]] /\ rd # NoQuery
      BY <2>3 DEF Load
    <3>2. IsQuery(rd') /\ rd'.query = rd.query /\ rd'.seen = Append(rd.seen, x)
      BY <1>2, <3>1 DEF IsQuery
    <3>3. /\ IsList(rd'.seen) /\ Len(rd.seen) \in Nat /\ Len(rd'.seen) = Len(rd.seen) + 1
          /\ \A i \in 1..Len(rd.seen) : rd'.seen[i] = rd.seen[i]
          /\ rd'.seen[Len(rd.seen) + 1] = x
      BY <1>2, <3>2, ListAppend
    <3>4. ASSUME rd.query = "SourceSBN", Len(rd.seen) = 2
          PROVE  x # 0
      <4>1. Loads = SourceSBNLoads(rd.seen, rd.arg)
        BY <3>4 DEF Loads
      <4>2. Loads[3] \in {"A", "ASmall"}
        BY <4>1 DEF SourceSBNLoads
      <4>3. bs.A > 0 /\ bs.ASmall > 0
        BY <3>1 DEF BlockingInv, NeverZero
      <4> QED BY <3>1, <3>4, <4>2, <4>3
    <3>5. ASSUME rd'.query = "SourceSBN", Len(rd'.seen) >= 3
          PROVE  rd'.seen[3] # 0
      <4>1. CASE Len(rd.seen) = 2
        BY <3>2, <3>3, <3>4, <3>5, <4>1
      <4>2. CASE Len(rd.seen) > 2
        <5>1. Len(rd.seen) >= 3 /\ 3 \in 1..Len(rd.seen)
          BY <3>3, <4>2
        <5> QED BY <1>2, <3>2, <3>3, <3>5, <5>1
      <4>3. Len(rd.seen) = 2 \/ Len(rd.seen) > 2
        <5>1. PICK n \in Nat : n = Len(rd.seen) /\ Len(rd'.seen) = n + 1
          BY <3>3
        <5>2. n + 1 >= 3
          BY <3>5, <5>1
        <5>3. n = 2 \/ n > 2
          BY <5>2
        <5> QED BY <5>1, <5>3
      <4> QED BY <4>1, <4>2, <4>3
    <3> QED BY <3>2, <3>3, <3>5 DEF Loaded
  <2> QED BY <2>1, <2>2, <2>3
<1> QED BY <1>1, <1>3
        DEF BlockingInv, Stored32, InUse, Updating, WillBeCut, NeverZero

LEMMA BlockingInvariant == Fits /\ Spec => []BlockingInv
<1>1. Fits /\ BlockingInv /\ [Next]_vars => BlockingInv'
  <2> SUFFICES ASSUME Fits, BlockingInv, [Next]_vars
               PROVE  BlockingInv'
    OBVIOUS
  <2>1. CASE \E len \in Lengths, max \in MaxSbLens, es \in ESLens, group \in Groups,
               stream \in BOOLEAN :
               New(len, max, es, group, stream) \/ Update(bs, len, max, es, group, stream)
    BY <2>1, UpdateStep DEF New
  <2>2. CASE \E len \in Lengths, stream \in BOOLEAN : UpdateLength(len, stream)
    BY <2>2, UpdateLengthStep
  <2>3. CASE Store
    BY <2>3, StoreActionStep
  <2>4. CASE \/ \E query \in Queries : \E arg \in Args(query) : Ask(query, arg)
             \/ Load \/ Reply
    BY <2>4, QueryStep
  <2>5. CASE UNCHANGED vars
    BY <2>5 DEF vars, BlockingInv, Stored32, InUse, Updating, WillBeCut, NeverZero, Loaded
  <2> QED BY <2>1, <2>2, <2>3, <2>4, <2>5 DEF Next
<1>2. Fits => Fits'
  OBVIOUS
<1> QED BY <1>1, <1>2, InitBlocking, PTL DEF Spec

LEMMA AtRestCut == BlockingInv /\ AtRest => bs \in Structure /\ Cut(bs)
<1> SUFFICES ASSUME BlockingInv, AtRest
             PROVE  bs \in Structure /\ Cut(bs)
  OBVIOUS
<1>1. bs \in Structure /\ todo = <<>> /\ good
  BY DEF BlockingInv, Stored32, AtRest
<1> QED BY <1>1, StoredNone DEF BlockingInv, WillBeCut

-----------------------------------------------------------------------------
(* A stream that grows *)

\* A value of a field which is not behind that of this structure.
AtLeast(f, v, base) ==
  /\ f \in {"N", "I"} => v \in Nat /\ v >= base.N /\ v < Max32
  /\ f \in {"A", "ASmall"} => v = base.MaxSbLen

Grown(b, base) ==
  /\ b.ESLen = base.ESLen /\ b.MaxSbLen = base.MaxSbLen
  /\ \A f \in Fields : AtLeast(f, b[f], base)

GrownBy(stores, base) ==
  \A k \in 1..Len(stores) : AtLeast(stores[k][1], stores[k][2], base)

IsStream(b) == b \in Structure /\ Cut(b) /\ Streaming(b)

Resting == todo = <<>> => whole = bs /\ ~growing

Growing == growing => IsStream(whole) /\ Grown(bs, whole) /\ GrownBy(todo, whole)

Watched == rd # NoQuery /\ rd.steady /\ Streaming(rd.base)

\* A query finds every field at least as it was when the query was asked.
Watching ==
  Watched => IsStream(rd.base) /\ Grown(bs, rd.base) /\ GrownBy(todo, rd.base)

Asked ==
  rd # NoQuery =>
     /\ rd.query \in {"SrcOffset", "SrcBlockSize", "NumSrcSym", "SourceSBN"}
     /\ rd.arg \in Nat

\* What StreamQueriesExact is about: what was there before.
InScope ==
  /\ Watched
  /\ rd.query = "SrcOffset" => rd.arg < rd.base.N
  /\ rd.query = "SourceSBN" => rd.arg < rd.base.TransferLen
  /\ rd.query \in {"SrcBlockSize", "NumSrcSym"} => rd.arg < rd.base.N - 1

\* The loads of such a query: it takes the way of a large block that is not
\* the last.
Script(query) ==
  CASE query \in {"SrcOffset", "SrcBlockSize"} -> <<"N", "I", "A">>
    [] query = "NumSrcSym" -> <<"N", "ASmall", "I", "A", "N">>
    [] query = "SourceSBN" -> <<"A", "I", "A", "N">>

SeenGrown ==
  InScope =>
     /\ Len(rd.seen) <= Len(Script(rd.query))
     /\ \A k \in 1..Len(rd.seen) : AtLeast(Script(rd.query)[k], rd.seen[k], rd.base)

StreamInv == Resting /\ Growing /\ Watching /\ Asked /\ SeenGrown

LEMMA OffsetScript ==
  ASSUME NEW base, IsStream(base), bs.ESLen = base.ESLen,
         NEW s, NEW n \in 0..3, Len(s) = n, NEW arg \in Nat, arg < base.N,
         n >= 1 => s[1] \in Nat /\ s[1] >= base.N,
         n >= 2 => s[2] \in Nat /\ s[2] >= base.N,
         n >= 3 => s[3] = base.MaxSbLen
  PROVE  /\ OffsetLoads(s, arg) = <<"N", "I", "A">>
         /\ n = 3 => OffsetSeen(s, arg) = SrcOffset(base, arg)
<1>1. PICK N \in Nat : base.N = N /\ base.I = N /\ base.A = base.MaxSbLen
  BY StructureFields DEF IsStream, Streaming
<1>2. (n >= 1 => ~(arg >= s[1])) /\ (n >= 2 => ~(arg >= s[2]))
  BY <1>1
<1>3. OffsetLoads(s, arg) = <<"N", "I", "A">>
  BY <1>2 DEF OffsetLoads, Has
<1>4. ASSUME n = 3
      PROVE  OffsetSeen(s, arg) = SrcOffset(base, arg)
  <2>1. OffsetSeen(s, arg) = U64(base.ESLen * base.MaxSbLen * arg)
    BY <1>2, <1>4 DEF OffsetSeen
  <2>2. SrcOffset(base, arg) = U64(base.ESLen * base.MaxSbLen * arg)
    BY <1>1 DEF SrcOffset
  <2> QED BY <2>1, <2>2
<1> QED BY <1>3, <1>4

LEMMA BlockSizeScript ==
  ASSUME NEW base, IsStream(base), bs.ESLen = base.ESLen,
         NEW s, NEW n \in 0..3, Len(s) = n, NEW arg \in Nat, arg < base.N - 1,
         n >= 1 => s[1] \in Nat /\ s[1] >= base.N /\ s[1] < Max32,
         n >= 2 => s[2] \in Nat /\ s[2] >= base.N,
         n >= 3 => s[3] = base.MaxSbLen
  PROVE  /\ n >= 2 => BlockSizeLoads(s, arg) = <<"N", "I", "A">>
         /\ n < 2 => BlockSizeLoads(s, arg) = <<"N", "I", "N", "ASmall">>
         /\ n = 3 => BlockSizeSeen(s, arg) = SrcBlockSize(base, arg)
<1>1. PICK N \in Nat : /\ base.N = N /\ base.I = N /\ base.A = base.MaxSbLen
                       /\ N < Max32 /\ Max32 \in Nat
  BY StructureFields, WidthAssumption DEF IsStream, Streaming, Cut
<1>2. ASSUME NEW v \in Nat, v >= N, v < Max32
      PROVE  arg # U32(v - 1)
  <2>1. v - 1 \in Nat /\ v - 1 < Max32 /\ arg < v - 1
    BY <1>1, <1>2
  <2>2. U32(v - 1) = v - 1
    BY <1>1, <2>1, SmallKeeps DEF U32
  <2> QED BY <2>1, <2>2
<1>3. (n >= 1 => arg # U32(s[1] - 1)) /\ (n >= 2 => arg < s[2]) /\ arg # U32(N - 1)
  <2>1. n >= 1 => arg # U32(s[1] - 1)
    BY <1>1, <1>2
  <2>2. n >= 2 => arg < s[2]
    BY <1>1
  <2>3. arg # U32(N - 1)
    BY <1>1, <1>2
  <2> QED BY <2>1, <2>2, <2>3
<1>4. n >= 2 => BlockSizeLoads(s, arg) = <<"N", "I", "A">>
  BY <1>3 DEF BlockSizeLoads, Has
<1>5. n < 2 => BlockSizeLoads(s, arg) = <<"N", "I", "N", "ASmall">>
  BY <1>3 DEF BlockSizeLoads, Has
<1>6. n = 3 => BlockSizeSeen(s, arg) = SrcBlockSize(base, arg)
  BY <1>1, <1>3 DEF BlockSizeSeen, SrcBlockSize
<1> QED BY <1>4, <1>5, <1>6

LEMMA NumSrcSymScript ==
  ASSUME NEW base, IsStream(base),
         NEW s, NEW n \in 0..5, Len(s) = n, NEW arg \in Nat, arg < base.N - 1,
         n >= 1 => s[1] \in Nat /\ s[1] >= base.N,
         n >= 3 => s[3] \in Nat /\ s[3] >= base.N,
         n >= 4 => s[4] = base.MaxSbLen,
         n >= 5 => s[5] \in Nat /\ s[5] >= base.N
  PROVE  /\ n >= 3 => NumSrcSymLoads(s, arg) = <<"N", "ASmall", "I", "A", "N">>
         /\ n < 3 => NumSrcSymLoads(s, arg) = <<"N", "ASmall", "I", "N">>
         /\ n = 5 => NumSrcSymSeen(s, arg) = NumSrcSym(base, arg)
<1>1. PICK N \in Nat : base.N = N /\ base.I = N /\ base.A = base.MaxSbLen
  BY StructureFields DEF IsStream, Streaming
<1>2. /\ n >= 1 => ~(arg >= s[1])
      /\ n >= 3 => arg < s[3]
      /\ n >= 5 => arg # s[5] - 1
      /\ arg < N /\ arg # N - 1
  BY <1>1
<1>3. /\ n >= 3 => NumHead(s, arg) = <<"N", "ASmall", "I", "A", "N">>
      /\ n < 3 => NumHead(s, arg) = <<"N", "ASmall", "I", "N">>
  BY <1>2 DEF NumHead, Has
<1>4. CASE n >= 3
  <2>1. PICK h : h = NumHead(s, arg) /\ Len(h) = 5 /\ h = <<"N", "ASmall", "I", "A", "N">>
    BY <1>3, <1>4
  <2>2. NumSrcSymLoads(s, arg) = h
    BY <1>2, <2>1 DEF NumSrcSymLoads, Has
  <2>3. ASSUME n = 5
        PROVE  NumSrcSymSeen(s, arg) = NumSrcSym(base, arg)
    <3>1. NumSrcSymSeen(s, arg) = NumFull(s, arg)
      BY <1>2, <2>1, <2>3 DEF NumSrcSymSeen
    <3>2. NumFull(s, arg) = base.MaxSbLen
      BY <1>2, <2>3 DEF NumFull
    <3>3. NumSrcSym(base, arg) = base.MaxSbLen
      BY <1>1, <1>2 DEF NumSrcSym
    <3> QED BY <3>1, <3>2, <3>3
  <2> QED BY <1>4, <2>1, <2>2, <2>3
<1>5. CASE n < 3
  <2>1. PICK h : h = NumHead(s, arg) /\ Len(h) = 4 /\ h = <<"N", "ASmall", "I", "N">>
    BY <1>3, <1>5
  <2>2. NumSrcSymLoads(s, arg) = h
    BY <1>5, <2>1 DEF NumSrcSymLoads, Has
  <2> QED BY <1>5, <2>1, <2>2
<1> QED BY <1>4, <1>5

LEMMA SourceSBNScript ==
  ASSUME NEW base, IsStream(base), bs.ESLen = base.ESLen, Max32 * Max32 <= Max64,
         NEW s, NEW n \in 0..4, Len(s) = n, NEW arg \in Nat, arg < base.TransferLen,
         n >= 1 => s[1] = base.MaxSbLen,
         n >= 2 => s[2] \in Nat /\ s[2] >= base.N /\ s[2] < Max32,
         n >= 3 => s[3] = base.MaxSbLen,
         n >= 4 => s[4] \in Nat /\ s[4] >= base.N
  PROVE  /\ SourceSBNLoads(s, arg) = <<"A", "I", "A", "N">>
         /\ n = 4 => SourceSBNSeen(s, arg) = SourceSBN(base, arg)
<1>1. PICK N, M, E, T, L \in Nat :
         /\ base.N = N /\ base.I = N /\ base.A = M /\ base.MaxSbLen = M /\ base.ESLen = E
         /\ base.T = T /\ base.TransferLen = L
         /\ N < Max32 /\ M < Max32 /\ M > 0 /\ E > 0 /\ L <= E * T /\ T <= M * N
         /\ Max32 \in Nat /\ Max64 \in Nat
  BY StructureFields, WidthAssumption DEF IsStream, Streaming, Cut
<1>2. PICK x \in Nat : x = arg \div E /\ x < M * N
  <2>1. arg < E * T
    BY <1>1, Products
  <2>2. E \in Nat \ {0}
    BY <1>1
  <2>3. arg \div E \in Nat /\ arg \div E < T
    BY <2>1, <2>2, Quotients, QuotientBelow
  <2> QED BY <1>1, <2>3, Products
<1>3. ASSUME NEW v \in Nat, v >= N, v < Max32
      PROVE  ~(x >= U64(M * v)) /\ x < U64(M * v)
  <2>1. /\ M * v \in Nat /\ M * v <= M * Max32 /\ Max32 * M < Max32 * Max32
        /\ M * N <= M * v /\ M * Max32 = Max32 * M /\ M * N \in Nat
    BY <1>1, <1>3, Products, ProductsOrder
  <2>2. M * v < Max64
    BY <1>1, <2>1, Products
  <2>3. U64(M * v) = M * v
    BY <1>1, <2>1, <2>2, SmallKeeps DEF U64
  <2> QED BY SMTT(30), <1>2, <2>1, <2>3
<1>4. PICK q \in Nat : q = x \div M /\ q < N
  <2>1. M \in Nat \ {0}
    BY <1>1
  <2> QED BY <1>2, <2>1, Quotients, QuotientBelow
<1>5. /\ n >= 2 => ~(arg \div bs.ESLen >= U64(s[1] * s[2]))
      /\ n >= 2 => arg \div bs.ESLen < U64(s[1] * s[2])
  <2>1. ASSUME n >= 2
        PROVE  s[1] = M /\ s[2] \in Nat /\ s[2] >= N /\ s[2] < Max32
    BY <1>1, <2>1
  <2> QED BY <1>1, <1>2, <1>3, <2>1
<1>6. n >= 4 => SBNFound(s, arg) = q /\ ~(q >= s[4]) /\ q < s[4]
  BY SMTT(30), <1>1, <1>2, <1>4, <1>5 DEF SBNFound, Quotient
<1>7. SourceSBNLoads(s, arg) = <<"A", "I", "A", "N">>
  <2>1. CASE n >= 2
    BY <1>5, <1>6, <2>1 DEF SourceSBNLoads, Has
  <2>2. CASE n < 2
    BY <2>2 DEF SourceSBNLoads, Has
  <2> QED BY <2>1, <2>2
<1>8. ASSUME n = 4
      PROVE  SourceSBNSeen(s, arg) = SourceSBN(base, arg)
  <2>1. SourceSBNSeen(s, arg) = q
    BY <1>5, <1>6, <1>8 DEF SourceSBNSeen
  <2>2. SourceSBN(base, arg) = q
    <3>1. arg \div base.ESLen = x /\ x \div base.A = q /\ q < base.N
      BY ONLY <1>1, <1>2, <1>4
    <3>2. N \in Nat /\ N >= N /\ N < Max32
      BY <1>1
    <3>3. x < U64(M * N)
      BY <1>3, <3>2, Zenon
    <3>4. x < U64(base.A * base.I)
      BY <1>1, <3>3, Zenon
    <3> QED BY ONLY <3>1, <3>4 DEF SourceSBN
  <2> QED BY <2>1, <2>2
<1> QED BY <1>7, <1>8

\* What the queries answer about the structure that they found.
InBase ==
  CASE rd.query = "SrcOffset" -> SrcOffset(rd.base, rd.arg)
    [] rd.query = "SrcBlockSize" -> SrcBlockSize(rd.base, rd.arg)
    [] rd.query = "NumSrcSym" -> NumSrcSym(rd.base, rd.arg)
    [] rd.query = "SourceSBN" -> SourceSBN(rd.base, rd.arg)

\* A query in scope loads what its script says next, and when it has all of
\* it, it answers as it would have when it was asked.
Follows ==
  LET n == Len(rd.seen)
      script == Script(rd.query)
  IN  /\ n \in Nat /\ n <= Len(script)
      /\ n < Len(script) => Len(Loads) > n /\ Loads[n + 1] = script[n + 1]
      /\ n = Len(script) => Len(Loads) = n /\ Answer = InBase

LEMMA ScriptFollows ==
  ASSUME BlockingInv, StreamInv, InScope, Max32 * Max32 <= Max64
  PROVE  Follows
<1>1. PICK base, s, arg, n :
         /\ base = rd.base /\ s = rd.seen /\ arg = rd.arg /\ n = Len(s)
         /\ IsStream(base) /\ bs.ESLen = base.ESLen /\ arg \in Nat /\ n \in Nat
  <2>1. IsStream(rd.base) /\ bs.ESLen = rd.base.ESLen
    BY DEF StreamInv, Watching, InScope, Grown
  <2>2. rd.arg \in Nat
    BY DEF StreamInv, Asked, InScope, Watched
  <2>3. Len(rd.seen) \in Nat
    BY DEF BlockingInv, Loaded, IsList
  <2> QED BY <2>1, <2>2, <2>3
<1>2. n <= Len(Script(rd.query)) /\ \A k \in 1..n : AtLeast(Script(rd.query)[k], s[k], base)
  BY <1>1 DEF StreamInv, SeenGrown
<1>3. n \in Nat
  BY <1>1, Zenon
<1>4. CASE rd.query = "SrcOffset"
  <2>1. PICK w : w = Script(rd.query) /\ w = <<"N", "I", "A">>
    BY <1>4 DEF Script
  <2>2. Len(w) = 3 /\ n \in 0..3 /\ \A k \in 1..n : AtLeast(w[k], s[k], base)
    <3>1. Len(w) = 3
      BY <2>1
    <3>2. n <= Len(w)
      BY <1>2, <2>1, Zenon
    <3>3. \A k \in 1..n : AtLeast(w[k], s[k], base)
      BY <1>2, <2>1, Zenon
    <3>4. n \in 0..3
      BY <1>3, <3>1, <3>2
    <3> QED BY <3>1, <3>3, <3>4, Zenon
  <2>3. arg \in Nat /\ arg < base.N
    BY <1>1, <1>4 DEF InScope
  <2>4. n >= 1 => s[1] \in Nat /\ s[1] >= base.N /\ s[1] < Max32
    <3>1. w[1] = "N"
      BY <2>1
    <3>2. n >= 1 => AtLeast(w[1], s[1], base)
      BY <2>2
    <3> QED BY <3>1, <3>2 DEF AtLeast
  <2>5. n >= 2 => s[2] \in Nat /\ s[2] >= base.N /\ s[2] < Max32
    <3>1. w[2] = "I"
      BY <2>1
    <3>2. n >= 2 => AtLeast(w[2], s[2], base)
      BY <2>2
    <3> QED BY <3>1, <3>2 DEF AtLeast
  <2>6. n >= 3 => s[3] = base.MaxSbLen
    <3>1. w[3] = "A"
      BY <2>1
    <3>2. n >= 3 => AtLeast(w[3], s[3], base)
      BY <2>2
    <3> QED BY <3>1, <3>2 DEF AtLeast
  <2>7. /\ OffsetLoads(s, arg) = <<"N", "I", "A">>
        /\ n = 3 => OffsetSeen(s, arg) = SrcOffset(base, arg)
    <3>1. n \in 0..3 /\ Len(s) = n
      BY <1>1, <2>2
    <3>2. IsStream(base) /\ bs.ESLen = base.ESLen /\ Max32 * Max32 <= Max64
      BY <1>1
    <3>3. n >= 1 => s[1] \in Nat /\ s[1] >= base.N
      BY <2>4, <2>5, <2>6
    <3>4. n >= 2 => s[2] \in Nat /\ s[2] >= base.N
      BY <2>4, <2>5, <2>6
    <3>5. n >= 3 => s[3] = base.MaxSbLen
      BY <2>4, <2>5, <2>6
    <3> QED BY <2>3, <3>1, <3>2, <3>3, <3>4, <3>5, OffsetScript, Zenon
  <2>8. PICK u : u = Loads /\ u = OffsetLoads(s, arg)
    BY <1>1, <1>4 DEF Loads
  <2>9. Answer = OffsetSeen(s, arg) /\ InBase = SrcOffset(base, arg)
    BY <1>1, <1>4 DEF Answer, InBase
  <2>10. n < 3 => Len(u) > n /\ u[n + 1] = w[n + 1]
    <3>1. CASE n < 1
      <4>1. u = <<"N", "I", "A">>
        BY <2>7, <2>8, <3>1
      <4>2. n \in 0..0
        BY <2>2, <3>1
      <4> QED BY <2>1, <4>1, <4>2
    <3>2. CASE n >= 1
      <4>1. u = w
        BY <2>1, <2>7, <2>8, <3>2
      <4> QED BY <2>2, <3>2, <4>1
    <3> QED BY <2>2, <3>1, <3>2
  <2>11. n = 3 => Len(u) = n
    BY <2>7, <2>8
  <2>12. /\ n \in Nat /\ n <= Len(w)
         /\ n < Len(w) => Len(u) > n /\ u[n + 1] = w[n + 1]
         /\ n = Len(w) => Len(u) = n /\ Answer = InBase
    <3>1. Len(w) = 3 /\ n \in Nat /\ n <= Len(w)
      BY <1>3, <2>2
    <3>2. n = 3 => Answer = InBase
      BY <2>7, <2>9, Zenon
    <3> QED BY <3>1, <3>2, <2>10, <2>11
  <2>13. Len(rd.seen) = n /\ Script(rd.query) = w /\ Loads = u
    BY <1>1, <2>1, <2>8, Zenon
  <2>14. PICK m, x, y : m = Len(rd.seen) /\ x = Script(rd.query) /\ y = Loads
                      /\ m = n /\ x = w /\ y = u
    BY <2>13, Zenon
  <2>15. /\ m \in Nat /\ m <= Len(x)
         /\ m < Len(x) => Len(y) > m /\ y[m + 1] = x[m + 1]
         /\ m = Len(x) => Len(y) = m /\ Answer = InBase
    BY <2>12, <2>14, Zenon
  <2> QED BY <2>14, <2>15 DEF Follows
<1>5. CASE rd.query = "SrcBlockSize"
  <2>1. PICK w : w = Script(rd.query) /\ w = <<"N", "I", "A">>
    BY <1>5 DEF Script
  <2>2. Len(w) = 3 /\ n \in 0..3 /\ \A k \in 1..n : AtLeast(w[k], s[k], base)
    <3>1. Len(w) = 3
      BY <2>1
    <3>2. n <= Len(w)
      BY <1>2, <2>1, Zenon
    <3>3. \A k \in 1..n : AtLeast(w[k], s[k], base)
      BY <1>2, <2>1, Zenon
    <3>4. n \in 0..3
      BY <1>3, <3>1, <3>2
    <3> QED BY <3>1, <3>3, <3>4, Zenon
  <2>3. arg \in Nat /\ arg < base.N - 1
    BY <1>1, <1>5 DEF InScope
  <2>4. n >= 1 => s[1] \in Nat /\ s[1] >= base.N /\ s[1] < Max32
    <3>1. w[1] = "N"
      BY <2>1
    <3>2. n >= 1 => AtLeast(w[1], s[1], base)
      BY <2>2
    <3> QED BY <3>1, <3>2 DEF AtLeast
  <2>5. n >= 2 => s[2] \in Nat /\ s[2] >= base.N /\ s[2] < Max32
    <3>1. w[2] = "I"
      BY <2>1
    <3>2. n >= 2 => AtLeast(w[2], s[2], base)
      BY <2>2
    <3> QED BY <3>1, <3>2 DEF AtLeast
  <2>6. n >= 3 => s[3] = base.MaxSbLen
    <3>1. w[3] = "A"
      BY <2>1
    <3>2. n >= 3 => AtLeast(w[3], s[3], base)
      BY <2>2
    <3> QED BY <3>1, <3>2 DEF AtLeast
  <2>7. /\ n >= 2 => BlockSizeLoads(s, arg) = <<"N", "I", "A">>
        /\ n < 2 => BlockSizeLoads(s, arg) = <<"N", "I", "N", "ASmall">>
        /\ n = 3 => BlockSizeSeen(s, arg) = SrcBlockSize(base, arg)
    <3>1. n \in 0..3 /\ Len(s) = n
      BY <1>1, <2>2
    <3>2. IsStream(base) /\ bs.ESLen = base.ESLen /\ Max32 * Max32 <= Max64
      BY <1>1
    <3>3. n >= 1 => s[1] \in Nat /\ s[1] >= base.N /\ s[1] < Max32
      BY <2>4, <2>5, <2>6
    <3>4. n >= 2 => s[2] \in Nat /\ s[2] >= base.N
      BY <2>4, <2>5, <2>6
    <3>5. n >= 3 => s[3] = base.MaxSbLen
      BY <2>4, <2>5, <2>6
    <3> QED BY <2>3, <3>1, <3>2, <3>3, <3>4, <3>5, BlockSizeScript, Zenon
  <2>8. PICK u : u = Loads /\ u = BlockSizeLoads(s, arg)
    BY <1>1, <1>5 DEF Loads
  <2>9. Answer = BlockSizeSeen(s, arg) /\ InBase = SrcBlockSize(base, arg)
    BY <1>1, <1>5 DEF Answer, InBase
  <2>10. n < 3 => Len(u) > n /\ u[n + 1] = w[n + 1]
    <3>1. CASE n < 2
      <4>1. u = <<"N", "I", "N", "ASmall">>
        BY <2>7, <2>8, <3>1
      <4>2. n \in 0..1
        BY <2>2, <3>1
      <4> QED BY <2>1, <4>1, <4>2
    <3>2. CASE n >= 2
      <4>1. u = w
        BY <2>1, <2>7, <2>8, <3>2
      <4> QED BY <2>2, <3>2, <4>1
    <3> QED BY <2>2, <3>1, <3>2
  <2>11. n = 3 => Len(u) = n
    BY <2>7, <2>8
  <2>12. /\ n \in Nat /\ n <= Len(w)
         /\ n < Len(w) => Len(u) > n /\ u[n + 1] = w[n + 1]
         /\ n = Len(w) => Len(u) = n /\ Answer = InBase
    <3>1. Len(w) = 3 /\ n \in Nat /\ n <= Len(w)
      BY <1>3, <2>2
    <3>2. n = 3 => Answer = InBase
      BY <2>7, <2>9, Zenon
    <3> QED BY <3>1, <3>2, <2>10, <2>11
  <2>13. Len(rd.seen) = n /\ Script(rd.query) = w /\ Loads = u
    BY <1>1, <2>1, <2>8, Zenon
  <2>14. PICK m, x, y : m = Len(rd.seen) /\ x = Script(rd.query) /\ y = Loads
                      /\ m = n /\ x = w /\ y = u
    BY <2>13, Zenon
  <2>15. /\ m \in Nat /\ m <= Len(x)
         /\ m < Len(x) => Len(y) > m /\ y[m + 1] = x[m + 1]
         /\ m = Len(x) => Len(y) = m /\ Answer = InBase
    BY <2>12, <2>14, Zenon
  <2> QED BY <2>14, <2>15 DEF Follows
<1>6. CASE rd.query = "NumSrcSym"
  <2>1. PICK w : w = Script(rd.query) /\ w = <<"N", "ASmall", "I", "A", "N">>
    BY <1>6 DEF Script
  <2>2. Len(w) = 5 /\ n \in 0..5 /\ \A k \in 1..n : AtLeast(w[k], s[k], base)
    <3>1. Len(w) = 5
      BY <2>1
    <3>2. n <= Len(w)
      BY <1>2, <2>1, Zenon
    <3>3. \A k \in 1..n : AtLeast(w[k], s[k], base)
      BY <1>2, <2>1, Zenon
    <3>4. n \in 0..5
      BY <1>3, <3>1, <3>2
    <3> QED BY <3>1, <3>3, <3>4, Zenon
  <2>3. arg \in Nat /\ arg < base.N - 1
    BY <1>1, <1>6 DEF InScope
  <2>4. n >= 1 => s[1] \in Nat /\ s[1] >= base.N /\ s[1] < Max32
    <3>1. w[1] = "N"
      BY <2>1
    <3>2. n >= 1 => AtLeast(w[1], s[1], base)
      BY <2>2
    <3> QED BY <3>1, <3>2 DEF AtLeast
  <2>5. n >= 2 => s[2] = base.MaxSbLen
    <3>1. w[2] = "ASmall"
      BY <2>1
    <3>2. n >= 2 => AtLeast(w[2], s[2], base)
      BY <2>2
    <3> QED BY <3>1, <3>2 DEF AtLeast
  <2>6. n >= 3 => s[3] \in Nat /\ s[3] >= base.N /\ s[3] < Max32
    <3>1. w[3] = "I"
      BY <2>1
    <3>2. n >= 3 => AtLeast(w[3], s[3], base)
      BY <2>2
    <3> QED BY <3>1, <3>2 DEF AtLeast
  <2>7. n >= 4 => s[4] = base.MaxSbLen
    <3>1. w[4] = "A"
      BY <2>1
    <3>2. n >= 4 => AtLeast(w[4], s[4], base)
      BY <2>2
    <3> QED BY <3>1, <3>2 DEF AtLeast
  <2>8. n >= 5 => s[5] \in Nat /\ s[5] >= base.N /\ s[5] < Max32
    <3>1. w[5] = "N"
      BY <2>1
    <3>2. n >= 5 => AtLeast(w[5], s[5], base)
      BY <2>2
    <3> QED BY <3>1, <3>2 DEF AtLeast
  <2>9. /\ n >= 3 => NumSrcSymLoads(s, arg) = <<"N", "ASmall", "I", "A", "N">>
        /\ n < 3 => NumSrcSymLoads(s, arg) = <<"N", "ASmall", "I", "N">>
        /\ n = 5 => NumSrcSymSeen(s, arg) = NumSrcSym(base, arg)
    <3>1. n \in 0..5 /\ Len(s) = n
      BY <1>1, <2>2
    <3>2. IsStream(base) /\ bs.ESLen = base.ESLen /\ Max32 * Max32 <= Max64
      BY <1>1
    <3>3. n >= 1 => s[1] \in Nat /\ s[1] >= base.N
      BY <2>4, <2>5, <2>6, <2>7, <2>8
    <3>4. n >= 3 => s[3] \in Nat /\ s[3] >= base.N
      BY <2>4, <2>5, <2>6, <2>7, <2>8
    <3>5. n >= 4 => s[4] = base.MaxSbLen
      BY <2>4, <2>5, <2>6, <2>7, <2>8
    <3>6. n >= 5 => s[5] \in Nat /\ s[5] >= base.N
      BY <2>4, <2>5, <2>6, <2>7, <2>8
    <3> QED BY <2>3, <3>1, <3>2, <3>3, <3>4, <3>5, <3>6, NumSrcSymScript, Zenon
  <2>10. PICK u : u = Loads /\ u = NumSrcSymLoads(s, arg)
    BY <1>1, <1>6 DEF Loads
  <2>11. Answer = NumSrcSymSeen(s, arg) /\ InBase = NumSrcSym(base, arg)
    BY <1>1, <1>6 DEF Answer, InBase
  <2>12. n < 5 => Len(u) > n /\ u[n + 1] = w[n + 1]
    <3>1. CASE n < 3
      <4>1. u = <<"N", "ASmall", "I", "N">>
        BY <2>9, <2>10, <3>1
      <4>2. n \in 0..2
        BY <2>2, <3>1
      <4> QED BY <2>1, <4>1, <4>2
    <3>2. CASE n >= 3
      <4>1. u = w
        BY <2>1, <2>9, <2>10, <3>2
      <4> QED BY <2>2, <3>2, <4>1
    <3> QED BY <2>2, <3>1, <3>2
  <2>13. n = 5 => Len(u) = n
    BY <2>9, <2>10
  <2>14. /\ n \in Nat /\ n <= Len(w)
         /\ n < Len(w) => Len(u) > n /\ u[n + 1] = w[n + 1]
         /\ n = Len(w) => Len(u) = n /\ Answer = InBase
    <3>1. Len(w) = 5 /\ n \in Nat /\ n <= Len(w)
      BY <1>3, <2>2
    <3>2. n = 5 => Answer = InBase
      BY <2>9, <2>11, Zenon
    <3> QED BY <3>1, <3>2, <2>12, <2>13
  <2>15. Len(rd.seen) = n /\ Script(rd.query) = w /\ Loads = u
    BY <1>1, <2>1, <2>10, Zenon
  <2>16. PICK m, x, y : m = Len(rd.seen) /\ x = Script(rd.query) /\ y = Loads
                      /\ m = n /\ x = w /\ y = u
    BY <2>15, Zenon
  <2>17. /\ m \in Nat /\ m <= Len(x)
         /\ m < Len(x) => Len(y) > m /\ y[m + 1] = x[m + 1]
         /\ m = Len(x) => Len(y) = m /\ Answer = InBase
    BY <2>14, <2>16, Zenon
  <2> QED BY <2>16, <2>17 DEF Follows
<1>7. CASE rd.query = "SourceSBN"
  <2>1. PICK w : w = Script(rd.query) /\ w = <<"A", "I", "A", "N">>
    BY <1>7 DEF Script
  <2>2. Len(w) = 4 /\ n \in 0..4 /\ \A k \in 1..n : AtLeast(w[k], s[k], base)
    <3>1. Len(w) = 4
      BY <2>1
    <3>2. n <= Len(w)
      BY <1>2, <2>1, Zenon
    <3>3. \A k \in 1..n : AtLeast(w[k], s[k], base)
      BY <1>2, <2>1, Zenon
    <3>4. n \in 0..4
      BY <1>3, <3>1, <3>2
    <3> QED BY <3>1, <3>3, <3>4, Zenon
  <2>3. arg \in Nat /\ arg < base.TransferLen
    BY <1>1, <1>7 DEF InScope
  <2>4. n >= 1 => s[1] = base.MaxSbLen
    <3>1. w[1] = "A"
      BY <2>1
    <3>2. n >= 1 => AtLeast(w[1], s[1], base)
      BY <2>2
    <3> QED BY <3>1, <3>2 DEF AtLeast
  <2>5. n >= 2 => s[2] \in Nat /\ s[2] >= base.N /\ s[2] < Max32
    <3>1. w[2] = "I"
      BY <2>1
    <3>2. n >= 2 => AtLeast(w[2], s[2], base)
      BY <2>2
    <3> QED BY <3>1, <3>2 DEF AtLeast
  <2>6. n >= 3 => s[3] = base.MaxSbLen
    <3>1. w[3] = "A"
      BY <2>1
    <3>2. n >= 3 => AtLeast(w[3], s[3], base)
      BY <2>2
    <3> QED BY <3>1, <3>2 DEF AtLeast
  <2>7. n >= 4 => s[4] \in Nat /\ s[4] >= base.N /\ s[4] < Max32
    <3>1. w[4] = "N"
      BY <2>1
    <3>2. n >= 4 => AtLeast(w[4], s[4], base)
      BY <2>2
    <3> QED BY <3>1, <3>2 DEF AtLeast
  <2>8. /\ SourceSBNLoads(s, arg) = <<"A", "I", "A", "N">>
        /\ n = 4 => SourceSBNSeen(s, arg) = SourceSBN(base, arg)
    <3>1. n \in 0..4 /\ Len(s) = n
      BY <1>1, <2>2
    <3>2. IsStream(base) /\ bs.ESLen = base.ESLen /\ Max32 * Max32 <= Max64
      BY <1>1
    <3>3. n >= 1 => s[1] = base.MaxSbLen
      BY <2>4, <2>5, <2>6, <2>7
    <3>4. n >= 2 => s[2] \in Nat /\ s[2] >= base.N /\ s[2] < Max32
      BY <2>4, <2>5, <2>6, <2>7
    <3>5. n >= 3 => s[3] = base.MaxSbLen
      BY <2>4, <2>5, <2>6, <2>7
    <3>6. n >= 4 => s[4] \in Nat /\ s[4] >= base.N
      BY <2>4, <2>5, <2>6, <2>7
    <3> QED BY <2>3, <3>1, <3>2, <3>3, <3>4, <3>5, <3>6, SourceSBNScript, Zenon
  <2>9. PICK u : u = Loads /\ u = SourceSBNLoads(s, arg)
    BY <1>1, <1>7 DEF Loads
  <2>10. Answer = SourceSBNSeen(s, arg) /\ InBase = SourceSBN(base, arg)
    BY <1>1, <1>7 DEF Answer, InBase
  <2>11. n < 4 => Len(u) > n /\ u[n + 1] = w[n + 1]
    <3>1. CASE n < 1
      <4>1. u = <<"A", "I", "A", "N">>
        BY <2>8, <2>9, <3>1
      <4>2. n \in 0..0
        BY <2>2, <3>1
      <4> QED BY <2>1, <4>1, <4>2
    <3>2. CASE n >= 1
      <4>1. u = w
        BY <2>1, <2>8, <2>9, <3>2
      <4> QED BY <2>2, <3>2, <4>1
    <3> QED BY <2>2, <3>1, <3>2
  <2>12. n = 4 => Len(u) = n
    BY <2>8, <2>9
  <2>13. /\ n \in Nat /\ n <= Len(w)
         /\ n < Len(w) => Len(u) > n /\ u[n + 1] = w[n + 1]
         /\ n = Len(w) => Len(u) = n /\ Answer = InBase
    <3>1. Len(w) = 4 /\ n \in Nat /\ n <= Len(w)
      BY <1>3, <2>2
    <3>2. n = 4 => Answer = InBase
      BY <2>8, <2>10, Zenon
    <3> QED BY <3>1, <3>2, <2>11, <2>12
  <2>14. Len(rd.seen) = n /\ Script(rd.query) = w /\ Loads = u
    BY <1>1, <2>1, <2>9, Zenon
  <2>15. PICK m, x, y : m = Len(rd.seen) /\ x = Script(rd.query) /\ y = Loads
                      /\ m = n /\ x = w /\ y = u
    BY <2>14, Zenon
  <2>16. /\ m \in Nat /\ m <= Len(x)
         /\ m < Len(x) => Len(y) > m /\ y[m + 1] = x[m + 1]
         /\ m = Len(x) => Len(y) = m /\ Answer = InBase
    BY <2>13, <2>15, Zenon
  <2> QED BY <2>15, <2>16 DEF Follows
<1> QED BY <1>4, <1>5, <1>6, <1>7 DEF StreamInv, Asked, InScope, Watched

LEMMA GrownSelf ==
  ASSUME NEW b, IsStream(b)
  PROVE  Grown(b, b)
<1>1. /\ b.N \in Nat /\ b.N < Max32 /\ b.I = b.N /\ b.A = b.MaxSbLen /\ b.ASmall = b.MaxSbLen
  BY StructureFields DEF IsStream, Cut, Streaming
<1>2. ASSUME NEW f \in Fields
      PROVE  AtLeast(f, b[f], b)
  BY <1>1 DEF AtLeast
<1> QED BY <1>2 DEF Grown

\* A store of an update that makes a stream longer takes nothing back.
LEMMA GrownStore ==
  ASSUME NEW b \in Structure, NEW base, Grown(b, base),
         NEW stores, IsStores(stores), stores # <<>>, Sound(stores), GrownBy(stores, base)
  PROVE  Grown(Stored(b, Head(stores)), base) /\ GrownBy(Tail(stores), base)
<1>1. PICK n \in Nat : n = Len(stores) /\ n > 0
  BY DEF IsStores
<1>2. PICK s : s = Head(stores) /\ s = stores[1] /\ s \in Fields \X Nat
  BY <1>1 DEF IsStores
<1>3. AtLeast(s[1], s[2], base) /\ s[1] # "ESLen" /\ s[1] # "MaxSbLen"
  BY <1>1, <1>2 DEF Sound, GrownBy
<1>4. PICK c : /\ c = Stored(b, s) /\ c.ESLen = b.ESLen /\ c.MaxSbLen = b.MaxSbLen
               /\ \A f \in Fields : c[f] = IF f = s[1] THEN s[2] ELSE b[f]
  <2>1. PICK c : c = Stored(b, s)
    OBVIOUS
  <2>2. \A f \in Fields : c[f] = IF f = s[1] THEN s[2] ELSE b[f]
    BY <1>2, <2>1 DEF Stored, Structure
  <2>3. c.ESLen = b.ESLen /\ c.MaxSbLen = b.MaxSbLen
    BY <1>3, <2>2, FieldsAre
  <2> QED BY <2>1, <2>2, <2>3, Zenon
<1>5. ASSUME NEW f \in Fields
      PROVE  AtLeast(f, c[f], base)
  <2>1. CASE f = s[1]
    BY <1>3, <1>4, <2>1
  <2>2. CASE f # s[1]
    <3>1. c[f] = b[f]
      BY <1>4, <2>2
    <3> QED BY <3>1 DEF Grown
  <2> QED BY <2>1, <2>2
<1>6. ASSUME NEW k \in 1..Len(Tail(stores))
      PROVE  AtLeast(Tail(stores)[k][1], Tail(stores)[k][2], base)
  <2>1. k + 1 \in 1..Len(stores) /\ Tail(stores)[k] = stores[k + 1]
    BY <1>1 DEF IsStores
  <2> QED BY <2>1 DEF GrownBy
<1> QED BY <1>2, <1>4, <1>5, <1>6 DEF Grown, GrownBy

\* A longer stream has at least as many blocks.
LEMMA MoreBlocks ==
  ASSUME Fits, NEW b \in Structure, Cut(b), b.MaxSbLen \in MaxSbLens, b.ESLen \in ESLens,
         NEW len \in Lengths, len >= b.TransferLen
  PROVE  LET n == U32(CeilDiv64(CeilDiv64(len, b.ESLen), b.MaxSbLen))
         IN  n \in Nat /\ n >= b.N /\ n < Max32
<1>1. PICK M, E, N, T, L \in Nat :
         /\ b.MaxSbLen = M /\ b.ESLen = E /\ b.N = N /\ b.T = T /\ b.TransferLen = L
         /\ M > 0 /\ E > 0 /\ N > 0 /\ L > 0
         /\ E * (T - 1) < L /\ M * (N - 1) < T
  BY StructureFields DEF Cut
<1>2. len > 0
  BY <1>1, ArgumentAssumption, WidthAssumption
<1>3. PICK t, n \in Nat :
         /\ t = CeilDiv64(len, E) /\ n = U32(CeilDiv64(t, M)) /\ n < Max32 /\ t > 0
         /\ len \in Nat /\ len <= E * t /\ t <= M * n
  <2>1. PICK t : t = CeilDiv64(len, E)
    OBVIOUS
  <2>2. PICK n : n = U32(CeilDiv64(t, M))
    OBVIOUS
  <2> QED BY <1>1, <1>2, <2>1, <2>2, Numbers
<1>4. t >= T
  <2>1. CASE T = 0
    BY <2>1
  <2>2. CASE T > 0
    <3>1. T - 1 \in Nat
      BY <2>2
    <3>2. E * (T - 1) < E * t
      <4>1. E * (T - 1) \in Int /\ E * t \in Int
        BY <3>1, Products
      <4> QED BY <1>1, <1>3, <4>1
    <3>3. E * (T - 1) \in Nat
      BY <3>1, ProductsOrder
    <3>4. T - 1 < t
      BY <3>1, <3>2, <3>3, LessFactor
    <3> QED BY <3>4
  <2> QED BY <2>1, <2>2
<1>5. n >= N
  <2>1. N - 1 \in Nat
    BY <1>1
  <2>2. M * (N - 1) \in Nat /\ M * n \in Nat
    BY <2>1, ProductsOrder
  <2>3. M * (N - 1) < M * n
    BY <1>1, <1>3, <1>4, <2>2
  <2>4. N - 1 < n
    BY <2>1, <2>2, <2>3, LessFactor
  <2> QED BY <2>4
<1> QED BY <1>1, <1>3, <1>5

LEMMA GrownByAppends ==
  ASSUME NEW s, NEW u, IsStores(s), IsStores(u), NEW base, GrownBy(s, base), GrownBy(u, base)
  PROVE  GrownBy(s \o u, base)
<1>1. PICK m, n \in Nat : m = Len(s) /\ n = Len(u)
  BY DEF IsStores
<1>2. PICK v : v = s \o u
  OBVIOUS
<1>3. /\ Len(v) = m + n
      /\ \A i \in 1..m : v[i] = s[i]
      /\ \A i \in (m + 1)..(m + n) : v[i] = u[i - m]
  BY <1>1, <1>2 DEF IsStores
<1>4. ASSUME NEW k \in 1..(m + n)
      PROVE  AtLeast(v[k][1], v[k][2], base)
  <2>1. CASE k <= m
    BY <1>1, <1>3, <2>1 DEF GrownBy
  <2>2. CASE k > m
    <3>1. k - m \in 1..n /\ v[k] = u[k - m]
      BY <1>3, <2>2
    <3> QED BY <1>1, <3>1 DEF GrownBy
  <2> QED BY <2>1, <2>2
<1> QED BY <1>2, <1>3, <1>4 DEF GrownBy

\* So an update to a greater length takes nothing back.
LEMMA GrowsBy ==
  ASSUME Fits, NEW b \in Structure, Cut(b), b.MaxSbLen \in MaxSbLens, b.ESLen \in ESLens,
         NEW base, base.N \in Nat, Grown(b, base),
         NEW len \in Lengths, len >= b.TransferLen
  PROVE  GrownBy(Stores(b, len, TRUE), base)
<1>1. /\ b.N \in Nat /\ b.N >= base.N
      /\ b.MaxSbLen \in Nat /\ b.MaxSbLen > 0 /\ b.MaxSbLen = base.MaxSbLen
      /\ b.ESLen \in Nat /\ b.ESLen > 0 /\ len \in Nat
  BY StructureFields, FieldsAre, ArgumentAssumption, WidthAssumption DEF Grown, AtLeast, Cut
<1>2. PICK t, n : /\ t = CeilDiv64(len, b.ESLen) /\ n = U32(CeilDiv64(t, b.MaxSbLen))
                  /\ n \in Nat /\ n >= b.N /\ n < Max32
  BY MoreBlocks
<1>3. t \in Nat
  <2>1. PICK E \in Nat \ {0} : E = b.ESLen
    BY <1>1
  <2> QED BY <1>1, <1>2, <2>1, Quotients, WidthAssumption DEF CeilDiv64, U64
<1>4. PICK u : /\ u = Sizes(b) /\ IsStores(u) /\ GrownBy(u, base)
  <2>1. PICK u : u = <<<<"ASmall", b.MaxSbLen>>, <<"A", b.MaxSbLen>>>>
    OBVIOUS
  <2>2. IsStores(u) /\ Len(u) = 2 /\ u[1] = <<"ASmall", b.MaxSbLen>> /\ u[2] = <<"A", b.MaxSbLen>>
    BY <1>1, <2>1, FieldsAre DEF IsStores
  <2>3. AtLeast("ASmall", b.MaxSbLen, base) /\ AtLeast("A", b.MaxSbLen, base)
    BY <1>1 DEF AtLeast
  <2> QED BY <2>1, <2>2, <2>3 DEF Sizes, GrownBy
<1>5. PICK v : /\ v = <<<<"TransferLen", len>>>> /\ IsStores(v) /\ GrownBy(v, base)
  <2>1. PICK v : v = <<<<"TransferLen", len>>>>
    OBVIOUS
  <2>2. IsStores(v) /\ Len(v) = 1 /\ v[1] = <<"TransferLen", len>>
    BY <1>1, <2>1, FieldsAre DEF IsStores
  <2>3. AtLeast("TransferLen", len, base)
    BY DEF AtLeast
  <2> QED BY <2>1, <2>2, <2>3 DEF GrownBy
<1>6. PICK w : /\ w = <<<<"T", t>>, <<"N", n>>, <<"I", n>>>> /\ IsStores(w) /\ GrownBy(w, base)
  <2>1. PICK w : w = <<<<"T", t>>, <<"N", n>>, <<"I", n>>>>
    OBVIOUS
  <2>2. /\ IsStores(w) /\ Len(w) = 3
        /\ w[1] = <<"T", t>> /\ w[2] = <<"N", n>> /\ w[3] = <<"I", n>>
    BY <1>2, <1>3, <2>1, FieldsAre DEF IsStores
  <2>3. AtLeast("T", t, base) /\ AtLeast("N", n, base) /\ AtLeast("I", n, base)
    BY <1>1, <1>2 DEF AtLeast
  <2> QED BY <2>1, <2>2, <2>3 DEF GrownBy
<1>7. Stores(b, len, TRUE) = (u \o v) \o w
  BY <1>1, <1>2, <1>4, <1>5, <1>6 DEF Stores, Succeeds, StreamBlocks
<1>8. PICK x : x = u \o v /\ IsStores(x) /\ GrownBy(x, base)
  <2>1. GrownBy(u \o v, base)
    BY <1>4, <1>5, GrownByAppends
  <2>2. IsStores(u \o v)
    BY <1>4, <1>5 DEF IsStores
  <2> QED BY <2>1, <2>2
<1>9. GrownBy(x \o w, base)
  BY <1>6, <1>8, GrownByAppends
<1> QED BY <1>7, <1>8, <1>9

LEMMA InitStream == Init => StreamInv
<1> SUFFICES ASSUME Init
             PROVE  StreamInv
  OBVIOUS
<1>1. rd = NoQuery /\ ~growing /\ whole = bs
  BY DEF Init
<1>2. ~Watched
  BY <1>1 DEF Watched
<1> QED BY <1>1, <1>2
        DEF StreamInv, Resting, Growing, Watching, Asked, SeenGrown, InScope

LEMMA UpdateStreamStep ==
  ASSUME StreamInv, NEW b, NEW len, NEW max, NEW es, NEW group, NEW stream,
         Update(b, len, max, es, group, stream)
  PROVE  StreamInv'
<1>1. /\ todo = <<>> /\ todo' = todo /\ ~growing /\ growing' = growing
      /\ rd = NoQuery /\ rd' = rd /\ whole' = bs'
  BY DEF Update, Idle, StreamInv, Resting
<1>2. ~Watched'
  BY <1>1 DEF Watched, NoQuery
<1> QED BY <1>1, <1>2
        DEF StreamInv, Resting, Growing, Watching, Asked, SeenGrown, InScope

LEMMA UpdateLengthStreamStep ==
  ASSUME Fits, BlockingInv, StreamInv, NEW len \in Lengths, NEW stream \in BOOLEAN,
         UpdateLength(len, stream)
  PROVE  StreamInv'
<1>1. /\ todo = <<>> /\ good /\ whole = bs /\ whole' = whole
      /\ todo' = Stores(bs, len, stream)
      /\ growing' = (stream /\ Streaming(bs) /\ len >= bs.TransferLen)
      /\ bs' = Parameters(bs, bs.MaxSbLen, bs.ESLen, bs.NumEsPerGroup)
      /\ rd' = IF rd = NoQuery THEN rd ELSE [rd EXCEPT !.during = @ + 1, !.steady = @ /\ growing']
  BY DEF UpdateLength, StreamInv, Resting
<1>2. /\ bs \in Structure /\ Cut(bs) /\ IsQuery(rd)
      /\ bs.MaxSbLen \in MaxSbLens /\ bs.ESLen \in ESLens
  BY <1>1, AtRestCut DEF AtRest, BlockingInv, Loaded, InUse
<1>3. PICK m : bs' = [bs EXCEPT !.MaxNumEs = m]
  <2>1. PICK m : m = IF bs.MaxNumEs = 0 THEN bs.MaxSbLen ELSE bs.MaxNumEs
    OBVIOUS
  <2>2. bs' = [bs EXCEPT !["ESLen"] = bs.ESLen, !["MaxSbLen"] = bs.MaxSbLen,
                         !["NumEsPerGroup"] = bs.NumEsPerGroup, !["MaxNumEs"] = m]
    BY <1>1, <1>2, <2>1, FieldsAre DEF Parameters, Structure
  <2>3. bs' = [bs EXCEPT !["MaxNumEs"] = m]
    BY <1>2, <2>2, FieldsAre DEF Structure
  <2> QED BY <2>3
<1>4. ASSUME NEW base, Grown(bs, base)
      PROVE  Grown(bs', base)
  <2>1. PICK c : c = bs' /\ c.ESLen = bs.ESLen /\ c.MaxSbLen = bs.MaxSbLen
                 /\ \A f \in Fields \ {"MaxNumEs"} : c[f] = bs[f]
    <3>1. \A f \in Fields \ {"MaxNumEs"} : [bs EXCEPT !.MaxNumEs = m][f] = bs[f]
      BY <1>2 DEF Structure
    <3>2. PICK c : c = bs' /\ \A f \in Fields \ {"MaxNumEs"} : c[f] = bs[f]
      BY <1>3, <3>1
    <3>3. c.ESLen = bs.ESLen /\ c.MaxSbLen = bs.MaxSbLen
      BY <3>2, FieldsAre
    <3> QED BY <3>2, <3>3, Zenon
  <2>2. ASSUME NEW f \in Fields
        PROVE  AtLeast(f, c[f], base)
    <3>1. CASE f = "MaxNumEs"
      BY <3>1 DEF AtLeast
    <3>2. CASE f # "MaxNumEs"
      <4>1. c[f] = bs[f]
        BY <2>1, <3>2
      <4> QED BY <1>4, <4>1 DEF Grown
    <3> QED BY <3>1, <3>2
  <2>3. c.ESLen = base.ESLen /\ c.MaxSbLen = base.MaxSbLen
    BY <1>4, <2>1 DEF Grown
  <2> QED BY <2>1, <2>2, <2>3 DEF Grown
<1>5. ASSUME growing', NEW base, base.N \in Nat, Grown(bs, base)
      PROVE  GrownBy(todo', base)
  <2>1. stream = TRUE /\ len >= bs.TransferLen
    BY <1>1, <1>5
  <2> QED BY <1>1, <1>2, <1>5, <2>1, GrowsBy
<1>6. Resting'
  <2>1. todo' # <<>>
    <3>1. CASE Succeeds(bs, stream)
      <4>1. bs.I < Max32
        BY <1>2 DEF Cut
      <4> QED BY <1>1, <1>2, <3>1, <4>1, UpdateMakes DEF Makes, UpdateLength
    <3>2. CASE ~Succeeds(bs, stream)
      BY <1>1, <1>2, <3>2, FailedStores, ArgumentAssumption, WidthAssumption
    <3> QED BY <3>1, <3>2
  <2> QED BY <2>1 DEF Resting
<1>7. Growing'
  <2>1. ASSUME growing'
        PROVE  IsStream(bs) /\ Grown(bs, bs)
    BY <1>1, <1>2, <2>1, GrownSelf DEF IsStream
  <2>2. ASSUME growing'
        PROVE  IsStream(whole') /\ Grown(bs', whole') /\ GrownBy(todo', whole')
    <3>1. bs.N \in Nat
      BY <1>2, StructureFields
    <3>2. Grown(bs', bs) /\ GrownBy(todo', bs)
      BY <1>4, <1>5, <2>1, <2>2, <3>1
    <3>3. whole' = bs
      BY <1>1
    <3> QED BY <2>1, <2>2, <3>2, <3>3
  <2> QED BY <2>2 DEF Growing
<1>8. /\ rd' = NoQuery <=> rd = NoQuery
      /\ rd'.query = rd.query /\ rd'.arg = rd.arg /\ rd'.seen = rd.seen /\ rd'.base = rd.base
      /\ rd # NoQuery => rd'.steady = (rd.steady /\ growing')
  <2>1. CASE rd = NoQuery
    BY <1>1, <2>1
  <2>2. CASE rd # NoQuery
    <3>1. rd' = [rd EXCEPT !.during = @ + 1, !.steady = @ /\ growing']
      BY <1>1, <2>2
    <3>2. /\ rd'.query = rd.query /\ rd'.arg = rd.arg /\ rd'.seen = rd.seen /\ rd'.base = rd.base
          /\ rd'.steady = (rd.steady /\ growing')
      BY <1>2, <3>1 DEF IsQuery
    <3>3. rd.query # "none"
      BY <2>2 DEF StreamInv, Asked
    <3>4. rd' # NoQuery
      BY <3>2, <3>3 DEF NoQuery
    <3> QED BY <2>2, <3>2, <3>4
  <2> QED BY <2>1, <2>2
<1>9. Watched' => Watched /\ growing'
  BY <1>8 DEF Watched, Streaming
<1>10. Watching'
  <2>1. ASSUME Watched'
        PROVE  IsStream(rd'.base) /\ Grown(bs', rd'.base) /\ GrownBy(todo', rd'.base)
    <3>1. PICK base : base = rd.base /\ IsStream(base) /\ Grown(bs, base)
      BY <1>9, <2>1 DEF StreamInv, Watching
    <3>2. base.N \in Nat
      BY <3>1, StructureFields DEF IsStream
    <3> QED BY <1>4, <1>5, <1>8, <1>9, <2>1, <3>1, <3>2
  <2> QED BY <2>1 DEF Watching
<1>11. Asked'
  BY <1>8 DEF StreamInv, Asked
<1>12. InScope' => InScope
  BY <1>8, <1>9 DEF InScope
<1>13. SeenGrown'
  <2>1. SeenGrown
    BY DEF StreamInv
  <2> QED BY <1>8, <1>12, <2>1 DEF SeenGrown, Script
<1> QED BY <1>6, <1>7, <1>10, <1>11, <1>13 DEF StreamInv

LEMMA StoreStreamStep ==
  ASSUME BlockingInv, StreamInv, Store
  PROVE  StreamInv'
<1>1. /\ todo # <<>> /\ bs' = Stored(bs, Head(todo)) /\ todo' = Tail(todo) /\ rd' = rd
      /\ IF Len(todo) = 1
         THEN whole' = bs' /\ growing' = FALSE
         ELSE whole' = whole /\ growing' = growing
  BY DEF Store
<1>2. bs \in Structure /\ IsStores(todo) /\ Sound(todo)
  BY <1>1 DEF BlockingInv, Stored32, Updating, NeverZero
<1>3. ASSUME NEW base, Grown(bs, base), GrownBy(todo, base)
      PROVE  Grown(bs', base) /\ GrownBy(todo', base)
  BY <1>1, <1>2, <1>3, GrownStore
<1>4. Resting'
  <2>1. ASSUME todo' = <<>>
        PROVE  Len(todo) = 1
    <3>1. PICK n \in Nat : n = Len(todo) /\ n > 0
      BY <1>1, <1>2 DEF IsStores
    <3>2. Len(Tail(todo)) = n - 1
      BY <1>2, <3>1 DEF IsStores
    <3>3. n - 1 = 0
      BY <1>1, <2>1, <3>2
    <3>4. n = 1
      BY <3>3
    <3> QED BY <3>1, <3>4, Zenon
  <2> QED BY <1>1, <2>1 DEF Resting
<1>5. Growing'
  <2>1. ASSUME growing'
        PROVE  IsStream(whole') /\ Grown(bs', whole') /\ GrownBy(todo', whole')
    <3>1. growing /\ whole' = whole
      BY <1>1, <2>1
    <3>2. PICK base : base = whole /\ IsStream(base) /\ Grown(bs, base) /\ GrownBy(todo, base)
      BY <3>1 DEF StreamInv, Growing
    <3> QED BY <1>3, <3>1, <3>2
  <2> QED BY <2>1 DEF Growing
<1>6. Watched' <=> Watched
  BY <1>1 DEF Watched, Streaming
<1>7. Watching'
  <2>1. ASSUME Watched'
        PROVE  IsStream(rd'.base) /\ Grown(bs', rd'.base) /\ GrownBy(todo', rd'.base)
    <3>1. PICK base : base = rd.base /\ IsStream(base) /\ Grown(bs, base) /\ GrownBy(todo, base)
      BY <1>6, <2>1 DEF StreamInv, Watching
    <3> QED BY <1>1, <1>3, <3>1
  <2> QED BY <2>1 DEF Watching
<1>8. Asked' /\ SeenGrown'
  BY <1>1, <1>6 DEF StreamInv, Asked, SeenGrown, InScope
<1> QED BY <1>4, <1>5, <1>7, <1>8 DEF StreamInv

LEMMA AskStreamStep ==
  ASSUME BlockingInv, StreamInv, NEW query \in Queries, NEW arg \in Args(query), Ask(query, arg)
  PROVE  StreamInv'
<1>1. /\ good /\ bs' = bs /\ whole' = whole /\ todo' = todo /\ growing' = growing
      /\ rd' = [query |-> query, arg |-> arg, seen |-> <<>>, base |-> whole,
                during |-> 0, steady |-> todo = <<>> \/ growing]
  BY DEF Ask
<1>2. /\ rd'.query = query /\ rd'.arg = arg /\ rd'.seen = <<>> /\ rd'.base = whole
      /\ rd'.steady = (todo = <<>> \/ growing)
  BY <1>1
<1>3. Watching'
  <2>1. ASSUME Watched'
        PROVE  IsStream(whole) /\ Grown(bs, whole) /\ GrownBy(todo, whole)
    <3>1. Streaming(whole) /\ (todo = <<>> \/ growing)
      BY <1>2, <2>1 DEF Watched, Streaming
    <3>2. CASE growing
      BY <3>2 DEF StreamInv, Growing
    <3>3. CASE todo = <<>>
      <4>1. whole = bs
        BY <3>3 DEF StreamInv, Resting
      <4>2. IsStream(bs)
        BY <1>1, <3>1, <3>3, <4>1, AtRestCut DEF AtRest, IsStream
      <4>3. GrownBy(<<>>, bs)
        BY DEF GrownBy
      <4> QED BY <3>3, <4>1, <4>2, <4>3, GrownSelf
    <3> QED BY <3>1, <3>2, <3>3
  <2> QED BY <1>1, <1>2, <2>1 DEF Watching
<1>4. Asked'
  <2>1. arg \in Nat
    BY DEF Args
  <2>2. query \in {"SrcOffset", "SrcBlockSize", "NumSrcSym", "SourceSBN"}
    BY ArgumentAssumption
  <2> QED BY <1>2, <2>1, <2>2 DEF Asked
<1>5. SeenGrown'
  <2>1. Len(Script(query)) >= 0
    <3>1. query \in {"SrcOffset", "SrcBlockSize", "NumSrcSym", "SourceSBN"}
      BY ArgumentAssumption
    <3> QED BY <3>1 DEF Script
  <2>2. Len(<<>>) = 0
    OBVIOUS
  <2>3. Script(rd.query)' = Script(query)
    BY <1>2 DEF Script
  <2> QED BY <1>2, <2>1, <2>2, <2>3 DEF SeenGrown
<1>6. Resting' /\ Growing'
  BY <1>1 DEF StreamInv, Resting, Growing
<1> QED BY <1>3, <1>4, <1>5, <1>6 DEF StreamInv

LEMMA LoadStreamStep ==
  ASSUME Max32 * Max32 <= Max64, BlockingInv, StreamInv, Load
  PROVE  StreamInv'
<1>1. PICK n, x :
         /\ n = Len(rd.seen) /\ n \in Nat /\ x = bs[Loads[n + 1]] /\ ~Answered
         /\ rd # NoQuery /\ rd' = [rd EXCEPT !.seen = Append(@, x)]
         /\ bs' = bs /\ whole' = whole /\ todo' = todo /\ growing' = growing
  <2>1. Len(rd.seen) \in Nat
    BY DEF BlockingInv, Loaded, IsList
  <2> QED BY <2>1 DEF Load
<1>2. IsQuery(rd) /\ IsList(rd.seen)
  BY DEF BlockingInv, Loaded
<1>3. PICK s : /\ s = rd'.seen /\ s = Append(rd.seen, x)
               /\ rd'.query = rd.query /\ rd'.arg = rd.arg /\ rd'.base = rd.base
               /\ rd'.steady = rd.steady
  BY <1>1, <1>2 DEF IsQuery
<1>4. rd.query # "none" /\ rd' # NoQuery
  <2>1. rd.query # "none"
    BY <1>1 DEF StreamInv, Asked
  <2> QED BY <1>3, <2>1 DEF NoQuery
<1>5. Watched' <=> Watched
  BY <1>1, <1>3, <1>4 DEF Watched, Streaming
<1>6. InScope' <=> InScope
  BY <1>3, <1>5 DEF InScope
<1>7. Resting' /\ Growing' /\ Asked'
  BY <1>1, <1>3 DEF StreamInv, Resting, Growing, Asked
<1>8. Watching'
  BY <1>1, <1>3, <1>5 DEF StreamInv, Watching
<1>9. SeenGrown'
  <2> SUFFICES ASSUME InScope
               PROVE  /\ Len(s) <= Len(Script(rd.query))
                      /\ \A k \in 1..Len(s) : AtLeast(Script(rd.query)[k], s[k], rd.base)
    BY <1>3, <1>6 DEF SeenGrown, Script
  <2>1. PICK w, m : /\ w = Script(rd.query) /\ m = Len(w)
                    /\ n <= m
                    /\ n < m => Loads[n + 1] = w[n + 1]
                    /\ n = m => Len(Loads) = n
    BY <1>1, ScriptFollows DEF Follows
  <2>2. n # m
    BY <1>1, <2>1 DEF Answered
  <2>3. m \in Nat /\ \A k \in 1..m : w[k] \in Fields
    <3>1. rd.query \in {"SrcOffset", "SrcBlockSize", "NumSrcSym", "SourceSBN"}
      BY <1>1 DEF StreamInv, Asked
    <3>2. CASE rd.query \in {"SrcOffset", "SrcBlockSize"}
      <4>1. w = <<"N", "I", "A">>
        BY <2>1, <3>2 DEF Script
      <4> QED BY <2>1, <4>1, FieldsAre
    <3>3. CASE rd.query = "NumSrcSym"
      <4>1. w = <<"N", "ASmall", "I", "A", "N">>
        BY <2>1, <3>3 DEF Script
      <4> QED BY <2>1, <4>1, FieldsAre
    <3>4. CASE rd.query = "SourceSBN"
      <4>1. w = <<"A", "I", "A", "N">>
        BY <2>1, <3>4 DEF Script
      <4> QED BY <2>1, <4>1, FieldsAre
    <3> QED BY <3>1, <3>2, <3>3, <3>4
  <2>4. n < m /\ n + 1 \in 1..m
    BY <1>1, <2>1, <2>2, <2>3
  <2>5. AtLeast(w[n + 1], x, rd.base)
    <3>1. x = bs[w[n + 1]] /\ w[n + 1] \in Fields
      BY <1>1, <2>1, <2>3, <2>4
    <3>2. Grown(bs, rd.base)
      BY DEF StreamInv, Watching, InScope
    <3> QED BY <3>1, <3>2 DEF Grown
  <2>6. /\ Len(s) = n + 1 /\ s[n + 1] = x
        /\ \A k \in 1..n : s[k] = rd.seen[k]
    BY <1>1, <1>2, <1>3, ListAppend
  <2>7. \A k \in 1..n : AtLeast(w[k], rd.seen[k], rd.base)
    BY <1>1, <2>1 DEF StreamInv, SeenGrown
  <2>8. ASSUME NEW k \in 1..(n + 1)
        PROVE  AtLeast(w[k], s[k], rd.base)
    <3>1. CASE k = n + 1
      BY <2>5, <2>6, <3>1
    <3>2. CASE k # n + 1
      <4>1. k \in 1..n
        BY <1>1, <3>2
      <4> QED BY <2>6, <2>7, <4>1
    <3> QED BY <3>1, <3>2
  <2>9. n + 1 <= m
    BY <1>1, <2>3, <2>4
  <2> QED BY <2>1, <2>6, <2>8, <2>9
<1> QED BY <1>7, <1>8, <1>9 DEF StreamInv

LEMMA ReplyStreamStep ==
  ASSUME StreamInv, Reply
  PROVE  StreamInv'
<1>1. /\ rd' = NoQuery /\ bs' = bs /\ whole' = whole /\ todo' = todo /\ growing' = growing
  BY DEF Reply
<1>2. ~Watched'
  BY <1>1 DEF Watched, NoQuery
<1> QED BY <1>1, <1>2
        DEF StreamInv, Resting, Growing, Watching, Asked, SeenGrown, InScope

LEMMA StreamInvariant == Fits /\ Spec => []StreamInv
<1>1. Fits /\ BlockingInv /\ StreamInv /\ [Next]_vars => StreamInv'
  <2> SUFFICES ASSUME Fits, BlockingInv, StreamInv, [Next]_vars
               PROVE  StreamInv'
    OBVIOUS
  <2>1. CASE \E len \in Lengths, max \in MaxSbLens, es \in ESLens, group \in Groups,
               stream \in BOOLEAN :
               New(len, max, es, group, stream) \/ Update(bs, len, max, es, group, stream)
    BY <2>1, UpdateStreamStep DEF New
  <2>2. CASE \E len \in Lengths, stream \in BOOLEAN : UpdateLength(len, stream)
    BY <2>2, UpdateLengthStreamStep
  <2>3. CASE Store
    BY <2>3, StoreStreamStep
  <2>4. CASE \E query \in Queries : \E arg \in Args(query) : Ask(query, arg)
    BY <2>4, AskStreamStep
  <2>5. CASE Load
    BY <2>5, LoadStreamStep DEF Fits
  <2>6. CASE Reply
    BY <2>6, ReplyStreamStep
  <2>7. CASE UNCHANGED vars
    <3>1. /\ bs' = bs /\ good' = good /\ whole' = whole /\ todo' = todo
          /\ growing' = growing /\ rd' = rd
      BY <2>7 DEF vars
    <3> QED BY <3>1 DEF StreamInv, Resting, Growing, Watching, Asked, SeenGrown, InScope, Watched,
                        Streaming, Script
  <2> QED BY <2>1, <2>2, <2>3, <2>4, <2>5, <2>6, <2>7 DEF Next
<1>2. Fits => Fits'
  OBVIOUS
<1> QED BY <1>1, <1>2, InitStream, BlockingInvariant, PTL DEF Spec

-----------------------------------------------------------------------------
(* Theorems *)

\* After any updates, also ones that failed or left the I of an earlier one
\* behind, the blocks of a structure at rest cover the object one after
\* another (SrcOffset and SrcBlockSize, fec/blocking.go:156-170, 193-203), for
\* all arguments that make fewer than 2^32 blocks.
THEOREM PartitionSafe == Fits /\ Spec => []PartitionAtRest
<1>1. BlockingInv => PartitionAtRest
  BY AtRestCut, CutPartition DEF PartitionAtRest
<1> QED BY <1>1, BlockingInvariant, PTL

\* And SourceSBN (fec/blocking.go:172-186) finds the block of every byte.
THEOREM LookupSafe == Fits /\ Spec => []LookupAtRest
<1>1. Fits /\ BlockingInv => LookupAtRest
  BY AtRestCut, CutLookup DEF LookupAtRest, Fits
<1>2. Fits => Fits'
  OBVIOUS
<1> QED BY <1>1, <1>2, BlockingInvariant, PTL

\* And every block has the symbols that its bytes take, at most MaxSbLen, also
\* the last one, cut short (NumSrcSym, fec/blocking.go:121-138), for blocks of
\* less than 2^32 bytes: the number of bytes that are left is a uint32.
THEOREM SymbolsSafe ==
  ASSUME \A len \in Lengths, max \in MaxSbLens, es \in ESLens :
            es * max + es <= Max32 /\ len + es * max <= Max64
  PROVE  Fits /\ Spec => []SymbolsAtRest
<1>1. BlockingInv => SymbolsAtRest
  <2> SUFFICES ASSUME BlockingInv, AtRest
               PROVE  Symbols(bs)
    BY DEF SymbolsAtRest
  <2>1. bs \in Structure /\ Cut(bs)
    BY AtRestCut
  <2>2. bs.TransferLen \in Lengths /\ bs.MaxSbLen \in MaxSbLens /\ bs.ESLen \in ESLens
    BY <2>1 DEF Cut, AtRest, BlockingInv, InUse
  <2>3. Short(bs)
    BY <2>2 DEF Short
  <2> QED BY <2>1, <2>3, CutSymbols
<1> QED BY <1>1, BlockingInvariant, PTL

\* A query that runs during UpdateLength never divides by zero
\* (fec/blocking.go:176, 178), whatever stores and failures it runs into.
THEOREM NoPanic == Fits /\ Spec => []QueriesDoNotPanic
<1>1. BlockingInv => QueriesDoNotPanic
  BY DEF BlockingInv, Loaded, QueriesDoNotPanic
<1> QED BY <1>1, BlockingInvariant, PTL

\* While a stream grows, the queries that run meanwhile answer exactly on what
\* was there when they were asked (SrcOffset, SourceSBN, SrcBlockSize and
\* NumSrcSym, fec/blocking.go:136-203): for every number of updates and every
\* place where the stores fall between the loads.
THEOREM StreamQueriesSafe == Fits /\ Spec => []StreamQueriesExact
<1>1. Fits /\ BlockingInv /\ StreamInv => StreamQueriesExact
  <2> SUFFICES ASSUME Fits, BlockingInv, StreamInv, Answered, rd.steady, Streaming(rd.base)
               PROVE  LET arg == rd.arg  base == rd.base
                      IN  CASE rd.query = "SrcOffset" -> arg < base.N => Answer = SrcOffset(base, arg)
                            [] rd.query = "SourceSBN" -> arg < base.TransferLen => Answer = SourceSBN(base, arg)
                            [] rd.query = "SrcBlockSize" -> arg < base.N - 1 => Answer = SrcBlockSize(base, arg)
                            [] rd.query = "NumSrcSym" -> arg < base.N - 1 => Answer = NumSrcSym(base, arg)
    BY DEF StreamQueriesExact
  <2>1. Watched
    BY DEF Watched, Answered
  <2>2. rd.query \in {"SrcOffset", "SrcBlockSize", "NumSrcSym", "SourceSBN"}
    BY <2>1 DEF StreamInv, Asked, Watched
  <2>3. ASSUME InScope
        PROVE  Answer = InBase
    <3>1. Follows
      BY <2>3, ScriptFollows DEF Fits
    <3>2. PICK n, m : /\ n = Len(rd.seen) /\ m = Len(Script(rd.query)) /\ n \in Nat /\ n <= m
                      /\ n < m => Len(Loads) > n
                      /\ n = m => Answer = InBase
      BY <3>1 DEF Follows
    <3>3. Len(Loads) = n
      BY <3>2 DEF Answered
    <3>4. m \in Nat
      BY <2>2, <3>2 DEF Script
    <3>5. ~(n < m)
      BY <3>2, <3>3
    <3>6. n = m
      BY <3>2, <3>4, <3>5
    <3> QED BY <3>2, <3>6
  <2>4. CASE rd.query = "SrcOffset"
    BY <2>1, <2>3, <2>4 DEF InScope, InBase
  <2>5. CASE rd.query = "SourceSBN"
    BY <2>1, <2>3, <2>5 DEF InScope, InBase
  <2>6. CASE rd.query = "SrcBlockSize"
    BY <2>1, <2>3, <2>6 DEF InScope, InBase
  <2>7. CASE rd.query = "NumSrcSym"
    BY <2>1, <2>3, <2>7 DEF InScope, InBase
  <2> QED BY <2>2, <2>4, <2>5, <2>6, <2>7
<1>2. Fits => Fits'
  OBVIOUS
<1> QED BY <1>1, <1>2, BlockingInvariant, StreamInvariant, PTL

=============================================================================
