--------------------------- MODULE ReceiverProofs ---------------------------
(***************************************************************************)
(* The properties of Missing and of ESIRange for a receiver of any object  *)
(* with any bytes.  First the symbols that ESIRangeFromRangeList makes of  *)
(* a list of bytes, and what is read of the text of an ESIRange, which     *)
(* need no state.  Then Missing: the invariant of its loop is that ret is  *)
(* what the list lacks of start..(cur - 1), and that the ranges before the *)
(* current one end before cur.  Then the calls, one by one, and the        *)
(* receiver, which needs all of them.                                      *)
(***************************************************************************)
EXTENDS Receiver, SymbolsProofs

-----------------------------------------------------------------------------
(* Lists of blocks that grow *)

\* Lists of some blocks, as ESIRangeFromRangeList builds them.
BlockLists(b) == UNION {[D -> Seq(RangeType)] : D \in SUBSET Blocks(b)}

LEMMA BlockListsAre ==
  ASSUME NEW b, NEW er \in BlockLists(b)
  PROVE  /\ DOMAIN er \subseteq Blocks(b)
         /\ er \in [DOMAIN er -> Seq(RangeType)]
         /\ \A s \in DOMAIN er : er[s] \in Seq(RangeType)
BY DEF BlockLists

\* The ranges of every block do not meet, and there are some.
Neat(er) == \A s \in DOMAIN er : Scattered(er[s]) /\ er[s] # <<>>

LEMMA ScatteredAppend ==
  ASSUME NEW rl \in Seq(RangeType), NEW r \in RangeType, Scattered(rl), r.start <= r.end,
         Offsets(rl) \cap (r.start..r.end) = {}
  PROVE  Scattered(Append(rl, r))
<1> PICK n \in Nat : n = Len(rl)
  OBVIOUS
<1> PICK al : al = Append(rl, r)
  OBVIOUS
<1> PICK x, y \in Int : x = r.start /\ y = r.end
  BY DEF RangeType
<1>1. /\ al \in Seq(RangeType) /\ Len(al) = n + 1 /\ al[n + 1] = r
      /\ \A k \in 1..n : al[k] = rl[k]
  BY Appended
<1>2. ASSUME NEW k \in 1..n PROVE /\ al[k].start <= al[k].end
                                  /\ al[k].end < x \/ y < al[k].start
  <2> PICK a, c \in Int : a = rl[k].start /\ c = rl[k].end
    BY ElementTyped
  <2>1. a <= c
    BY DEF Scattered
  <2>2. a..c \subseteq Offsets(rl)
    BY InOffsets
  <2>3. \A z \in a..c : ~(z \in x..y)
    BY <2>2
  <2>4. c < x \/ y < a
    <3> SUFFICES ASSUME x <= c, a <= y PROVE FALSE
      BY SMTT(30)
    <3>1. CASE x <= a
      <4>1. a \in a..c /\ a \in x..y
        BY ONLY <2>1, <3>1, a <= y, a \in Int, c \in Int, x \in Int, y \in Int
      <4> QED BY ONLY <2>3, <4>1
    <3>2. CASE a < x
      BY ONLY SMTT(30), <2>3, <3>2, x <= c, x <= y, a \in Int, c \in Int, x \in Int, y \in Int
    <3> QED BY SMTT(30), <3>1, <3>2
  <2> QED BY <1>1, <2>1, <2>4
<1>3. ASSUME NEW k \in 1..(n + 1) PROVE al[k].start <= al[k].end
  <2>1. k \in 1..n \/ k = n + 1
    OBVIOUS
  <2> QED BY <1>1, <1>2, <2>1
<1>4. ASSUME NEW k \in 1..(n + 1), NEW l \in 1..(n + 1), k # l
      PROVE  al[k].end < al[l].start \/ al[l].end < al[k].start
  <2>1. CASE k \in 1..n /\ l \in 1..n
    BY <1>1, <1>4, <2>1 DEF Scattered
  <2>2. CASE k \in 1..n /\ l = n + 1
    BY <1>1, <1>2, <2>2
  <2>3. CASE k = n + 1 /\ l \in 1..n
    BY <1>1, <1>2, <2>3
  <2> QED BY <1>4, <2>1, <2>2, <2>3
<1> QED BY <1>1, <1>3, <1>4 DEF Scattered

LEMMA AddedIs ==
  ASSUME NEW b, NEW er \in BlockLists(b), NEW s \in Blocks(b), NEW r \in RangeType
  PROVE  /\ Added(er, s, r) \in BlockLists(b)
         /\ \A t : Listed(Added(er, s, r), t) =
                     Listed(er, t) \cup (IF t = s THEN r.start..r.end ELSE {})
         /\ Neat(er) /\ r.start <= r.end /\ Listed(er, s) \cap (r.start..r.end) = {}
              => Neat(Added(er, s, r))
<1> PICK old : old = IF s \in DOMAIN er THEN er[s] ELSE <<>>
  OBVIOUS
<1> PICK al : al = Added(er, s, r)
  OBVIOUS
<1>1. old \in Seq(RangeType) /\ Offsets(old) = Listed(er, s)
  BY BlockListsAre, EmptyList DEF Listed
<1>2. /\ DOMAIN al = {s} \cup DOMAIN er
      /\ al = [t \in {s} \cup DOMAIN er |-> IF t = s THEN Append(old, r) ELSE er[t]]
  BY DEF Added
<1>3. /\ Append(old, r) \in Seq(RangeType)
      /\ Offsets(Append(old, r)) = Listed(er, s) \cup (r.start..r.end)
  BY <1>1, Appended, OffsetsAppend
<1>4. al \in BlockLists(b)
  <2>1. al \in [({s} \cup DOMAIN er) -> Seq(RangeType)]
    BY <1>2, <1>3, BlockListsAre
  <2>2. {s} \cup DOMAIN er \in SUBSET Blocks(b)
    BY BlockListsAre
  <2> QED BY <2>1, <2>2 DEF BlockLists
<1>5. ASSUME NEW t
      PROVE  Listed(al, t) = Listed(er, t) \cup (IF t = s THEN r.start..r.end ELSE {})
  <2>1. CASE t = s
    BY <1>2, <1>3, <2>1 DEF Listed
  <2>2. CASE t # s
    BY <1>2, <2>2 DEF Listed
  <2> QED BY <2>1, <2>2
<1>6. ASSUME Neat(er), r.start <= r.end, Listed(er, s) \cap (r.start..r.end) = {}
      PROVE  Neat(al)
  <2>1. Scattered(old)
    <3>1. Scattered(<<>>)
      BY DEF Scattered
    <3> QED BY <1>6, <3>1 DEF Neat
  <2>2. Scattered(Append(old, r)) /\ Append(old, r) # <<>>
    <3>1. Offsets(old) \cap (r.start..r.end) = {}
      BY <1>1, <1>6
    <3>2. Scattered(Append(old, r))
      BY ONLY <1>1, <1>6, <2>1, <3>1, r \in RangeType, ScatteredAppend
    <3>3. Len(Append(old, r)) = Len(old) + 1 /\ Len(old) \in Nat
      BY <1>1, Appended
    <3>4. Append(old, r) # <<>>
      BY ONLY <1>3, <3>3
    <3> QED BY ONLY <3>2, <3>4
  <2> QED BY <1>2, <1>6, <2>2 DEF Neat
<1> QED BY <1>4, <1>5, <1>6

-----------------------------------------------------------------------------
(* The symbols that a part of a block names *)

\* The last symbol in terms of products: with inclusive it begins in the part,
\* and else it ends in it.
LEMMA EndOfIs ==
  ASSUME NEW f \in Nat, NEW len \in Nat \ {0}, NEW L \in Nat \ {0}, NEW inclusive \in BOOLEAN
  PROVE  /\ EndOf(f, len, L, inclusive) \in Int
         /\ \A d \in Nat :
               /\ L * d \in Nat
               /\ f + d <= EndOf(f, len, L, inclusive) <=>
                    IF inclusive THEN L * d < len ELSE L * d + L <= len
<1> PICK Q, R \in Nat : Q = len \div L /\ R = len % L /\ len = L * Q + R /\ R < L
  BY Quotients
<1> PICK E : E = EndOf(f, len, L, inclusive)
  OBVIOUS
<1>1. E = IF inclusive /\ R # 0 THEN f + Q ELSE f + Q - 1
  <2>1. E = f + Q - (IF R # 0 /\ inclusive THEN 0 ELSE 1)
    BY ONLY E = EndOf(f, len, L, inclusive), Q = len \div L, R = len % L DEF EndOf
  <2>2. f + Q - 0 = f + Q
    BY ONLY f \in Nat, Q \in Nat
  <2> QED BY ONLY <2>1, <2>2, inclusive \in BOOLEAN, Zenon
<1>2. E \in Int
  BY ONLY <1>1, f \in Nat, Q \in Nat
<1>3. ASSUME NEW d \in Nat
      PROVE  /\ L * d \in Nat
             /\ f + d <= E <=> IF inclusive THEN L * d < len ELSE L * d + L <= len
  <2> PICK A, B, Z \in Int : A = L * d /\ B = L * Q /\ Z = L * (d + 1)
    BY Products
  <2>1. A \in Nat /\ B \in Nat /\ Z = A + L
    BY ONLY L \in Nat, L \in Int, d \in Nat, d \in Int, Q \in Nat, A = L * d, B = L * Q,
       Z = L * (d + 1), ProductsOrder, Products
  <2>2. d <= Q => A <= B
    BY ONLY L \in Nat, d \in Nat, Q \in Nat, A = L * d, B = L * Q, ProductsOrder
  <2>3. d < Q => Z <= B
    <3>1. d < Q => d + 1 <= Q /\ d + 1 \in Nat
      BY ONLY d \in Nat, Q \in Nat
    <3> QED BY ONLY <3>1, L \in Nat, Q \in Nat, B = L * Q, Z = L * (d + 1), ProductsOrder
  <2>4. Q <= d => B <= A
    BY ONLY L \in Nat, d \in Nat, Q \in Nat, A = L * d, B = L * Q, ProductsOrder
  <2>5. Q < d => B + L <= A
    <3>1. Q < d => Q + 1 <= d /\ Q + 1 \in Nat
      BY ONLY d \in Nat, Q \in Nat
    <3>2. Q < d => L * (Q + 1) <= A
      BY ONLY <3>1, L \in Nat, d \in Nat, A = L * d, ProductsOrder
    <3>3. L * (Q + 1) = B + L
      BY ONLY L \in Int, Q \in Int, B = L * Q, Products
    <3> QED BY ONLY <3>2, <3>3
  <2>6. f + d <= E <=> IF inclusive THEN A < len ELSE A + L <= len
    BY ONLY <1>1, <2>1, <2>2, <2>3, <2>4, <2>5, len = B + R, R < L, len = L * Q + R, B = L * Q,
       L \in Nat, d \in Nat, Q \in Nat, R \in Nat, f \in Nat, A \in Int, B \in Int, Z \in Int,
       inclusive \in BOOLEAN
  <2> QED BY ONLY <2>1, <2>6, A = L * d
<1> QED BY ONLY <1>2, <1>3, E = EndOf(f, len, L, inclusive)

\* The symbols f..E have a byte in lo..hi; if this begins with a symbol, they
\* are all that have one, or without inclusive all that are whole in it.
Naming(o, next, L, n, lo, hi, f, E, inclusive) ==
  /\ f \in Nat /\ E \in Int /\ (inclusive => f <= E)
  /\ \A q \in f..E : q \in 0..(n - 1) /\ BytesAt(o, next, L, q) \cap lo..hi # {}
  /\ (\E p \in 0..(n - 1) : lo = o + L * p) =>
        \A q \in 0..(n - 1) :
           IF inclusive THEN BytesAt(o, next, L, q) \cap lo..hi # {} => q \in f..E
           ELSE q \in f..E <=> o + L * q + L <= next /\ BytesAt(o, next, L, q) \subseteq lo..hi

\* A part lo..hi of a block begins in symbol f.
LEMMA NamedIs ==
  ASSUME NEW o, NEW next, NEW L, NEW n, Holds(o, next, L, n), NEW inclusive \in BOOLEAN,
         NEW lo \in o..(next - 1), NEW hi \in o..(next - 1), lo <= hi,
         NEW f, f = (lo - o) \div L, NEW E, E = EndOf(f, hi - lo + 1, L, inclusive)
  PROVE  Naming(o, next, L, n, lo, hi, f, E, inclusive)
<1>1. /\ o \in Nat /\ next \in Nat /\ L \in Nat \ {0} /\ n \in Nat
      /\ lo \in Nat /\ hi \in Nat
  BY DEF Holds
<1>2. f \in 0..(n - 1) /\ lo \in BytesAt(o, next, L, f)
  BY SymbolOf
<1> PICK len \in Nat \ {0} : len = hi - lo + 1
  BY <1>1
<1>3. E \in Int /\ \A d \in Nat : /\ L * d \in Nat
                                  /\ f + d <= E <=>
                                       IF inclusive THEN L * d < len ELSE L * d + L <= len
  BY ONLY <1>1, <1>2, E = EndOf(f, hi - lo + 1, L, inclusive), len = hi - lo + 1, len \in Nat \ {0},
     inclusive \in BOOLEAN, f \in Nat, n \in Nat, EndOfIs
<1> PICK F \in Nat : F = L * f
  BY <1>1, <1>2, ProductsOrder
<1>4. o + F <= lo /\ lo < o + F + L
  <2>1. \A x \in Int : x \in BytesAt(o, next, L, f) <=>
                         o + L * f <= x /\ x < o + L * f + L /\ x < next
    BY ONLY <1>2, Holds(o, next, L, n), SymbolIn
  <2> QED BY ONLY <1>1, <1>2, <2>1, F = L * f

\* Where a symbol from f on begins.
<1>5. ASSUME NEW q \in Nat, f <= q
      PROVE  /\ q - f \in Nat /\ L * q = F + L * (q - f) /\ L * (q - f) \in Nat
             /\ q = f + (q - f)
  <2>1. q - f \in Nat /\ q \in Int /\ f \in Int /\ L \in Int /\ q = f + (q - f)
    BY ONLY <1>1, <1>2, <1>5
  <2>2. (q - f) * L = q * L - f * L /\ (q - f) * L = L * (q - f) /\ q * L = L * q /\ f * L = L * f
        /\ L * (q - f) \in Int
    BY ONLY <2>1, q - f \in Int, Products
  <2>3. L * (q - f) \in Nat
    BY ONLY <1>3, <2>1
  <2> PICK X, Y, Z \in Int : X = L * q /\ Y = L * f /\ Z = L * (q - f)
    BY ONLY <2>1, q - f \in Int, Products
  <2> QED BY ONLY <2>1, <2>2, <2>3, F = L * f, X = L * q, Y = L * f, Z = L * (q - f),
             X \in Int, Y \in Int, Z \in Int
<1>6. inclusive => f <= E
  <2>1. L * 0 = 0
    BY ONLY <1>1, L \in Int
  <2> QED BY ONLY <1>1, <1>2, <1>3, <2>1, f + 0 = f, 0 \in Nat, len \in Nat \ {0}
<1>7. ASSUME NEW q \in f..E
      PROVE  q \in 0..(n - 1) /\ BytesAt(o, next, L, q) \cap lo..hi # {}
  <2>1. CASE q = f
    <3>1. lo \in lo..hi
      BY <1>1
    <3> QED BY <1>2, <2>1, <3>1
  <2>2. CASE q # f
    <3>1. q \in Nat /\ q > f
      BY ONLY <1>1, <1>2, <1>3, <1>7, <2>2
    <3> PICK d \in Nat : d = q - f /\ q = f + d /\ d >= 1
      BY ONLY <1>1, <1>2, <3>1
    <3> PICK D, X \in Nat : D = L * d /\ X = L * q
      BY ONLY <1>1, <3>1, d \in Nat, ProductsOrder
    <3>2. X = F + D
      BY ONLY <1>5, <3>1, D = L * d, X = L * q, d = q - f, q \in Nat, f <= q
    <3>3. L <= D
      <4>1. L * 1 = L /\ L * 1 <= L * d
        BY ONLY <1>1, 1 \in Nat, L \in Nat, d \in Nat, d >= 1, ProductsOrder
      <4> QED BY ONLY <4>1, D = L * d
    <3>4. D < len
      <4>1. f + d <= E
        BY ONLY <1>7, q = f + d
      <4>2. IF inclusive THEN D < len ELSE D + L <= len
        BY ONLY <1>3, <4>1, d \in Nat, D = L * d
      <4> QED BY ONLY <1>1, <4>2, D \in Nat, len \in Nat \ {0}, inclusive \in BOOLEAN
    <3> PICK x \in Int : x = o + X
      BY ONLY <1>1, X \in Nat
    <3>5. lo <= x /\ x <= hi /\ x \in o..(next - 1)
      BY ONLY <1>1, <1>4, <3>2, <3>3, <3>4, x = o + X, len = hi - lo + 1, D \in Nat, X \in Nat,
         F \in Nat, lo \in o..(next - 1), hi \in o..(next - 1)
    <3>6. (x - o) \div L = q
      <4>1. x - o = X
        BY ONLY <1>1, x = o + X, X \in Nat
      <4>2. X \div L = q
        <5> PICK Q, R \in Nat : Q = X \div L /\ R = X % L /\ X = L * Q + R /\ R < L
          BY ONLY <1>1, X \in Nat, Quotients
        <5> PICK B, C \in Nat : B = L * Q /\ C = L * (Q + 1) /\ C = B + L
          BY ONLY <1>1, Q \in Nat, Q + 1 \in Nat, L \in Int, Q \in Int, Products, ProductsOrder
        <5>1. Q <= q
          <6>1. q < Q => X < B
            BY ONLY <1>1, <3>1, L > 0, Q \in Nat, X = L * q, B = L * Q, ProductsOrder
          <6> QED BY ONLY <6>1, <3>1, X = L * Q + R, B = L * Q, R \in Nat, B \in Nat, Q \in Nat, X \in Nat
        <5>2. q < Q + 1
          <6>1. Q + 1 <= q => C <= X
            BY ONLY <1>1, <3>1, Q + 1 \in Nat, X = L * q, C = L * (Q + 1), ProductsOrder
          <6> QED BY ONLY <1>1, <6>1, <3>1, X = L * Q + R, B = L * Q, R \in Nat, R < L, B \in Nat,
                     C = B + L, Q \in Nat, X \in Nat, C \in Nat
        <5> QED BY ONLY <5>1, <5>2, <3>1, Q \in Nat, Q = X \div L
      <4> QED BY ONLY <4>1, <4>2
    <3>7. q \in 0..(n - 1) /\ x \in BytesAt(o, next, L, q)
      BY ONLY <3>5, <3>6, Holds(o, next, L, n), SymbolOf
    <3>8. x \in lo..hi
      BY ONLY <1>1, <3>5, x \in Int
    <3> QED BY ONLY <3>7, <3>8
  <2> QED BY <2>1, <2>2
<1>8. ASSUME NEW p \in 0..(n - 1), lo = o + L * p
      PROVE  lo = o + F
  <2>1. lo \in BytesAt(o, next, L, p)
    BY ONLY <1>8, Holds(o, next, L, n), SymbolIn
  <2>2. p = f
    BY ONLY <2>1, <1>2, Holds(o, next, L, n), lo \in o..(next - 1), p \in 0..(n - 1), SymbolOf
  <2> QED BY ONLY <1>8, <2>2, F = L * f
<1>9. ASSUME lo = o + F, NEW q \in 0..(n - 1)
      PROVE  IF inclusive THEN BytesAt(o, next, L, q) \cap lo..hi # {} => q \in f..E
             ELSE q \in f..E <=> o + L * q + L <= next /\ BytesAt(o, next, L, q) \subseteq lo..hi
  <2>1. q \in Nat /\ f \in Nat
    BY <1>1, <1>2
  <2> PICK X \in Nat : X = L * q
    BY <1>1, <2>1, ProductsOrder
  <2>2. \A x \in Int : x \in BytesAt(o, next, L, q) <=> o + X <= x /\ x < o + X + L /\ x < next
    BY ONLY Holds(o, next, L, n), q \in 0..(n - 1), X = L * q, SymbolIn
  <2>3. o + X \in BytesAt(o, next, L, q)
    BY ONLY Holds(o, next, L, n), q \in 0..(n - 1), X = L * q, SymbolIn
  <2>4. q < f => X + L <= F
    <3>1. q < f => q + 1 <= f /\ q + 1 \in Nat
      BY ONLY <2>1
    <3>2. q < f => L * (q + 1) <= F
      BY ONLY <1>1, <2>1, <3>1, F = L * f, ProductsOrder
    <3>3. L * (q + 1) = X + L
      BY ONLY <1>1, <2>1, L \in Int, q \in Int, X = L * q, Products
    <3> QED BY ONLY <3>2, <3>3
  <2>5. f <= q => (q <= E <=> IF inclusive THEN X - F < len ELSE X - F + L <= len)
    <3> SUFFICES ASSUME f <= q
                 PROVE  q <= E <=> IF inclusive THEN X - F < len ELSE X - F + L <= len
      OBVIOUS
    <3> PICK d, D \in Nat : d = q - f /\ D = L * d /\ q = f + d /\ X = F + D
      BY ONLY <1>5, <2>1, f <= q, X = L * q
    <3>1. X - F = D
      BY ONLY X = F + D, F \in Nat, D \in Nat
    <3> QED BY ONLY <1>3, <3>1, d \in Nat, D = L * d, q = f + d
  <2>6. q \in f..E <=> f <= q /\ q <= E
    BY ONLY <1>3, <2>1
  <2>7. CASE inclusive
    <3>1. ASSUME NEW x \in BytesAt(o, next, L, q), x \in lo..hi
          PROVE  q \in f..E
      <4>1. x \in Int /\ o + X <= x /\ x < o + X + L /\ lo <= x /\ x <= hi
        BY ONLY <1>1, <2>2, <3>1
      <4>2. f <= q
        BY ONLY <1>1, <2>1, <2>4, <4>1, lo = o + F, X \in Nat, F \in Nat
      <4>3. X - F < len
        BY ONLY <1>1, <4>1, lo = o + F, len = hi - lo + 1, X \in Nat, F \in Nat
      <4> QED BY ONLY <2>5, <2>6, <2>7, <4>2, <4>3
    <3> QED BY ONLY <2>7, <3>1
  <2>8. CASE ~inclusive
    <3>1. ASSUME q \in f..E
          PROVE  o + X + L <= next /\ BytesAt(o, next, L, q) \subseteq lo..hi
      <4>1. f <= q /\ X - F + L <= len
        BY ONLY <2>5, <2>6, <2>8, <3>1
      <4>2. F <= X
        BY ONLY <1>1, <2>1, <4>1, f <= q, X = L * q, F = L * f, ProductsOrder
      <4>3. o + X + L <= hi + 1 /\ lo <= o + X
        BY ONLY <1>1, <4>1, <4>2, lo = o + F, len = hi - lo + 1, X \in Nat, F \in Nat
      <4>4. o + X + L <= next
        BY ONLY <1>1, <4>3, hi \in o..(next - 1), X \in Nat
      <4>5. ASSUME NEW x \in BytesAt(o, next, L, q) PROVE x \in lo..hi
        <5>1. x \in Int
          BY ONLY <1>1, <4>5, o + L * q \in Int DEF BytesAt
        <5>2. o + X <= x /\ x < o + X + L
          BY ONLY <2>2, <4>5, <5>1
        <5> QED BY ONLY <1>1, <4>3, <5>1, <5>2, X \in Nat
      <4> QED BY ONLY <4>4, <4>5
    <3>2. ASSUME o + X + L <= next, BytesAt(o, next, L, q) \subseteq lo..hi
          PROVE  q \in f..E
      <4>1. o + X \in lo..hi
        BY ONLY <2>3, <3>2
      <4>2. o + X + L - 1 \in lo..hi
        <5>1. o + X + L - 1 \in BytesAt(o, next, L, q)
          BY ONLY <1>1, <2>2, <3>2, X \in Nat
        <5> QED BY ONLY <3>2, <5>1
      <4>3. f <= q
        BY ONLY <1>1, <2>1, <2>4, <4>1, lo = o + F, X \in Nat, F \in Nat
      <4>4. X - F + L <= len
        BY ONLY <1>1, <4>2, lo = o + F, len = hi - lo + 1, X \in Nat, F \in Nat
      <4> QED BY ONLY <2>5, <2>6, <2>8, <4>3, <4>4
    <3> QED BY ONLY <2>8, <3>1, <3>2, X = L * q
  <2> QED BY ONLY <2>7, <2>8, inclusive \in BOOLEAN
<1>10. (\E p \in 0..(n - 1) : lo = o + L * p) =>
               \A q \in 0..(n - 1) :
                  IF inclusive THEN BytesAt(o, next, L, q) \cap lo..hi # {} => q \in f..E
                  ELSE q \in f..E <=> o + L * q + L <= next /\ BytesAt(o, next, L, q) \subseteq lo..hi
  BY ONLY <1>8, <1>9
<1> QED BY ONLY <1>1, <1>2, <1>3, <1>6, <1>7, <1>10, f \in Nat DEF Naming

-----------------------------------------------------------------------------
(* The symbols that a range names *)

\* A range of bytes of the object.
InObject(r, b, source) ==
  /\ r \in RangeType
  /\ 0 <= r.start /\ r.start <= r.end /\ r.end < OffsetOf(b, b.N, source)

\* The blocks that it goes through.
Spanned(b, r, source) == SBNOf(b, r.start, source)..SBNOf(b, r.end, source)

\* The range of symbols that it adds to a block.
BlockRange(b, r, sbn, source, inclusive) ==
  LET offset == OffsetOf(b, sbn, source)
      from == Greatest(r.start, offset) - offset
      to == Least(r.end, OffsetOf(b, sbn + 1, source) - 1) - offset
      first == from \div b.ESLen
  IN  Interval(BaseOf(b, sbn, source) + first,
               BaseOf(b, sbn, source) + EndOf(first, to - from + 1, b.ESLen, inclusive))

Names(b, r, s, source, inclusive) ==
  IF s \in Spanned(b, r, source)
  THEN BlockRange(b, r, s, source, inclusive).start..BlockRange(b, r, s, source, inclusive).end
  ELSE {}

LEMMA InObjectTyped ==
  ASSUME NEW b \in Structures, NEW source \in BOOLEAN, NEW r, InObject(r, b, source)
  PROVE  /\ r.start \in Nat /\ r.end \in Nat /\ r.start <= r.end
         /\ r.start \in 0..(OffsetOf(b, b.N, source) - 1)
         /\ r.end \in 0..(OffsetOf(b, b.N, source) - 1)
         /\ OffsetOf(b, b.N, source) \in Nat
<1>1. b.N \in Nat /\ b.N \in 0..b.N
  BY StructuresAssumption DEF AtRest
<1> PICK top \in Nat : top = OffsetOf(b, b.N, source)
  BY ONLY <1>1, b \in Structures, source \in BOOLEAN, BlocksRise
<1>2. r.start \in Int /\ r.end \in Int /\ 0 <= r.start /\ r.start <= r.end /\ r.end < top
  BY DEF InObject, RangeType
<1> QED BY ONLY <1>2, top \in Nat, top = OffsetOf(b, b.N, source)

LEMMA RepairBlockIs ==
  ASSUME NEW b \in Structures, NEW s \in Blocks(b)
  PROVE  /\ b.ESLen * RprSymbols(b) \in Nat
         /\ OffsetOf(b, s, FALSE) + b.ESLen * RprSymbols(b) = OffsetOf(b, s + 1, FALSE)
<1>1. s \in 0..b.N
  BY StructuresAssumption DEF AtRest, Blocks
<1>2. b.ESLen * RprSymbols(b) \in Nat
  BY <1>1, RepairIs
<1>3. SymbolsOf(b, s, FALSE) = RprSymbols(b)
  BY DEF SymbolsOf
<1>4. FALSE \in BOOLEAN /\ ~FALSE
  OBVIOUS
<1>5. OffsetOf(b, s, FALSE) + b.ESLen * SymbolsOf(b, s, FALSE) = OffsetOf(b, s + 1, FALSE)
  BY ONLY <1>4, b \in Structures, s \in Blocks(b), BlockIs
<1> QED BY ONLY <1>2, <1>3, <1>5

\* The blocks are those of which the range has a byte.
LEMMA SpannedIs ==
  ASSUME NEW b \in Structures, NEW source \in BOOLEAN, NEW r, InObject(r, b, source)
  PROVE  /\ SBNOf(b, r.start, source) \in Nat /\ SBNOf(b, r.end, source) \in Nat
         /\ SBNOf(b, r.start, source) <= SBNOf(b, r.end, source)
         /\ Spanned(b, r, source) \subseteq Blocks(b)
         /\ \A s \in Blocks(b) :
               /\ OffsetOf(b, s, source) \in Nat /\ OffsetOf(b, s + 1, source) \in Nat
               /\ s \in Spanned(b, r, source) =>
                    /\ OffsetOf(b, s, source) < OffsetOf(b, s + 1, source)
                    /\ OffsetOf(b, s, source) <= r.end /\ r.start < OffsetOf(b, s + 1, source)
                    /\ s # SBNOf(b, r.start, source) => r.start < OffsetOf(b, s, source)
               /\ \A x \in r.start..r.end :
                     OffsetOf(b, s, source) <= x /\ x < OffsetOf(b, s + 1, source) =>
                        s \in Spanned(b, r, source)
<1> PICK N \in Nat : N = b.N
  BY StructuresAssumption DEF AtRest
<1> PICK x, y \in Nat : x = r.start /\ y = r.end
  BY InObjectTyped
<1>1. x <= y /\ x \in 0..(OffsetOf(b, b.N, source) - 1) /\ y \in 0..(OffsetOf(b, b.N, source) - 1)
  BY InObjectTyped
<1> PICK first, last : first = SBNOf(b, x, source) /\ last = SBNOf(b, y, source)
  OBVIOUS
<1>2. Blocks(b) = 0..(N - 1)
  BY DEF Blocks
<1> PICK off : off = [s \in 0..N |-> OffsetOf(b, s, source)]
  OBVIOUS
<1>3. /\ \A s \in 0..N : off[s] \in Nat /\ off[s] = OffsetOf(b, s, source)
      /\ \A s, t \in 0..N : s <= t => off[s] <= off[t]
  BY BlocksRise
<1>4. \A s \in 0..(N - 1) : /\ s \in 0..N /\ s + 1 \in 0..N /\ s \in Nat
                            /\ off[s] = OffsetOf(b, s, source) /\ off[s + 1] = OffsetOf(b, s + 1, source)
                            /\ off[s] \in Nat /\ off[s + 1] \in Nat
  BY ONLY <1>3, N \in Nat
<1>5. /\ first \in 0..(N - 1) /\ off[first] <= x /\ x < off[first + 1]
      /\ last \in 0..(N - 1) /\ off[last] <= y /\ y < off[last + 1]
  BY <1>1, <1>2, <1>4, SBNOfIs
<1>6. ASSUME NEW s \in 0..(N - 1), NEW z \in Nat, off[s] <= z,
             NEW t \in 0..(N - 1), z < off[t + 1]
      PROVE  s <= t
  <2>1. t + 1 <= s => off[t + 1] <= off[s]
    BY ONLY <1>3, <1>4
  <2> QED BY ONLY <1>4, <1>6, <2>1
<1>7. first <= last
  BY ONLY <1>1, <1>4, <1>5, <1>6, x \in Nat, y \in Nat
<1>8. ASSUME NEW s \in 0..(N - 1), s \in first..last
      PROVE  /\ off[s] < off[s + 1] /\ off[s] <= y /\ x < off[s + 1]
             /\ s # first => x < off[s]
  <2>1. first <= s /\ s <= last /\ s \in Nat /\ first \in Nat /\ last \in Nat
    BY ONLY <1>4, <1>5, <1>8
  <2>2. off[s] <= y
    <3>1. off[s] <= off[last]
      BY ONLY <1>3, <1>4, <1>5, <2>1
    <3> QED BY ONLY <1>4, <1>5, <3>1, y \in Nat
  <2>3. x < off[s + 1]
    <3>1. first + 1 <= s + 1 /\ first + 1 \in 0..N /\ s + 1 \in 0..N
      BY ONLY <1>5, <2>1, N \in Nat, s \in 0..(N - 1)
    <3>2. off[first + 1] <= off[s + 1] /\ off[first + 1] \in Nat /\ off[s + 1] \in Nat
      BY ONLY <1>3, <3>1
    <3> QED BY ONLY <1>5, <3>2, x \in Nat
  <2>4. s # first => x < off[s]
    <3>1. s # first => first + 1 <= s
      BY ONLY <2>1
    <3>2. s # first => off[first + 1] <= off[s]
      BY ONLY <1>3, <1>4, <1>5, <3>1
    <3> QED BY ONLY <1>4, <1>5, <3>2, x \in Nat
  <2>5. off[s] < off[s + 1]
    <3>1. CASE source
      BY ONLY <1>2, <1>4, <3>1, b \in Structures, source \in BOOLEAN, s \in 0..(N - 1), BlockIs
    <3>2. CASE ~source
      <4> PICK size : size = b.ESLen * RprSymbols(b)
        OBVIOUS
      <4>1. off[s] + size = off[s + 1] /\ size \in Nat
        BY ONLY ZenonT(30), <1>2, <1>4, <3>2, b \in Structures, s \in 0..(N - 1), RepairBlockIs,
           source = FALSE, size = b.ESLen * RprSymbols(b)
      <4>2. off[first] + size = off[first + 1]
        BY ONLY ZenonT(30), <1>2, <1>4, <1>5, <3>2, b \in Structures, RepairBlockIs,
           source = FALSE, size = b.ESLen * RprSymbols(b)
      <4>3. off[first] \in Nat /\ off[first + 1] \in Nat /\ off[s] \in Nat /\ off[s + 1] \in Nat
        BY ONLY <1>4, <1>5, s \in 0..(N - 1)
      <4> QED BY ONLY <1>5, <4>1, <4>2, <4>3, x \in Nat
    <3> QED BY ONLY <3>1, <3>2
  <2> QED BY ONLY <2>2, <2>3, <2>4, <2>5
<1>9. ASSUME NEW s \in 0..(N - 1), NEW z \in x..y, off[s] <= z, z < off[s + 1]
      PROVE  s \in first..last
  <2>1. z \in Nat /\ off[first] <= z /\ z < off[last + 1]
    BY ONLY <1>4, <1>5, <1>9, x \in Nat, y \in Nat
  <2>2. first <= s /\ s <= last
    BY ONLY <1>5, <1>6, <1>9, <2>1
  <2> QED BY ONLY <1>4, <1>5, <2>2
<1>10. first \in Nat /\ last \in Nat /\ first..last \subseteq 0..(N - 1)
  BY ONLY <1>5, N \in Nat
<1>11. Spanned(b, r, source) = first..last
  BY ONLY x = r.start, y = r.end, first = SBNOf(b, x, source), last = SBNOf(b, y, source) DEF Spanned
<1>12. ASSUME NEW s \in Blocks(b)
       PROVE  /\ OffsetOf(b, s, source) \in Nat /\ OffsetOf(b, s + 1, source) \in Nat
              /\ s \in Spanned(b, r, source) =>
                    /\ OffsetOf(b, s, source) < OffsetOf(b, s + 1, source)
                    /\ OffsetOf(b, s, source) <= y /\ x < OffsetOf(b, s + 1, source)
                    /\ s # first => x < OffsetOf(b, s, source)
              /\ \A z \in x..y :
                     OffsetOf(b, s, source) <= z /\ z < OffsetOf(b, s + 1, source) =>
                        s \in Spanned(b, r, source)
  <2>1. /\ s \in 0..(N - 1) /\ off[s] = OffsetOf(b, s, source)
        /\ off[s + 1] = OffsetOf(b, s + 1, source) /\ off[s] \in Nat /\ off[s + 1] \in Nat
    BY ONLY <1>2, <1>4, s \in Blocks(b)
  <2>2. s \in first..last => /\ off[s] < off[s + 1] /\ off[s] <= y /\ x < off[s + 1]
                             /\ s # first => x < off[s]
    BY ONLY <1>8, <2>1
  <2>3. ASSUME NEW z \in x..y, off[s] <= z, z < off[s + 1]
        PROVE  s \in first..last
    <3>1. z \in Nat
      BY ONLY x \in Nat, y \in Nat, z \in x..y
    <3> QED BY ONLY <1>9, <2>1, <2>3, <3>1
  <2> QED BY ONLY <1>11, <2>1, <2>2, <2>3
<1>13. Spanned(b, r, source) \subseteq Blocks(b)
  BY ONLY <1>2, <1>10, <1>11
<1> QED BY ONLY <1>7, <1>10, <1>12, <1>13, x = r.start, y = r.end,
           first = SBNOf(b, x, source), last = SBNOf(b, y, source)

\* The symbols of a block of which a range has a byte, and those of full
\* length of which it has all.
Touching(b, s, r, source) ==
  {e \in ESIs(b, s, source) : SymbolBytes(b, s, e, source) \cap (r.start..r.end) # {}}

Filled(b, s, r, source) ==
  {e \in ESIs(b, s, source) : /\ SymbolBytes(b, s, e, source) \subseteq r.start..r.end
                              /\ Cardinality(SymbolBytes(b, s, e, source)) = b.ESLen}

\* The range begins with the first byte of a symbol.
Begins(b, r, source) ==
  \E sbn \in Blocks(b) : \E e \in ESIs(b, sbn, source) :
     SymbolBytes(b, sbn, e, source) # {} /\ r.start = Min(SymbolBytes(b, sbn, e, source))

LEMMA FullIs ==
  ASSUME NEW o, NEW next, NEW L, NEW n, Holds(o, next, L, n), NEW q \in 0..(n - 1)
  PROVE  /\ Cardinality(BytesAt(o, next, L, q)) = L <=> o + L * q + L <= next
         /\ Min(BytesAt(o, next, L, q)) = o + L * q
<1>1. o \in Nat /\ next \in Nat /\ L \in Nat \ {0} /\ n \in Nat
  BY DEF Holds
<1> PICK u \in Nat : u = L * q /\ o + u < next
  BY SymbolIn
<1> PICK a, c \in Int : a = o + u /\ c = (IF o + u + L <= next THEN o + u + L ELSE next) - 1
  BY <1>1
<1>2. a <= c
  BY <1>1
<1>3. BytesAt(o, next, L, q) = (o + u)..(o + u + L - 1) \cap 0..(next - 1)
  BY DEF BytesAt
<1>4. (o + u)..(o + u + L - 1) \cap 0..(next - 1) = a..c
  BY ONLY <1>1, a = o + u, c = (IF o + u + L <= next THEN o + u + L ELSE next) - 1, u \in Nat,
     o + u < next, a \in Int, c \in Int
<1>5. Cardinality(a..c) = c - a + 1
  BY ONLY <1>2, a \in Int, c \in Int, FS_Interval
<1>6. Min(a..c) = a
  <2>1. a \in a..c /\ \A z \in a..c : a <= z
    BY ONLY <1>2, a \in Int, c \in Int
  <2>2. \A m : m \in a..c /\ (\A z \in a..c : m <= z) => m = a
    BY ONLY <2>1, a \in Int, c \in Int
  <2> QED BY ONLY <2>1, <2>2, Zenon DEF Min
<1>7. c - a + 1 = L <=> o + u + L <= next
  BY ONLY <1>1, a = o + u, c = (IF o + u + L <= next THEN o + u + L ELSE next) - 1, u \in Nat,
     o + u < next, a \in Int, c \in Int
<1> QED BY ONLY <1>3, <1>4, <1>5, <1>6, <1>7, a = o + u, u = L * q

LEMMA FirstByteIs ==
  ASSUME NEW b \in Structures, NEW source \in BOOLEAN, NEW t \in Blocks(b),
         NEW e \in ESIs(b, t, source), NEW x, x = Min(SymbolBytes(b, t, e, source))
  PROVE  /\ OffsetOf(b, t, source) \in Nat /\ OffsetOf(b, t + 1, source) \in Nat
         /\ OffsetOf(b, t, source) <= x /\ x < OffsetOf(b, t + 1, source)
         /\ \E p \in 0..(SymbolsOf(b, t, source) - 1) : x = OffsetOf(b, t, source) + b.ESLen * p
<1> PICK o, next, L, n, base : /\ o = OffsetOf(b, t, source) /\ next = OffsetOf(b, t + 1, source)
                               /\ L = b.ESLen /\ n = SymbolsOf(b, t, source)
                               /\ base = BaseOf(b, t, source)
  OBVIOUS
<1>1. /\ Holds(o, next, L, n) /\ base \in Nat /\ ESIs(b, t, source) = base..(base + n - 1)
      /\ \A d \in Int : SymbolBytes(b, t, d, source) = BytesAt(o, next, L, d - base)
  BY BlockIs
<1>2. o \in Nat /\ next \in Nat /\ L \in Nat \ {0} /\ n \in Nat
  BY <1>1 DEF Holds
<1>3. e \in Int /\ e - base \in 0..(n - 1)
  <2>1. e \in base..(base + n - 1)
    BY ONLY <1>1, e \in ESIs(b, t, source)
  <2> QED BY ONLY <1>1, <1>2, <2>1
<1> PICK q \in 0..(n - 1) : q = e - base
  BY <1>3
<1>4. SymbolBytes(b, t, e, source) = BytesAt(o, next, L, q)
  BY <1>1, <1>3
<1>5. x = o + L * q
  BY ONLY <1>1, <1>4, x = Min(SymbolBytes(b, t, e, source)), q \in 0..(n - 1), FullIs
<1>6. L * q \in Nat /\ o + L * q < next
  BY ONLY <1>1, q \in 0..(n - 1), SymbolIn
<1>7. o <= x /\ x < next
  BY ONLY <1>2, <1>5, <1>6
<1> QED BY ONLY <1>2, <1>5, <1>7, o = OffsetOf(b, t, source), next = OffsetOf(b, t + 1, source),
           L = b.ESLen, n = SymbolsOf(b, t, source), q \in 0..(n - 1)

\* The part of a block that the range covers, and what it adds to the block.
LEMMA PartIs ==
  ASSUME NEW b \in Structures, NEW source \in BOOLEAN, NEW inclusive \in BOOLEAN,
         NEW r, InObject(r, b, source), NEW s \in Spanned(b, r, source),
         NEW o, o = OffsetOf(b, s, source), NEW next, next = OffsetOf(b, s + 1, source)
  PROVE  \E lo, hi \in o..(next - 1) :
            /\ lo <= hi /\ lo = Greatest(r.start, o)
            /\ \A x \in Int : x \in lo..hi <=> r.start <= x /\ x <= r.end /\ o <= x /\ x < next
            /\ LET f == (lo - o) \div b.ESLen
                   base == BaseOf(b, s, source)
               IN  BlockRange(b, r, s, source, inclusive) =
                     Interval(base + f, base + EndOf(f, hi - lo + 1, b.ESLen, inclusive))
<1>1. s \in Blocks(b) /\ o \in Nat /\ next \in Nat /\ o < next /\ o <= r.end /\ r.start < next
  BY SpannedIs
<1> PICK x, y \in Nat : x = r.start /\ y = r.end /\ x <= y
  BY InObjectTyped
<1> PICK lo, hi \in Int : lo = Greatest(x, o) /\ hi = Least(y, next - 1)
  BY <1>1 DEF Greatest, Least
<1>2. /\ lo \in o..(next - 1) /\ hi \in o..(next - 1) /\ lo <= hi
      /\ \A z \in Int : z \in lo..hi <=> x <= z /\ z <= y /\ o <= z /\ z < next
  <2>1. lo = IF x >= o THEN x ELSE o
    BY DEF Greatest
  <2>2. hi = IF y <= next - 1 THEN y ELSE next - 1
    BY DEF Least
  <2> QED BY ONLY <1>1, <2>1, <2>2, x = r.start, y = r.end, x <= y, x \in Nat, y \in Nat,
             lo \in Int, hi \in Int
<1> PICK from, to \in Int : from = lo - o /\ to = hi - o
  BY <1>1
<1>3. to - from + 1 = hi - lo + 1
  BY ONLY <1>1, from = lo - o, to = hi - o, lo \in Int, hi \in Int
<1>4. BlockRange(b, r, s, source, inclusive) =
        Interval(BaseOf(b, s, source) + from \div b.ESLen,
                 BaseOf(b, s, source) + EndOf(from \div b.ESLen, to - from + 1, b.ESLen, inclusive))
  BY ONLY from = lo - o, to = hi - o, lo = Greatest(x, o), hi = Least(y, next - 1), x = r.start,
     y = r.end, o = OffsetOf(b, s, source), next = OffsetOf(b, s + 1, source), Zenon DEF BlockRange
<1>5. /\ lo <= hi /\ lo = Greatest(r.start, o)
      /\ \A z \in Int : z \in lo..hi <=> r.start <= z /\ z <= r.end /\ o <= z /\ z < next
  BY ONLY <1>2, lo = Greatest(x, o), x = r.start, y = r.end
<1>6. BlockRange(b, r, s, source, inclusive) =
        Interval(BaseOf(b, s, source) + (lo - o) \div b.ESLen,
                 BaseOf(b, s, source) + EndOf((lo - o) \div b.ESLen, hi - lo + 1, b.ESLen, inclusive))
  BY ONLY <1>3, <1>4, from = lo - o
<1> QED BY ONLY <1>2, <1>5, <1>6, Zenon

LEMMA NamesIs ==
  ASSUME NEW b \in Structures, NEW source \in BOOLEAN, NEW inclusive \in BOOLEAN,
         NEW r, InObject(r, b, source), NEW s \in Blocks(b)
  PROVE  /\ Names(b, r, s, source, inclusive) \subseteq Touching(b, s, r, source)
         /\ Begins(b, r, source) =>
               Names(b, r, s, source, inclusive) =
                 IF inclusive THEN Touching(b, s, r, source) ELSE Filled(b, s, r, source)
         /\ s \in Spanned(b, r, source) =>
              /\ BlockRange(b, r, s, source, inclusive) \in RangeType
              /\ inclusive => BlockRange(b, r, s, source, inclusive).start
                                <= BlockRange(b, r, s, source, inclusive).end
<1> PICK o, next, L, n, base : /\ o = OffsetOf(b, s, source) /\ next = OffsetOf(b, s + 1, source)
                               /\ L = b.ESLen /\ n = SymbolsOf(b, s, source)
                               /\ base = BaseOf(b, s, source)
  OBVIOUS
<1>1. /\ Holds(o, next, L, n) /\ base \in Nat /\ ESIs(b, s, source) = base..(base + n - 1)
      /\ \A e \in Int : SymbolBytes(b, s, e, source) = BytesAt(o, next, L, e - base)
  BY BlockIs
<1>2. o \in Nat /\ next \in Nat /\ L \in Nat \ {0} /\ n \in Nat
  BY <1>1 DEF Holds
<1> PICK x, y \in Nat : x = r.start /\ y = r.end /\ x <= y
  BY InObjectTyped
<1>3. ASSUME NEW e \in ESIs(b, s, source)
      PROVE  /\ e \in Int /\ e - base \in 0..(n - 1)
             /\ SymbolBytes(b, s, e, source) = BytesAt(o, next, L, e - base)
             /\ SymbolBytes(b, s, e, source) \subseteq o..(next - 1)
             /\ SymbolBytes(b, s, e, source) # {}
             /\ Cardinality(SymbolBytes(b, s, e, source)) = L <=> o + L * (e - base) + L <= next
  <2>1. e \in Int /\ e - base \in 0..(n - 1)
    <3>1. e \in base..(base + n - 1)
      BY ONLY <1>1, e \in ESIs(b, s, source)
    <3> QED BY ONLY <1>1, <1>2, <3>1
  <2> PICK q \in 0..(n - 1) : q = e - base
    BY <2>1
  <2>2. SymbolBytes(b, s, e, source) = BytesAt(o, next, L, q)
    BY <1>1, <2>1
  <2>3. BytesAt(o, next, L, q) \subseteq o..(next - 1) /\ BytesAt(o, next, L, q) # {}
    BY ONLY <1>1, q \in 0..(n - 1), SymbolIn
  <2>4. Cardinality(BytesAt(o, next, L, q)) = L <=> o + L * q + L <= next
    BY ONLY <1>1, q \in 0..(n - 1), FullIs
  <2> QED BY ONLY <2>1, <2>2, <2>3, <2>4, q = e - base
<1>4. CASE s \notin Spanned(b, r, source)
  <2>1. ASSUME NEW z \in x..y, z \in o..(next - 1) PROVE FALSE
    <3>1. o <= z /\ z < next
      BY ONLY <1>2, <2>1
    <3> QED BY <1>4, <2>1, <3>1, SpannedIs
  <2>2. ASSUME NEW e \in ESIs(b, s, source)
        PROVE  /\ SymbolBytes(b, s, e, source) \cap (x..y) = {}
               /\ ~(SymbolBytes(b, s, e, source) \subseteq x..y)
    BY ONLY <1>3, <2>1, <2>2
  <2>3. Names(b, r, s, source, inclusive) = {}
    BY <1>4 DEF Names
  <2>4. Touching(b, s, r, source) = {} /\ Filled(b, s, r, source) = {}
    BY ONLY <2>2, x = r.start, y = r.end DEF Touching, Filled
  <2> QED BY ONLY <1>4, <2>3, <2>4
<1>5. CASE s \in Spanned(b, r, source)
  <2> PICK lo, hi \in o..(next - 1) :
             /\ lo <= hi /\ lo = Greatest(x, o)
             /\ \A z \in Int : z \in lo..hi <=> x <= z /\ z <= y /\ o <= z /\ z < next
             /\ LET f == (lo - o) \div L
                IN  BlockRange(b, r, s, source, inclusive) =
                      Interval(base + f, base + EndOf(f, hi - lo + 1, L, inclusive))
    BY ONLY <1>5, b \in Structures, source \in BOOLEAN, inclusive \in BOOLEAN, InObject(r, b, source),
       o = OffsetOf(b, s, source), next = OffsetOf(b, s + 1, source), L = b.ESLen,
       base = BaseOf(b, s, source), x = r.start, y = r.end, PartIs
  <2> PICK f, E : f = (lo - o) \div L /\ E = EndOf(f, hi - lo + 1, L, inclusive)
    OBVIOUS
  <2>1. BlockRange(b, r, s, source, inclusive) = Interval(base + f, base + E)
    OBVIOUS
  <2>2. /\ f \in Nat /\ E \in Int /\ (inclusive => f <= E)
        /\ \A q \in f..E : q \in 0..(n - 1) /\ BytesAt(o, next, L, q) \cap lo..hi # {}
        /\ (\E p \in 0..(n - 1) : lo = o + L * p) =>
               \A q \in 0..(n - 1) :
                  IF inclusive THEN BytesAt(o, next, L, q) \cap lo..hi # {} => q \in f..E
                  ELSE q \in f..E <=> o + L * q + L <= next /\ BytesAt(o, next, L, q) \subseteq lo..hi
    <3>1. Naming(o, next, L, n, lo, hi, f, E, inclusive)
      BY ONLY <1>1, f = (lo - o) \div L, E = EndOf(f, hi - lo + 1, L, inclusive),
         lo \in o..(next - 1), hi \in o..(next - 1), lo <= hi, inclusive \in BOOLEAN, NamedIs
    <3> QED BY ONLY <3>1 DEF Naming
  <2>3. /\ Interval(base + f, base + E) \in RangeType
        /\ Interval(base + f, base + E).start = base + f /\ Interval(base + f, base + E).end = base + E
    <3>1. base + f \in Int /\ base + E \in Int
      BY ONLY <1>1, <2>2
    <3> QED BY ONLY <3>1, RangeTyped
  <2>4. inclusive => base + f <= base + E
    BY ONLY <1>1, <2>2
  <2>5. Names(b, r, s, source, inclusive) = (base + f)..(base + E)
    BY ONLY <1>5, <2>1, <2>3 DEF Names
  <2>6. ASSUME NEW e \in Int
        PROVE  e \in (base + f)..(base + E) <=> e - base \in f..E
    BY ONLY <1>1, <2>2, <2>6
  <2>7. ASSUME NEW e \in ESIs(b, s, source)
        PROVE  /\ SymbolBytes(b, s, e, source) \cap (x..y)
                    = BytesAt(o, next, L, e - base) \cap lo..hi
               /\ SymbolBytes(b, s, e, source) \subseteq x..y
                    <=> BytesAt(o, next, L, e - base) \subseteq lo..hi
    <3> PICK W : W = SymbolBytes(b, s, e, source)
      OBVIOUS
    <3>1. W = BytesAt(o, next, L, e - base) /\ W \subseteq o..(next - 1)
      BY <1>3
    <3>2. ASSUME NEW z \in W PROVE z \in x..y <=> z \in lo..hi
      <4>1. z \in Int /\ o <= z /\ z < next
        BY ONLY <1>2, <3>1, <3>2
      <4>2. z \in lo..hi <=> x <= z /\ z <= y
        BY ONLY <4>1, \A v \in Int : v \in lo..hi <=> x <= v /\ v <= y /\ o <= v /\ v < next
      <4> QED BY ONLY <4>1, <4>2, x \in Nat, y \in Nat
    <3> QED BY ONLY <3>1, <3>2, W = SymbolBytes(b, s, e, source)
  <2>8. ASSUME NEW e \in (base + f)..(base + E)
        PROVE  e \in Touching(b, s, r, source)
    <3>1. e \in Int /\ e - base \in f..E
      BY ONLY <1>1, <2>2, <2>6, <2>8
    <3>2. e - base \in 0..(n - 1) /\ BytesAt(o, next, L, e - base) \cap lo..hi # {}
      BY ONLY <2>2, <3>1
    <3>3. e \in ESIs(b, s, source)
      BY ONLY <1>1, <1>2, <3>1, <3>2
    <3>4. SymbolBytes(b, s, e, source) \cap (x..y) # {}
      BY ONLY <2>7, <3>2, <3>3
    <3> QED BY ONLY <3>3, <3>4, x = r.start, y = r.end DEF Touching
  <2>9. ASSUME Begins(b, r, source)
        PROVE  \E p \in 0..(n - 1) : lo = o + L * p
    <3>1. n > 0 /\ o < next
      <4>1. L * 0 = 0
        BY ONLY <1>2, L \in Int
      <4>2. o < next
        BY <1>5, SpannedIs
      <4>3. next - o <= L * n
        BY <1>1 DEF Holds
      <4>4. n # 0
        BY ONLY <1>2, <4>1, <4>2, <4>3
      <4> QED BY ONLY <1>2, <4>2, <4>4
    <3>2. CASE x < o
      <4>1. lo = o /\ 0 \in 0..(n - 1)
        BY ONLY <1>2, <3>1, <3>2, lo = Greatest(x, o), x \in Nat DEF Greatest
      <4>2. L * 0 = 0
        BY ONLY <1>2, L \in Int
      <4> QED BY ONLY <1>2, <4>1, <4>2
    <3>3. CASE x >= o
      <4>1. lo = x
        BY ONLY <1>2, <3>3, lo = Greatest(x, o), x \in Nat DEF Greatest
      <4> PICK t \in Blocks(b) : \E e \in ESIs(b, t, source) : x = Min(SymbolBytes(b, t, e, source))
        BY <2>9 DEF Begins
      <4> PICK e \in ESIs(b, t, source) : x = Min(SymbolBytes(b, t, e, source))
        OBVIOUS
      <4>2. /\ OffsetOf(b, t, source) <= x /\ x < OffsetOf(b, t + 1, source)
            /\ \E p \in 0..(SymbolsOf(b, t, source) - 1) : x = OffsetOf(b, t, source) + L * p
        BY ONLY b \in Structures, source \in BOOLEAN, x = Min(SymbolBytes(b, t, e, source)),
           t \in Blocks(b), e \in ESIs(b, t, source), L = b.ESLen, FirstByteIs
      <4>3. x < next
        BY <1>5, SpannedIs
      <4>5. s = t
        BY ONLY <3>3, <4>2, <4>3, b \in Structures, source \in BOOLEAN, s \in Blocks(b),
           t \in Blocks(b), x \in Nat, x \in Int, o = OffsetOf(b, s, source),
           next = OffsetOf(b, s + 1, source), InOneBlock
      <4> QED BY ONLY <4>1, <4>2, <4>5, o = OffsetOf(b, s, source), n = SymbolsOf(b, s, source)
    <3> QED BY ONLY <1>2, <3>2, <3>3, x \in Nat
  <2>10. ASSUME Begins(b, r, source)
         PROVE  Names(b, r, s, source, inclusive) =
                  IF inclusive THEN Touching(b, s, r, source) ELSE Filled(b, s, r, source)
    <3>1. \A q \in 0..(n - 1) :
             IF inclusive THEN BytesAt(o, next, L, q) \cap lo..hi # {} => q \in f..E
             ELSE q \in f..E <=> o + L * q + L <= next /\ BytesAt(o, next, L, q) \subseteq lo..hi
      BY ONLY <2>2, <2>9, <2>10
    <3>2. CASE inclusive
      <4>1. ASSUME NEW e \in Touching(b, s, r, source)
            PROVE  e \in (base + f)..(base + E)
        <5>1. e \in ESIs(b, s, source) /\ SymbolBytes(b, s, e, source) \cap (x..y) # {}
          BY ONLY <4>1, x = r.start, y = r.end DEF Touching
        <5>2. e \in Int /\ e - base \in 0..(n - 1) /\ BytesAt(o, next, L, e - base) \cap lo..hi # {}
          BY ONLY <1>3, <2>7, <5>1
        <5> QED BY ONLY <2>6, <3>1, <3>2, <5>2
      <4> QED BY ONLY <2>5, <2>8, <3>2, <4>1
    <3>3. CASE ~inclusive
      <4>1. ASSUME NEW e \in Filled(b, s, r, source)
            PROVE  e \in (base + f)..(base + E)
        <5>1. /\ e \in ESIs(b, s, source) /\ SymbolBytes(b, s, e, source) \subseteq x..y
              /\ Cardinality(SymbolBytes(b, s, e, source)) = L
          BY ONLY <4>1, x = r.start, y = r.end, L = b.ESLen DEF Filled
        <5>2. /\ e \in Int /\ e - base \in 0..(n - 1)
              /\ BytesAt(o, next, L, e - base) \subseteq lo..hi /\ o + L * (e - base) + L <= next
          BY ONLY <1>3, <2>7, <5>1
        <5> QED BY ONLY <2>6, <3>1, <3>3, <5>2
      <4>2. ASSUME NEW e \in (base + f)..(base + E)
            PROVE  e \in Filled(b, s, r, source)
        <5>1. e \in ESIs(b, s, source)
          BY ONLY <2>8, <4>2 DEF Touching
        <5>2. e \in Int /\ e - base \in 0..(n - 1) /\ e - base \in f..E
          BY ONLY <1>3, <2>6, <4>2, <5>1
        <5>3. BytesAt(o, next, L, e - base) \subseteq lo..hi /\ o + L * (e - base) + L <= next
          BY ONLY <3>1, <3>3, <5>2
        <5>4. /\ SymbolBytes(b, s, e, source) \subseteq x..y
              /\ Cardinality(SymbolBytes(b, s, e, source)) = L
          BY ONLY <1>3, <2>7, <5>1, <5>3
        <5> QED BY ONLY <5>1, <5>4, x = r.start, y = r.end, L = b.ESLen DEF Filled
      <4> QED BY ONLY <2>5, <3>3, <4>1, <4>2
    <3> QED BY ONLY <3>2, <3>3, inclusive \in BOOLEAN
  <2>11. /\ BlockRange(b, r, s, source, inclusive) \in RangeType
         /\ inclusive => BlockRange(b, r, s, source, inclusive).start
                                <= BlockRange(b, r, s, source, inclusive).end
    BY ONLY <2>1, <2>3, <2>4
  <2> QED BY ONLY <2>5, <2>8, <2>10, <2>11
<1> QED BY ONLY <1>4, <1>5

-----------------------------------------------------------------------------
(* A range is added, block by block *)

\* g[k] are the lists after k blocks, from `first` on.
Growing(g, m, b, er, r, first, source, inclusive) ==
  /\ g[0] = er
  /\ \A k \in 0..m : g[k] \in BlockLists(b)
  /\ \A k \in 1..m : g[k] = Added(g[k - 1], first + k - 1,
                                  BlockRange(b, r, first + k - 1, source, inclusive))

LEMMA RangeAddedSteps ==
  ASSUME NEW b \in Structures, NEW source \in BOOLEAN, NEW inclusive \in BOOLEAN,
         NEW er \in BlockLists(b), NEW r, InObject(r, b, source),
         NEW first, first = SBNOf(b, r.start, source),
         NEW m, m = SBNOf(b, r.end, source) - first + 1
  PROVE  \E g : /\ Growing(g, m, b, er, r, first, source, inclusive)
                /\ RangeAdded(b, er, r, source, inclusive) = g[m]
<1> DEFINE seq == [k \in 1..(SBNOf(b, r.end, source) - SBNOf(b, r.start, source) + 1) |->
                     SBNOf(b, r.start, source) + k - 1]
           Joins(f) == f = [s \in SUBSET DOMAIN seq |->
                              IF s = {} THEN er
                              ELSE BlockAdded(b, f[s \ {Max(s)}], r, seq[Max(s)], source, inclusive)]
<1> PICK it : it = CHOOSE f : Joins(f)
  OBVIOUS
<1>1. RangeAdded(b, er, r, source, inclusive) = it[DOMAIN seq]
  BY DEF RangeAdded, FoldLeft, MapThenFoldSet
<1>2. first \in Nat /\ m \in Nat /\ Spanned(b, r, source) = first..(first + m - 1)
  <2>1. /\ first \in Nat /\ SBNOf(b, r.end, source) \in Nat
        /\ first <= SBNOf(b, r.end, source)
    BY SpannedIs
  <2> PICK last \in Nat : last = SBNOf(b, r.end, source)
    BY <2>1
  <2>2. m \in Nat /\ first + m - 1 = last
    BY ONLY <2>1, last \in Nat, last = SBNOf(b, r.end, source), m = SBNOf(b, r.end, source) - first + 1
  <2> QED BY ONLY <2>1, <2>2, first = SBNOf(b, r.start, source), last = SBNOf(b, r.end, source)
          DEF Spanned
<1>3. DOMAIN seq = 1..m /\ \A k \in 1..m : seq[k] = first + k - 1
  OBVIOUS
<1> PICK sq : sq = seq
  OBVIOUS
<1>4. \A f : Joins(f) <=> f = [s \in SUBSET (1..m) |->
                              IF s = {} THEN er
                              ELSE BlockAdded(b, f[s \ {Max(s)}], r, sq[Max(s)], source, inclusive)]
  BY <1>3
<1> HIDE DEF Joins, seq
<1>5. ASSUME NEW k \in 1..m, NEW e
      PROVE  BlockAdded(b, e, r, sq[k], source, inclusive) =
               Added(e, first + k - 1, BlockRange(b, r, first + k - 1, source, inclusive))
  <2>1. sq[k] = first + k - 1
    BY <1>3
  <2> QED BY ONLY <2>1 DEF BlockAdded, BlockRange, BaseOf
<1>6. ASSUME NEW k \in 1..m, NEW e \in BlockLists(b)
      PROVE  BlockAdded(b, e, r, sq[k], source, inclusive) \in BlockLists(b)
  <2>1. first + k - 1 \in first..(first + m - 1)
    BY ONLY <1>2, k \in 1..m
  <2>2. first + k - 1 \in Spanned(b, r, source)
    BY ONLY <1>2, <2>1
  <2>3. first + k - 1 \in Blocks(b)
    BY ONLY <2>2, b \in Structures, source \in BOOLEAN, InObject(r, b, source), SpannedIs
  <2>4. BlockRange(b, r, first + k - 1, source, inclusive) \in RangeType
    BY ONLY <2>2, <2>3, b \in Structures, source \in BOOLEAN, inclusive \in BOOLEAN,
       InObject(r, b, source), NamesIs
  <2> QED BY ONLY <1>5, <2>3, <2>4, k \in 1..m, e \in BlockLists(b), AddedIs
<1>7. \E f : Joins(f)
  <2> PICK A : A = BlockLists(b)
    OBVIOUS
  <2> PICK Step : Step = [p \in (1..m) \X A |-> BlockAdded(b, p[2], r, sq[p[1]], source, inclusive)]
    OBVIOUS
  <2>1. \A k \in 1..m, e \in A :
           Step[<<k, e>>] = BlockAdded(b, e, r, sq[k], source, inclusive) /\ Step[<<k, e>>] \in A
    BY <1>6
  <2>2. PICK f \in [SUBSET (1..m) -> A] : FoldsLeft(f, m, er, Step)
    BY ONLY <1>2, <2>1, A = BlockLists(b), er \in BlockLists(b), LeftSolves
  <2>3. ASSUME NEW s \in SUBSET (1..m)
        PROVE  f[s] = IF s = {} THEN er
                      ELSE BlockAdded(b, f[s \ {Max(s)}], r, sq[Max(s)], source, inclusive)
    BY ONLY <2>1, <2>2, <2>3 DEF FoldsLeft
  <2>4. f = [s \in SUBSET (1..m) |-> IF s = {} THEN er
                      ELSE BlockAdded(b, f[s \ {Max(s)}], r, sq[Max(s)], source, inclusive)]
    BY ONLY <2>2, <2>3
  <2> QED BY <1>4, <2>4
<1>8. it = [s \in SUBSET (1..m) |-> IF s = {} THEN er
                      ELSE BlockAdded(b, it[s \ {Max(s)}], r, sq[Max(s)], source, inclusive)]
  BY <1>4, <1>7
<1> PICK g : g = [k \in 0..m |-> it[1..k]]
  OBVIOUS
<1>9. g[0] = er
  <2>1. 1..0 = {} /\ {} \in SUBSET (1..m) /\ 0 \in 0..m
    BY <1>2
  <2> QED BY ONLY <1>8, <2>1, g = [k \in 0..m |-> it[1..k]]
<1>10. ASSUME NEW k \in 1..m
       PROVE  /\ k \in 0..m /\ k - 1 \in 0..m
              /\ g[k] = BlockAdded(b, g[k - 1], r, sq[k], source, inclusive)
  <2>1. k \in 0..m /\ k - 1 \in 0..m /\ 1..k \in SUBSET (1..m)
    BY ONLY <1>2, k \in 1..m
  <2>2. Max(1..k) = k /\ (1..k) \ {k} = 1..(k - 1) /\ 1..k # {}
    BY ONLY <1>2, k \in 1..m, MaxPosition
  <2>3. it[1..k] = BlockAdded(b, it[1..(k - 1)], r, sq[k], source, inclusive)
    BY ONLY <1>8, <2>1, <2>2
  <2> QED BY ONLY <2>1, <2>3, g = [j \in 0..m |-> it[1..j]]
<1>11. \A k \in 0..m : g[k] \in BlockLists(b)
  <2> PICK P : P = {k \in 0..m : g[k] \in BlockLists(b)}
    OBVIOUS
  <2>1. 0 \in P
    BY ONLY <1>2, <1>9, er \in BlockLists(b), P = {k \in 0..m : g[k] \in BlockLists(b)}
  <2>2. \A k \in 1..m : k - 1 \in P => k \in P
    BY ONLY <1>6, <1>10, P = {k \in 0..m : g[k] \in BlockLists(b)}
  <2>3. \A k \in 0..m : k \in P
    BY ONLY <1>2, <2>1, <2>2, Upwards
  <2> QED BY ONLY <2>3, P = {k \in 0..m : g[k] \in BlockLists(b)}
<1>12. \A k \in 1..m : g[k] = Added(g[k - 1], first + k - 1,
                                  BlockRange(b, r, first + k - 1, source, inclusive))
  BY ONLY <1>5, <1>10
<1>13. RangeAdded(b, er, r, source, inclusive) = g[m]
  BY ONLY <1>1, <1>2, <1>3, m \in 0..m, g = [k \in 0..m |-> it[1..k]]
<1>14. Growing(g, m, b, er, r, first, source, inclusive)
  BY ONLY <1>9, <1>11, <1>12 DEF Growing
<1> QED BY ONLY <1>13, <1>14

\* The range names some symbols in every block it goes through, and none that
\* is listed.
NamesNew(b, r, er, source, inclusive) ==
  /\ \A t \in Spanned(b, r, source) : BlockRange(b, r, t, source, inclusive).start
                                         <= BlockRange(b, r, t, source, inclusive).end
  /\ \A t : Listed(er, t) \cap Names(b, r, t, source, inclusive) = {}

\* What the range adds.
LEMMA RangeAddedIs ==
  ASSUME NEW b \in Structures, NEW source \in BOOLEAN, NEW inclusive \in BOOLEAN,
         NEW er \in BlockLists(b), NEW r, InObject(r, b, source),
         NEW al, al = RangeAdded(b, er, r, source, inclusive)
  PROVE  /\ al \in BlockLists(b)
         /\ \A t : Listed(al, t) = Listed(er, t) \cup Names(b, r, t, source, inclusive)
         /\ Neat(er) /\ NamesNew(b, r, er, source, inclusive) => Neat(al)
<1> PICK first, m : first = SBNOf(b, r.start, source) /\ m = SBNOf(b, r.end, source) - first + 1
  OBVIOUS
<1>1. PICK g : /\ Growing(g, m, b, er, r, first, source, inclusive)
               /\ al = g[m]
  BY RangeAddedSteps
<1> PICK last \in Nat : last = SBNOf(b, r.end, source)
  BY SpannedIs
<1>2. first \in Nat /\ m \in Nat /\ first <= last /\ first + m - 1 = last
  <2>1. first \in Nat /\ first <= last
    BY SpannedIs
  <2> QED BY ONLY <2>1, last \in Nat, last = SBNOf(b, r.end, source),
             m = SBNOf(b, r.end, source) - first + 1
<1>3. Spanned(b, r, source) = first..last
  BY DEF Spanned
<1> PICK BR : BR = [t \in first..last |-> BlockRange(b, r, t, source, inclusive)]
  OBVIOUS
<1>4. \A t \in first..last : t \in Blocks(b) /\ BR[t] \in RangeType
                             /\ BR[t] = BlockRange(b, r, t, source, inclusive)
                             /\ (inclusive => BR[t].start <= BR[t].end)
  BY <1>3, SpannedIs, NamesIs
<1>5. \A t : Names(b, r, t, source, inclusive) =
               IF t \in first..last THEN BR[t].start..BR[t].end ELSE {}
  BY ONLY <1>3, <1>4 DEF Names
<1>6. ASSUME NEW k \in 1..m
      PROVE  /\ first + k - 1 \in first..last /\ k - 1 \in 0..m /\ k \in 0..m
             /\ g[k] = Added(g[k - 1], first + k - 1, BR[first + k - 1])
             /\ g[k - 1] \in BlockLists(b)
             /\ \A t : t \in first..(first + k - 1) <=> t \in first..(first + k - 2) \/ t = first + k - 1
             /\ ~(first + k - 1 \in first..(first + k - 2))
  <2>1. first + k - 1 \in first..last /\ k - 1 \in 0..m /\ k \in 0..m
    BY ONLY <1>2, k \in 1..m
  <2>2. /\ \A t : t \in first..(first + k - 1) <=> t \in first..(first + k - 2) \/ t = first + k - 1
        /\ ~(first + k - 1 \in first..(first + k - 2))
    BY ONLY <1>2, k \in 1..m
  <2> QED BY ONLY <1>1, <1>4, <2>1, <2>2, k \in 1..m DEF Growing
<1> DEFINE More(k, t) == IF t \in first..(first + k - 1) THEN BR[t].start..BR[t].end ELSE {}
<1> PICK P : P = {k \in 0..m : \A t : Listed(g[k], t) = Listed(er, t) \cup More(k, t)}
  OBVIOUS
<1>7. 0 \in P
  <2>1. \A t : More(0, t) = {}
    BY ONLY <1>2
  <2>2. g[0] = er /\ 0 \in 0..m
    BY ONLY <1>1, <1>2 DEF Growing
  <2> QED BY ONLY <2>1, <2>2, P = {k \in 0..m : \A t : Listed(g[k], t) = Listed(er, t) \cup More(k, t)}
<1>8. ASSUME NEW k \in 1..m, k - 1 \in P
      PROVE  k \in P
  <2> PICK s : s = first + k - 1
    OBVIOUS
  <2>1. \A t : Listed(g[k], t) = Listed(g[k - 1], t) \cup (IF t = s THEN BR[s].start..BR[s].end ELSE {})
    <3> PICK e : e = g[k - 1]
      OBVIOUS
    <3>1. s \in Blocks(b) /\ BR[s] \in RangeType /\ e \in BlockLists(b) /\ g[k] = Added(e, s, BR[s])
      BY ONLY <1>4, <1>6, s = first + k - 1, e = g[k - 1]
    <3>2. \A t : Listed(Added(e, s, BR[s]), t) =
                   Listed(e, t) \cup (IF t = s THEN BR[s].start..BR[s].end ELSE {})
      BY ONLY <3>1, AddedIs
    <3> QED BY ONLY <3>1, <3>2, e = g[k - 1]
  <2>2. \A t : Listed(g[k - 1], t) = Listed(er, t) \cup More(k - 1, t)
    BY ONLY <1>8, P = {j \in 0..m : \A t : Listed(g[j], t) = Listed(er, t) \cup More(j, t)}
  <2>3. first + (k - 1) - 1 = first + k - 2
    BY ONLY <1>2, k \in 1..m
  <2>4. \A t : More(k, t) = More(k - 1, t) \cup (IF t = s THEN BR[s].start..BR[s].end ELSE {})
    BY ONLY <1>6, <2>3, s = first + k - 1
  <2>5. \A t : Listed(g[k], t) = Listed(er, t) \cup More(k, t)
    <3> HIDE DEF More
    <3> QED BY ONLY <2>1, <2>2, <2>4
  <2> QED BY ONLY <1>6, <2>5, P = {j \in 0..m : \A t : Listed(g[j], t) = Listed(er, t) \cup More(j, t)}
<1>9. \A k \in 0..m : \A t : Listed(g[k], t) = Listed(er, t) \cup More(k, t)
  <2>1. \A k \in 0..m : k \in P
    BY ONLY <1>2, <1>7, <1>8, Upwards
  <2> QED BY ONLY <2>1, P = {j \in 0..m : \A t : Listed(g[j], t) = Listed(er, t) \cup More(j, t)}
<1>10. al \in BlockLists(b)
  BY ONLY <1>1, <1>2, m \in 0..m DEF Growing
<1>11. \A t : Listed(al, t) = Listed(er, t) \cup Names(b, r, t, source, inclusive)
  BY ONLY <1>1, <1>2, <1>5, <1>9, m \in 0..m
<1>12. ASSUME Neat(er), NamesNew(b, r, er, source, inclusive)
       PROVE  Neat(al)
  <2>0. /\ \A t \in first..last : BR[t].start <= BR[t].end
        /\ \A t : Listed(er, t) \cap Names(b, r, t, source, inclusive) = {}
    BY ONLY <1>3, <1>4, <1>12 DEF NamesNew
  <2> PICK Q : Q = {k \in 0..m : Neat(g[k])}
    OBVIOUS
  <2>1. 0 \in Q
    BY ONLY <1>1, <1>2, <1>12, Q = {k \in 0..m : Neat(g[k])} DEF Growing
  <2>2. ASSUME NEW k \in 1..m, k - 1 \in Q
        PROVE  k \in Q
    <3> PICK s : s = first + k - 1
      OBVIOUS
    <3>1. Listed(g[k - 1], s) = Listed(er, s)
      <4>1. first + (k - 1) - 1 = first + k - 2
        BY ONLY <1>2, k \in 1..m
      <4>2. More(k - 1, s) = {}
        BY ONLY <1>6, <4>1, s = first + k - 1
      <4> QED BY ONLY SMTT(30), <1>6, <1>9, <4>2
    <3>2. s \in first..last /\ Names(b, r, s, source, inclusive) = BR[s].start..BR[s].end
      BY ONLY <1>5, <1>6, s = first + k - 1
    <3>3. Listed(g[k - 1], s) \cap (BR[s].start..BR[s].end) = {}
      BY ONLY <2>0, <3>1, <3>2
    <3>4. Neat(g[k - 1]) /\ BR[s].start <= BR[s].end
      BY ONLY <2>0, <2>2, <3>2, Q = {j \in 0..m : Neat(g[j])}
    <3>5. Neat(Added(g[k - 1], s, BR[s]))
      BY ONLY <1>4, <1>6, <3>2, <3>3, <3>4, AddedIs
    <3> QED BY ONLY <1>6, <3>5, s = first + k - 1, Q = {j \in 0..m : Neat(g[j])}
  <2>3. \A k \in 0..m : k \in Q
    BY ONLY <1>2, <2>1, <2>2, Upwards
  <2> QED BY ONLY <1>1, <1>2, <2>3, m \in 0..m, Q = {j \in 0..m : Neat(g[j])}
<1> QED BY ONLY <1>10, <1>11, <1>12

-----------------------------------------------------------------------------
(* A list is added, range by range *)

\* The ranges that are none end the loop.
LEMMA FromListOk ==
  ASSUME NEW b, NEW source, NEW inclusive, NEW rl \in Seq(RangeType)
  PROVE  /\ ESIRangeFromRangeList(b, rl, source, inclusive).ok
               <=> \A k \in 1..Len(rl) : rl[k].start <= rl[k].end
<1> DEFINE I == {k \in 1..Len(rl) : rl[k].start > rl[k].end}
<1>1. SelectInSeq(rl, LAMBDA r : r.start > r.end) = IF I = {} THEN 0 ELSE Min(I)
  BY DEF SelectInSeq
<1> PICK bad : bad = SelectInSeq(rl, LAMBDA r : r.start > r.end)
  OBVIOUS
<1>2. I # {} => bad \in I
  <2>1. I \in SUBSET Nat
    OBVIOUS
  <2> PICK J : J = I
    OBVIOUS
  <2>2. J # {} => \E m \in J : \A k \in J : m <= k
    BY <2>1, LeastElement
  <2>3. J # {} => Min(J) \in J
    BY ONLY <2>2, Zenon DEF Min
  <2> QED BY <1>1, <2>3
<1>3. bad = 0 <=> I = {}
  <2>1. 0 \notin I
    OBVIOUS
  <2> HIDE DEF I
  <2> QED BY ONLY <1>1, <1>2, <2>1, bad = SelectInSeq(rl, LAMBDA r : r.start > r.end)
<1>4. I = {} <=> \A k \in 1..Len(rl) : rl[k].start <= rl[k].end
  BY ElementTyped
<1>5. ESIRangeFromRangeList(b, rl, source, inclusive).ok <=> bad = 0
  BY DEF ESIRangeFromRangeList, Ok, Error
<1> QED BY ONLY <1>3, <1>4, <1>5

\* g[k] are the lists after k ranges.
Collecting(g, b, rl, source, inclusive) ==
  /\ g[0] = NoESIs
  /\ \A k \in 0..Len(rl) : g[k] \in BlockLists(b)
  /\ \A k \in 1..Len(rl) : g[k] = RangeAdded(b, g[k - 1], rl[k], source, inclusive)

LEMMA NoListsAre ==
  ASSUME NEW b
  PROVE  NoESIs \in BlockLists(b) /\ DOMAIN NoESIs = {}
<1>1. DOMAIN <<>> = {} /\ <<>> \in [{} -> Seq(RangeType)]
  OBVIOUS
<1>2. {} \in SUBSET Blocks(b)
  OBVIOUS
<1> QED BY ONLY <1>1, <1>2 DEF NoESIs, BlockLists

FlattenedLists(l) == [s \in DOMAIN l |-> Flatten(l[s])]

LEMMA FromListSteps ==
  ASSUME NEW b \in Structures, NEW source \in BOOLEAN, NEW inclusive \in BOOLEAN,
         NEW rl \in Seq(RangeType), \A k \in 1..Len(rl) : InObject(rl[k], b, source)
  PROVE  \E g : /\ Collecting(g, b, rl, source, inclusive)
                /\ ESIRangeFromRangeList(b, rl, source, inclusive).value
                     = FlattenedLists(g[Len(rl)])
<1> DEFINE Joins(f) == f = [s \in SUBSET DOMAIN rl |->
                              IF s = {} THEN NoESIs
                              ELSE RangeAdded(b, f[s \ {Max(s)}], rl[Max(s)], source, inclusive)]
<1> PICK it : it = CHOOSE f : Joins(f)
  OBVIOUS
<1>1. ESIRangeFromRangeList(b, rl, source, inclusive).ok =>
        ESIRangeFromRangeList(b, rl, source, inclusive).value =
           [s \in DOMAIN it[DOMAIN rl] |-> Flatten(it[DOMAIN rl][s])]
  BY DEF ESIRangeFromRangeList, Ok, Error, FoldLeft, MapThenFoldSet
<1>2. ESIRangeFromRangeList(b, rl, source, inclusive).ok
  BY FromListOk DEF InObject
<1> PICK m \in Nat : m = Len(rl) /\ DOMAIN rl = 1..m
  OBVIOUS
<1>3. \A f : Joins(f) <=> f = [s \in SUBSET (1..m) |->
                              IF s = {} THEN NoESIs
                              ELSE RangeAdded(b, f[s \ {Max(s)}], rl[Max(s)], source, inclusive)]
  OBVIOUS
<1> HIDE DEF Joins
<1>4. ASSUME NEW k \in 1..m, NEW e \in BlockLists(b)
      PROVE  RangeAdded(b, e, rl[k], source, inclusive) \in BlockLists(b)
  <2>1. InObject(rl[k], b, source)
    OBVIOUS
  <2> QED BY ONLY <2>1, e \in BlockLists(b), b \in Structures, source \in BOOLEAN,
             inclusive \in BOOLEAN, RangeAddedIs
<1>5. \E f : Joins(f)
  <2> PICK A : A = BlockLists(b)
    OBVIOUS
  <2> PICK Step : Step = [p \in (1..m) \X A |-> RangeAdded(b, p[2], rl[p[1]], source, inclusive)]
    OBVIOUS
  <2>1. \A k \in 1..m, e \in A :
           Step[<<k, e>>] = RangeAdded(b, e, rl[k], source, inclusive) /\ Step[<<k, e>>] \in A
    BY <1>4
  <2>2. PICK f \in [SUBSET (1..m) -> A] : FoldsLeft(f, m, NoESIs, Step)
    BY ONLY <2>1, A = BlockLists(b), NoListsAre, LeftSolves, m \in Nat
  <2>3. ASSUME NEW s \in SUBSET (1..m)
        PROVE  f[s] = IF s = {} THEN NoESIs
                      ELSE RangeAdded(b, f[s \ {Max(s)}], rl[Max(s)], source, inclusive)
    BY ONLY <2>1, <2>2, <2>3 DEF FoldsLeft
  <2>4. f = [s \in SUBSET (1..m) |-> IF s = {} THEN NoESIs
                      ELSE RangeAdded(b, f[s \ {Max(s)}], rl[Max(s)], source, inclusive)]
    BY ONLY <2>2, <2>3
  <2> QED BY <1>3, <2>4
<1>6. it = [s \in SUBSET (1..m) |-> IF s = {} THEN NoESIs
                      ELSE RangeAdded(b, it[s \ {Max(s)}], rl[Max(s)], source, inclusive)]
  BY <1>3, <1>5
<1> PICK g : g = [k \in 0..m |-> it[1..k]]
  OBVIOUS
<1>7. g[0] = NoESIs
  <2>1. 1..0 = {} /\ {} \in SUBSET (1..m) /\ 0 \in 0..m
    OBVIOUS
  <2> QED BY ONLY <1>6, <2>1, g = [k \in 0..m |-> it[1..k]]
<1>8. ASSUME NEW k \in 1..m
      PROVE  /\ k \in 0..m /\ k - 1 \in 0..m
             /\ g[k] = RangeAdded(b, g[k - 1], rl[k], source, inclusive)
  <2>1. k \in 0..m /\ k - 1 \in 0..m /\ 1..k \in SUBSET (1..m)
    BY ONLY m \in Nat, k \in 1..m
  <2>2. Max(1..k) = k /\ (1..k) \ {k} = 1..(k - 1) /\ 1..k # {}
    BY ONLY m \in Nat, k \in 1..m, MaxPosition
  <2>3. it[1..k] = RangeAdded(b, it[1..(k - 1)], rl[k], source, inclusive)
    BY ONLY <1>6, <2>1, <2>2
  <2> QED BY ONLY <2>1, <2>3, g = [j \in 0..m |-> it[1..j]]
<1>9. \A k \in 0..m : g[k] \in BlockLists(b)
  <2> PICK P : P = {k \in 0..m : g[k] \in BlockLists(b)}
    OBVIOUS
  <2>1. 0 \in P
    BY ONLY <1>7, NoListsAre, m \in Nat, P = {k \in 0..m : g[k] \in BlockLists(b)}
  <2>2. \A k \in 1..m : k - 1 \in P => k \in P
    BY ONLY <1>4, <1>8, P = {k \in 0..m : g[k] \in BlockLists(b)}
  <2>3. \A k \in 0..m : k \in P
    BY ONLY m \in Nat, <2>1, <2>2, Upwards
  <2> QED BY ONLY <2>3, P = {k \in 0..m : g[k] \in BlockLists(b)}
<1>10. Collecting(g, b, rl, source, inclusive)
  BY ONLY <1>7, <1>8, <1>9, m = Len(rl) DEF Collecting
<1>11. g[m] = it[DOMAIN rl]
  BY ONLY m \in Nat, m \in 0..m, DOMAIN rl = 1..m, g = [k \in 0..m |-> it[1..k]]
<1> QED BY ONLY <1>1, <1>2, <1>10, <1>11, m = Len(rl) DEF FlattenedLists

\* The ranges name some symbols in every block they go through, and no symbol
\* twice.
NamesOnce(b, rl, source, inclusive) ==
  /\ \A k \in 1..Len(rl) : \A t \in Spanned(b, rl[k], source) :
        BlockRange(b, rl[k], t, source, inclusive).start
          <= BlockRange(b, rl[k], t, source, inclusive).end
  /\ \A k, l \in 1..Len(rl) : k < l =>
        \A t : Names(b, rl[k], t, source, inclusive) \cap Names(b, rl[l], t, source, inclusive) = {}

\* The symbols that some range of the list names.
AllNames(b, rl, t, source, inclusive) ==
  UNION {Names(b, rl[k], t, source, inclusive) : k \in 1..Len(rl)}

LEMMA CollectedIs ==
  ASSUME NEW b \in Structures, NEW source \in BOOLEAN, NEW inclusive \in BOOLEAN,
         NEW rl \in Seq(RangeType), \A k \in 1..Len(rl) : InObject(rl[k], b, source),
         NEW g, Collecting(g, b, rl, source, inclusive)
  PROVE  /\ \A t : Listed(g[Len(rl)], t) = AllNames(b, rl, t, source, inclusive)
         /\ NamesOnce(b, rl, source, inclusive) => Neat(g[Len(rl)])
<1> PICK m \in Nat : m = Len(rl)
  OBVIOUS
<1> DEFINE Upto(k, t) == UNION {Names(b, rl[j], t, source, inclusive) : j \in 1..k}
<1>1. ASSUME NEW k \in 1..m
      PROVE  /\ k \in 0..m /\ k - 1 \in 0..m /\ InObject(rl[k], b, source)
             /\ g[k - 1] \in BlockLists(b)
             /\ g[k] = RangeAdded(b, g[k - 1], rl[k], source, inclusive)
  BY DEF Collecting
<1>2. \A k \in 1..m : \A t : Upto(k, t) = Upto(k - 1, t) \cup Names(b, rl[k], t, source, inclusive)
  <2>1. ASSUME NEW k \in 1..m PROVE 1..k = (1..(k - 1)) \cup {k}
    BY ONLY k \in 1..m
  <2> QED BY ONLY <2>1
<1> PICK P : P = {k \in 0..m : \A t : Listed(g[k], t) = Upto(k, t)}
  OBVIOUS
<1>3. 0 \in P
  <2>1. g[0] = NoESIs
    BY DEF Collecting
  <2>2. \A t : Listed(NoESIs, t) = {}
    BY ONLY NoListsAre DEF Listed
  <2>3. \A t : Upto(0, t) = {}
    OBVIOUS
  <2> QED BY ONLY <2>1, <2>2, <2>3, m \in Nat, P = {k \in 0..m : \A t : Listed(g[k], t) = Upto(k, t)}
<1> HIDE DEF Upto
<1>4. ASSUME NEW k \in 1..m, k - 1 \in P
      PROVE  k \in P
  <2>1. \A t : Listed(g[k - 1], t) = Upto(k - 1, t)
    BY ONLY <1>4, P = {j \in 0..m : \A t : Listed(g[j], t) = Upto(j, t)}
  <2>2. \A t : Listed(g[k], t) = Listed(g[k - 1], t) \cup Names(b, rl[k], t, source, inclusive)
    BY ONLY <1>1, k \in 1..m, b \in Structures, source \in BOOLEAN, inclusive \in BOOLEAN,
       RangeAddedIs
  <2>3. \A t : Listed(g[k], t) = Upto(k, t)
    BY ONLY <1>2, <2>1, <2>2, k \in 1..m
  <2> QED BY ONLY <1>1, <2>3, P = {j \in 0..m : \A t : Listed(g[j], t) = Upto(j, t)}
<1>5. \A k \in 0..m : \A t : Listed(g[k], t) = Upto(k, t)
  <2>1. \A k \in 0..m : k \in P
    BY ONLY m \in Nat, <1>3, <1>4, Upwards
  <2> QED BY ONLY <2>1, P = {j \in 0..m : \A t : Listed(g[j], t) = Upto(j, t)}
<1>6. ASSUME NamesOnce(b, rl, source, inclusive)
      PROVE  Neat(g[m])
  <2> PICK Q : Q = {k \in 0..m : Neat(g[k])}
    OBVIOUS
  <2>1. 0 \in Q
    <3>1. g[0] = NoESIs
      BY DEF Collecting
    <3>2. Neat(NoESIs)
      BY ONLY NoListsAre DEF Neat
    <3> QED BY ONLY <3>1, <3>2, m \in Nat, Q = {k \in 0..m : Neat(g[k])}
  <2>2. ASSUME NEW k \in 1..m, k - 1 \in Q
        PROVE  k \in Q
    <3>1. \A t : Listed(g[k - 1], t) \cap Names(b, rl[k], t, source, inclusive) = {}
      <4>1. \A t : Listed(g[k - 1], t) = Upto(k - 1, t)
        BY ONLY <1>1, <1>5, k \in 1..m
      <4>2. ASSUME NEW t, NEW j \in 1..(k - 1)
            PROVE  Names(b, rl[j], t, source, inclusive)
                     \cap Names(b, rl[k], t, source, inclusive) = {}
        <5>1. j \in 1..m /\ j < k
          BY ONLY m \in Nat, k \in 1..m, j \in 1..(k - 1)
        <5> QED BY ONLY <1>6, <5>1, k \in 1..m, m = Len(rl) DEF NamesOnce
      <4>3. \A t : Upto(k - 1, t) \cap Names(b, rl[k], t, source, inclusive) = {}
        BY ONLY <4>2 DEF Upto
      <4> QED BY ONLY <4>1, <4>3
    <3>2. NamesNew(b, rl[k], g[k - 1], source, inclusive)
      BY ONLY <1>6, <3>1, k \in 1..m, m = Len(rl) DEF NamesOnce, NamesNew
    <3>3. Neat(g[k - 1])
      BY ONLY <2>2, Q = {j \in 0..m : Neat(g[j])}
    <3>4. Neat(g[k])
      BY ONLY <1>1, <3>2, <3>3, k \in 1..m, b \in Structures, source \in BOOLEAN,
         inclusive \in BOOLEAN, RangeAddedIs
    <3> QED BY ONLY <1>1, <3>4, k \in 1..m, Q = {j \in 0..m : Neat(g[j])}
  <2>3. \A k \in 0..m : k \in Q
    BY ONLY m \in Nat, <2>1, <2>2, Upwards
  <2> QED BY ONLY m \in Nat, m \in 0..m, <2>3, Q = {j \in 0..m : Neat(g[j])}
<1>7. \A t : Listed(g[m], t) = Upto(m, t)
  BY ONLY <1>5, m \in Nat, m \in 0..m
<1> QED BY ONLY <1>6, <1>7, m = Len(rl) DEF Upto, AllNames

LEMMA FromListIs ==
  ASSUME NEW b \in Structures, NEW source \in BOOLEAN, NEW inclusive \in BOOLEAN,
         NEW rl \in Seq(RangeType), \A k \in 1..Len(rl) : InObject(rl[k], b, source),
         NEW er, er = ESIRangeFromRangeList(b, rl, source, inclusive).value
  PROVE  /\ DOMAIN er \subseteq Blocks(b)
         /\ \A t : Listed(er, t) = AllNames(b, rl, t, source, inclusive)
         /\ NamesOnce(b, rl, source, inclusive) => InLists(er)
<1>1. PICK g : /\ Collecting(g, b, rl, source, inclusive)
               /\ er = FlattenedLists(g[Len(rl)])
  BY FromListSteps
<1> PICK l : l = g[Len(rl)]
  OBVIOUS
<1>2. l \in BlockLists(b)
  BY <1>1 DEF Collecting
<1>3. /\ \A t : Listed(l, t) = AllNames(b, rl, t, source, inclusive)
      /\ NamesOnce(b, rl, source, inclusive) => Neat(l)
  BY <1>1, CollectedIs
<1>4. DOMAIN er = DOMAIN l /\ \A s \in DOMAIN l : er[s] = Flatten(l[s])
  BY <1>1 DEF FlattenedLists
<1>5. DOMAIN l \subseteq Blocks(b) /\ \A s \in DOMAIN l : l[s] \in Seq(RangeType)
  BY <1>2, BlockListsAre
<1>6. \A s \in DOMAIN l : er[s] \in Seq(RangeType) /\ Offsets(er[s]) = Offsets(l[s])
  BY <1>4, <1>5, FlattenOffsets
<1>7. \A t : Listed(er, t) = Listed(l, t)
  BY <1>4, <1>6 DEF Listed
<1>8. ASSUME NamesOnce(b, rl, source, inclusive), NEW s \in DOMAIN er
      PROVE  er[s] \in Seq(RangeType) /\ Apart(er[s], 0) /\ er[s] # <<>>
  <2>1. Scattered(l[s]) /\ l[s] # <<>> /\ l[s] \in Seq(RangeType)
    BY <1>3, <1>4, <1>5, <1>8 DEF Neat
  <2>2. Normal(er[s])
    BY <1>4, <1>8, <2>1, FlattenScattered
  <2>3. er[s] \in Seq(RangeType) /\ Apart(er[s], 0)
    BY <1>4, <1>6, <1>8, <2>2, NormalIsApart
  <2>4. Offsets(l[s]) # {}
    <3>1. 1 \in 1..Len(l[s])
      BY <2>1
    <3> PICK a, c \in Int : a = l[s][1].start /\ c = l[s][1].end
      BY <2>1, <3>1, ElementTyped
    <3>2. a <= c
      BY <2>1, <3>1 DEF Scattered
    <3>3. a \in a..c
      BY <3>2
    <3> QED BY <2>1, <3>1, <3>3, InOffsets
  <2>5. Offsets(er[s]) # {}
    BY <1>4, <1>6, <1>8, <2>4
  <2> QED BY <2>3, <2>5, EmptyList
<1> QED BY <1>3, <1>4, <1>5, <1>7, <1>8 DEF InLists

\* A range that begins with a symbol and has a byte of another has the bytes
\* of this before it, too.
LEMMA OneRange ==
  ASSUME NEW b \in Structures, NEW source \in BOOLEAN, NEW r, InObject(r, b, source),
         Begins(b, r, source), NEW t \in Blocks(b), NEW e \in ESIs(b, t, source),
         NEW z \in SymbolBytes(b, t, e, source), z \in r.start..r.end
  PROVE  \A y \in SymbolBytes(b, t, e, source) : y <= z => y \in r.start..r.end
<1> PICK o, next, L, n, base : /\ o = OffsetOf(b, t, source) /\ next = OffsetOf(b, t + 1, source)
                               /\ L = b.ESLen /\ n = SymbolsOf(b, t, source)
                               /\ base = BaseOf(b, t, source)
  OBVIOUS
<1>1. /\ Holds(o, next, L, n) /\ base \in Nat /\ ESIs(b, t, source) = base..(base + n - 1)
      /\ \A d \in Int : SymbolBytes(b, t, d, source) = BytesAt(o, next, L, d - base)
  BY BlockIs
<1>2. o \in Nat /\ next \in Nat /\ L \in Nat \ {0} /\ n \in Nat
  BY <1>1 DEF Holds
<1>3. e \in Int /\ e - base \in 0..(n - 1)
  <2>1. e \in base..(base + n - 1)
    BY ONLY <1>1, e \in ESIs(b, t, source)
  <2> QED BY ONLY <1>1, <1>2, <2>1
<1> PICK q \in 0..(n - 1) : q = e - base
  BY <1>3
<1> PICK X \in Nat : X = L * q
  BY <1>2, ProductsOrder
<1>4. /\ SymbolBytes(b, t, e, source) = BytesAt(o, next, L, q)
      /\ BytesAt(o, next, L, q) \subseteq o..(next - 1)
      /\ \A x \in Int : x \in BytesAt(o, next, L, q) <=> o + X <= x /\ x < o + X + L /\ x < next
  <2>1. SymbolBytes(b, t, e, source) = BytesAt(o, next, L, q)
    BY <1>1, <1>3
  <2>2. /\ BytesAt(o, next, L, q) \subseteq o..(next - 1)
        /\ \A x \in Int : x \in BytesAt(o, next, L, q) <=> o + X <= x /\ x < o + X + L /\ x < next
    BY ONLY <1>1, q \in 0..(n - 1), X = L * q, SymbolIn
  <2> QED BY ONLY <2>1, <2>2
<1> PICK x, w \in Nat : x = r.start /\ w = r.end
  BY InObjectTyped
<1>5. z \in Int /\ x <= z /\ z <= w /\ o + X <= z /\ z < o + X + L /\ z < next
  <2>1. z \in Int /\ z \in BytesAt(o, next, L, q)
    BY ONLY <1>2, <1>4, z \in SymbolBytes(b, t, e, source)
  <2>2. x <= z /\ z <= w
    BY ONLY <2>1, z \in r.start..r.end, x = r.start, w = r.end, x \in Nat, w \in Nat
  <2> QED BY ONLY <1>4, <2>1, <2>2
<1>6. ASSUME o + X < x PROVE FALSE
  <2>1. x \in BytesAt(o, next, L, q) /\ x \in o..(next - 1)
    BY ONLY <1>2, <1>4, <1>5, <1>6, x \in Nat, X \in Nat
  <2> PICK s \in Blocks(b) : \E d \in ESIs(b, s, source) : x = Min(SymbolBytes(b, s, d, source))
    BY DEF Begins
  <2> PICK d \in ESIs(b, s, source) : x = Min(SymbolBytes(b, s, d, source))
    OBVIOUS
  <2>2. /\ OffsetOf(b, s, source) <= x /\ x < OffsetOf(b, s + 1, source)
        /\ \E p \in 0..(SymbolsOf(b, s, source) - 1) : x = OffsetOf(b, s, source) + L * p
    BY ONLY b \in Structures, source \in BOOLEAN, x = Min(SymbolBytes(b, s, d, source)),
       s \in Blocks(b), d \in ESIs(b, s, source), L = b.ESLen, FirstByteIs
  <2>3. o <= x /\ x < next
    BY ONLY <1>2, <2>1, x \in Nat
  <2>4. s = t
    BY ONLY <2>2, <2>3, b \in Structures, source \in BOOLEAN, s \in Blocks(b), t \in Blocks(b),
       x \in Nat, x \in Int, o = OffsetOf(b, t, source), next = OffsetOf(b, t + 1, source), InOneBlock
  <2> PICK p \in 0..(n - 1) : x = o + L * p
    BY ONLY <2>2, <2>4, o = OffsetOf(b, t, source), n = SymbolsOf(b, t, source)
  <2>5. x \in BytesAt(o, next, L, p)
    BY ONLY <1>1, p \in 0..(n - 1), x = o + L * p, SymbolIn
  <2>6. p = q
    BY ONLY <1>1, <2>1, <2>5, p \in 0..(n - 1), q \in 0..(n - 1), SymbolOf
  <2> QED BY ONLY <1>2, <1>6, <2>6, x = o + L * p, X = L * q, x \in Nat, X \in Nat
<1>7. ASSUME NEW y \in SymbolBytes(b, t, e, source), y <= z
      PROVE  y \in r.start..r.end
  <2>1. y \in Int /\ o + X <= y
    <3>1. y \in BytesAt(o, next, L, q) /\ y \in Int
      BY ONLY <1>2, <1>4, <1>7
    <3> QED BY ONLY <1>4, <3>1
  <2>2. x <= o + X
    BY ONLY <1>2, <1>6, x \in Nat, X \in Nat
  <2> QED BY ONLY <1>2, <1>5, <1>7, <2>1, <2>2, x = r.start, w = r.end, x \in Nat, w \in Nat, X \in Nat
<1> QED BY ONLY <1>7

LEMMA LastByteIn ==
  ASSUME NEW b \in Structures, NEW source \in BOOLEAN, NEW t \in Blocks(b),
         NEW e \in ESIs(b, t, source)
  PROVE  \E z \in SymbolBytes(b, t, e, source) : \A y \in SymbolBytes(b, t, e, source) : y <= z
<1> PICK o, next, L, n, base : /\ o = OffsetOf(b, t, source) /\ next = OffsetOf(b, t + 1, source)
                               /\ L = b.ESLen /\ n = SymbolsOf(b, t, source)
                               /\ base = BaseOf(b, t, source)
  OBVIOUS
<1>1. /\ Holds(o, next, L, n) /\ base \in Nat /\ ESIs(b, t, source) = base..(base + n - 1)
      /\ \A d \in Int : SymbolBytes(b, t, d, source) = BytesAt(o, next, L, d - base)
  BY BlockIs
<1>2. n \in Nat
  BY <1>1 DEF Holds
<1>3. e \in Int /\ e - base \in 0..(n - 1)
  <2>1. e \in base..(base + n - 1)
    BY ONLY <1>1, e \in ESIs(b, t, source)
  <2> QED BY ONLY <1>1, <1>2, <2>1
<1> PICK q \in 0..(n - 1) : q = e - base
  BY <1>3
<1>4. SymbolBytes(b, t, e, source) = BytesAt(o, next, L, q)
  BY <1>1, <1>3
<1> PICK a, c \in Int : a <= c /\ BytesAt(o, next, L, q) = a..c
  BY ONLY <1>1, q \in 0..(n - 1), SymbolRange
<1>5. c \in a..c /\ \A y \in a..c : y <= c
  BY ONLY a \in Int, c \in Int, a <= c
<1> QED BY ONLY <1>4, <1>5, BytesAt(o, next, L, q) = a..c

\* The symbols that a list names, in terms of the bytes of the whole list.
LEMMA AllNamesAre ==
  ASSUME NEW b \in Structures, NEW source \in BOOLEAN, NEW inclusive \in BOOLEAN,
         NEW rl \in Seq(RangeType), \A k \in 1..Len(rl) : InObject(rl[k], b, source),
         NEW t \in Blocks(b)
  PROVE  /\ AllNames(b, rl, t, source, inclusive) \subseteq Touched(b, t, rl, source)
         /\ (\A k \in 1..Len(rl) : Begins(b, rl[k], source)) =>
               AllNames(b, rl, t, source, inclusive) =
                 IF inclusive THEN Touched(b, t, rl, source)
                 ELSE Covered(b, t, rl, source) \cap Full(b, t, source)
<1> PICK m \in Nat : m = Len(rl)
  OBVIOUS
<1>1. ASSUME NEW k \in 1..m
      PROVE  /\ InObject(rl[k], b, source) /\ rl[k].start..rl[k].end \subseteq Offsets(rl)
             /\ Names(b, rl[k], t, source, inclusive) \subseteq Touching(b, t, rl[k], source)
             /\ Begins(b, rl[k], source) =>
                   Names(b, rl[k], t, source, inclusive) =
                     IF inclusive THEN Touching(b, t, rl[k], source) ELSE Filled(b, t, rl[k], source)
  <2>1. InObject(rl[k], b, source)
    OBVIOUS
  <2>2. rl[k].start..rl[k].end \subseteq Offsets(rl)
    BY InOffsets
  <2>3. /\ Names(b, rl[k], t, source, inclusive) \subseteq Touching(b, t, rl[k], source)
        /\ Begins(b, rl[k], source) =>
              Names(b, rl[k], t, source, inclusive) =
                IF inclusive THEN Touching(b, t, rl[k], source) ELSE Filled(b, t, rl[k], source)
    BY ONLY <2>1, b \in Structures, source \in BOOLEAN, inclusive \in BOOLEAN, t \in Blocks(b), NamesIs
  <2> QED BY ONLY <2>1, <2>2, <2>3
<1>2. \A x : x \in AllNames(b, rl, t, source, inclusive) <=>
               \E k \in 1..m : x \in Names(b, rl[k], t, source, inclusive)
  BY ONLY m = Len(rl), Zenon DEF AllNames
<1>3. \A z : z \in Offsets(rl) <=> \E k \in 1..m : z \in rl[k].start..rl[k].end
  BY InOffsets
<1>4. \A x : x \in Touched(b, t, rl, source) <=> \E k \in 1..m : x \in Touching(b, t, rl[k], source)
  <2>1. ASSUME NEW x
        PROVE  x \in Touched(b, t, rl, source) <=> \E k \in 1..m : x \in Touching(b, t, rl[k], source)
    <3>1. x \in Touched(b, t, rl, source) <=>
            /\ x \in ESIs(b, t, source)
            /\ \E z \in SymbolBytes(b, t, x, source) : z \in Offsets(rl)
      BY ONLY DEF Touched
    <3>2. ASSUME NEW k \in 1..m
          PROVE  x \in Touching(b, t, rl[k], source) <=>
            /\ x \in ESIs(b, t, source)
            /\ \E z \in SymbolBytes(b, t, x, source) : z \in rl[k].start..rl[k].end
      BY ONLY DEF Touching
    <3> QED BY ONLY <1>3, <3>1, <3>2, Zenon
  <2> QED BY ONLY <2>1
<1>5. AllNames(b, rl, t, source, inclusive) \subseteq Touched(b, t, rl, source)
  BY ONLY <1>1, <1>2, <1>4
<1>6. ASSUME \A k \in 1..m : Begins(b, rl[k], source), inclusive
      PROVE  AllNames(b, rl, t, source, inclusive) = Touched(b, t, rl, source)
  <2>1. \A k \in 1..m : Names(b, rl[k], t, source, inclusive) = Touching(b, t, rl[k], source)
    BY ONLY <1>1, <1>6
  <2> QED BY ONLY ZenonT(30), <1>2, <1>4, <2>1
<1>7. ASSUME \A k \in 1..m : Begins(b, rl[k], source), ~inclusive
      PROVE  AllNames(b, rl, t, source, inclusive)
               = Covered(b, t, rl, source) \cap Full(b, t, source)
  <2>1. \A k \in 1..m : Names(b, rl[k], t, source, inclusive) = Filled(b, t, rl[k], source)
    BY ONLY <1>1, <1>7
  <2>2. ASSUME NEW k \in 1..m, NEW x \in Filled(b, t, rl[k], source)
        PROVE  x \in Covered(b, t, rl, source) \cap Full(b, t, source)
    BY ONLY <1>1, <2>2 DEF Filled, Covered, Full
  <2>3. ASSUME NEW x \in Covered(b, t, rl, source) \cap Full(b, t, source)
        PROVE  \E k \in 1..m : x \in Filled(b, t, rl[k], source)
    <3>1. /\ x \in ESIs(b, t, source) /\ SymbolBytes(b, t, x, source) \subseteq Offsets(rl)
          /\ Cardinality(SymbolBytes(b, t, x, source)) = b.ESLen
      BY ONLY <2>3 DEF Covered, Full
    <3> PICK z \in SymbolBytes(b, t, x, source) : \A y \in SymbolBytes(b, t, x, source) : y <= z
      BY ONLY <3>1, b \in Structures, source \in BOOLEAN, t \in Blocks(b), LastByteIn
    <3> PICK k \in 1..m : z \in rl[k].start..rl[k].end
      BY ONLY <1>3, <3>1, z \in SymbolBytes(b, t, x, source)
    <3>2. \A y \in SymbolBytes(b, t, x, source) : y <= z => y \in rl[k].start..rl[k].end
      BY ONLY <1>1, <1>7, <3>1, k \in 1..m, z \in SymbolBytes(b, t, x, source),
         z \in rl[k].start..rl[k].end, b \in Structures, source \in BOOLEAN, t \in Blocks(b), OneRange
    <3>3. SymbolBytes(b, t, x, source) \subseteq rl[k].start..rl[k].end
      BY ONLY <3>2, \A y \in SymbolBytes(b, t, x, source) : y <= z
    <3> QED BY ONLY <3>1, <3>3, k \in 1..m DEF Filled
  <2> QED BY ONLY <1>2, <2>1, <2>2, <2>3
<1> QED BY ONLY <1>5, <1>6, <1>7, m = Len(rl), inclusive \in BOOLEAN

-----------------------------------------------------------------------------
(* Lists that no symbol is cut by *)

\* No two symbols have a byte in common.
LEMMA SymbolBytesApart ==
  ASSUME NEW b \in Structures, NEW source \in BOOLEAN, NEW s \in Blocks(b), NEW t \in Blocks(b),
         NEW e \in ESIs(b, s, source), NEW f \in ESIs(b, t, source),
         NEW x \in SymbolBytes(b, s, e, source), x \in SymbolBytes(b, t, f, source)
  PROVE  s = t /\ e = f
<1>1. x \in WholeBytes(b, s, e, source) /\ x \in WholeBytes(b, t, f, source)
  BY WholeBytesIs
<1>2. s = t
  BY <1>1, WholeBytesApart
<1>3. f # e => WholeBytes(b, s, e, source) \cap WholeBytes(b, s, f, source) = {}
  BY <1>2, WholeBytesIs
<1> QED BY <1>1, <1>2, <1>3

\* A symbol has some bytes in a row, of the block and so of the object.
LEMMA SymbolBytesAre ==
  ASSUME NEW b \in Structures, NEW source \in BOOLEAN, NEW t \in Blocks(b),
         NEW e \in ESIs(b, t, source)
  PROVE  /\ \E a, c \in Int : /\ a <= c /\ SymbolBytes(b, t, e, source) = a..c
                              /\ a = Min(SymbolBytes(b, t, e, source))
         /\ SymbolBytes(b, t, e, source) # {}
         /\ SymbolBytes(b, t, e, source)
              \subseteq OffsetOf(b, t, source)..(OffsetOf(b, t + 1, source) - 1)
         /\ SymbolBytes(b, t, e, source) \subseteq 0..(OffsetOf(b, b.N, source) - 1)
         /\ ~source => Cardinality(SymbolBytes(b, t, e, source)) = b.ESLen
<1> PICK o, next, L, n, base : /\ o = OffsetOf(b, t, source) /\ next = OffsetOf(b, t + 1, source)
                               /\ L = b.ESLen /\ n = SymbolsOf(b, t, source)
                               /\ base = BaseOf(b, t, source)
  OBVIOUS
<1>1. /\ Holds(o, next, L, n) /\ base \in Nat /\ ESIs(b, t, source) = base..(base + n - 1)
      /\ \A d \in Int : SymbolBytes(b, t, d, source) = BytesAt(o, next, L, d - base)
      /\ ~source => o + L * n = next
  BY BlockIs
<1>2. n \in Nat /\ o \in Nat /\ next \in Nat /\ L \in Nat \ {0}
  BY <1>1 DEF Holds
<1>3. e \in Int /\ e - base \in 0..(n - 1)
  <2>1. e \in base..(base + n - 1)
    BY ONLY <1>1, e \in ESIs(b, t, source)
  <2> QED BY ONLY <1>1, <1>2, <2>1
<1> PICK q \in 0..(n - 1) : q = e - base
  BY <1>3
<1>4. SymbolBytes(b, t, e, source) = BytesAt(o, next, L, q)
  BY <1>1, <1>3
<1> PICK a, c \in Int : a <= c /\ BytesAt(o, next, L, q) = a..c
  BY ONLY <1>1, q \in 0..(n - 1), SymbolRange
<1>5. Min(a..c) = a /\ a..c # {}
  <2>1. a \in a..c /\ \A z \in a..c : a <= z
    BY ONLY a <= c, a \in Int, c \in Int
  <2>2. \A m : m \in a..c /\ (\A z \in a..c : m <= z) => m = a
    BY ONLY <2>1, a \in Int, c \in Int
  <2> QED BY ONLY <2>1, <2>2, Zenon DEF Min
<1>6. BytesAt(o, next, L, q) \subseteq o..(next - 1)
  BY ONLY <1>1, q \in 0..(n - 1), SymbolIn
<1>7. o..(next - 1) \subseteq 0..(OffsetOf(b, b.N, source) - 1)
  <2> PICK N, top \in Nat : N = b.N /\ top = OffsetOf(b, b.N, source)
    <3>1. b.N \in Nat /\ b.N \in 0..b.N
      BY StructuresAssumption DEF AtRest
    <3> QED BY ONLY <3>1, b \in Structures, source \in BOOLEAN, BlocksRise
  <2>1. t + 1 \in 0..N /\ N \in 0..N /\ t + 1 <= N
    BY SMTT(30) DEF Blocks
  <2>2. next <= top
    BY ONLY <2>1, N = b.N, top = OffsetOf(b, b.N, source), next = OffsetOf(b, t + 1, source),
       b \in Structures, source \in BOOLEAN, BlocksRise
  <2> QED BY ONLY <1>2, <2>2, top \in Nat, top = OffsetOf(b, b.N, source)
<1>8. ASSUME ~source PROVE Cardinality(BytesAt(o, next, L, q)) = L
  <2>1. o + L * q + L <= next
    <3> PICK X, Y, Z \in Nat : X = L * q /\ Y = L * n /\ Z = L * (q + 1)
      <4>1. q \in Nat /\ q + 1 \in Nat
        BY ONLY <1>2, q \in 0..(n - 1)
      <4> QED BY ONLY <1>2, <4>1, ProductsOrder
    <3>1. Z = X + L
      BY ONLY SMTT(30),
         <1>2, L \in Int, q \in Int, q \in 0..(n - 1), X = L * q, Z = L * (q + 1), Products
    <3>2. Z <= Y
      <4>1. q + 1 \in Nat /\ q + 1 <= n
        BY ONLY <1>2, q \in 0..(n - 1)
      <4> QED BY ONLY <1>2, <4>1, Y = L * n, Z = L * (q + 1), ProductsOrder
    <3>3. o + Y = next
      BY ONLY <1>1, <1>8, Y = L * n
    <3>4. o + X + L <= next
      BY ONLY <1>2, <3>1, <3>2, <3>3, X \in Nat, Y \in Nat, Z \in Nat
    <3> QED BY ONLY <3>4, X = L * q
  <2> QED BY ONLY <1>1, <2>1, q \in 0..(n - 1), FullIs
<1>9. SymbolBytes(b, t, e, source) = a..c
  BY ONLY <1>4, BytesAt(o, next, L, q) = a..c
<1>10. \E u, v \in Int : /\ u <= v /\ SymbolBytes(b, t, e, source) = u..v
                         /\ u = Min(SymbolBytes(b, t, e, source))
  BY ONLY <1>5, <1>9, a \in Int, c \in Int, a <= c
<1> QED BY ONLY <1>4, <1>5, <1>6, <1>7, <1>8, <1>9, <1>10, o = OffsetOf(b, t, source),
           next = OffsetOf(b, t + 1, source), L = b.ESLen

\* Every byte of a block is in a symbol of it.
LEMMA SymbolAt ==
  ASSUME NEW b \in Structures, NEW source \in BOOLEAN, NEW t \in Blocks(b),
         NEW x \in OffsetOf(b, t, source)..(OffsetOf(b, t + 1, source) - 1)
  PROVE  \E e \in ESIs(b, t, source) : x \in SymbolBytes(b, t, e, source)
<1> PICK o, next, L, n, base : /\ o = OffsetOf(b, t, source) /\ next = OffsetOf(b, t + 1, source)
                               /\ L = b.ESLen /\ n = SymbolsOf(b, t, source)
                               /\ base = BaseOf(b, t, source)
  OBVIOUS
<1>1. /\ Holds(o, next, L, n) /\ base \in Nat /\ ESIs(b, t, source) = base..(base + n - 1)
      /\ \A d \in Int : SymbolBytes(b, t, d, source) = BytesAt(o, next, L, d - base)
  BY BlockIs
<1>2. n \in Nat
  BY <1>1 DEF Holds
<1> PICK q \in 0..(n - 1) : x \in BytesAt(o, next, L, q)
  BY ONLY <1>1, x \in OffsetOf(b, t, source)..(OffsetOf(b, t + 1, source) - 1),
     o = OffsetOf(b, t, source), next = OffsetOf(b, t + 1, source), SymbolOf
<1> PICK e \in Int : e = base + q
  BY <1>1, <1>2
<1>3. e - base = q /\ e \in base..(base + n - 1)
  BY ONLY <1>1, <1>2, e = base + q, q \in 0..(n - 1), e \in Int
<1> QED BY ONLY <1>1, <1>3, e \in Int, x \in BytesAt(o, next, L, q)

\* The bytes of some symbols: all of these, and of no other.
LEMMA BytesOfESIsAre ==
  ASSUME NEW b \in Structures, NEW source \in BOOLEAN, NEW er, SymbolLists(er, b, source)
  PROVE  /\ BytesOfESIs(b, er, source) \subseteq 0..(OffsetOf(b, b.N, source) - 1)
         /\ \A t \in Blocks(b) : \A e \in ESIs(b, t, source) :
               /\ e \in Listed(er, t) =>
                    SymbolBytes(b, t, e, source) \subseteq BytesOfESIs(b, er, source)
               /\ e \notin Listed(er, t) =>
                    SymbolBytes(b, t, e, source) \cap BytesOfESIs(b, er, source) = {}
<1> DEFINE Of(s) == UNION {SymbolBytes(b, s, e, source) : e \in Offsets(er[s]) \cap ESIs(b, s, source)}
<1>1. ASSUME NEW x
      PROVE  x \in BytesOfESIs(b, er, source) <=>
               \E s \in DOMAIN er : \E e \in Listed(er, s) \cap ESIs(b, s, source) :
                  x \in SymbolBytes(b, s, e, source)
  <2>1. BytesOfESIs(b, er, source) = UNION {Of(s) : s \in DOMAIN er}
    BY ONLY DEF BytesOfESIs
  <2>2. ASSUME NEW s \in DOMAIN er
        PROVE  x \in Of(s) <=> \E e \in Listed(er, s) \cap ESIs(b, s, source) :
                                  x \in SymbolBytes(b, s, e, source)
    <3>1. Listed(er, s) = Offsets(er[s])
      BY ONLY s \in DOMAIN er DEF Listed
    <3>2. Of(s) = UNION {SymbolBytes(b, s, e, source) : e \in Listed(er, s) \cap ESIs(b, s, source)}
      BY ONLY <3>1, Zenon
    <3> HIDE DEF Of
    <3> QED BY ONLY <3>2, Zenon
  <2>3. x \in BytesOfESIs(b, er, source) <=> \E s \in DOMAIN er : x \in Of(s)
    <3> HIDE DEF Of
    <3> QED BY ONLY <2>1, Zenon
  <2> HIDE DEF Of
  <2> QED BY ONLY <2>2, <2>3, Zenon
<1> HIDE DEF Of
<1>2. DOMAIN er \subseteq Blocks(b)
  BY DEF SymbolLists
<1>3. BytesOfESIs(b, er, source) \subseteq 0..(OffsetOf(b, b.N, source) - 1)
  <2>1. ASSUME NEW s \in DOMAIN er, NEW e \in ESIs(b, s, source)
        PROVE  SymbolBytes(b, s, e, source) \subseteq 0..(OffsetOf(b, b.N, source) - 1)
    <3>1. s \in Blocks(b)
      BY ONLY <1>2, s \in DOMAIN er
    <3> QED BY ONLY <3>1, e \in ESIs(b, s, source), b \in Structures, source \in BOOLEAN, SymbolBytesAre
  <2> QED BY ONLY <1>1, <2>1
<1>4. ASSUME NEW t \in Blocks(b), NEW e \in ESIs(b, t, source), e \in Listed(er, t)
      PROVE  SymbolBytes(b, t, e, source) \subseteq BytesOfESIs(b, er, source)
  <2>1. t \in DOMAIN er
    BY <1>4 DEF Listed
  <2> QED BY ONLY <1>1, <1>4, <2>1
<1>5. ASSUME NEW t \in Blocks(b), NEW e \in ESIs(b, t, source), e \notin Listed(er, t),
             NEW x \in SymbolBytes(b, t, e, source), x \in BytesOfESIs(b, er, source)
      PROVE  FALSE
  <2> PICK s \in DOMAIN er : \E f \in Listed(er, s) \cap ESIs(b, s, source) :
                                x \in SymbolBytes(b, s, f, source)
    BY ONLY <1>1, <1>5
  <2> PICK f \in Listed(er, s) \cap ESIs(b, s, source) : x \in SymbolBytes(b, s, f, source)
    OBVIOUS
  <2>1. s \in Blocks(b)
    BY ONLY <1>2, s \in DOMAIN er
  <2>2. s = t /\ f = e
    BY ONLY <1>5, <2>1, f \in Listed(er, s) \cap ESIs(b, s, source), x \in SymbolBytes(b, s, f, source),
       b \in Structures, source \in BOOLEAN, SymbolBytesApart
  <2> QED BY ONLY <1>5, <2>2, f \in Listed(er, s) \cap ESIs(b, s, source)
<1> QED BY ONLY <1>3, <1>4, <1>5

\* A normal list of bytes of the object that has all or none of each symbol.
Aligned(b, list, source) ==
  /\ list \in Seq(RangeType) /\ Normal(list)
  /\ Offsets(list) \subseteq 0..(OffsetOf(b, b.N, source) - 1)
  /\ \A t \in Blocks(b) : \A e \in ESIs(b, t, source) :
        \/ SymbolBytes(b, t, e, source) \cap Offsets(list) = {}
        \/ SymbolBytes(b, t, e, source) \subseteq Offsets(list)

\* Each range of it has all or none of each symbol.
LEMMA AlignedRange ==
  ASSUME NEW b \in Structures, NEW source \in BOOLEAN, NEW list, Aligned(b, list, source),
         NEW k \in 1..Len(list), NEW t \in Blocks(b), NEW e \in ESIs(b, t, source),
         NEW x \in SymbolBytes(b, t, e, source), x \in list[k].start..list[k].end
  PROVE  /\ SymbolBytes(b, t, e, source) \subseteq list[k].start..list[k].end
         /\ \A m \in 1..Len(list) : x \in list[m].start..list[m].end => m = k
<1>1. list \in Seq(RangeType) /\ Normal(list) /\ Apart(list, 0)
  BY NormalIsApart DEF Aligned
<1>2. ASSUME NEW m \in 1..Len(list), x \in list[m].start..list[m].end
      PROVE  m = k
  <2>1. ASSUME NEW p \in 1..Len(list), NEW q \in 1..Len(list), p < q,
               x \in list[p].start..list[p].end, x \in list[q].start..list[q].end
        PROVE  FALSE
    <3>1. list[p].end < list[q].start
      BY ONLY <1>1, <2>1, InOrder
    <3> PICK a, c, u, v \in Int : /\ a = list[p].start /\ c = list[p].end
                                  /\ u = list[q].start /\ v = list[q].end
      BY ONLY <1>1, <2>1, ElementTyped
    <3>2. x \in a..c /\ x \in u..v
      BY ONLY <2>1, a = list[p].start, c = list[p].end, u = list[q].start, v = list[q].end
    <3> QED BY ONLY SMTT(30),
               <3>1, <3>2, c = list[p].end, u = list[q].start, a \in Int, c \in Int, u \in Int, v \in Int
  <2>2. m \in Nat /\ k \in Nat
    BY <1>1
  <2> QED BY ONLY <1>2, <2>1, <2>2, k \in 1..Len(list), x \in list[k].start..list[k].end
<1>3. SymbolBytes(b, t, e, source) \subseteq Offsets(list)
  <2>1. x \in Offsets(list)
    BY <1>1, InOffsets
  <2> QED BY <2>1 DEF Aligned
<1> PICK a, c \in Int : a <= c /\ SymbolBytes(b, t, e, source) = a..c
  BY SymbolBytesAre
<1>4. a..c \subseteq Offsets(list)
  BY <1>3
<1> PICK m \in 1..Len(list) : list[m].start <= a /\ c <= list[m].end
  BY ONLY <1>1, <1>4, a \in Int, c \in Int, a <= c, InOneRange
<1>5. a..c \subseteq list[m].start..list[m].end
  <2>1. list[m].start \in Int /\ list[m].end \in Int
    BY ONLY <1>1, m \in 1..Len(list), ElementTyped
  <2> PICK u, v \in Int : u = list[m].start /\ v = list[m].end
    BY <2>1
  <2>2. a..c \subseteq u..v
    BY ONLY SMTT(30),
       u \in Int, v \in Int, a \in Int, c \in Int, u = list[m].start, v = list[m].end,
       list[m].start <= a, c <= list[m].end
  <2> QED BY ONLY <2>2, u = list[m].start, v = list[m].end
<1>6. m = k
  <2>1. x \in list[m].start..list[m].end
    BY ONLY <1>5, x \in SymbolBytes(b, t, e, source), SymbolBytes(b, t, e, source) = a..c
  <2> QED BY ONLY <1>2, <2>1, m \in 1..Len(list)
<1> QED BY ONLY <1>2, <1>5, <1>6, SymbolBytes(b, t, e, source) = a..c

LEMMA AlignedTyped ==
  ASSUME NEW b \in Structures, NEW source \in BOOLEAN, NEW list, Aligned(b, list, source),
         NEW k \in 1..Len(list)
  PROVE  /\ InObject(list[k], b, source)
         /\ list[k].start \in Nat /\ list[k].end \in Nat /\ list[k].start <= list[k].end
<1>1. list \in Seq(RangeType) /\ Apart(list, 0)
  BY NormalIsApart DEF Aligned
<1>2. list[k] \in RangeType /\ list[k].start <= list[k].end
  BY <1>1, 0 \in Nat, ElementTyped, InApart
<1>3. list[k].start \in Offsets(list) /\ list[k].end \in Offsets(list)
  BY <1>1, <1>2, EndsInOffsets
<1> PICK top \in Nat : top = OffsetOf(b, b.N, source)
  <2>1. b.N \in Nat /\ b.N \in 0..b.N
    BY StructuresAssumption DEF AtRest
  <2> QED BY ONLY <2>1, b \in Structures, source \in BOOLEAN, BlocksRise
<1>4. list[k].start \in 0..(top - 1) /\ list[k].end \in 0..(top - 1)
  BY <1>3 DEF Aligned
<1>5. list[k].start \in Nat /\ list[k].end \in Nat /\ list[k].end < top /\ 0 <= list[k].start
  BY ONLY <1>4, top \in Nat
<1> QED BY ONLY <1>2, <1>5, top = OffsetOf(b, b.N, source) DEF InObject

\* A range begins with a symbol, and names those of which it has a byte.
NamesTouched(b, r, source, inclusive) ==
  /\ Begins(b, r, source)
  /\ \A t \in Blocks(b) : Names(b, r, t, source, inclusive) = Touching(b, t, r, source)
  /\ \A t \in Spanned(b, r, source) : BlockRange(b, r, t, source, inclusive).start
                                        <= BlockRange(b, r, t, source, inclusive).end

\* Each range of such a list does.
LEMMA AlignedNames ==
  ASSUME NEW b \in Structures, NEW source \in BOOLEAN, NEW inclusive \in BOOLEAN,
         inclusive \/ ~source, NEW list, Aligned(b, list, source), NEW k \in 1..Len(list)
  PROVE  NamesTouched(b, list[k], source, inclusive)
<1> PICK r : r = list[k]
  OBVIOUS
<1>1. /\ InObject(r, b, source)
      /\ r.start \in Nat /\ r.end \in Nat /\ r.start <= r.end
  BY AlignedTyped
<1> PICK x, y \in Nat : x = r.start /\ y = r.end /\ x <= y
  BY <1>1
<1>2. ASSUME NEW t \in Blocks(b), NEW e \in ESIs(b, t, source), NEW z \in SymbolBytes(b, t, e, source),
             z \in x..y
      PROVE  SymbolBytes(b, t, e, source) \subseteq x..y
  BY ONLY <1>2, b \in Structures, source \in BOOLEAN, Aligned(b, list, source), k \in 1..Len(list),
     r = list[k], x = r.start, y = r.end, AlignedRange
<1>3. Begins(b, r, source)
  <2> PICK t : t = SBNOf(b, x, source)
    OBVIOUS
  <2>1. x \in 0..(OffsetOf(b, b.N, source) - 1)
    BY <1>1, InObjectTyped
  <2>2. t \in Blocks(b) /\ OffsetOf(b, t, source) <= x /\ x < OffsetOf(b, t + 1, source)
    BY ONLY <2>1, t = SBNOf(b, x, source), b \in Structures, source \in BOOLEAN, SBNOfIs
  <2>3. OffsetOf(b, t, source) \in Nat /\ OffsetOf(b, t + 1, source) \in Nat
    BY ONLY <1>1, <2>2, b \in Structures, source \in BOOLEAN, SpannedIs
  <2>4. x \in OffsetOf(b, t, source)..(OffsetOf(b, t + 1, source) - 1)
    BY ONLY <2>2, <2>3, x \in Nat
  <2> PICK e \in ESIs(b, t, source) : x \in SymbolBytes(b, t, e, source)
    BY ONLY <2>2, <2>4, b \in Structures, source \in BOOLEAN, SymbolAt
  <2>5. x \in x..y
    BY ONLY x \in Nat, y \in Nat, x <= y
  <2>6. SymbolBytes(b, t, e, source) \subseteq x..y
    BY ONLY <1>2, <2>2, <2>5, x \in SymbolBytes(b, t, e, source), e \in ESIs(b, t, source)
  <2> PICK a, c \in Int : /\ a <= c /\ SymbolBytes(b, t, e, source) = a..c
                          /\ a = Min(SymbolBytes(b, t, e, source))
    BY ONLY <2>2, e \in ESIs(b, t, source), b \in Structures, source \in BOOLEAN, SymbolBytesAre
  <2>7. a = x
    <3>1. a \in x..y /\ x \in a..c
      BY ONLY <2>6, SymbolBytes(b, t, e, source) = a..c, x \in SymbolBytes(b, t, e, source), a <= c,
         a \in Int, c \in Int
    <3> QED BY ONLY <3>1, a \in Int, c \in Int, x \in Nat, y \in Nat
  <2> QED BY ONLY <2>2, <2>7, e \in ESIs(b, t, source), a = Min(SymbolBytes(b, t, e, source)),
             x \in SymbolBytes(b, t, e, source), x = r.start DEF Begins
<1>4. ASSUME NEW t \in Blocks(b)
      PROVE  Names(b, r, t, source, inclusive) = Touching(b, t, r, source)
  <2>1. Names(b, r, t, source, inclusive) =
          IF inclusive THEN Touching(b, t, r, source) ELSE Filled(b, t, r, source)
    BY ONLY <1>1, <1>3, <1>4, b \in Structures, source \in BOOLEAN, inclusive \in BOOLEAN, NamesIs
  <2>2. ASSUME ~source
        PROVE  Filled(b, t, r, source) = Touching(b, t, r, source)
    <3>1. ASSUME NEW e \in ESIs(b, t, source)
          PROVE  /\ Cardinality(SymbolBytes(b, t, e, source)) = b.ESLen
                 /\ SymbolBytes(b, t, e, source) # {}
      BY ONLY <1>4, <2>2, <3>1, b \in Structures, source \in BOOLEAN, SymbolBytesAre
    <3>2. ASSUME NEW e \in ESIs(b, t, source)
          PROVE  SymbolBytes(b, t, e, source) \subseteq x..y
                    <=> SymbolBytes(b, t, e, source) \cap (x..y) # {}
      <4>1. ASSUME SymbolBytes(b, t, e, source) \cap (x..y) # {}
            PROVE  SymbolBytes(b, t, e, source) \subseteq x..y
        BY ONLY <1>2, <1>4, <3>2, <4>1
      <4> QED BY ONLY <3>1, <4>1, e \in ESIs(b, t, source)
    <3> QED BY ONLY <3>1, <3>2, x = r.start, y = r.end DEF Filled, Touching
  <2> QED BY ONLY <2>1, <2>2, inclusive \/ ~source, inclusive \in BOOLEAN
<1>5. ASSUME NEW t \in Spanned(b, r, source)
      PROVE  BlockRange(b, r, t, source, inclusive).start
                 <= BlockRange(b, r, t, source, inclusive).end
  <2>1. /\ t \in Blocks(b) /\ OffsetOf(b, t, source) \in Nat /\ OffsetOf(b, t + 1, source) \in Nat
        /\ OffsetOf(b, t, source) < OffsetOf(b, t + 1, source)
        /\ OffsetOf(b, t, source) <= y /\ x < OffsetOf(b, t + 1, source)
    BY ONLY <1>1, <1>5, b \in Structures, source \in BOOLEAN, x = r.start, y = r.end, SpannedIs
  <2> PICK o, next \in Nat : o = OffsetOf(b, t, source) /\ next = OffsetOf(b, t + 1, source)
    BY <2>1
  <2> PICK z \in Nat : z \in x..y /\ z \in o..(next - 1)
    <3>1. CASE x <= o
      BY ONLY <2>1, <3>1, x \in Nat, y \in Nat, o \in Nat, next \in Nat, o = OffsetOf(b, t, source),
         next = OffsetOf(b, t + 1, source), o \in x..y, o \in o..(next - 1)
    <3>2. CASE o < x
      BY ONLY <2>1, <3>2, x \in Nat, y \in Nat, o \in Nat, next \in Nat, o = OffsetOf(b, t, source),
         next = OffsetOf(b, t + 1, source), x <= y, x \in x..y, x \in o..(next - 1)
    <3> QED BY SMTT(30), <3>1, <3>2
  <2> PICK e \in ESIs(b, t, source) : z \in SymbolBytes(b, t, e, source)
    BY ONLY <2>1, z \in o..(next - 1), o = OffsetOf(b, t, source), next = OffsetOf(b, t + 1, source),
       b \in Structures, source \in BOOLEAN, SymbolAt
  <2>2. e \in Touching(b, t, r, source)
    BY ONLY e \in ESIs(b, t, source), z \in SymbolBytes(b, t, e, source), z \in x..y, x = r.start,
       y = r.end DEF Touching
  <2>3. e \in Names(b, r, t, source, inclusive)
    BY ONLY <1>4, <2>1, <2>2
  <2>4. BlockRange(b, r, t, source, inclusive) \in RangeType
    BY ONLY <1>1, <1>5, <2>1, b \in Structures, source \in BOOLEAN, inclusive \in BOOLEAN, NamesIs
  <2> PICK p, q \in Int : /\ p = BlockRange(b, r, t, source, inclusive).start
                          /\ q = BlockRange(b, r, t, source, inclusive).end
    BY ONLY <2>4 DEF RangeType
  <2>5. e \in p..q
    BY ONLY <1>5, <2>3, p = BlockRange(b, r, t, source, inclusive).start,
       q = BlockRange(b, r, t, source, inclusive).end DEF Names
  <2>6. p <= q
    BY ONLY <2>5, p \in Int, q \in Int
  <2> QED BY ONLY <2>6, p = BlockRange(b, r, t, source, inclusive).start,
       q = BlockRange(b, r, t, source, inclusive).end
<1> QED BY ONLY <1>3, <1>4, <1>5, r = list[k] DEF NamesTouched

\* ESIRangeFromRangeList of such a list: the symbols it has.
LEMMA AlignedIs ==
  ASSUME NEW b \in Structures, NEW source \in BOOLEAN, NEW inclusive \in BOOLEAN,
         inclusive \/ ~source, NEW list, Aligned(b, list, source),
         NEW er, er = ESIRangeFromRangeList(b, list, source, inclusive).value
  PROVE  /\ InLists(er) /\ DOMAIN er \subseteq Blocks(b)
         /\ \A t \in Blocks(b) : Listed(er, t) = Touched(b, t, list, source)
<1>1. list \in Seq(RangeType)
  BY DEF Aligned
<1>2. \A k \in 1..Len(list) : InObject(list[k], b, source)
  BY AlignedTyped
<1>3. ASSUME NEW k \in 1..Len(list)
      PROVE  /\ Begins(b, list[k], source)
             /\ \A t \in Blocks(b) :
                  Names(b, list[k], t, source, inclusive) = Touching(b, t, list[k], source)
             /\ \A t \in Spanned(b, list[k], source) :
                  BlockRange(b, list[k], t, source, inclusive).start
                    <= BlockRange(b, list[k], t, source, inclusive).end
  <2>1. NamesTouched(b, list[k], source, inclusive)
    BY AlignedNames
  <2> QED BY ONLY <2>1, Zenon DEF NamesTouched
<1>4. ASSUME NEW k \in 1..Len(list), NEW l \in 1..Len(list), k < l, NEW t,
             NEW e \in Names(b, list[k], t, source, inclusive),
             e \in Names(b, list[l], t, source, inclusive)
      PROVE  FALSE
  <2>1. t \in Blocks(b)
    <3>1. t \in Spanned(b, list[k], source)
      BY <1>4 DEF Names
    <3> QED BY <1>2, <3>1, SpannedIs
  <2>2. e \in Touching(b, t, list[k], source) /\ e \in Touching(b, t, list[l], source)
    BY ONLY <1>3, <1>4, <2>1
  <2>3. e \in ESIs(b, t, source)
    BY ONLY <2>2 DEF Touching
  <2> PICK x \in SymbolBytes(b, t, e, source) : x \in list[k].start..list[k].end
    BY ONLY <2>2 DEF Touching
  <2> PICK y \in SymbolBytes(b, t, e, source) : y \in list[l].start..list[l].end
    BY ONLY <2>2 DEF Touching
  <2>4. /\ SymbolBytes(b, t, e, source) \subseteq list[k].start..list[k].end
    BY ONLY <2>1, <2>3, b \in Structures, source \in BOOLEAN, Aligned(b, list, source),
       k \in 1..Len(list), x \in SymbolBytes(b, t, e, source), x \in list[k].start..list[k].end,
       AlignedRange
  <2>5. \A m \in 1..Len(list) : y \in list[m].start..list[m].end => m = l
    BY ONLY <2>1, <2>3, b \in Structures, source \in BOOLEAN, Aligned(b, list, source),
       l \in 1..Len(list), y \in SymbolBytes(b, t, e, source), y \in list[l].start..list[l].end,
       AlignedRange
  <2>6. k = l
    BY ONLY <2>4, <2>5, y \in SymbolBytes(b, t, e, source), k \in 1..Len(list)
  <2> QED BY ONLY <1>1, <1>4, <2>6, Len(list) \in Nat
<1>5. NamesOnce(b, list, source, inclusive)
  BY ONLY <1>3, <1>4 DEF NamesOnce
<1>6. /\ DOMAIN er \subseteq Blocks(b)
      /\ \A t : Listed(er, t) = AllNames(b, list, t, source, inclusive)
      /\ InLists(er)
  BY ONLY <1>1, <1>2, <1>5, b \in Structures, source \in BOOLEAN, inclusive \in BOOLEAN,
     er = ESIRangeFromRangeList(b, list, source, inclusive).value, FromListIs
<1>7. ASSUME NEW t \in Blocks(b)
      PROVE  AllNames(b, list, t, source, inclusive) = Touched(b, t, list, source)
  <2>1. \A x : x \in AllNames(b, list, t, source, inclusive) <=>
               \E k \in 1..Len(list) : x \in Touching(b, t, list[k], source)
    <3>1. \A k \in 1..Len(list) : Names(b, list[k], t, source, inclusive)
                                    = Touching(b, t, list[k], source)
      BY ONLY <1>3, <1>7
    <3> QED BY ONLY <3>1, Zenon DEF AllNames
  <2>2. \A z : z \in Offsets(list) <=> \E k \in 1..Len(list) : z \in list[k].start..list[k].end
    BY <1>1, InOffsets
  <2>3. ASSUME NEW x
        PROVE  x \in Touched(b, t, list, source)
                  <=> \E k \in 1..Len(list) : x \in Touching(b, t, list[k], source)
    <3>1. x \in Touched(b, t, list, source) <=>
            /\ x \in ESIs(b, t, source)
            /\ \E z \in SymbolBytes(b, t, x, source) : z \in Offsets(list)
      BY ONLY DEF Touched
    <3>2. ASSUME NEW k \in 1..Len(list)
          PROVE  x \in Touching(b, t, list[k], source) <=>
            /\ x \in ESIs(b, t, source)
            /\ \E z \in SymbolBytes(b, t, x, source) : z \in list[k].start..list[k].end
      BY ONLY DEF Touching
    <3> QED BY ONLY <2>2, <3>1, <3>2, Zenon
  <2> QED BY ONLY <2>1, <2>3
<1> QED BY ONLY <1>6, <1>7

-----------------------------------------------------------------------------
(* What a receiver asks for *)

LEMMA ESIsFinite ==
  ASSUME NEW b \in Structures, NEW source \in BOOLEAN, NEW t \in Blocks(b)
  PROVE  /\ ESIs(b, t, source) \in SUBSET Int /\ IsFiniteSet(ESIs(b, t, source))
         /\ source => Cardinality(ESIs(b, t, source)) = NumSrcSym(b, t)
<1> PICK n, r \in Nat : n = NumSrcSym(b, t) /\ r = RprSymbols(b)
  BY NumSrcSymTyped
<1>1. 0 \in Int /\ n - 1 \in Int /\ n \in Int /\ n + r - 1 \in Int
  OBVIOUS
<1>2. IsFiniteSet(0..(n - 1)) /\ IsFiniteSet(n..(n + r - 1))
  BY ONLY <1>1, FS_Interval
<1>3. Cardinality(0..(n - 1)) = n
  <2>1. Cardinality(0..(n - 1)) = IF 0 > n - 1 THEN 0 ELSE n - 1 - 0 + 1
    BY ONLY <1>1, FS_Interval
  <2> QED BY ONLY <2>1, n \in Nat
<1>4. 0..(n - 1) \in SUBSET Int /\ n..(n + r - 1) \in SUBSET Int
  OBVIOUS
<1> QED BY ONLY <1>2, <1>3, <1>4, source \in BOOLEAN, n = NumSrcSym(b, t), r = RprSymbols(b)
       DEF ESIs, SourceESIs, RepairESIs

LEMMA SymbolsHadIs ==
  ASSUME NEW b \in Structures, NEW er, er = SymbolsHad(b)
  PROVE  SymbolLists(er, b, TRUE)
<1> DEFINE had(s) == Covered(b, s, has, TRUE)
<1>1. er = [s \in {t \in Blocks(b) : had(t) # {}} |-> ListOf(had(s))]
  BY DEF SymbolsHad
<1>2. ASSUME NEW s \in Blocks(b)
      PROVE  had(s) \subseteq ESIs(b, s, TRUE)
  BY ONLY DEF Covered
<1> HIDE DEF had
<1>3. DOMAIN er \subseteq Blocks(b)
  BY ONLY <1>1
<1>4. ASSUME NEW s \in DOMAIN er
      PROVE  /\ er[s] \in Seq(RangeType) /\ Apart(er[s], 0) /\ er[s] # <<>>
             /\ Offsets(er[s]) \subseteq ESIs(b, s, TRUE)
  <2>1. s \in Blocks(b) /\ had(s) # {} /\ er[s] = ListOf(had(s))
    BY ONLY <1>1, <1>4
  <2>2. had(s) \in SUBSET Int /\ IsFiniteSet(had(s))
    BY ONLY <1>2, <2>1, b \in Structures, TRUE \in BOOLEAN, ESIsFinite, FS_Subset
  <2>3. er[s] \in Seq(RangeType) /\ Normal(er[s]) /\ Offsets(er[s]) = had(s)
    BY ONLY <2>1, <2>2, ListOfIs
  <2>4. Apart(er[s], 0)
    BY ONLY <2>3, NormalIsApart
  <2> QED BY ONLY <1>2, <2>1, <2>3, <2>4, EmptyOffsets
<1> QED BY ONLY <1>3, <1>4 DEF SymbolLists, InLists

\* The bytes of some symbols, as a list.
LEMMA BytesAligned ==
  ASSUME NEW b \in Structures, NEW source \in BOOLEAN, NEW er, SymbolLists(er, b, source),
         NEW H, H = BytesOfESIs(b, er, source)
  PROVE  /\ Offsets(ListOf(H)) = H
         /\ Aligned(b, ListOf(H), source)
         /\ \A t \in Blocks(b) : Touched(b, t, ListOf(H), source) = Listed(er, t)
<1> PICK top \in Nat : top = OffsetOf(b, b.N, source)
  <2>1. b.N \in Nat /\ b.N \in 0..b.N
    BY StructuresAssumption DEF AtRest
  <2> QED BY ONLY <2>1, b \in Structures, source \in BOOLEAN, BlocksRise
<1>1. /\ H \subseteq 0..(top - 1)
      /\ \A t \in Blocks(b) : \A e \in ESIs(b, t, source) :
            /\ e \in Listed(er, t) => SymbolBytes(b, t, e, source) \subseteq H
            /\ e \notin Listed(er, t) => SymbolBytes(b, t, e, source) \cap H = {}
  BY BytesOfESIsAre
<1>2. H \in SUBSET Int /\ IsFiniteSet(H)
  <2>1. 0 \in Int /\ top - 1 \in Int /\ 0..(top - 1) \subseteq Int
    OBVIOUS
  <2>2. IsFiniteSet(0..(top - 1))
    BY ONLY <2>1, FS_Interval
  <2> QED BY ONLY <1>1, <2>1, <2>2, FS_Subset
<1> PICK list : list = ListOf(H)
  OBVIOUS
<1>3. list \in Seq(RangeType) /\ Normal(list) /\ Offsets(list) = H
  BY ONLY <1>2, list = ListOf(H), ListOfIs
<1>4. Aligned(b, list, source)
  BY ONLY <1>1, <1>3, top = OffsetOf(b, b.N, source) DEF Aligned
<1>5. ASSUME NEW t \in Blocks(b)
      PROVE  Touched(b, t, list, source) = Listed(er, t)
  <2>1. Listed(er, t) \subseteq ESIs(b, t, source)
    BY DEF SymbolLists, Listed
  <2>2. \A e \in ESIs(b, t, source) : SymbolBytes(b, t, e, source) # {}
    BY SymbolBytesAre
  <2>3. ASSUME NEW e \in ESIs(b, t, source)
        PROVE  SymbolBytes(b, t, e, source) \cap H # {} <=> e \in Listed(er, t)
    <3>1. CASE e \in Listed(er, t)
      BY ONLY <1>1, <2>2, <2>3, <3>1, t \in Blocks(b)
    <3>2. CASE e \notin Listed(er, t)
      BY ONLY <1>1, <2>3, <3>2, t \in Blocks(b)
    <3> QED BY ONLY <3>1, <3>2
  <2> QED BY ONLY <1>3, <2>1, <2>3 DEF Touched
<1> QED BY ONLY <1>3, <1>4, <1>5, list = ListOf(H)

\* The other bytes of the object, as any normal list.
LEMMA RestAligned ==
  ASSUME NEW b \in Structures, NEW source \in BOOLEAN, NEW er, SymbolLists(er, b, source),
         NEW list \in Seq(RangeType), Normal(list),
         Offsets(list) = 0..(OffsetOf(b, b.N, source) - 1) \ BytesOfESIs(b, er, source)
  PROVE  /\ Aligned(b, list, source)
         /\ \A t \in Blocks(b) : \A e : e \in Touched(b, t, list, source)
                                        <=> e \in ESIs(b, t, source) /\ e \notin Listed(er, t)
<1> PICK H, O : H = BytesOfESIs(b, er, source) /\ O = 0..(OffsetOf(b, b.N, source) - 1)
  OBVIOUS
<1>1. \A t \in Blocks(b) : \A e \in ESIs(b, t, source) :
            /\ e \in Listed(er, t) => SymbolBytes(b, t, e, source) \subseteq H
            /\ e \notin Listed(er, t) => SymbolBytes(b, t, e, source) \cap H = {}
  BY BytesOfESIsAre
<1>2. \A t \in Blocks(b) : \A e \in ESIs(b, t, source) :
         SymbolBytes(b, t, e, source) # {} /\ SymbolBytes(b, t, e, source) \subseteq O
  BY SymbolBytesAre
<1>3. Offsets(list) = O \ H
  OBVIOUS
<1>4. ASSUME NEW t \in Blocks(b), NEW e \in ESIs(b, t, source)
      PROVE  /\ e \in Listed(er, t) => SymbolBytes(b, t, e, source) \cap Offsets(list) = {}
             /\ e \notin Listed(er, t) => /\ SymbolBytes(b, t, e, source) \subseteq Offsets(list)
                                          /\ SymbolBytes(b, t, e, source) \cap Offsets(list) # {}
  <2> PICK B : B = SymbolBytes(b, t, e, source)
    OBVIOUS
  <2>1. /\ e \in Listed(er, t) => B \subseteq H
        /\ e \notin Listed(er, t) => B \cap H = {}
        /\ B # {} /\ B \subseteq O
    BY ONLY <1>1, <1>2, <1>4, B = SymbolBytes(b, t, e, source)
  <2> QED BY ONLY <1>3, <2>1, B = SymbolBytes(b, t, e, source)
<1>5. Aligned(b, list, source)
  <2>1. Offsets(list) \subseteq O
    BY <1>3
  <2>2. \A t \in Blocks(b) : \A e \in ESIs(b, t, source) :
        \/ SymbolBytes(b, t, e, source) \cap Offsets(list) = {}
        \/ SymbolBytes(b, t, e, source) \subseteq Offsets(list)
    BY ONLY <1>4
  <2> QED BY ONLY <2>1, <2>2, list \in Seq(RangeType), Normal(list),
             O = 0..(OffsetOf(b, b.N, source) - 1) DEF Aligned
<1>6. ASSUME NEW t \in Blocks(b)
      PROVE  \A e : e \in Touched(b, t, list, source)
                      <=> e \in ESIs(b, t, source) /\ e \notin Listed(er, t)
  BY ONLY <1>4, <1>6 DEF Touched
<1> QED BY ONLY <1>5, <1>6

\* ToRangeList of some symbols has all bytes of each, and none of another.
LEMMA AnswerIs ==
  ASSUME NEW b \in Structures, NEW source \in BOOLEAN, NEW er, SymbolLists(er, b, source),
         NEW list, list = ToRangeList(b, er, source), NEW t \in Blocks(b)
  PROVE  /\ Touched(b, t, list, source) = Listed(er, t)
         /\ Covered(b, t, list, source) = Listed(er, t)
<1> PICK H, O : H = BytesOfESIs(b, er, source) /\ O = 0..(OffsetOf(b, b.N, source) - 1)
  OBVIOUS
<1>1. Offsets(list) \cap O = H
  <2>1. Offsets(list) = AllBytes(b, er, source)
    BY ToRangeListIs
  <2> QED BY ONLY <2>1, b \in Structures, source \in BOOLEAN, SymbolLists(er, b, source),
             H = BytesOfESIs(b, er, source), O = 0..(OffsetOf(b, b.N, source) - 1), AllBytesIs
<1>2. \A e \in ESIs(b, t, source) :
            /\ e \in Listed(er, t) => SymbolBytes(b, t, e, source) \subseteq H
            /\ e \notin Listed(er, t) => SymbolBytes(b, t, e, source) \cap H = {}
  BY BytesOfESIsAre
<1>3. \A e \in ESIs(b, t, source) :
         SymbolBytes(b, t, e, source) # {} /\ SymbolBytes(b, t, e, source) \subseteq O
  BY SymbolBytesAre
<1>4. Listed(er, t) \subseteq ESIs(b, t, source)
  BY DEF SymbolLists, Listed
<1>5. ASSUME NEW e \in ESIs(b, t, source)
      PROVE  /\ e \in Listed(er, t) <=> SymbolBytes(b, t, e, source) \cap Offsets(list) # {}
             /\ e \in Listed(er, t) <=> SymbolBytes(b, t, e, source) \subseteq Offsets(list)
  <2> PICK B : B = SymbolBytes(b, t, e, source)
    OBVIOUS
  <2>1. /\ e \in Listed(er, t) => B \subseteq H
        /\ e \notin Listed(er, t) => B \cap H = {}
        /\ B # {} /\ B \subseteq O
    BY ONLY <1>2, <1>3, <1>5, B = SymbolBytes(b, t, e, source)
  <2>2. CASE e \in Listed(er, t)
    BY ONLY <1>1, <2>1, <2>2, B = SymbolBytes(b, t, e, source)
  <2>3. CASE e \notin Listed(er, t)
    <3>1. B \cap Offsets(list) = {}
      BY ONLY <1>1, <2>1, <2>3
    <3> QED BY ONLY <2>1, <2>3, <3>1, B = SymbolBytes(b, t, e, source)
  <2> QED BY ONLY <2>2, <2>3
<1>6. Touched(b, t, list, source) = Listed(er, t)
  BY ONLY <1>4, <1>5 DEF Touched
<1>7. Covered(b, t, list, source) = Listed(er, t)
  BY ONLY <1>4, <1>5 DEF Covered
<1> QED BY <1>6, <1>7

\* Request of bytes that no symbol is cut by: it asks for whole symbols, for
\* none that is not missing, and for enough.
LEMMA RequestIs ==
  ASSUME NEW b \in Structures, NEW lacking, Aligned(b, lacking, TRUE),
         NEW spare, Aligned(b, spare, FALSE),
         NEW list, list = Request(b, lacking, spare), NEW t \in Blocks(b)
  PROVE  /\ Touched(b, t, list, TRUE) = Covered(b, t, list, TRUE)
         /\ Covered(b, t, list, TRUE) \subseteq Touched(b, t, lacking, TRUE)
         /\ Cardinality(Covered(b, t, list, TRUE)) + Cardinality(Touched(b, t, spare, FALSE))
              >= Cardinality(Touched(b, t, lacking, TRUE))
<1> PICK m : m = ESIRangeFromRangeList(b, lacking, TRUE, TRUE).value
  OBVIOUS
<1> PICK r : r = ESIRangeFromRangeList(b, spare, FALSE, FALSE).value
  OBVIOUS
<1> PICK h : h = [s \in {z \in DOMAIN r : z \notin b.I..(b.N - 1)} |-> r[s]]
  OBVIOUS
<1> PICK er : er = GetMissingESIs(b, m, h)
  OBVIOUS
<1>1. list = ToRangeList(b, er, TRUE)
  BY Zenon DEF Request
<1>2. /\ InLists(m) /\ DOMAIN m \subseteq Blocks(b)
      /\ \A s \in Blocks(b) : Listed(m, s) = Touched(b, s, lacking, TRUE)
  BY ONLY b \in Structures, TRUE \in BOOLEAN, Aligned(b, lacking, TRUE),
     m = ESIRangeFromRangeList(b, lacking, TRUE, TRUE).value, AlignedIs
<1>3. /\ InLists(r) /\ DOMAIN r \subseteq Blocks(b)
      /\ \A s \in Blocks(b) : Listed(r, s) = Touched(b, s, spare, FALSE)
  BY ONLY b \in Structures, FALSE \in BOOLEAN, ~FALSE, Aligned(b, spare, FALSE),
     r = ESIRangeFromRangeList(b, spare, FALSE, FALSE).value, AlignedIs
<1>4. DOMAIN h \subseteq DOMAIN r /\ \A s \in DOMAIN h : h[s] = r[s]
  OBVIOUS
<1>5. InLists(h)
  BY ONLY <1>3, <1>4 DEF InLists
<1>6. ASSUME NEW s \in DOMAIN m
      PROVE  s \in Blocks(b) /\ Offsets(m[s]) \subseteq SourceESIs(b, s)
  <2>1. s \in Blocks(b) /\ Listed(m, s) = Offsets(m[s])
    BY <1>2 DEF Listed
  <2>2. Touched(b, s, lacking, TRUE) \subseteq ESIs(b, s, TRUE)
    BY ONLY DEF Touched
  <2> QED BY ONLY <1>2, <2>1, <2>2 DEF ESIs
<1>7. /\ InLists(er) /\ DOMAIN er \subseteq DOMAIN m
      /\ \A s : /\ IsFiniteSet(Listed(m, s)) /\ IsFiniteSet(Listed(h, s))
                /\ Listed(er, s) \subseteq Listed(m, s)
                /\ Cardinality(Listed(er, s)) =
                     Greatest(Cardinality(Listed(m, s)) - Cardinality(Listed(h, s)), 0)
  BY ONLY <1>2, <1>5, <1>6, b \in Structures, er = GetMissingESIs(b, m, h), GetMissingIs
<1>8. SymbolLists(er, b, TRUE)
  <2>1. ASSUME NEW s \in DOMAIN er PROVE Offsets(er[s]) \subseteq ESIs(b, s, TRUE)
    <3>1. s \in DOMAIN m /\ Listed(er, s) = Offsets(er[s]) /\ Listed(m, s) = Offsets(m[s])
      BY ONLY <1>7, <2>1 DEF Listed
    <3> QED BY ONLY <1>6, <1>7, <3>1 DEF ESIs
  <2> QED BY ONLY <1>2, <1>7, <2>1 DEF SymbolLists
<1>9. Touched(b, t, list, TRUE) = Listed(er, t) /\ Covered(b, t, list, TRUE) = Listed(er, t)
  BY ONLY ZenonT(30), <1>1, <1>8, b \in Structures, TRUE \in BOOLEAN, t \in Blocks(b), AnswerIs
<1>10. /\ Listed(m, t) = Touched(b, t, lacking, TRUE) /\ Listed(r, t) = Touched(b, t, spare, FALSE)
  BY <1>2, <1>3
<1>11. Listed(h, t) \subseteq Listed(r, t)
  BY ONLY <1>4 DEF Listed
<1>12. IsFiniteSet(Listed(r, t))
  <2>1. Touched(b, t, spare, FALSE) \subseteq ESIs(b, t, FALSE)
    BY ONLY DEF Touched
  <2>2. Listed(r, t) \subseteq ESIs(b, t, FALSE)
    BY ONLY <1>10, <2>1
  <2>3. IsFiniteSet(ESIs(b, t, FALSE))
    BY ONLY b \in Structures, t \in Blocks(b), FALSE \in BOOLEAN, ESIsFinite
  <2> QED BY ONLY <2>2, <2>3, FS_Subset
<1> PICK cm, ch, cr \in Nat : /\ cm = Cardinality(Listed(m, t)) /\ ch = Cardinality(Listed(h, t))
                              /\ cr = Cardinality(Listed(r, t))
  BY <1>7, <1>12, FS_CardinalityType
<1>13. ch <= cr
  BY ONLY <1>11, <1>12, ch = Cardinality(Listed(h, t)), cr = Cardinality(Listed(r, t)), FS_Subset
<1>14. Cardinality(Listed(er, t)) = Greatest(cm - ch, 0)
  BY ONLY <1>7, cm = Cardinality(Listed(m, t)), ch = Cardinality(Listed(h, t))
<1>15. Cardinality(Listed(er, t)) + cr >= cm
  BY ONLY <1>13, <1>14, cm \in Nat, ch \in Nat, cr \in Nat DEF Greatest
<1>16. Listed(er, t) \subseteq Listed(m, t)
  BY ONLY <1>7
<1> QED BY ONLY <1>9, <1>10, <1>15, <1>16, cm = Cardinality(Listed(m, t)), cr = Cardinality(Listed(r, t))

-----------------------------------------------------------------------------
(* The text of an ESIRange *)

\* Two sequences with the same elements.
LEMMA SameSequence ==
  ASSUME NEW S, NEW a \in Seq(S), NEW b \in Seq(S), Len(a) = Len(b),
         \A k \in 1..Len(a) : a[k] = b[k]
  PROVE  a = b
OBVIOUS

\* A list in normal form stays as it is.
LEMMA FlattenNormal ==
  ASSUME NEW rl \in Seq(RangeType), Normal(rl)
  PROVE  Flatten(rl) = rl
<1> PICK n \in Nat : n = Len(rl)
  OBVIOUS
<1>1. Stairs(rl) /\ Sorted(rl) = rl
  BY NormalIsApart, ApartStairs, SortedStairs
<1> PICK M : M = Merged(rl)
  OBVIOUS
<1>2. /\ M[n + 1] = <<>>
      /\ \A k \in 1..n : M[k] = MergeFront(rl[k], M[k + 1])
  <2>1. M = [k \in 1..(n + 1) |-> IF k > n THEN <<>> ELSE MergeFront(rl[k], M[k + 1])]
    BY MergedIs
  <2>2. n + 1 \in 1..(n + 1) /\ n + 1 > n /\ \A k \in 1..n : k \in 1..(n + 1) /\ ~(k > n)
    OBVIOUS
  <2> QED BY <2>1, <2>2
<1>3. ASSUME NEW k \in 1..(n + 1)
      PROVE  /\ Rest(rl, k) \in Seq(RangeType) /\ Len(Rest(rl, k)) = n - k + 1
             /\ \A m \in 1..(n - k + 1) : Rest(rl, k)[m] = rl[k + m - 1]
  BY RestProperties DEF Rest
<1>4. ASSUME NEW k \in 1..n
      PROVE  MergeFront(rl[k], Rest(rl, k + 1)) = Rest(rl, k)
  <2> PICK rest : rest = Rest(rl, k + 1)
    OBVIOUS
  <2>1. k + 1 \in 1..(n + 1) /\ k \in 1..(n + 1) /\ n - (k + 1) + 1 = n - k
    OBVIOUS
  <2>2. /\ rest \in Seq(RangeType) /\ Len(rest) = n - k
        /\ \A m \in 1..(n - k) : rest[m] = rl[k + m]
    <3>1. /\ rest \in Seq(RangeType) /\ Len(rest) = n - (k + 1) + 1
          /\ \A m \in 1..(n - (k + 1) + 1) : rest[m] = rl[(k + 1) + m - 1]
      BY <1>3, <2>1
    <3>2. \A m \in 1..(n - k) : (k + 1) + m - 1 = k + m
      OBVIOUS
    <3> QED BY ONLY <2>1, <3>1, <3>2
  <2>3. rl[k] \in RangeType
    BY ElementTyped
  <2>4. rest # <<>> => ~(rest[1].start <= rl[k].end + 1)
    <3> SUFFICES ASSUME rest # <<>> PROVE ~(rest[1].start <= rl[k].end + 1)
      OBVIOUS
    <3>1. 1 \in 1..(n - k) /\ k + 1 \in 1..n /\ k < k + 1
      BY <2>2
    <3>2. rest[1] = rl[k + 1]
      BY <2>2, <3>1
    <3>3. rl[k].end + 1 < rl[k + 1].start
      BY <3>1, InApart DEF Normal
    <3>4. rl[k].end \in Int /\ rl[k + 1].start \in Int
      BY <3>1, ElementTyped
    <3> QED BY <3>2, <3>3, <3>4
  <2>5. MergeFront(rl[k], rest) = <<rl[k]>> \o rest
    BY <2>4 DEF MergeFront
  <2>6. /\ <<rl[k]>> \o rest \in Seq(RangeType)
        /\ Len(<<rl[k]>> \o rest) = n - k + 1
        /\ (<<rl[k]>> \o rest)[1] = rl[k]
        /\ \A m \in 1..(n - k) : (<<rl[k]>> \o rest)[m + 1] = rl[k + m]
    BY ONLY <2>2, <2>3, k \in 1..n, n \in Nat, Prepended
  <2>7. ASSUME NEW m \in 1..(n - k + 1)
        PROVE  (<<rl[k]>> \o rest)[m] = Rest(rl, k)[m]
    <3>1. Rest(rl, k)[m] = rl[k + m - 1]
      BY <1>3, <2>1
    <3>2. CASE m = 1
      BY <2>6, <3>1, <3>2
    <3>3. CASE m # 1
      <4>1. m - 1 \in 1..(n - k) /\ (m - 1) + 1 = m /\ k + (m - 1) = k + m - 1
        BY <3>3
      <4> QED BY <2>6, <3>1, <4>1
    <3> QED BY <3>2, <3>3
  <2>8. <<rl[k]>> \o rest = Rest(rl, k)
    <3> PICK one : one = <<rl[k]>> \o rest
      OBVIOUS
    <3> QED BY <1>3, <2>1, <2>6, <2>7, SameSequence
  <2> QED BY <2>5, <2>8
<1>5. M[1] = Rest(rl, 1)
  <2> PICK P : P = {k \in 1..(n + 1) : M[k] = Rest(rl, k)}
    OBVIOUS
  <2>1. n + 1 \in P
    <3>1. n + 1 \in 1..(n + 1) /\ n - (n + 1) + 1 = 0
      OBVIOUS
    <3>2. Rest(rl, n + 1) = <<>>
      BY <1>3, <3>1
    <3> QED BY <1>2, <3>1, <3>2
  <2>2. ASSUME NEW k \in 1..n, k + 1 \in P
        PROVE  k \in P
    <3>1. k \in 1..(n + 1)
      OBVIOUS
    <3> QED BY <1>2, <1>4, <2>2, <3>1
  <2>3. 1 \in P
    BY <2>1, <2>2, Downwards
  <2> QED BY <2>3
<1>6. Rest(rl, 1) = rl
  <2>1. 1 \in 1..(n + 1) /\ n - 1 + 1 = n /\ \A m \in 1..n : 1 + m - 1 = m
    OBVIOUS
  <2>2. /\ Rest(rl, 1) \in Seq(RangeType) /\ Len(Rest(rl, 1)) = n
        /\ \A m \in 1..n : Rest(rl, 1)[m] = rl[m]
    <3>1. /\ Rest(rl, 1) \in Seq(RangeType) /\ Len(Rest(rl, 1)) = n - 1 + 1
          /\ \A m \in 1..(n - 1 + 1) : Rest(rl, 1)[m] = rl[1 + m - 1]
      BY <1>3, <2>1
    <3> QED BY ONLY <2>1, <3>1
  <2> QED BY <2>2, SameSequence
<1> QED BY <1>1, <1>5, <1>6 DEF Flatten

\* The elements of a finite set of numbers in their order.
Rising(keys, n, D) ==
  /\ keys \in [1..n -> D]
  /\ \A x \in D : \E k \in 1..n : keys[k] = x
  /\ \A k, l \in 1..n : k < l => keys[k] < keys[l]

LEMMA KeysAre ==
  ASSUME NEW er, NEW D \in SUBSET Int, IsFiniteSet(D), DOMAIN er = D,
         NEW n, n = Cardinality(D)
  PROVE  n \in Nat /\ Rising(Keys(er), n, D)
<1> PICK R : R = {p \in D \X D : p[1] < p[2]}
  OBVIOUS
<1>2. \A x, y \in D : <<x, y>> \in R <=> x < y
  OBVIOUS
<1>3. StrictOrder(D, R)
  <2>1. \A x \in D : <<x, x>> \notin R
    BY <1>2
  <2>2. \A x, y, z \in D : <<x, y>> \in R /\ <<y, z>> \in R => <<x, z>> \in R
    BY <1>2
  <2>3. ASSUME NEW x \in D, NEW y \in D PROVE x = y \/ <<x, y>> \in R \/ <<y, x>> \in R
    <3>1. x = y \/ x < y \/ y < x
      OBVIOUS
    <3> QED BY <1>2, <3>1
  <2> QED BY <2>1, <2>2, <2>3 DEF StrictOrder
<1>4. \A x \in D : Rank(D, R, x) = Cardinality({y \in D : y < x})
  <2> SUFFICES ASSUME NEW x \in D PROVE {y \in D : <<y, x>> \in R} = {y \in D : y < x}
    BY DEF Rank
  <2> QED BY <1>2
<1>5. n \in Nat /\ \A k \in 1..n : \E x \in D : Rank(D, R, x) = k - 1
  BY ONLY <1>3, IsFiniteSet(D), n = Cardinality(D), Ranks
<1> PICK f : f = Keys(er)
  OBVIOUS
<1>6. f = [k \in 1..n |-> CHOOSE x \in D : Cardinality({y \in D : y < x}) = k - 1]
  BY DEF Keys
<1>7. ASSUME NEW k \in 1..n
      PROVE  f[k] \in D /\ Rank(D, R, f[k]) = k - 1
  <2>0. PICK x \in D : Rank(D, R, x) = k - 1
    BY <1>5
  <2>1. \E z \in D : Cardinality({y \in D : y < z}) = k - 1
    BY <1>4, <2>0
  <2>2. f[k] \in D /\ Cardinality({y \in D : y < f[k]}) = k - 1
    <3>1. f[k] = CHOOSE z \in D : Cardinality({y \in D : y < z}) = k - 1
      BY <1>6
    <3> QED BY <2>1, <3>1
  <2> QED BY <1>4, <2>2
<1>8. Ranking(f, n, D, R)
  BY <1>7 DEF Ranking
<1>9. /\ \A x \in D : \E k \in 1..n : f[k] = x
      /\ \A k, l \in 1..n : k < l => <<f[k], f[l]>> \in R
  BY ONLY <1>3, <1>5, <1>8, IsFiniteSet(D), Enumerated
<1>10. f \in [1..n -> D]
  BY <1>6, <1>7
<1>11. \A k, l \in 1..n : k < l => f[k] < f[l]
  BY <1>2, <1>9, <1>10
<1> QED BY ONLY <1>5, <1>9, <1>10, <1>11, f = Keys(er) DEF Rising

-----------------------------------------------------------------------------
(* Writing and reading, part by part *)

NormalLists == {rl \in Seq(RangeType) : Normal(rl)}

Parts ==
  {p \in [span : BOOLEAN, from : Int, to : Int, list : NormalLists] :
     IF p.span THEN p.list = <<>> ELSE p.to = p.from}

Written == [start : Int, text : Seq(Parts)]

\* What is read of some blocks.
Lists == UNION {[D -> NormalLists] : D \in SUBSET Int}

\* g[k] is what is written after k blocks.
Writing(g, n, er, keys) ==
  /\ g[0] = [start |-> keys[1], text |-> <<>>]
  /\ \A k \in 0..n : g[k] \in Written
  /\ \A k \in 1..n : g[k] = PartAdded(er, keys, k, g[k - 1])

\* h[k] is what is read after k parts.
Reading(h, n, text) ==
  /\ h[0] = NoESIs
  /\ \A k \in 0..n : h[k] \in Lists
  /\ \A k \in 1..n : h[k] = Read(h[k - 1], text[k])

LEMMA PartsTyped ==
  ASSUME NEW t \in Seq(Parts), NEW a \in Int, NEW z \in Int, NEW rl \in NormalLists
  PROVE  /\ <<>> \in Seq(Parts) /\ <<>> \in NormalLists
         /\ Append(t, Span(a, z)) \in Seq(Parts)
         /\ Append(t, Block(a, rl)) \in Seq(Parts)
         /\ Append(t, Block(a, <<>>)) \in Seq(Parts)
<1>1. <<>> \in NormalLists
  <2>1. <<>> \in Seq(RangeType) /\ DOMAIN <<>> = {}
    OBVIOUS
  <2>2. Normal(<<>>)
    BY <2>1 DEF Normal, Apart
  <2> QED BY <2>1, <2>2 DEF NormalLists
<1>2. Span(a, z) \in Parts /\ Block(a, rl) \in Parts /\ Block(a, <<>>) \in Parts
  BY <1>1 DEF Span, Block, Parts
<1> QED BY <1>1, <1>2

LEMMA PartAddedTyped ==
  ASSUME NEW D \in SUBSET Int, NEW er \in [D -> NormalLists],
         NEW n \in Nat, NEW keys \in [1..n -> D], NEW k \in 1..n, NEW acc \in Written
  PROVE  PartAdded(er, keys, k, acc) \in Written
<1> PICK sbn, rl : sbn = keys[k] /\ rl = er[sbn]
  OBVIOUS
<1> PICK from, text : from = acc.start /\ text = acc.text
  OBVIOUS
<1>1. sbn \in Int /\ rl \in NormalLists /\ from \in Int /\ text \in Seq(Parts)
  BY DEF Written
<1>2. Max32 - 1 \in Int /\ U32(sbn + 1) \in Int
  BY <1>1, WidthAssumption DEF U32
<1>3. /\ Append(text, Span(from, sbn)) \in Seq(Parts)
      /\ Append(text, Block(sbn, <<>>)) \in Seq(Parts)
      /\ Append(text, Block(sbn, rl)) \in Seq(Parts)
  BY ONLY <1>1, PartsTyped
<1>4. \/ PartAdded(er, keys, k, acc) =
           [start |-> Max32 - 1, text |-> Append(text, Span(from, sbn))]
      \/ PartAdded(er, keys, k, acc) = [acc EXCEPT !.text = Append(text, Block(sbn, <<>>))]
      \/ PartAdded(er, keys, k, acc) =
           [start |-> U32(sbn + 1), text |-> Append(text, Block(sbn, rl))]
      \/ PartAdded(er, keys, k, acc) = acc
  BY ONLY sbn = keys[k], rl = er[sbn], from = acc.start, text = acc.text, Zenon DEF PartAdded
<1>5. [acc EXCEPT !.text = Append(text, Block(sbn, <<>>))] \in Written
  BY ONLY <1>3, acc \in Written DEF Written
<1>6. /\ [start |-> Max32 - 1, text |-> Append(text, Span(from, sbn))] \in Written
      /\ [start |-> U32(sbn + 1), text |-> Append(text, Block(sbn, rl))] \in Written
  BY ONLY <1>2, <1>3 DEF Written
<1> QED BY ONLY <1>4, <1>5, <1>6, acc \in Written

LEMMA MarshalSteps ==
  ASSUME NEW D \in SUBSET Int, NEW er \in [D -> NormalLists], NEW n \in Nat \ {0},
         NEW keys \in [1..n -> D], keys = Keys(er)
  PROVE  \E g : Writing(g, n, er, keys) /\ MarshalText(er) = g[n].text
<1> DEFINE seq == [k \in DOMAIN keys |-> k]
           base == [start |-> keys[1], text |-> <<>>]
           Joins(f) == f = [s \in SUBSET DOMAIN seq |->
                              IF s = {} THEN base
                              ELSE PartAdded(er, keys, seq[Max(s)], f[s \ {Max(s)}])]
<1> PICK it : it = CHOOSE f : Joins(f)
  OBVIOUS
<1>0. keys # <<>>
  <2>1. 1 \in DOMAIN keys /\ DOMAIN <<>> = {}
    OBVIOUS
  <2> QED BY <2>1
<1>1. MarshalText(er) = it[DOMAIN seq].text
  BY <1>0 DEF MarshalText, FoldLeft, MapThenFoldSet
<1>2. DOMAIN seq = 1..n /\ \A k \in 1..n : seq[k] = k
  OBVIOUS
<1> PICK sq, first : sq = seq /\ first = base
  OBVIOUS
<1>3. \A f : Joins(f) <=> f = [s \in SUBSET (1..n) |->
                              IF s = {} THEN first
                              ELSE PartAdded(er, keys, sq[Max(s)], f[s \ {Max(s)}])]
  BY <1>2
<1>4. first \in Written /\ first = [start |-> keys[1], text |-> <<>>]
  <2>1. 1 \in 1..n
    OBVIOUS
  <2>2. keys[1] \in Int
    BY ONLY <2>1, keys \in [1..n -> D], D \in SUBSET Int
  <2>3. <<>> \in Seq(Parts)
    OBVIOUS
  <2>4. first = [start |-> keys[1], text |-> <<>>]
    OBVIOUS
  <2> QED BY ONLY <2>2, <2>3, <2>4 DEF Written
<1>5. \A k \in 1..n : sq[k] = k
  BY <1>2
<1> HIDE DEF Joins, seq, base
<1>6. \A k \in 1..n, a \in Written : PartAdded(er, keys, sq[k], a) \in Written
  BY ONLY <1>5, D \in SUBSET Int, er \in [D -> NormalLists], n \in Nat, keys \in [1..n -> D],
     PartAddedTyped
<1>7. \E f : Joins(f)
  <2> PICK A : A = Written
    OBVIOUS
  <2> PICK Step : Step = [p \in (1..n) \X A |-> PartAdded(er, keys, sq[p[1]], p[2])]
    OBVIOUS
  <2>1. \A k \in 1..n, a \in A :
           Step[<<k, a>>] = PartAdded(er, keys, sq[k], a) /\ Step[<<k, a>>] \in A
    BY <1>6
  <2>2. PICK f \in [SUBSET (1..n) -> A] : FoldsLeft(f, n, first, Step)
    BY ONLY <1>4, <2>1, A = Written, n \in Nat, LeftSolves
  <2>3. ASSUME NEW s \in SUBSET (1..n)
        PROVE  f[s] = IF s = {} THEN first
                      ELSE PartAdded(er, keys, sq[Max(s)], f[s \ {Max(s)}])
    BY ONLY <2>1, <2>2, <2>3 DEF FoldsLeft
  <2>4. f = [s \in SUBSET (1..n) |-> IF s = {} THEN first
                      ELSE PartAdded(er, keys, sq[Max(s)], f[s \ {Max(s)}])]
    BY ONLY <2>2, <2>3
  <2> QED BY <1>3, <2>4
<1>8. it = [s \in SUBSET (1..n) |-> IF s = {} THEN first
                      ELSE PartAdded(er, keys, sq[Max(s)], it[s \ {Max(s)}])]
  BY <1>3, <1>7
<1> PICK g : g = [k \in 0..n |-> it[1..k]]
  OBVIOUS
<1>9. g[0] = first
  <2>1. 1..0 = {} /\ {} \in SUBSET (1..n) /\ 0 \in 0..n
    OBVIOUS
  <2> QED BY ONLY <1>8, <2>1, g = [k \in 0..n |-> it[1..k]]
<1>10. ASSUME NEW k \in 1..n
       PROVE  k \in 0..n /\ k - 1 \in 0..n /\ g[k] = PartAdded(er, keys, k, g[k - 1])
  <2>1. k \in 0..n /\ k - 1 \in 0..n /\ 1..k \in SUBSET (1..n)
    OBVIOUS
  <2>2. Max(1..k) = k /\ (1..k) \ {k} = 1..(k - 1) /\ 1..k # {}
    BY ONLY n \in Nat, k \in 1..n, MaxPosition
  <2>3. it[1..k] = PartAdded(er, keys, sq[k], it[1..(k - 1)])
    BY ONLY <1>8, <2>1, <2>2
  <2> QED BY ONLY <1>5, k \in 1..n, <2>1, <2>3, g = [j \in 0..n |-> it[1..j]]
<1>11. \A k \in 0..n : g[k] \in Written
  <2> PICK P : P = {k \in 0..n : g[k] \in Written}
    OBVIOUS
  <2>1. 0 \in P
    BY ONLY n \in Nat, <1>4, <1>9, P = {k \in 0..n : g[k] \in Written}
  <2>2. ASSUME NEW k \in 1..n, k - 1 \in P PROVE k \in P
    <3>1. g[k - 1] \in Written
      BY ONLY <2>2, P = {m \in 0..n : g[m] \in Written}
    <3>2. PartAdded(er, keys, k, g[k - 1]) \in Written
      BY ONLY <1>5, <1>6, <3>1, k \in 1..n
    <3> QED BY ONLY <1>10, <3>2, k \in 1..n, P = {m \in 0..n : g[m] \in Written}
  <2>3. \A k \in 0..n : k \in P
    BY ONLY n \in Nat, <2>1, <2>2, Upwards
  <2> QED BY ONLY <2>3, P = {k \in 0..n : g[k] \in Written}
<1>12. MarshalText(er) = g[n].text
  BY ONLY <1>1, <1>2, n \in Nat, g = [k \in 0..n |-> it[1..k]]
<1>13. Writing(g, n, er, keys)
  BY ONLY <1>4, <1>9, <1>10, <1>11 DEF Writing
<1> QED BY ONLY <1>12, <1>13

LEMMA ListsAre ==
  ASSUME NEW er
  PROVE  er \in Lists <=> /\ DOMAIN er \in SUBSET Int
                          /\ er \in [DOMAIN er -> NormalLists]
BY DEF Lists

\* A list that is written is one that is read.
LEMMA ReadIs ==
  ASSUME NEW er \in Lists, NEW p \in Parts
  PROVE  /\ Read(er, p) = [sbn \in DOMAIN er \cup p.from..p.to |->
                             IF sbn \in p.from..p.to THEN p.list ELSE er[sbn]]
         /\ Read(er, p) \in Lists
<1>1. p.list \in NormalLists /\ p.from \in Int /\ p.to \in Int
  BY DEF Parts
<1>2. Flatten(p.list) = p.list
  BY <1>1, FlattenNormal DEF NormalLists
<1>3. Read(er, p) = [sbn \in DOMAIN er \cup p.from..p.to |->
                             IF sbn \in p.from..p.to THEN p.list ELSE er[sbn]]
  BY ONLY <1>2 DEF Read
<1>4. DOMAIN er \in SUBSET Int /\ er \in [DOMAIN er -> NormalLists]
  BY ListsAre
<1>5. DOMAIN er \cup p.from..p.to \in SUBSET Int
  BY ONLY <1>1, <1>4
<1>6. Read(er, p) \in [DOMAIN er \cup p.from..p.to -> NormalLists]
  BY ONLY <1>1, <1>3, <1>4
<1>7. Read(er, p) \in Lists
  BY ONLY <1>5, <1>6 DEF Lists
<1> QED BY ONLY <1>3, <1>7

LEMMA NothingRead == NoESIs \in Lists /\ DOMAIN NoESIs = {}
<1>1. DOMAIN <<>> = {} /\ <<>> \in [{} -> NormalLists]
  OBVIOUS
<1> QED BY ONLY <1>1 DEF NoESIs, Lists

LEMMA ReadSteps ==
  ASSUME NEW text \in Seq(Parts), NEW n, n = Len(text)
  PROVE  \E h : Reading(h, n, text) /\ FoldLeft(Read, NoESIs, text) = h[n]
<1> DEFINE Joins(f) == f = [s \in SUBSET DOMAIN text |->
                              IF s = {} THEN NoESIs
                              ELSE Read(f[s \ {Max(s)}], text[Max(s)])]
<1> PICK it : it = CHOOSE f : Joins(f)
  OBVIOUS
<1>1. FoldLeft(Read, NoESIs, text) = it[DOMAIN text]
  BY DEF FoldLeft, MapThenFoldSet
<1>2. DOMAIN text = 1..n /\ n \in Nat /\ \A k \in 1..n : text[k] \in Parts
  OBVIOUS
<1>3. \A f : Joins(f) <=> f = [s \in SUBSET (1..n) |->
                              IF s = {} THEN NoESIs
                              ELSE Read(f[s \ {Max(s)}], text[Max(s)])]
  BY <1>2
<1> HIDE DEF Joins
<1>6. \A k \in 1..n, a \in Lists : Read(a, text[k]) \in Lists
  BY ONLY <1>2, ReadIs
<1>7. \E f : Joins(f)
  <2> PICK A : A = Lists
    OBVIOUS
  <2> PICK Step : Step = [p \in (1..n) \X A |-> Read(p[2], text[p[1]])]
    OBVIOUS
  <2>1. \A k \in 1..n, a \in A :
           Step[<<k, a>>] = Read(a, text[k]) /\ Step[<<k, a>>] \in A
    BY <1>6
  <2>2. PICK f \in [SUBSET (1..n) -> A] : FoldsLeft(f, n, NoESIs, Step)
    BY ONLY <1>2, <2>1, A = Lists, NothingRead, LeftSolves
  <2>3. ASSUME NEW s \in SUBSET (1..n)
        PROVE  f[s] = IF s = {} THEN NoESIs ELSE Read(f[s \ {Max(s)}], text[Max(s)])
    BY ONLY <2>1, <2>2, <2>3 DEF FoldsLeft
  <2>4. f = [s \in SUBSET (1..n) |-> IF s = {} THEN NoESIs
                      ELSE Read(f[s \ {Max(s)}], text[Max(s)])]
    BY ONLY <2>2, <2>3
  <2> QED BY <1>3, <2>4
<1>8. it = [s \in SUBSET (1..n) |-> IF s = {} THEN NoESIs
                      ELSE Read(it[s \ {Max(s)}], text[Max(s)])]
  BY <1>3, <1>7
<1> PICK h : h = [k \in 0..n |-> it[1..k]]
  OBVIOUS
<1>9. h[0] = NoESIs
  <2>1. 1..0 = {} /\ {} \in SUBSET (1..n) /\ 0 \in 0..n
    BY <1>2
  <2> QED BY ONLY <1>8, <2>1, h = [k \in 0..n |-> it[1..k]]
<1>10. ASSUME NEW k \in 1..n
       PROVE  k \in 0..n /\ k - 1 \in 0..n /\ h[k] = Read(h[k - 1], text[k])
  <2>1. k \in 0..n /\ k - 1 \in 0..n /\ 1..k \in SUBSET (1..n)
    BY <1>2
  <2>2. Max(1..k) = k /\ (1..k) \ {k} = 1..(k - 1) /\ 1..k # {}
    BY ONLY <1>2, k \in 1..n, MaxPosition
  <2>3. it[1..k] = Read(it[1..(k - 1)], text[k])
    BY ONLY <1>8, <2>1, <2>2
  <2> QED BY ONLY <2>1, <2>3, h = [j \in 0..n |-> it[1..j]]
<1>11. \A k \in 0..n : h[k] \in Lists
  <2> PICK P : P = {k \in 0..n : h[k] \in Lists}
    OBVIOUS
  <2>1. 0 \in P
    BY ONLY <1>2, <1>9, NothingRead, P = {k \in 0..n : h[k] \in Lists}
  <2>2. \A k \in 1..n : k - 1 \in P => k \in P
    BY ONLY <1>6, <1>10, P = {k \in 0..n : h[k] \in Lists}
  <2>3. \A k \in 0..n : k \in P
    BY ONLY <1>2, <2>1, <2>2, Upwards
  <2> QED BY ONLY <2>3, P = {k \in 0..n : h[k] \in Lists}
<1>12. FoldLeft(Read, NoESIs, text) = h[n]
  BY ONLY <1>1, <1>2, h = [k \in 0..n |-> it[1..k]]
<1>13. Reading(h, n, text)
  BY ONLY <1>9, <1>10, <1>11 DEF Reading
<1> QED BY ONLY <1>12, <1>13

\* A part more is read after the others.
LEMMA ReadAppend ==
  ASSUME NEW text \in Seq(Parts), NEW p \in Parts
  PROVE  /\ FoldLeft(Read, NoESIs, <<>>) = NoESIs
         /\ FoldLeft(Read, NoESIs, text) \in Lists
         /\ FoldLeft(Read, NoESIs, Append(text, p)) = Read(FoldLeft(Read, NoESIs, text), p)
<1> PICK n \in Nat : n = Len(text)
  OBVIOUS
<1> PICK more : more = Append(text, p)
  OBVIOUS
<1>1. more \in Seq(Parts) /\ n + 1 = Len(more) /\ more[n + 1] = p /\ \A k \in 1..n : more[k] = text[k]
  OBVIOUS
<1>2. PICK h : Reading(h, n, text) /\ FoldLeft(Read, NoESIs, text) = h[n]
  BY ReadSteps
<1>3. PICK j : Reading(j, n + 1, more) /\ FoldLeft(Read, NoESIs, more) = j[n + 1]
  BY ONLY <1>1, ReadSteps
<1>4. FoldLeft(Read, NoESIs, <<>>) = NoESIs
  <2>1. <<>> \in Seq(Parts) /\ 0 = Len(<<>>)
    OBVIOUS
  <2>2. PICK e : Reading(e, 0, <<>>) /\ FoldLeft(Read, NoESIs, <<>>) = e[0]
    BY ONLY <2>1, ReadSteps
  <2> QED BY ONLY <2>2 DEF Reading
<1>5. \A k \in 0..n : j[k] = h[k]
  <2> PICK P : P = {k \in 0..n : j[k] = h[k]}
    OBVIOUS
  <2>1. 0 \in P
    BY ONLY n \in Nat, <1>2, <1>3, P = {k \in 0..n : j[k] = h[k]} DEF Reading
  <2>2. ASSUME NEW k \in 1..n, k - 1 \in P PROVE k \in P
    <3>1. k \in 0..n /\ k \in 1..(n + 1)
      OBVIOUS
    <3>2. j[k] = Read(j[k - 1], more[k]) /\ h[k] = Read(h[k - 1], text[k])
      BY ONLY <1>2, <1>3, <3>1, k \in 1..n DEF Reading
    <3> QED BY ONLY <1>1, <2>2, <3>1, <3>2, k \in 1..n, P = {m \in 0..n : j[m] = h[m]}
  <2>3. \A k \in 0..n : k \in P
    BY ONLY n \in Nat, <2>1, <2>2, Upwards
  <2> QED BY ONLY <2>3, P = {k \in 0..n : j[k] = h[k]}
<1>6. j[n + 1] = Read(j[n], p)
  <2>1. n + 1 \in 1..(n + 1) /\ (n + 1) - 1 = n
    OBVIOUS
  <2> QED BY ONLY <1>1, <1>3, <2>1 DEF Reading
<1>7. n \in 0..n
  OBVIOUS
<1>8. h[n] \in Lists
  BY ONLY <1>2, <1>7 DEF Reading
<1> QED BY ONLY <1>2, <1>3, <1>4, <1>5, <1>6, <1>7, <1>8, more = Append(text, p)

-----------------------------------------------------------------------------
(* What is written is read back *)

\* The blocks without a list.
Bare(er) == {sbn \in DOMAIN er : er[sbn] = <<>>}

Below(er, d) == [x \in {s \in DOMAIN er : s < d} |-> er[x]]

Upto(er, d) == [x \in {s \in DOMAIN er : s <= d} |-> er[x]]

ReadBack(text) == FoldLeft(Read, NoESIs, text)

\* Before the k-th block: the blocks below d are in the text, the ones from d
\* on have no list and wait for the end of their run.
Waiting(er, keys, k, acc, d) ==
  /\ d \in Int /\ d <= keys[k] /\ d..(keys[k] - 1) \subseteq Bare(er)
  /\ ReadBack(acc.text) = Below(er, d)
  /\ keys[k] \in Bare(er) => acc.start = d /\ (keys[k] - 1 \in Bare(er) => d < keys[k])
  /\ keys[k] \notin Bare(er) => /\ d = keys[k]
                                /\ k > 1 /\ er[keys[k - 1]] = <<>> => acc.start >= keys[k]

\* After it.
Past(er, keys, n, k, acc) ==
  /\ k < n => \E d : Waiting(er, keys, k + 1, acc, d)
  /\ k = n => ReadBack(acc.text) = er

LEMMA KeysNext ==
  ASSUME NEW D \in SUBSET Int, NEW n \in Nat, NEW keys, Rising(keys, n, D), NEW k \in 1..n
  PROVE  /\ keys[k] \in D /\ keys[k] \in Int
         /\ k < n => /\ k + 1 \in 1..n /\ keys[k + 1] \in D /\ keys[k + 1] \in Int
                     /\ keys[k] < keys[k + 1]
                     /\ \A x \in D : x < keys[k + 1] <=> x <= keys[k]
         /\ k = n => \A x \in D : x <= keys[k]
         /\ k = 1 => \A x \in D : keys[k] <= x
<1>1. /\ keys \in [1..n -> D]
      /\ \A x \in D : \E l \in 1..n : keys[l] = x
      /\ \A l, m \in 1..n : l < m => keys[l] < keys[m]
  BY DEF Rising
<1>2. keys[k] \in D /\ keys[k] \in Int
  BY <1>1
<1>3. ASSUME k < n
      PROVE  /\ k + 1 \in 1..n /\ keys[k + 1] \in D /\ keys[k + 1] \in Int
             /\ keys[k] < keys[k + 1]
             /\ \A x \in D : x < keys[k + 1] <=> x <= keys[k]
  <2>1. k + 1 \in 1..n /\ k < k + 1
    BY <1>3
  <2>2. keys[k + 1] \in D /\ keys[k + 1] \in Int /\ keys[k] < keys[k + 1]
    BY <1>1, <2>1
  <2>3. ASSUME NEW x \in D PROVE x < keys[k + 1] <=> x <= keys[k]
    <3>1. PICK l \in 1..n : keys[l] = x
      BY <1>1
    <3>2. /\ l < k => keys[l] < keys[k]
          /\ k + 1 < l => keys[k + 1] < keys[l]
      BY <1>1, <2>1
    <3>3. l < k \/ l = k \/ l = k + 1 \/ k + 1 < l
      OBVIOUS
    <3>4. x \in Int
      OBVIOUS
    <3> QED BY ONLY <1>2, <2>2, <3>1, <3>2, <3>3, <3>4
  <2> QED BY <2>1, <2>2, <2>3
<1>4. ASSUME NEW x \in D
      PROVE  (k = n => x <= keys[k]) /\ (k = 1 => keys[k] <= x)
  <2>1. PICK l \in 1..n : keys[l] = x
    BY <1>1
  <2>2. /\ l < k => keys[l] < keys[k]
        /\ k < l => keys[k] < keys[l]
    BY <1>1
  <2>3. /\ k = n => l < k \/ l = k
        /\ k = 1 => k < l \/ l = k
    OBVIOUS
  <2>4. x \in Int
    OBVIOUS
  <2> QED BY ONLY <1>2, <2>1, <2>2, <2>3, <2>4
<1> QED BY ONLY <1>2, <1>3, <1>4

\* Blocks with the same list, behind the ones that are read.
LEMMA ReadMore ==
  ASSUME NEW D \in SUBSET Int, NEW er \in [D -> NormalLists], NEW p \in Parts,
         NEW text \in Seq(Parts), ReadBack(text) = Below(er, p.from), p.from <= p.to,
         \A x \in p.from..p.to : x \in D /\ er[x] = p.list
  PROVE  ReadBack(Append(text, p)) = Upto(er, p.to)
<1> PICK a, z \in Int : a = p.from /\ z = p.to
  BY DEF Parts
<1> PICK low : low = Below(er, a)
  OBVIOUS
<1>1. ReadBack(Append(text, p)) = Read(low, p) /\ low \in Lists
  BY ReadAppend DEF ReadBack
<1>2. Read(low, p) = [x \in DOMAIN low \cup a..z |-> IF x \in a..z THEN p.list ELSE low[x]]
  <2>1. p \in Parts /\ low \in Lists
    BY <1>1
  <2>2. Read(low, p) = [x \in DOMAIN low \cup p.from..p.to |->
                          IF x \in p.from..p.to THEN p.list ELSE low[x]]
    BY ONLY <2>1, ReadIs
  <2> QED BY ONLY <2>2, a = p.from, z = p.to
<1>3. low = [x \in {s \in D : s < a} |-> er[x]]
  BY DEF Below
<1>4. DOMAIN low \cup a..z = {s \in D : s <= z}
  <2>1. DOMAIN low = {s \in D : s < a}
    BY ONLY <1>3
  <2>2. \A x \in a..z : x \in D
    OBVIOUS
  <2> QED BY ONLY SMTT(30),
             <2>1, <2>2, D \in SUBSET Int, a \in Int, z \in Int, a = p.from, z = p.to, p.from <= p.to
<1>5. ASSUME NEW x \in {s \in D : s <= z}
      PROVE  (IF x \in a..z THEN p.list ELSE low[x]) = er[x]
  <2>1. x \in a..z => er[x] = p.list
    OBVIOUS
  <2>2. ~(x \in a..z) => x \in {s \in D : s < a}
    OBVIOUS
  <2> QED BY ONLY <1>3, <2>1, <2>2
<1>6. Read(low, p) = [x \in {s \in D : s <= z} |-> er[x]]
  BY ONLY <1>2, <1>4, <1>5
<1>7. Upto(er, p.to) = [x \in {s \in D : s <= z} |-> er[x]]
  BY DEF Upto
<1> QED BY ONLY <1>1, <1>6, <1>7

\* A list in normal form is none that stands for no list.
LEMMA NormalIsWritten ==
  ASSUME NEW rl \in NormalLists
  PROVE  rl # <<Interval(0, -1)>>
<1> SUFFICES ASSUME rl = <<Interval(0, -1)>> PROVE FALSE
  OBVIOUS
<1>1. Interval(0, -1).start = 0 /\ Interval(0, -1).end = -1
  BY RangeTyped
<1>2. rl \in Seq(RangeType) /\ Len(rl) = 1 /\ rl[1] = Interval(0, -1)
  BY DEF NormalLists
<1>3. 1 \in 1..Len(rl)
  BY <1>2
<1>4. rl[1].start <= rl[1].end
  BY <1>2, <1>3, InApart DEF NormalLists, Normal
<1> QED BY <1>1, <1>2, <1>4

\* The text after a block, and how far it goes.
LEMMA BlockPast ==
  ASSUME NEW D \in SUBSET (0..(Max32 - 2)), NEW er \in [D -> NormalLists], InRuns(er),
         NEW n \in Nat, NEW keys, Rising(keys, n, D), NEW k \in 1..n,
         NEW acc \in Written, NEW d, Waiting(er, keys, k, acc, d)
  PROVE  Past(er, keys, n, k, PartAdded(er, keys, k, acc))
<1> PICK s, rl, q, al : /\ s = keys[k] /\ rl = er[s] /\ q = acc.text
                        /\ al = PartAdded(er, keys, k, acc)
  OBVIOUS
<1> PICK t : t = keys[k + 1]
  OBVIOUS
<1>0. D \in SUBSET Int /\ Max32 \in Int
  BY WidthAssumption
<1>1. /\ s \in D /\ s \in Int
      /\ k < n => /\ k + 1 \in 1..n /\ t \in D /\ t \in Int /\ s < t
                  /\ \A x \in D : x < t <=> x <= s
      /\ k = n => \A x \in D : x <= s
      /\ k = 1 => \A x \in D : s <= x
  BY ONLY <1>0, n \in Nat, Rising(keys, n, D), k \in 1..n, s = keys[k], t = keys[k + 1], KeysNext
<1>2. /\ d \in Int /\ d <= s /\ d..(s - 1) \subseteq Bare(er)
      /\ ReadBack(q) = Below(er, d)
      /\ s \in Bare(er) => acc.start = d /\ (s - 1 \in Bare(er) => d < s)
      /\ s \notin Bare(er) => d = s /\ (k > 1 /\ er[keys[k - 1]] = <<>> => acc.start >= s)
  BY DEF Waiting
<1>3. acc.start \in Int /\ q \in Seq(Parts) /\ rl \in NormalLists /\ DOMAIN er = D
  BY <1>1 DEF Written
<1>4. \A x : x \in Bare(er) <=> x \in D /\ er[x] = <<>>
  BY <1>3 DEF Bare
<1>5. keys \in [1..n -> D] /\ Len(keys) = n
  <2>1. keys \in [1..n -> D]
    BY DEF Rising
  <2> QED BY <2>1
<1> PICK G : G = (acc.start < s /\ k > 1 /\ er[keys[k - 1]] = <<>> /\ EndsSpan(er, keys, k))
  OBVIOUS
<1>16. G => acc.start < s /\ k > 1 /\ er[keys[k - 1]] = <<>>
  BY ONLY G = (acc.start < s /\ k > 1 /\ er[keys[k - 1]] = <<>> /\ EndsSpan(er, keys, k)), Zenon
<1>6. al = IF G THEN [start |-> Max32 - 1, text |-> Append(q, Span(acc.start, s))]
           ELSE IF rl = <<Interval(0, -1)>> THEN [acc EXCEPT !.text = Append(q, Block(s, <<>>))]
           ELSE IF rl # <<>> THEN [start |-> U32(s + 1), text |-> Append(q, Block(s, rl))]
           ELSE IF k = n THEN [acc EXCEPT !.text = Append(q, Block(s, <<>>))] ELSE acc
  <2>1. al = IF acc.start < s /\ k > 1 /\ er[keys[k - 1]] = <<>> /\ EndsSpan(er, keys, k)
             THEN [start |-> Max32 - 1, text |-> Append(q, Span(acc.start, s))]
             ELSE IF rl = <<Interval(0, -1)>> THEN [acc EXCEPT !.text = Append(q, Block(s, <<>>))]
             ELSE IF rl # <<>> THEN [start |-> U32(s + 1), text |-> Append(q, Block(s, rl))]
             ELSE IF k = n THEN [acc EXCEPT !.text = Append(q, Block(s, <<>>))] ELSE acc
    BY ONLY <1>5, s = keys[k], rl = er[s], q = acc.text, al = PartAdded(er, keys, k, acc)
       DEF PartAdded
  <2> QED BY ONLY <2>1, G = (acc.start < s /\ k > 1 /\ er[keys[k - 1]] = <<>> /\ EndsSpan(er, keys, k))
<1>7. rl # <<Interval(0, -1)>>
  BY <1>3, NormalIsWritten
<1>8. EndsSpan(er, keys, k) <=> \/ k < n /\ er[t] # <<>>
                                \/ k = n /\ rl = <<>>
  BY ONLY <1>5, s = keys[k], t = keys[k + 1], rl = er[s] DEF EndsSpan

\* The next block is the one behind s, if it has no list.
<1>9. ASSUME k < n, t \in Bare(er)
      PROVE  t = s + 1
  <2>1. t - 1 \in D \/ \A x \in D : x >= t
    BY ONLY <1>3, <1>9, InRuns(er) DEF InRuns, Bare
  <2> QED BY ONLY <1>1, <1>9, <2>1
\* What is read up to s is what is below the next block, or all.
<1>10. /\ k < n => Upto(er, s) = Below(er, t)
       /\ k = n => Upto(er, s) = er
  <2>1. ASSUME k < n PROVE {x \in D : x <= s} = {x \in D : x < t}
    BY ONLY <1>1, <2>1
  <2>2. ASSUME k = n PROVE {x \in D : x <= s} = D
    BY ONLY <1>1, <2>2
  <2>3. er = [x \in D |-> er[x]]
    OBVIOUS
  <2> QED BY ONLY <1>3, <2>1, <2>2, <2>3 DEF Upto, Below
\* A block with its list is read.
<1>11. ASSUME d = s PROVE ReadBack(Append(q, Block(s, rl))) = Upto(er, s)
  <2> PICK p : p = Block(s, rl)
    OBVIOUS
  <2>1. p \in Parts /\ p.from = s /\ p.to = s /\ p.list = rl
    BY ONLY <1>1, <1>3, p = Block(s, rl) DEF Block, Parts
  <2>2. ReadBack(q) = Below(er, p.from) /\ p.from <= p.to
    BY ONLY <1>1, <1>2, <1>11, <2>1
  <2>3. \A x \in p.from..p.to : x \in D /\ er[x] = p.list
    BY ONLY <1>1, <2>1, rl = er[s]
  <2>4. ReadBack(Append(q, p)) = Upto(er, p.to)
    BY ONLY <1>0, <1>3, <2>1, <2>2, <2>3, er \in [D -> NormalLists], ReadMore
  <2> QED BY ONLY <2>1, <2>4, p = Block(s, rl)

<1>12. CASE rl # <<>>
  <2>1. s \notin Bare(er) /\ d = s /\ ~G
    <3>1. s \notin Bare(er)
      BY ONLY <1>4, <1>12, rl = er[s]
    <3> QED BY ONLY <1>1, <1>2, <1>3, <1>16, <3>1
  <2>2. al.start = U32(s + 1) /\ al.text = Append(q, Block(s, rl))
    BY ONLY <1>6, <1>7, <1>12, <2>1
  <2>3. ReadBack(al.text) = Upto(er, s)
    BY ONLY <1>11, <2>1, <2>2
  <2>4. ASSUME k < n PROVE Waiting(er, keys, k + 1, al, t)
    <3>1. t \in Int /\ t <= t /\ t..(t - 1) \subseteq Bare(er)
      BY ONLY <1>1, <2>4
    <3>2. ASSUME t \in Bare(er) PROVE al.start = t /\ ~(t - 1 \in Bare(er))
      <4>1. t = s + 1 /\ t - 1 = s
        BY ONLY <1>1, <1>9, <2>4, <3>2
      <4>2. t \in 0..(Max32 - 1)
        BY ONLY <1>0, <1>1, <2>4, D \in SUBSET (0..(Max32 - 2))
      <4>3. t % Max32 = t
        BY ONLY <1>0, <4>2
      <4> QED BY ONLY <2>1, <2>2, <4>1, <4>3 DEF U32
    <3>3. er[keys[k + 1 - 1]] # <<>>
      <4>1. k + 1 - 1 = k
        OBVIOUS
      <4> QED BY ONLY <1>12, <4>1, s = keys[k], rl = er[s]
    <3>4. ReadBack(al.text) = Below(er, t)
      BY ONLY <1>10, <2>3, <2>4
    <3> QED BY ONLY <3>1, <3>2, <3>3, <3>4, t = keys[k + 1] DEF Waiting
  <2>5. k = n => ReadBack(al.text) = er
    BY ONLY <1>10, <2>3
  <2> QED BY ONLY <2>4, <2>5, al = PartAdded(er, keys, k, acc) DEF Past

<1>13. CASE rl = <<>> /\ d < s
  <2>1. s \in Bare(er) /\ acc.start = d
    BY ONLY <1>1, <1>2, <1>4, <1>13, rl = er[s]
  <2>2. s - 1 \in D /\ er[s - 1] = <<>>
    <3>1. s - 1 \in d..(s - 1)
      BY ONLY <1>1, <1>2, <1>13
    <3> QED BY ONLY <1>2, <1>4, <3>1
  <2>3. k > 1 /\ keys[k - 1] = s - 1
    <3>1. k # 1
      BY ONLY <1>1, <2>2
    <3>2. k - 1 \in 1..n /\ k - 1 < n /\ (k - 1) + 1 = k
      BY ONLY <3>1, k \in 1..n, n \in Nat
    <3>3. /\ keys[k - 1] \in Int /\ keys[k - 1] < s
          /\ \A x \in D : x < s <=> x <= keys[k - 1]
      <4>1. /\ keys[k - 1] \in Int /\ keys[k - 1] < keys[(k - 1) + 1]
            /\ \A x \in D : x < keys[(k - 1) + 1] <=> x <= keys[k - 1]
        <5> PICK l \in 1..n : l = k - 1
          BY ONLY <3>2
        <5>1. l < n => /\ keys[l + 1] \in Int /\ keys[l] < keys[l + 1]
                       /\ \A x \in D : x < keys[l + 1] <=> x <= keys[l]
          BY ONLY <1>0, n \in Nat, Rising(keys, n, D), l \in 1..n, KeysNext
        <5>2. keys[l] \in Int
          BY ONLY <1>0, n \in Nat, Rising(keys, n, D), l \in 1..n, KeysNext
        <5> QED BY ONLY <3>2, <5>1, <5>2, l = k - 1
      <4> QED BY ONLY <3>2, <4>1, s = keys[k]
    <3>4. s - 1 <= keys[k - 1]
      BY ONLY <1>1, <2>2, <3>3
    <3>5. k > 1
      BY ONLY <3>1, k \in 1..n, n \in Nat
    <3> QED BY ONLY <1>1, <3>3, <3>4, <3>5
  <2>4. G <=> EndsSpan(er, keys, k)
    BY ONLY <1>13, <2>1, <2>2, <2>3, G = (acc.start < s /\ k > 1 /\ er[keys[k - 1]] = <<>> /\ EndsSpan(er, keys, k))
  <2>5. CASE EndsSpan(er, keys, k)
    <3>1. al.start = Max32 - 1 /\ al.text = Append(q, Span(d, s))
      BY ONLY <1>6, <2>1, <2>4, <2>5
    <3>2. ReadBack(al.text) = Upto(er, s)
      <4> PICK p : p = Span(d, s)
        OBVIOUS
      <4>1. p \in Parts /\ p.from = d /\ p.to = s /\ p.list = <<>>
        <5>1. <<>> \in NormalLists
          BY ONLY <1>3, <1>13
        <5> QED BY ONLY <1>1, <1>2, <5>1, p = Span(d, s) DEF Span, Parts
      <4>2. ReadBack(q) = Below(er, p.from) /\ p.from <= p.to
        BY ONLY <1>1, <1>2, <4>1
      <4>3. \A x \in p.from..p.to : x \in D /\ er[x] = p.list
        <5>1. \A x \in d..s : x = s \/ x \in d..(s - 1)
          BY ONLY <1>1, <1>2
        <5> QED BY ONLY <1>2, <1>4, <2>1, <4>1, <5>1
      <4>4. ReadBack(Append(q, p)) = Upto(er, p.to)
        BY ONLY <1>0, <1>3, <4>1, <4>2, <4>3, er \in [D -> NormalLists], ReadMore
      <4> QED BY ONLY <3>1, <4>1, <4>4, p = Span(d, s)
    <3>3. ASSUME k < n PROVE Waiting(er, keys, k + 1, al, t)
      <4>1. t \in Int /\ t <= t /\ t..(t - 1) \subseteq Bare(er)
        BY ONLY <1>1, <3>3
      <4>2. ~(t \in Bare(er))
        BY ONLY <1>4, <1>8, <2>5, <3>3, k \in 1..n, n \in Nat
      <4>3. al.start >= t
        BY ONLY <1>0, <1>1, <3>1, <3>3, D \in SUBSET (0..(Max32 - 2))
      <4>4. ReadBack(al.text) = Below(er, t)
        BY ONLY <1>10, <3>2, <3>3
      <4> QED BY ONLY <4>1, <4>2, <4>3, <4>4, t = keys[k + 1] DEF Waiting
    <3>4. k = n => ReadBack(al.text) = er
      BY ONLY <1>10, <3>2
    <3> QED BY ONLY <3>3, <3>4, al = PartAdded(er, keys, k, acc) DEF Past
  <2>6. CASE ~EndsSpan(er, keys, k)
    <3>1. k < n /\ er[t] = <<>>
      BY ONLY <1>8, <1>13, <2>6, k \in 1..n, n \in Nat
    <3>2. al = acc /\ t \in Bare(er)
      BY ONLY <1>1, <1>4, <1>6, <1>7, <1>13, <2>4, <2>6, <3>1, n \in Nat
    <3>3. t = s + 1
      BY ONLY <1>9, <3>1, <3>2
    <3>4. d <= t /\ d < t /\ d..(t - 1) \subseteq Bare(er)
      <4>1. \A x \in d..(t - 1) : x = s \/ x \in d..(s - 1)
        BY ONLY <1>1, <1>2, <3>3
      <4>2. d <= t /\ d < t
        BY ONLY <1>1, <1>2, <3>3
      <4> QED BY ONLY <1>2, <2>1, <4>1, <4>2
    <3>5. Waiting(er, keys, k + 1, al, d)
      BY ONLY <1>2, <2>1, <3>2, <3>4, t = keys[k + 1], q = acc.text DEF Waiting
    <3>6. k # n
      BY ONLY <3>1, k \in 1..n, n \in Nat
    <3> QED BY ONLY <3>5, <3>6, al = PartAdded(er, keys, k, acc) DEF Past
  <2> QED BY ONLY <2>5, <2>6

<1>14. CASE rl = <<>> /\ d = s
  <2>1. s \in Bare(er) /\ acc.start = s /\ ~(s - 1 \in Bare(er))
    BY ONLY <1>1, <1>2, <1>4, <1>14, rl = er[s]
  <2>2. ~G
    BY ONLY <1>1, <1>16, <2>1
  <2>3. CASE k = n
    <3>1. al = [acc EXCEPT !.text = Append(q, Block(s, <<>>))]
      BY ONLY <1>6, <1>7, <1>14, <2>2, <2>3
    <3>2. al.text = Append(q, Block(s, rl))
      BY ONLY <1>14, <3>1, acc \in Written DEF Written
    <3>3. ReadBack(al.text) = er
      BY ONLY <1>10, <1>11, <1>14, <2>3, <3>2
    <3>4. ~(k < n)
      BY ONLY <2>3, n \in Nat
    <3> QED BY ONLY <3>3, <3>4, al = PartAdded(er, keys, k, acc) DEF Past
  <2>4. CASE k # n
    <3>0. k < n
      BY ONLY <2>4, k \in 1..n, n \in Nat
    <3>1. al = acc
      BY ONLY <1>6, <1>7, <1>14, <2>2, <2>4
    <3>2. s + 1 \in Bare(er)
      <4>1. {s - 1, s + 1} \cap Bare(er) # {} \/ \A x \in D : x <= s
        BY ONLY <1>3, <2>1, InRuns(er) DEF InRuns, Bare
      <4>2. ~(\A x \in D : x <= s)
        BY ONLY <1>1, <3>0
      <4> QED BY ONLY <2>1, <4>1, <4>2
    <3>3. t = s + 1
      <4>1. s + 1 \in D
        BY ONLY <1>4, <3>2
      <4> QED BY ONLY <1>1, <3>0, <4>1
    <3>4. d <= t /\ d < t /\ d..(t - 1) \subseteq Bare(er)
      <4>1. \A x \in d..(t - 1) : x = s
        BY ONLY <1>1, <1>14, <3>3
      <4>2. d <= t /\ d < t
        BY ONLY <1>1, <1>14, <3>3
      <4> QED BY ONLY <2>1, <4>1, <4>2
    <3>5. Waiting(er, keys, k + 1, al, d)
      BY ONLY <1>2, <1>14, <2>1, <3>1, <3>2, <3>3, <3>4, t = keys[k + 1], q = acc.text DEF Waiting
    <3> QED BY ONLY <2>4, <3>5, al = PartAdded(er, keys, k, acc) DEF Past
  <2> QED BY ONLY <2>3, <2>4
<1> QED BY ONLY <1>1, <1>2, <1>12, <1>13, <1>14

\* Without a block there is nothing.
LEMMA NoBlocks ==
  ASSUME NEW f, f = [x \in {} |-> f[x]]
  PROVE  f = NoESIs
<1>1. <<>> = [x \in {} |-> f[x]]
  OBVIOUS
<1> QED BY <1>1 DEF NoESIs

LEMMA TextIs ==
  ASSUME NEW D \in SUBSET (0..(Max32 - 2)), IsFiniteSet(D), D # {},
         NEW er \in [D -> NormalLists], InRuns(er)
  PROVE  /\ MarshalText(er) \in Seq(Parts) /\ MarshalText(er) # <<>>
         /\ ReadBack(MarshalText(er)) = er
<1> PICK n, keys : n = Cardinality(D) /\ keys = Keys(er)
  OBVIOUS
<1>0. D \in SUBSET Int /\ DOMAIN er = D
  BY WidthAssumption
<1>1. n \in Nat /\ Rising(keys, n, D)
  BY <1>0, KeysAre
<1>2. n # 0 /\ keys \in [1..n -> D]
  <2>1. PICK x : x \in D
    OBVIOUS
  <2>2. PICK k \in 1..n : keys[k] = x
    BY <1>1, <2>1 DEF Rising
  <2>3. n # 0
    BY <1>1, <2>2
  <2> QED BY <1>1, <2>3 DEF Rising
<1>3. PICK g : Writing(g, n, er, keys) /\ MarshalText(er) = g[n].text
  BY <1>0, <1>1, <1>2, MarshalSteps
<1>4. /\ g[0] = [start |-> keys[1], text |-> <<>>]
      /\ \A k \in 0..n : g[k] \in Written
      /\ \A k \in 1..n : g[k] = PartAdded(er, keys, k, g[k - 1])
  BY ONLY <1>3 DEF Writing
<1>5. ReadBack(<<>>) = NoESIs
  <2>1. Span(0, 0) \in Parts /\ <<>> \in Seq(Parts)
    <3>1. <<>> \in Seq(Parts) /\ 0 \in Int
      OBVIOUS
    <3>2. \E rl : rl \in NormalLists
      BY D # {}
    <3>3. <<>> \in NormalLists
      BY ONLY <3>1, <3>2, PartsTyped
    <3> QED BY ONLY <3>1, <3>3 DEF Span, Parts
  <2> QED BY ONLY <2>1, ReadAppend DEF ReadBack
<1>6. Waiting(er, keys, 1, g[0], keys[1])
  <2> PICK s : s = keys[1]
    OBVIOUS
  <2>1. s \in D /\ s \in Int /\ \A x \in D : s <= x
    <3>1. 1 \in 1..n
      BY <1>1, <1>2
    <3> QED BY ONLY <1>0, <1>1, <3>1, s = keys[1], KeysNext
  <2>2. Below(er, s) = NoESIs
    <3> PICK f : f = Below(er, s)
      OBVIOUS
    <3>1. {x \in D : x < s} = {}
      <4>1. ASSUME NEW x \in D PROVE ~(x < s)
        BY ONLY <1>0, <2>1, x \in D
      <4> QED BY ONLY <4>1
    <3>2. f = [x \in {} |-> er[x]]
      BY ONLY <1>0, <3>1, f = Below(er, s) DEF Below
    <3>3. f = [x \in {} |-> f[x]]
      BY ONLY <3>2
    <3> QED BY ONLY <3>3, f = Below(er, s), NoBlocks
  <2>3. s..(s - 1) \subseteq Bare(er) /\ ~(s - 1 \in Bare(er))
    <3>1. ~(s - 1 \in D)
      BY ONLY <1>0, <2>1
    <3> QED BY ONLY <1>0, <2>1, <3>1 DEF Bare
  <2>4. g[0].start = s /\ g[0].text = <<>>
    BY ONLY <1>4, s = keys[1]
  <2>5. ~(1 > 1) /\ s <= s
    BY ONLY <2>1
  <2> QED BY ONLY <1>5, <2>1, <2>2, <2>3, <2>4, <2>5, s = keys[1] DEF Waiting
<1>7. ASSUME NEW k \in 1..n, \E d : Waiting(er, keys, k, g[k - 1], d)
      PROVE  Past(er, keys, n, k, g[k])
  <2>1. g[k - 1] \in Written /\ g[k] = PartAdded(er, keys, k, g[k - 1])
    <3>1. k - 1 \in 0..n
      BY ONLY <1>1, k \in 1..n
    <3> QED BY ONLY <1>4, <3>1, k \in 1..n
  <2>2. PICK d : Waiting(er, keys, k, g[k - 1], d)
    BY <1>7
  <2>3. Past(er, keys, n, k, PartAdded(er, keys, k, g[k - 1]))
    BY ONLY <1>1, <2>1, <2>2, D \in SUBSET (0..(Max32 - 2)), er \in [D -> NormalLists],
       InRuns(er), k \in 1..n, BlockPast
  <2> QED BY ONLY <2>1, <2>3
<1> PICK P : P = {k \in 0..n : k < n => \E d : Waiting(er, keys, k + 1, g[k], d)}
  OBVIOUS
<1>8. \A k \in 0..n : k \in P
  <2>1. 0 \in P
    <3>1. 0 \in 0..n /\ 0 + 1 = 1
      BY ONLY <1>1
    <3> QED BY ONLY <1>6, <3>1, P = {k \in 0..n : k < n => \E d : Waiting(er, keys, k + 1, g[k], d)}
  <2>2. ASSUME NEW k \in 1..n, k - 1 \in P PROVE k \in P
    <3>1. k - 1 \in 0..n /\ k - 1 < n /\ (k - 1) + 1 = k /\ k \in 0..n
      BY ONLY <1>1, k \in 1..n
    <3>2. \E d : Waiting(er, keys, k, g[k - 1], d)
      BY ONLY <2>2, <3>1, P = {m \in 0..n : m < n => \E d : Waiting(er, keys, m + 1, g[m], d)}
    <3>3. Past(er, keys, n, k, g[k])
      BY ONLY <1>7, <3>2, k \in 1..n
    <3>4. k < n => \E d : Waiting(er, keys, k + 1, g[k], d)
      BY ONLY <3>3 DEF Past
    <3> QED BY ONLY <3>1, <3>4, P = {m \in 0..n : m < n => \E d : Waiting(er, keys, m + 1, g[m], d)}
  <2> QED BY ONLY <1>1, <2>1, <2>2, Upwards
<1>9. ReadBack(g[n].text) = er
  <2>1. n \in 1..n /\ n - 1 \in 0..n /\ n - 1 < n /\ (n - 1) + 1 = n
    BY ONLY <1>1, <1>2
  <2>2. \E d : Waiting(er, keys, n, g[n - 1], d)
    BY ONLY <1>8, <2>1, P = {m \in 0..n : m < n => \E d : Waiting(er, keys, m + 1, g[m], d)}
  <2>3. Past(er, keys, n, n, g[n])
    BY ONLY <1>7, <2>1, <2>2
  <2> QED BY ONLY <2>3 DEF Past
<1>10. g[n].text \in Seq(Parts)
  <2>1. n \in 0..n
    BY ONLY <1>1
  <2> QED BY ONLY <1>4, <2>1 DEF Written
<1>11. er # NoESIs
  BY ONLY <1>0, D # {}, NothingRead
<1> QED BY ONLY <1>3, <1>5, <1>9, <1>10, <1>11

\* The ends that are moved forth after they were moved back are where they were.
LEMMA EndsMovedBack ==
  ASSUME NEW text \in Seq(Parts)
  PROVE  WithEnds(WithEnds(text, -1), 1) = text
<1> PICK n \in Nat : n = Len(text)
  OBVIOUS
<1> DEFINE Moved(p, way) ==
             IF p.span THEN Span(p.from, p.to + way * p.from)
             ELSE Block(p.from, [m \in DOMAIN p.list |->
                                   Interval(p.list[m].start, p.list[m].end + way * p.list[m].start)])
<1>1. DOMAIN text = 1..n /\ \A k \in 1..n : text[k] \in Parts
  OBVIOUS
<1>2. ASSUME NEW t, NEW way
      PROVE  WithEnds(t, way) = [k \in DOMAIN t |-> Moved(t[k], way)]
  BY DEF WithEnds
<1>3. WithEnds(WithEnds(text, -1), 1) = [k \in 1..n |-> Moved(Moved(text[k], -1), 1)]
  <2> PICK back : back = WithEnds(text, -1)
    OBVIOUS
  <2> HIDE DEF Moved
  <2>1. DOMAIN back = 1..n /\ \A k \in 1..n : back[k] = Moved(text[k], -1)
    BY ONLY <1>1, <1>2, back = WithEnds(text, -1)
  <2>2. WithEnds(back, 1) = [k \in DOMAIN back |-> Moved(back[k], 1)]
    BY <1>2
  <2> QED BY ONLY <2>1, <2>2, back = WithEnds(text, -1)
<1>4. ASSUME NEW p \in Parts
      PROVE  Moved(Moved(p, -1), 1) = p
  <2> PICK from, to, rl : from = p.from /\ to = p.to /\ rl = p.list
    OBVIOUS
  <2>1. /\ p.span \in BOOLEAN /\ from \in Int /\ to \in Int /\ rl \in Seq(RangeType)
        /\ p = [span |-> p.span, from |-> from, to |-> to, list |-> rl]
        /\ IF p.span THEN rl = <<>> ELSE to = from
    BY DEF Parts, NormalLists
  <2>2. CASE p.span
    <3>1. p = Span(from, to)
      BY ONLY <2>1, <2>2 DEF Span
    <3>2. Moved(p, -1) = Span(from, to + (-1) * from)
      BY ONLY <2>2, from = p.from /\ to = p.to /\ rl = p.list
    <3> PICK o, te : o = Moved(p, -1) /\ te = to + (-1) * from
      OBVIOUS
    <3>3. o.span /\ o.from = from /\ o.to = te
      BY ONLY <3>2, o = Moved(p, -1) /\ te = to + (-1) * from DEF Span
    <3>4. Moved(o, 1) = Span(from, te + 1 * from)
      BY ONLY <3>3
    <3>5. te + 1 * from = to
      BY ONLY <2>1, o = Moved(p, -1) /\ te = to + (-1) * from
    <3> HIDE DEF Moved
    <3> QED BY ONLY <3>1, <3>4, <3>5, o = Moved(p, -1) /\ te = to + (-1) * from
  <2>3. CASE ~p.span
    <3>1. p = Block(from, rl)
      BY ONLY <2>1, <2>3 DEF Block
    <3> PICK rm : rm = [m \in DOMAIN rl |-> Interval(rl[m].start, rl[m].end + (-1) * rl[m].start)]
      OBVIOUS
    <3>2. Moved(p, -1) = Block(from, rm)
      BY ONLY <2>3, from = p.from /\ to = p.to /\ rl = p.list,
         rm = [m \in DOMAIN rl |-> Interval(rl[m].start, rl[m].end + (-1) * rl[m].start)]
    <3> PICK o : o = Moved(p, -1)
      OBVIOUS
    <3>3. ~o.span /\ o.from = from /\ o.list = rm
      BY ONLY <3>2, o = Moved(p, -1) DEF Block
    <3>4. Moved(o, 1) = Block(from, [m \in DOMAIN rm |->
                                       Interval(rm[m].start, rm[m].end + 1 * rm[m].start)])
      BY ONLY <3>3
    <3>5. [m \in DOMAIN rm |-> Interval(rm[m].start, rm[m].end + 1 * rm[m].start)] = rl
      <4>1. DOMAIN rm = DOMAIN rl
        BY ONLY rm = [m \in DOMAIN rl |-> Interval(rl[m].start, rl[m].end + (-1) * rl[m].start)]
      <4>2. ASSUME NEW m \in DOMAIN rl
            PROVE  Interval(rm[m].start, rm[m].end + 1 * rm[m].start) = rl[m]
        <5> PICK x, y : x = rl[m].start /\ y = rl[m].end
          OBVIOUS
        <5>1. rl[m] \in RangeType
          BY ONLY <2>1, m \in DOMAIN rl
        <5>2. x \in Int /\ y \in Int /\ rl[m] = [start |-> x, end |-> y]
          BY ONLY <5>1, x = rl[m].start /\ y = rl[m].end DEF RangeType
        <5>3. rm[m] = Interval(x, y + (-1) * x)
          BY ONLY m \in DOMAIN rl, x = rl[m].start /\ y = rl[m].end,
             rm = [k \in DOMAIN rl |-> Interval(rl[k].start, rl[k].end + (-1) * rl[k].start)]
        <5>4. rm[m].start = x /\ rm[m].end = y + (-1) * x
          BY ONLY <5>3 DEF Interval
        <5>5. (y + (-1) * x) + 1 * x = y
          BY ONLY <5>2
        <5> QED BY ONLY <5>2, <5>4, <5>5 DEF Interval
      <4>3. rl = [m \in DOMAIN rl |-> rl[m]]
        BY ONLY <2>1
      <4> QED BY ONLY <4>1, <4>2, <4>3
    <3> HIDE DEF Moved
    <3> QED BY ONLY <3>1, <3>4, <3>5, o = Moved(p, -1)
  <2> QED BY ONLY ZenonT(30), <2>1, <2>2, <2>3
<1> HIDE DEF Moved
<1>5. text = [k \in 1..n |-> text[k]]
  OBVIOUS
<1> QED BY ONLY <1>1, <1>3, <1>4, <1>5

\* The texts that a receiver is called with.
LEMMA TextReadBack ==
  ASSUME NEW er \in Texts, er # NoESIs, InRuns(er)
  PROVE  /\ MarshalText(er) \in Seq(Parts)
         /\ UnmarshalText(MarshalText(er)) = Ok(er)
<1> PICK D : D = DOMAIN er
  OBVIOUS
<1>1. /\ IsFiniteSet(D) /\ D \in SUBSET (0..(Max32 - 2))
      /\ er \in [D -> Seq(RangeType)] /\ \A s \in D : Normal(er[s])
  BY TextsAssumption
<1>2. er \in [D -> NormalLists]
  BY ONLY <1>1 DEF NormalLists
<1>3. D # {}
  <2> SUFFICES ASSUME D = {} PROVE er = NoESIs
    OBVIOUS
  <2>1. er = [x \in {} |-> er[x]]
    BY ONLY <1>1, D = {}
  <2> QED BY ONLY <2>1, NoBlocks
<1>4. /\ MarshalText(er) \in Seq(Parts) /\ MarshalText(er) # <<>>
      /\ FoldLeft(Read, NoESIs, MarshalText(er)) = er
  BY <1>1, <1>2, <1>3, TextIs DEF ReadBack
<1> QED BY ONLY <1>4 DEF UnmarshalText

-----------------------------------------------------------------------------
(* Missing: the invariant of its loop *)

TypeOK ==
  /\ pc \in {"idle", "loop", "done"}
  /\ has \in Seq(RangeType) /\ Apart(has, 0)
  /\ ret \in Seq(RangeType)
  /\ start \in Nat /\ end \in Int /\ cur \in Int
  /\ i \in 1..(Len(has) + 1)

\* What the list lacks before c.
Lacks(c) == {x \in start..end : x < c /\ x \notin Offsets(has)}

LoopInv ==
  pc = "loop" =>
    /\ start <= cur /\ cur <= end
    /\ \A k \in 1..(i - 1) : has[k].end < cur
    /\ Offsets(ret) = Lacks(cur)
    /\ \A k \in 1..Len(ret) : ret[k].end + 1 < cur
    /\ Normal(ret)

Inv == TypeOK /\ LoopInv /\ MissingExact /\ MissingNormal

LEMMA InitInv == Init => Inv
BY EmptyList DEF Init, Inv, TypeOK, LoopInv, MissingExact, MissingNormal, Normal, Apart

\* A call enters the loop with nothing found, or is over.
LEMMA CallInv ==
  ASSUME Inv, NEW h \in HasLists, NEW s \in Starts, NEW e \in Ends, Call(h, s, e)
  PROVE  Inv'
<1>1. h \in Seq(RangeType) /\ Apart(h, 0) /\ s \in Nat /\ e \in Int
  BY ListsAssumption
<1>2. TypeOK'
  BY <1>1, EmptyList DEF Call, TypeOK
<1>3. LoopInv'
  <2> SUFFICES ASSUME pc' = "loop" PROVE LoopInv'
    BY DEF LoopInv
  <2>1. start' <= cur' /\ cur' <= end' /\ i' = 1 /\ ret' = <<>> /\ Len(ret') = 0
    BY <1>1 DEF Call
  <2>2. Lacks(cur)' = {}
    BY <1>1 DEF Call, Lacks
  <2> QED BY <2>1, <2>2, EmptyList DEF LoopInv
<1>4. ASSUME pc' = "done" PROVE (start'..end') \ Offsets(has') = {}
  <2>1. start'..end' = {}
    BY <1>1, <1>4 DEF Call
  <2> QED BY <2>1
<1>5. MissingExact' /\ MissingNormal'
  BY <1>4, EmptyList DEF Call, MissingExact, MissingNormal
<1> QED BY <1>2, <1>3, <1>5 DEF Inv

\* The ranges from i on start after end, those before i end before cur: the
\* list has nothing in cur..end.
LEMMA FinishInv ==
  ASSUME Inv, Finish
  PROVE  Inv'
<1> USE DEF Inv
<1>1. /\ has \in Seq(RangeType) /\ ret \in Seq(RangeType) /\ Apart(has, 0)
      /\ start \in Nat /\ end \in Int /\ cur \in Int /\ i \in 1..(Len(has) + 1)
      /\ Len(has) \in Nat
  BY DEF TypeOK
<1>2. /\ start <= cur /\ cur <= end
      /\ \A k \in 1..(i - 1) : has[k].end < cur
      /\ Offsets(ret) = Lacks(cur)
      /\ \A k \in 1..Len(ret) : ret[k].end + 1 < cur
      /\ Normal(ret)
  BY DEF Finish, LoopInv
<1>3. ret' = Append(ret, Interval(cur, end))
  BY <1>1, <1>2 DEF Finish, TailMissing
<1>4. Interval(cur, end) \in RangeType /\ Interval(cur, end).start = cur /\ Interval(cur, end).end = end
  BY <1>1, RangeTyped
<1>5. ASSUME NEW x \in cur..end PROVE x \notin Offsets(has)
  <2> SUFFICES ASSUME NEW k \in 1..Len(has), x \in has[k].start..has[k].end PROVE FALSE
    BY <1>1, InOffsets
  <2>1. has[k].start \in Int /\ has[k].end \in Int
    BY <1>1, ElementTyped
  <2>2. k >= i
    BY <1>1, <1>2, <2>1
  <2>3. has[i].start > end /\ has[i].start \in Int /\ has[i].end \in Int
    BY SMTT(30), <1>1, <2>2, ElementTyped DEF Finish
  <2>4. has[k].start >= has[i].start
    <3>1. CASE k = i
      BY <3>1, <2>3
    <3>2. CASE k > i
      <4>1. i \in 1..Len(has)
        BY <1>1, <2>2
      <4>2. has[i].end + 0 < has[k].start /\ has[i].start <= has[i].end
        BY <1>1, <4>1, <3>2, InApart
      <4> QED BY SMTT(30), <4>2, <2>1, <2>3
    <3> QED BY <2>2, <3>1, <3>2, <1>1
  <2> QED BY SMTT(30), <1>1, <2>1, <2>3, <2>4
<1>6. Offsets(ret') = (start..end) \ Offsets(has)
  <2>1. Offsets(ret') = Lacks(cur) \cup (cur..end)
    BY <1>1, <1>2, <1>3, <1>4, OffsetsAppend
  <2> QED BY <1>1, <1>2, <1>5, <2>1 DEF Lacks
<1>7. Normal(ret')
  BY <1>1, <1>2, <1>3, <1>4, NormalAppend
<1>8. TypeOK'
  BY <1>1, <1>3, <1>4, Appended DEF Finish, TypeOK
<1>9. LoopInv'
  BY DEF Finish, LoopInv
<1>10. MissingExact' /\ MissingNormal'
  BY <1>6, <1>7 DEF Finish, MissingExact, MissingNormal
<1> QED BY <1>8, <1>9, <1>10

LEMMA BehindInv ==
  ASSUME Inv, Behind
  PROVE  Inv'
<1> USE DEF Inv
<1>1. /\ has \in Seq(RangeType) /\ i \in 1..Len(has) /\ Len(has) \in Nat /\ cur \in Int
  BY DEF TypeOK, Behind, Looking
<1>2. TypeOK'
  BY <1>1 DEF TypeOK, Behind, Looking
<1>3. \A k \in 1..(i' - 1) : has'[k].end < cur'
  <2> SUFFICES ASSUME NEW k \in 1..i PROVE has[k].end < cur
    BY <1>1 DEF Behind
  <2>1. has[i].end \in Int
    BY <1>1, ElementTyped
  <2>2. CASE k = i
    BY <2>1, <2>2, <1>1 DEF Behind
  <2>3. CASE k \in 1..(i - 1)
    BY <2>3 DEF LoopInv, Behind, Looking
  <2> QED BY <1>1, <2>2, <2>3
<1>4. LoopInv'
  BY <1>3 DEF LoopInv, Lacks, Behind, Looking
<1>5. MissingExact' /\ MissingNormal'
  BY DEF Behind, Looking, MissingExact, MissingNormal
<1> QED BY <1>2, <1>4, <1>5

\* The gap before has[i] is missing, has[i] is not.
LEMMA AheadInv ==
  ASSUME Inv, Ahead
  PROVE  Inv'
<1> USE DEF Inv
<1> DEFINE r == has[i]
           gap == Interval(cur, r.start - 1)
<1>1. /\ has \in Seq(RangeType) /\ ret \in Seq(RangeType) /\ Apart(has, 0)
      /\ start \in Nat /\ end \in Int /\ cur \in Int
      /\ i \in 1..Len(has) /\ Len(has) \in Nat
      /\ r.start \in Int /\ r.end \in Int
  BY SMTT(30), ElementTyped DEF TypeOK, Ahead, Looking
<1>2. /\ start <= cur /\ cur <= end
      /\ \A k \in 1..(i - 1) : has[k].end < cur
      /\ Offsets(ret) = Lacks(cur)
      /\ \A k \in 1..Len(ret) : ret[k].end + 1 < cur
      /\ Normal(ret)
  BY DEF Ahead, Looking, LoopInv
<1>3. /\ cur <= r.end /\ r.start <= end /\ cur' = r.end + 1
      /\ has' = has /\ start' = start /\ end' = end
  BY DEF Ahead, Looking, SkipRange
<1>4. r.start <= r.end
  BY <1>1, InApart
<1>5. \A k \in 1..i : has[k].end < cur'
  <2> SUFFICES ASSUME NEW k \in 1..i PROVE has[k].end < cur'
    OBVIOUS
  <2>1. has[k].end \in Int
    BY <1>1, ElementTyped
  <2>2. CASE k = i
    BY <1>1, <1>3, <2>2
  <2>3. CASE k \in 1..(i - 1)
    BY SMTT(30), <1>1, <1>2, <1>3, <2>1, <2>3
  <2> QED BY <1>1, <2>2, <2>3
<1>6. ASSUME NEW x \in cur..(r.start - 1) PROVE x \notin Offsets(has)
  <2> SUFFICES ASSUME NEW k \in 1..Len(has), x \in has[k].start..has[k].end PROVE FALSE
    BY <1>1, InOffsets
  <2>1. has[k].start \in Int /\ has[k].end \in Int
    BY <1>1, ElementTyped
  <2>2. k >= i
    <3> SUFFICES ASSUME k < i PROVE FALSE
      BY <1>1
    <3>1. k \in 1..(i - 1)
      BY <1>1
    <3>2. has[k].end < cur
      BY <1>2, <3>1
    <3> QED BY <1>1, <2>1, <3>2
  <2>3. CASE k = i
    BY <1>1, <2>3
  <2>4. CASE k > i
    <3>1. r.end + 0 < has[k].start
      BY <1>1, <2>4, InApart
    <3> QED BY SMTT(30), <1>1, <1>4, <2>1, <3>1
  <2> QED BY <1>1, <2>2, <2>3, <2>4
<1>7. ASSUME NEW x \in r.start..r.end PROVE x \in Offsets(has)
  BY <1>1, InOffsets
<1>8. /\ ret' \in Seq(RangeType)
      /\ Normal(ret')
      /\ \A k \in 1..Len(ret') : ret'[k].end + 1 < cur'
      /\ Offsets(ret') = Lacks(cur')
  <2>1. CASE cur < r.start
    <3>1. ret' = Append(ret, gap)
      BY <2>1 DEF Ahead
    <3>2. gap \in RangeType /\ gap.start = cur /\ gap.end = r.start - 1
      BY <1>1, RangeTyped
    <3>3. ret' \in Seq(RangeType)
      BY <1>1, <3>1, <3>2, Appended
    <3>4. Normal(ret')
      BY SMTT(30), <1>1, <1>2, <2>1, <3>1, <3>2, NormalAppend
    <3>5. ASSUME NEW k \in 1..Len(ret') PROVE ret'[k].end + 1 < cur'
      <4>1. Len(ret') = Len(ret) + 1 /\ Len(ret) \in Nat
        BY <1>1, <3>1, <3>2, Appended
      <4>2. CASE k \in 1..Len(ret)
        <5>1. ret'[k] = ret[k] /\ ret[k].end \in Int
          BY <1>1, <3>1, <3>2, <4>2, Appended, ElementTyped
        <5> QED BY SMTT(30), <1>1, <1>2, <1>3, <4>2, <5>1
      <4>3. CASE k = Len(ret) + 1
        <5>1. ret'[k] = gap
          BY <1>1, <3>1, <3>2, <4>3, Appended
        <5> QED BY SMTT(30), <1>1, <1>3, <1>4, <3>2, <5>1
      <4> QED BY <4>1, <4>2, <4>3
    <3>6. Offsets(ret') = Lacks(cur) \cup (cur..(r.start - 1))
      BY <1>1, <1>2, <3>1, <3>2, OffsetsAppend
    <3>7. Lacks(cur') = Lacks(cur) \cup (cur..(r.start - 1))
      <4>1. ASSUME NEW x \in start..end, x < r.end + 1, x \notin Offsets(has)
            PROVE  x < cur \/ x \in cur..(r.start - 1)
        BY SMTT(30), <1>1, <1>7, <4>1
      <4>2. ASSUME NEW x \in cur..(r.start - 1)
            PROVE  x \in start..end /\ x < r.end + 1 /\ x \notin Offsets(has)
        BY SMTT(30), <1>1, <1>2, <1>3, <1>4, <1>6, <4>2
      <4> QED BY SMTT(30), <1>1, <1>3, <4>1, <4>2 DEF Lacks
    <3> QED BY <3>3, <3>4, <3>5, <3>6, <3>7
  <2>2. CASE ~(cur < r.start)
    <3>1. ret' = ret
      BY <2>2 DEF Ahead
    <3>2. \A k \in 1..Len(ret) : ret[k].end + 1 < cur'
      <4> SUFFICES ASSUME NEW k \in 1..Len(ret) PROVE ret[k].end + 1 < cur'
        OBVIOUS
      <4>1. ret[k].end \in Int
        BY <1>1, ElementTyped
      <4> QED BY SMTT(30), <1>1, <1>2, <1>3, <4>1
    <3>3. Lacks(cur') = Lacks(cur)
      <4>1. ASSUME NEW x \in start..end, x < r.end + 1, x \notin Offsets(has)
            PROVE  x < cur
        BY SMTT(30), <1>1, <1>7, <2>2, <4>1
      <4> QED BY SMTT(30), <1>1, <1>3, <4>1 DEF Lacks
    <3> QED BY <1>1, <1>2, <3>1, <3>2, <3>3
  <2> QED BY <2>1, <2>2
<1>9. Lacks(cur)' = Lacks(cur')
  BY <1>3 DEF Lacks
<1>10. CASE cur' > end
  <2>1. pc' = "done" /\ i' = i
    BY <1>10 DEF Ahead
  <2>2. TypeOK'
    BY SMTT(30), <1>1, <1>3, <1>8, <2>1 DEF TypeOK
  <2>3. Offsets(ret') = (start..end) \ Offsets(has)
    BY <1>1, <1>3, <1>8, <1>10 DEF Lacks
  <2> QED BY <1>3, <1>8, <2>1, <2>2, <2>3 DEF LoopInv, MissingExact, MissingNormal
<1>11. CASE ~(cur' > end)
  <2>1. pc' = "loop" /\ i' = i + 1
    BY <1>11 DEF Ahead, Looking
  <2>2. TypeOK'
    BY SMTT(30), <1>1, <1>3, <1>8, <2>1 DEF TypeOK
  <2>3. LoopInv'
    <3>1. start' <= cur' /\ cur' <= end'
      BY SMTT(30), <1>1, <1>2, <1>3, <1>11
    <3>2. \A k \in 1..(i' - 1) : has'[k].end < cur'
      BY <1>1, <1>3, <1>5, <2>1
    <3> QED BY <3>1, <3>2, <1>8, <1>9 DEF LoopInv
  <2> QED BY <2>1, <2>2, <2>3 DEF MissingExact, MissingNormal
<1> QED BY <1>10, <1>11

LEMMA NextInv == Inv /\ [Next]_vars => Inv'
<1> SUFFICES ASSUME Inv, [Next]_vars PROVE Inv'
  OBVIOUS
<1>1. CASE \E h \in HasLists, s \in Starts, e \in Ends : Call(h, s, e)
  BY <1>1, CallInv
<1>2. CASE Finish
  BY <1>2, FinishInv
<1>3. CASE Behind
  BY <1>3, BehindInv
<1>4. CASE Ahead
  BY <1>4, AheadInv
<1>5. CASE Return
  BY <1>5, EmptyList DEF Return, Inv, TypeOK, LoopInv, MissingExact, MissingNormal, Normal, Apart
<1>6. CASE UNCHANGED vars
  BY <1>6 DEF vars, Inv, TypeOK, LoopInv, Lacks, MissingExact, MissingNormal
<1> QED BY <1>1, <1>2, <1>3, <1>4, <1>5, <1>6 DEF Next

\* The loop of Missing keeps its invariant.
THEOREM Invariance == Spec => []Inv
BY InitInv, NextInv, PTL DEF Spec

\* For every ordered list and all bounds, Missing (fec/util.go:909-934) returns
\* what the list lacks of start..end: every offset of it, and no other.
THEOREM Exact == Spec => []MissingExact
<1>1. Inv => MissingExact
  BY DEF Inv
<1> QED BY <1>1, Invariance, PTL

\* And what it returns is a normal list.
THEOREM NormalResult == Spec => []MissingNormal
<1>1. Inv => MissingNormal
  BY DEF Inv
<1> QED BY <1>1, Invariance, PTL

-----------------------------------------------------------------------------
(* The calls of a receiver *)

\* The calls of Symbols leave Missing alone.
LEMMA WalkSteps ==
  ASSUME [ReceiverNext]_<<vars, symbolVars>>
  PROVE  [Next]_vars
<1>1. CASE Walk
  <2>1. CASE pc = "idle" /\ \E h \in HasLists, s \in Starts, e \in Ends : Call(h, s, e)
    BY <2>1 DEF Next
  <2>2. CASE Finish \/ Behind \/ Ahead \/ Return
    BY <2>2 DEF Next
  <2> QED BY <1>1, <2>1, <2>2 DEF Walk
<1>2. CASE CallRequest
  BY <1>2 DEF CallRequest
<1>3. CASE CallSymbols \/ ReturnSymbols \/ UNCHANGED <<vars, symbolVars>>
  BY <1>3 DEF CallSymbols, ReturnSymbols
<1> QED BY <1>1, <1>2, <1>3 DEF ReceiverNext

\* No other function touches Missing while it goes on: its invariant holds for
\* the receiver, too.
THEOREM ReceiverInvariance == ReceiverSpec => []Inv
<1>1. ReceiverInit => Inv
  BY InitInv DEF ReceiverInit
<1>2. Inv /\ [ReceiverNext]_<<vars, symbolVars>> => Inv'
  BY WalkSteps, NextInv
<1> QED BY <1>1, <1>2, PTL DEF ReceiverSpec

\* Only a call sets what was called, and nothing but a return changes it after.
LEMMA Calls ==
  ASSUME [ReceiverNext]_<<vars, symbolVars>>
  PROVE  \/ UNCHANGED symbolVars
         \/ call' = "none"
         \/ CallFromList \/ CallForSBN \/ CallMissing \/ CallToList \/ CallText \/ CallQuery
         \/ CallRequest
BY DEF ReceiverNext, Walk, CallSymbols, SymbolsCall, ReturnSymbols, SymbolsReturn, symbolVars

LEMMA CallMissingBalanced ==
  ASSUME CallMissing
  PROVE  MissingBalanced'
<1> PICK b \in Structures : \E m \in ESIRanges(b, TRUE), h \in ESIRanges(b, FALSE) :
        /\ bs' = b /\ args' = [missing |-> m, has |-> h]
        /\ answer' = GetMissingESIs(b, m, h)
  BY DEF CallMissing, Called
<1> PICK m \in ESIRanges(b, TRUE), h \in ESIRanges(b, FALSE) :
        /\ bs' = b /\ args' = [missing |-> m, has |-> h]
        /\ answer' = GetMissingESIs(b, m, h)
  OBVIOUS
<1> PICK er : er = GetMissingESIs(b, m, h)
  OBVIOUS
<1>1. /\ InLists(m) /\ InLists(h)
      /\ \A s \in DOMAIN m : s \in Blocks(b) /\ Offsets(m[s]) \subseteq SourceESIs(b, s)
  BY ESIRangesIs DEF ESIs
<1>2. \A s : /\ Listed(er, s) \subseteq Listed(m, s)
             /\ Cardinality(Listed(er, s)) =
                  Greatest(Cardinality(Listed(m, s)) - Cardinality(Listed(h, s)), 0)
  BY <1>1, GetMissingIs
<1>3. args'.missing = m /\ args'.has = h /\ answer' = er
  OBVIOUS
<1> QED BY <1>2, <1>3 DEF MissingBalanced

\* For all lists of missing and of repair symbols, GetMissingESIs
\* (fec/util.go:597-632) asks only for missing symbols of a block, and for
\* exactly as many as the repair symbols do not stand in for.
THEOREM MissingIsBalanced == ReceiverSpec => []MissingBalanced
<1>1. ReceiverInit => MissingBalanced
  BY DEF ReceiverInit, SymbolsInit, MissingBalanced
<1>2. ASSUME MissingBalanced, [ReceiverNext]_<<vars, symbolVars>>
      PROVE  MissingBalanced'
  <2>1. CASE UNCHANGED symbolVars
    BY <1>2, <2>1 DEF symbolVars, MissingBalanced
  <2>2. CASE call' # "Missing"
    BY <2>2 DEF MissingBalanced
  <2>3. CASE CallMissing
    BY <2>3, CallMissingBalanced
  <2>4. CASE CallFromList \/ CallForSBN \/ CallToList \/ CallText \/ CallQuery \/ CallRequest
    <3>1. call' # "Missing"
      BY <2>4 DEF CallFromList, CallForSBN, CallToList, CallText, CallQuery, CallRequest, Called
    <3> QED BY <2>2, <3>1
  <2> QED BY <1>2, <2>1, <2>2, <2>3, <2>4, Calls
<1> QED BY <1>1, <1>2, PTL DEF ReceiverSpec

LEMMA CallForSBNComplete ==
  ASSUME CallForSBN
  PROVE  ForSBNComplete'
<1> PICK b \in Structures, rl \in ByteLists : \E sbn \in Blocks(b) :
        /\ bs' = b /\ args' = [rl |-> rl, sbn |-> sbn]
        /\ answer' = ESRangeListForSBN(b, sbn, rl)
  BY DEF CallForSBN, Called
<1> PICK sbn \in Blocks(b) :
        /\ bs' = b /\ args' = [rl |-> rl, sbn |-> sbn]
        /\ answer' = ESRangeListForSBN(b, sbn, rl)
  OBVIOUS
<1> PICK result : result = ESRangeListForSBN(b, sbn, rl)
  OBVIOUS
<1>1. rl \in Seq(RangeType)
  BY BytesAssumption
<1>2. result.ok => Covered(b, sbn, rl, TRUE) \subseteq Offsets(result.value)
  BY <1>1, ForSBNIs
<1>3. args'.rl = rl /\ args'.sbn = sbn /\ answer' = result /\ bs' = b
  OBVIOUS
<1> QED BY ONLY <1>2, <1>3, Zenon DEF ForSBNComplete

\* For every normal list of bytes, ESRangeListForSBNFromRangeList
\* (fec/util.go:563-595) misses no symbol of the block of which the list has all
\* bytes, if it gives an answer.
THEOREM ForSBNIsComplete == ReceiverSpec => []ForSBNComplete
<1>1. ReceiverInit => ForSBNComplete
  BY DEF ReceiverInit, SymbolsInit, ForSBNComplete
<1>2. ASSUME ForSBNComplete, [ReceiverNext]_<<vars, symbolVars>>
      PROVE  ForSBNComplete'
  <2>1. CASE UNCHANGED symbolVars
    BY <1>2, <2>1 DEF symbolVars, ForSBNComplete
  <2>2. CASE call' # "ForSBN"
    BY <2>2 DEF ForSBNComplete
  <2>3. CASE CallForSBN
    BY <2>3, CallForSBNComplete
  <2>4. CASE CallFromList \/ CallMissing \/ CallToList \/ CallText \/ CallQuery \/ CallRequest
    <3>1. call' # "ForSBN"
      BY <2>4 DEF CallFromList, CallMissing, CallToList, CallText, CallQuery, CallRequest, Called
    <3> QED BY <2>2, <3>1
  <2> QED BY <1>2, <2>1, <2>2, <2>3, <2>4, Calls
<1> QED BY <1>1, <1>2, PTL DEF ReceiverSpec

LEMMA CallToListExact ==
  ASSUME CallToList
  PROVE  ToListExact'
<1> PICK b \in Structures, source \in BOOLEAN : \E er \in ESIRanges(b, source) :
        /\ call' = "ToList" /\ bs' = b /\ args' = [er |-> er, source |-> source]
        /\ answer' = ToRangeList(b, er, source)
  BY DEF CallToList, Called
<1> PICK er \in ESIRanges(b, source) :
        /\ call' = "ToList" /\ bs' = b /\ args' = [er |-> er, source |-> source]
        /\ answer' = ToRangeList(b, er, source)
  OBVIOUS
<1> PICK list : list = ToRangeList(b, er, source)
  OBVIOUS
<1>1. SymbolLists(er, b, source)
  BY ESIRangesIs DEF SymbolLists
<1>2. Normal(list) /\ Offsets(list) = AllBytes(b, er, source)
  BY ONLY <1>1, list = ToRangeList(b, er, source), b \in Structures, source \in BOOLEAN,
     ToRangeListIs
<1>3. /\ Offsets(list) \cap 0..(OffsetOf(b, b.N, source) - 1) = BytesOfESIs(b, er, source)
      /\ \A x \in Offsets(list) : x < OffsetOf(b, b.N, source) + b.ESLen - 1
  BY ONLY <1>1, <1>2, b \in Structures, source \in BOOLEAN, AllBytesIs
<1>4. args'.er = er /\ args'.source = source /\ answer' = list /\ bs' = b
  OBVIOUS
<1> QED BY ONLY <1>2, <1>3, <1>4, Zenon DEF ToListExact

\* For all symbols of all structures, ToRangeList (fec/util.go:812-849) gives
\* their bytes in a normal list, and goes on behind the end of the object for
\* less than a symbol.
THEOREM ToListIsExact == ReceiverSpec => []ToListExact
<1>1. ReceiverInit => ToListExact
  BY DEF ReceiverInit, SymbolsInit, ToListExact
<1>2. ASSUME ToListExact, [ReceiverNext]_<<vars, symbolVars>>
      PROVE  ToListExact'
  <2>1. CASE UNCHANGED symbolVars
    BY <1>2, <2>1 DEF symbolVars, ToListExact
  <2>2. CASE call' # "ToList"
    BY <2>2 DEF ToListExact
  <2>3. CASE CallToList
    BY <2>3, CallToListExact
  <2>4. CASE CallFromList \/ CallForSBN \/ CallMissing \/ CallText \/ CallQuery \/ CallRequest
    <3>1. call' # "ToList"
      BY <2>4 DEF CallFromList, CallForSBN, CallMissing, CallText, CallQuery, CallRequest, Called
    <3> QED BY <2>2, <3>1
  <2> QED BY <1>2, <2>1, <2>2, <2>3, <2>4, Calls
<1> QED BY <1>1, <1>2, PTL DEF ReceiverSpec

LEMMA CallFromListExact ==
  ASSUME CallFromList
  PROVE  FromListExact'
<1> PICK b \in Structures, rl \in ByteLists, source \in BOOLEAN, inclusive \in BOOLEAN :
     /\ Within(rl, b, source)
     /\ call' = "FromList" /\ bs' = b
     /\ args' = [rl |-> rl, source |-> source, inclusive |-> inclusive]
     /\ answer' = ESIRangeFromRangeList(b, rl, source, inclusive)
  BY DEF CallFromList, Called
<1> PICK result : result = ESIRangeFromRangeList(b, rl, source, inclusive)
  OBVIOUS
<1>1. rl \in Seq(RangeType) /\ \A k \in 1..Len(rl) : rl[k].start >= 0
  BY BytesAssumption
<1>2. ASSUME result.ok, NEW t \in Blocks(b)
      PROVE  /\ Listed(result.value, t) \subseteq Touched(b, t, rl, source)
             /\ AtSymbols(b, rl, source) =>
                  Listed(result.value, t) = IF inclusive THEN Touched(b, t, rl, source)
                                            ELSE Covered(b, t, rl, source) \cap Full(b, t, source)
  <2>1. ASSUME NEW k \in 1..Len(rl) PROVE InObject(rl[k], b, source)
    <3>1. rl[k] \in RangeType /\ rl[k].start >= 0
      BY <1>1, ElementTyped
    <3>2. rl[k].start <= rl[k].end
      BY ONLY <1>1, <1>2, k \in 1..Len(rl), result = ESIRangeFromRangeList(b, rl, source, inclusive),
         FromListOk
    <3>3. rl[k].end < OffsetOf(b, b.N, source)
      BY <1>1 DEF Within
    <3> QED BY <3>1, <3>2, <3>3 DEF InObject
  <2>2. Listed(result.value, t) = AllNames(b, rl, t, source, inclusive)
    BY ONLY <1>1, <2>1, b \in Structures, source \in BOOLEAN, inclusive \in BOOLEAN,
       result = ESIRangeFromRangeList(b, rl, source, inclusive), FromListIs
  <2>3. AtSymbols(b, rl, source) => \A k \in 1..Len(rl) : Begins(b, rl[k], source)
    BY <1>1 DEF AtSymbols, Begins
  <2> QED BY ONLY <1>1, <2>1, <2>2, <2>3, b \in Structures, source \in BOOLEAN, inclusive \in BOOLEAN,
             t \in Blocks(b), AllNamesAre
<1>3. args'.rl = rl /\ args'.source = source /\ args'.inclusive = inclusive /\ answer' = result /\ bs' = b
  OBVIOUS
<1> QED BY ONLY <1>2, <1>3 DEF FromListExact

\* For every list of bytes of the object, ESIRangeFromRangeList
\* (fec/util.go:634-686) names no symbol the list does not touch; if the ranges
\* begin with symbols it names all that are touched, or without `inclusive`
\* those of full length that are covered.
THEOREM FromListIsExact == ReceiverSpec => []FromListExact
<1>1. ReceiverInit => FromListExact
  BY DEF ReceiverInit, SymbolsInit, FromListExact
<1>2. ASSUME FromListExact, [ReceiverNext]_<<vars, symbolVars>>
      PROVE  FromListExact'
  <2>1. CASE UNCHANGED symbolVars
    BY <1>2, <2>1 DEF symbolVars, FromListExact
  <2>2. CASE call' # "FromList"
    BY <2>2 DEF FromListExact
  <2>3. CASE CallFromList
    BY <2>3, CallFromListExact
  <2>4. CASE CallToList \/ CallForSBN \/ CallMissing \/ CallText \/ CallQuery \/ CallRequest
    <3>1. call' # "FromList"
      BY <2>4 DEF CallToList, CallForSBN, CallMissing, CallText, CallQuery, CallRequest, Called
    <3> QED BY <2>2, <3>1
  <2> QED BY <1>2, <2>1, <2>2, <2>3, <2>4, Calls
<1> QED BY <1>1, <1>2, PTL DEF ReceiverSpec

LEMMA CallRequestSuffices ==
  ASSUME Inv, CallRequest
  PROVE  RequestSuffices'
<1> PICK b \in Structures :
        /\ end = b.TransferLen - 1
        /\ has = ListOf(BytesOfESIs(b, SymbolsHad(b), TRUE))
        /\ \E repair \in ESIRanges(b, FALSE) :
              Called("Request", b, [has |-> SymbolsHad(b), hasRepair |-> repair],
                     Request(b, ret, ListOf(BytesOfESIs(b, repair, FALSE))))
  BY DEF CallRequest
<1> PICK had : had = SymbolsHad(b)
  OBVIOUS
<1> PICK repair \in ESIRanges(b, FALSE) :
        /\ call' = "Request" /\ bs' = b /\ args' = [has |-> had, hasRepair |-> repair]
        /\ answer' = Request(b, ret, ListOf(BytesOfESIs(b, repair, FALSE)))
  BY DEF Called
<1> PICK list, spare : /\ list = Request(b, ret, spare)
                       /\ spare = ListOf(BytesOfESIs(b, repair, FALSE))
  OBVIOUS
<1>1. SymbolLists(had, b, TRUE)
  BY SymbolsHadIs
<1>2. SymbolLists(repair, b, FALSE)
  BY ESIRangesIs DEF SymbolLists
<1>3. Offsets(has) = BytesOfESIs(b, had, TRUE)
  BY <1>1, BytesAligned
<1>4. ret \in Seq(RangeType) /\ Normal(ret) /\ Offsets(ret) = (start..end) \ Offsets(has)
  BY DEF Inv, TypeOK, MissingExact, MissingNormal, CallRequest
<1>5. start = 0 /\ end = OffsetOf(b, b.N, TRUE) - 1
  BY StructuresAssumption DEF CallRequest, AtRest, Partition, OffsetOf
<1>6. /\ Aligned(b, ret, TRUE)
      /\ \A t \in Blocks(b) : Touched(b, t, ret, TRUE) = ESIs(b, t, TRUE) \ Listed(had, t)
  <2> PICK lacking : lacking = ret
    OBVIOUS
  <2>1. Offsets(lacking) = 0..(OffsetOf(b, b.N, TRUE) - 1) \ BytesOfESIs(b, had, TRUE)
    BY ONLY <1>3, <1>4, <1>5, lacking = ret, Zenon
  <2>2. lacking \in Seq(RangeType) /\ Normal(lacking)
    BY ONLY <1>4, lacking = ret
  <2>3. Aligned(b, lacking, TRUE)
    BY ONLY <1>1, <2>1, <2>2, b \in Structures, TRUE \in BOOLEAN, RestAligned
  <2>4. ASSUME NEW t \in Blocks(b)
        PROVE  Touched(b, t, lacking, TRUE) = ESIs(b, t, TRUE) \ Listed(had, t)
    <3>1. ASSUME NEW e
          PROVE  e \in Touched(b, t, lacking, TRUE) <=> e \in ESIs(b, t, TRUE) /\ e \notin Listed(had, t)
      BY ONLY <1>1, <2>1, <2>2, <2>4, b \in Structures, TRUE \in BOOLEAN, RestAligned
    <3> QED BY ONLY <3>1
  <2> QED BY ONLY <2>3, <2>4, lacking = ret
<1>7. /\ Aligned(b, spare, FALSE)
      /\ \A t \in Blocks(b) : Touched(b, t, spare, FALSE) = Listed(repair, t)
  BY ONLY ZenonT(30),
     <1>2, b \in Structures, FALSE \in BOOLEAN, spare = ListOf(BytesOfESIs(b, repair, FALSE)),
     BytesAligned
<1>8. ASSUME NEW t \in Blocks(b)
      PROVE  /\ Covered(b, t, list, TRUE) \cap Listed(had, t) = {}
             /\ Touched(b, t, list, TRUE) = Covered(b, t, list, TRUE)
             /\ Cardinality(Covered(b, t, list, TRUE)) + Cardinality(Listed(had, t))
                  + Cardinality(Listed(repair, t)) >= NumSrcSym(b, t)
  <2> PICK A, E, G, R : /\ A = Covered(b, t, list, TRUE) /\ E = ESIs(b, t, TRUE)
                        /\ G = Listed(had, t) /\ R = Listed(repair, t)
    OBVIOUS
  <2>1. /\ Touched(b, t, list, TRUE) = A
        /\ A \subseteq Touched(b, t, ret, TRUE)
        /\ Cardinality(A) + Cardinality(Touched(b, t, spare, FALSE)) >= Cardinality(Touched(b, t, ret, TRUE))
    BY ONLY ZenonT(30), <1>6, <1>7, b \in Structures, t \in Blocks(b), list = Request(b, ret, spare),
       A = Covered(b, t, list, TRUE), RequestIs
  <2>2. A \subseteq E \ G /\ Cardinality(A) + Cardinality(R) >= Cardinality(E \ G)
    BY ONLY <1>6, <1>7, <2>1, t \in Blocks(b), E = ESIs(b, t, TRUE), G = Listed(had, t),
       R = Listed(repair, t)
  <2>3. G \subseteq E /\ R \subseteq ESIs(b, t, FALSE)
    BY ONLY <1>1, <1>2, E = ESIs(b, t, TRUE), G = Listed(had, t), R = Listed(repair, t)
       DEF SymbolLists, Listed
  <2>4. /\ IsFiniteSet(E) /\ Cardinality(E) = NumSrcSym(b, t) /\ IsFiniteSet(ESIs(b, t, FALSE))
    BY ONLY b \in Structures, t \in Blocks(b), TRUE \in BOOLEAN, FALSE \in BOOLEAN,
       E = ESIs(b, t, TRUE), ESIsFinite
  <2>5. IsFiniteSet(A) /\ IsFiniteSet(G) /\ IsFiniteSet(R) /\ IsFiniteSet(E \ G)
    <3>1. E \ G \subseteq E /\ A \subseteq E
      BY ONLY <2>2
    <3> QED BY ONLY <2>3, <2>4, <3>1, FS_Subset
  <2> PICK a, c, g, r, d \in Nat : /\ a = Cardinality(A) /\ c = Cardinality(E) /\ g = Cardinality(G)
                                   /\ r = Cardinality(R) /\ d = Cardinality(E \ G)
    BY ONLY <2>4, <2>5, FS_CardinalityType
  <2>6. d + g = c
    <3>1. (E \ G) \cup G = E /\ (E \ G) \cap G = {}
      BY ONLY <2>3
    <3>2. Cardinality((E \ G) \cup G) =
            Cardinality(E \ G) + Cardinality(G) - Cardinality((E \ G) \cap G)
      BY ONLY <2>5, FS_Union
    <3>3. Cardinality((E \ G) \cap G) = 0
      BY ONLY <3>1, FS_EmptySet
    <3>4. c = d + g - 0
      BY ONLY <3>1, <3>2, <3>3, c = Cardinality(E), g = Cardinality(G), d = Cardinality(E \ G), Zenon
    <3> QED BY ONLY <3>4, c \in Nat, g \in Nat, d \in Nat
  <2>7. a + r >= d
    BY ONLY <2>2, a = Cardinality(A), r = Cardinality(R), d = Cardinality(E \ G)
  <2>8. a + g + r >= c
    BY ONLY <2>6, <2>7, a \in Nat, c \in Nat, g \in Nat, r \in Nat, d \in Nat
  <2>9. A \cap G = {}
    BY ONLY <2>2
  <2> QED BY ONLY <2>1, <2>4, <2>8, <2>9, a = Cardinality(A), c = Cardinality(E), g = Cardinality(G),
             r = Cardinality(R), A = Covered(b, t, list, TRUE), G = Listed(had, t), R = Listed(repair, t)
<1>9. args'.has = had /\ args'.hasRepair = repair /\ answer' = list /\ bs' = b
  OBVIOUS
<1> QED BY ONLY <1>8, <1>9 DEF RequestSuffices

\* What a receiver asks for, as TestESIRangeFromRangeListBorderCase does it
\* (fec/util_test.go:311-340) with Missing, ESIRangeFromRangeList,
\* GetMissingESIs and ToRangeList, is enough for every block, whatever the
\* receiver has, and names no symbol it has.
THEOREM RequestIsSufficient == ReceiverSpec => []RequestSuffices
<1>1. ReceiverInit => RequestSuffices
  BY DEF ReceiverInit, SymbolsInit, RequestSuffices
<1>2. ASSUME Inv, RequestSuffices, [ReceiverNext]_<<vars, symbolVars>>
      PROVE  RequestSuffices'
  <2>1. CASE UNCHANGED symbolVars
    BY <1>2, <2>1 DEF symbolVars, RequestSuffices
  <2>2. CASE call' # "Request"
    BY <2>2 DEF RequestSuffices
  <2>3. CASE CallRequest
    BY <1>2, <2>3, CallRequestSuffices
  <2>4. CASE CallToList \/ CallForSBN \/ CallMissing \/ CallText \/ CallQuery \/ CallFromList
    <3>1. call' # "Request"
      BY <2>4 DEF CallToList, CallForSBN, CallMissing, CallText, CallQuery, CallFromList, Called
    <3> QED BY <2>2, <3>1
  <2> QED BY <1>2, <2>1, <2>2, <2>3, <2>4, Calls
<1> QED BY <1>1, <1>2, ReceiverInvariance, PTL DEF ReceiverSpec

LEMMA CallTextExact ==
  ASSUME CallText \/ CallQuery
  PROVE  TextInRunsExact'
<1>1. CASE CallText
  <2> PICK er \in Texts : args' = [er |-> er] /\ answer' = UnmarshalText(MarshalText(er))
    BY <1>1 DEF CallText, Called
  <2>1. args'.er = er
    OBVIOUS
  <2> QED BY <2>1, TextReadBack DEF TextInRunsExact
<1>2. CASE CallQuery
  <2> PICK er \in Texts, counted \in BOOLEAN :
         /\ args' = [er |-> er, counted |-> counted]
         /\ answer' = NewESIRangeFromMBMSQuery([counted |-> counted,
              parts |-> IF counted THEN Counted(ToMBMSRawQuery(er)) ELSE ToMBMSRawQuery(er)])
    BY <1>2 DEF CallQuery, Called
  <2> PICK text : text = MarshalText(er)
    OBVIOUS
  <2>1. args'.er = er
    OBVIOUS
  <2>2. answer' = UnmarshalText(IF counted THEN WithEnds(WithEnds(text, -1), 1) ELSE text)
    BY DEF NewESIRangeFromMBMSQuery, ToMBMSRawQuery, Counted
  <2>3. ASSUME er # NoESIs, InRuns(er)
        PROVE  answer' = Ok(er)
    <3>1. text \in Seq(Parts) /\ UnmarshalText(text) = Ok(er)
      BY ONLY <2>3, er \in Texts, text = MarshalText(er), TextReadBack
    <3>2. WithEnds(WithEnds(text, -1), 1) = text
      BY ONLY <3>1, EndsMovedBack
    <3> QED BY ONLY <2>2, <3>1, <3>2
  <2> QED BY <2>1, <2>3 DEF TextInRunsExact
<1> QED BY <1>1, <1>2

\* Every ESIRange whose blocks without a list are in runs is what is read of
\* its text (fec/util.go:748-810), and of its query, of which the ranges may
\* be written as a first number and how far they go (fec/util.go:691-709).
THEOREM TextInRunsIsExact == ReceiverSpec => []TextInRunsExact
<1>1. ReceiverInit => TextInRunsExact
  BY DEF ReceiverInit, SymbolsInit, TextInRunsExact
<1>2. ASSUME TextInRunsExact, [ReceiverNext]_<<vars, symbolVars>>
      PROVE  TextInRunsExact'
  <2>1. CASE UNCHANGED symbolVars
    BY <1>2, <2>1 DEF symbolVars, TextInRunsExact
  <2>2. CASE call' \notin {"Text", "Query"}
    BY <2>2 DEF TextInRunsExact
  <2>3. CASE CallText \/ CallQuery
    BY <2>3, CallTextExact
  <2>4. CASE CallFromList \/ CallForSBN \/ CallMissing \/ CallToList \/ CallRequest
    <3>1. call' \notin {"Text", "Query"}
      BY <2>4 DEF CallFromList, CallForSBN, CallMissing, CallToList, CallRequest, Called
    <3> QED BY <2>2, <3>1
  <2>5. call' = "none" => call' \notin {"Text", "Query"}
    OBVIOUS
  <2> QED BY <1>2, <2>1, <2>2, <2>3, <2>4, <2>5, Calls
<1> QED BY <1>1, <1>2, PTL DEF ReceiverSpec

=============================================================================
