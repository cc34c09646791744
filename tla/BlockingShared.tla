--------------------------- MODULE BlockingShared ---------------------------
(***************************************************************************)
(* The updates of a BlockingStructure (fec/blocking.go) and the queries    *)
(* that run at the same time.  N, I, A, ASmall and TransferLen are atomic  *)
(* and no lock is held, so a query that runs during UpdateLength sees any  *)
(* mixture of old and new values: a store or a load is a step here.  The   *)
(* other fields are plain: UpdateLength does not change them, and whoever  *)
(* calls an update that does must see that no query runs.                  *)
(***************************************************************************)
EXTENDS Blocking

CONSTANTS
  Lengths,   \* transfer lengths
  MaxSbLens, ESLens, Groups, \* the other arguments of an update
  Queries,   \* the queries that are asked
  MaxDuring  \* bound: updates that start while a query runs

ASSUME ArgumentAssumption ==
  /\ Queries \subseteq {"SrcOffset", "SrcBlockSize", "NumSrcSym", "SourceSBN"}
  /\ Lengths \subseteq 0..(Max64 - 1)
  /\ MaxSbLens \cup ESLens \cup Groups \subseteq 0..(Max32 - 1)

VARIABLES
  bs,       \* the structure
  good,     \* the last update succeeded
  whole,    \* the structure as the last update left it
  todo,     \* the stores that an UpdateLength has still to do
  growing,  \* it makes a stream longer
  rd        \* the query that runs: its argument, the values it has loaded, the
            \* structure it found, how many updates started since, and
            \* whether only growing ones ran

vars == <<bs, good, whole, todo, growing, rd>>

NoQuery == [query |-> "none", arg |-> 0, seen |-> <<>>, base |-> Zero, during |-> 0, steady |-> FALSE]

-----------------------------------------------------------------------------
(* Updates *)

Idle == todo = <<>> /\ rd = NoQuery

\* An update of more than the length, or of a structure that is not in use.
Update(b, len, maxSbLen, esLen, group, stream) ==
  /\ Idle
  /\ len > 0
  /\ LET p == Parameters(b, maxSbLen, esLen, group)
     IN  /\ bs' = StoredAll(p, Stores(p, len, stream))
         /\ good' = Succeeds(p, stream)
         /\ whole' = bs'
  /\ UNCHANGED <<todo, growing, rd>>

\* NewBlockingStructure5052; an error leaves no structure.
New(len, maxSbLen, esLen, group, stream) ==
  /\ Succeeds(Parameters(Zero, maxSbLen, esLen, group), stream)
  /\ Update(Zero, len, maxSbLen, esLen, group, stream)

\* How a stream is cut: all blocks are large.
Streaming(b) == b.I = b.N /\ b.A = b.MaxSbLen /\ b.ASmall = b.MaxSbLen

\* UpdateLength of a structure in use, up to the first store of an atomic;
\* a length of zero changes nothing.
UpdateLength(len, stream) ==
  /\ todo = <<>>
  /\ good
  /\ len > 0
  /\ rd.during < MaxDuring
  /\ todo' = Stores(bs, len, stream)
  /\ growing' = (stream /\ Streaming(bs) /\ len >= bs.TransferLen)
  /\ bs' = Parameters(bs, bs.MaxSbLen, bs.ESLen, bs.NumEsPerGroup)
  /\ rd' = IF rd = NoQuery THEN rd ELSE [rd EXCEPT !.during = @ + 1, !.steady = @ /\ growing']
  /\ UNCHANGED <<good, whole>>

\* Only an update that fails ends with the transfer length.
Store ==
  /\ todo # <<>>
  /\ bs' = Stored(bs, Head(todo))
  /\ todo' = Tail(todo)
  /\ IF Len(todo) = 1
     THEN whole' = bs' /\ good' = (todo[1][1] # "TransferLen") /\ growing' = FALSE
     ELSE UNCHANGED <<whole, good, growing>>
  /\ UNCHANGED rd

-----------------------------------------------------------------------------
(* The loads of a query, given the values it has seen.  What comes after   *)
(* the next load is anything until the values that decide it are there.    *)

Has(s, k) == Len(s) >= k

From(s, k) == SubSeq(s, k, Len(s))

OffsetLoads(s, sbn) ==
  IF Has(s, 1) /\ sbn >= s[1] THEN <<"N", "TransferLen">>
  ELSE IF Has(s, 2) /\ sbn >= s[2] THEN <<"N", "I", "I", "A", "I", "ASmall">>
  ELSE <<"N", "I", "A">>

OffsetSeen(s, sbn) ==
  IF sbn >= s[1] THEN s[2]
  ELSE IF sbn >= s[2] THEN U64(bs.ESLen * (s[3] * s[4] + U32(sbn - s[5]) * s[6]))
  ELSE U64(bs.ESLen * s[3] * sbn)

BlockSizeLoads(s, sbn) ==
  IF Has(s, 1) /\ sbn = U32(s[1] - 1) THEN <<"N">> \o OffsetLoads(Tail(s), sbn) \o <<"TransferLen">>
  ELSE IF Has(s, 2) /\ sbn < s[2] THEN <<"N", "I", "A">>
  ELSE IF Has(s, 3) /\ sbn >= U32(s[3] - 1) THEN <<"N", "I", "N">>
  ELSE <<"N", "I", "N", "ASmall">>

BlockSizeSeen(s, sbn) ==
  IF sbn = U32(s[1] - 1) THEN U64(s[Len(s)] - OffsetSeen(Tail(s), sbn))
  ELSE IF sbn < s[2] THEN U64(bs.ESLen * s[3])
  ELSE IF sbn >= U32(s[3] - 1) THEN 0
  ELSE U64(bs.ESLen * s[4])

\* NumSrcSym up to the question whether it is the last block, at load k, and
\* from there on.
NumHead(s, sbn) ==
  IF Has(s, 1) /\ sbn >= s[1] THEN <<"N">>
  ELSE IF Has(s, 3) /\ sbn < s[3] THEN <<"N", "ASmall", "I", "A", "N">>
  ELSE <<"N", "ASmall", "I", "N">>

NumFull(s, sbn) == IF sbn < s[3] THEN s[4] ELSE s[2]

Overflows(s, sbn, k) ==
  LET m == k + Len(OffsetLoads(From(s, k + 1), sbn))
  IN  /\ Has(s, m + 1)
      /\ U64(OffsetSeen(From(s, k + 1), sbn) + bs.ESLen * NumFull(s, sbn)) > s[m + 1]

NumSrcSymLoads(s, sbn) ==
  LET head == NumHead(s, sbn)
      k == Len(head)
  IN  IF k > 1 /\ Has(s, k) /\ sbn = s[k] - 1
      THEN head \o OffsetLoads(From(s, k + 1), sbn) \o <<"TransferLen">>
             \o (IF Overflows(s, sbn, k) THEN <<"TransferLen">> ELSE <<>>)
      ELSE head

NumSrcSymSeen(s, sbn) ==
  LET k == Len(NumHead(s, sbn))
  IN  IF k = 1 THEN 0
      ELSE IF sbn = s[k] - 1 /\ Overflows(s, sbn, k)
           THEN SymbolsFrom([bs EXCEPT !.TransferLen = s[Len(s)]], OffsetSeen(From(s, k + 1), sbn))
           ELSE NumFull(s, sbn)

\* A quotient by zero is a panic, -1 here; it ends the query.
Quotient(x, y) == IF y = 0 THEN -1 ELSE x \div y

SBNFound(s, offset) ==
  LET symbol == offset \div bs.ESLen
      large == U64(s[1] * s[2])
  IN  IF symbol < large THEN Quotient(symbol, s[3])
      ELSE IF s[3] = 0 THEN -1 ELSE (symbol - large) \div s[3] + s[4]

SourceSBNLoads(s, offset) ==
  LET small == Has(s, 2) /\ offset \div bs.ESLen >= U64(s[1] * s[2])
      k == IF small THEN 5 ELSE 4
      head == IF small THEN <<"A", "I", "ASmall", "I", "N">> ELSE <<"A", "I", "A", "N">>
  IN  IF Has(s, k) /\ SBNFound(s, offset) >= s[k] THEN Append(head, "N") ELSE head

SourceSBNSeen(s, offset) ==
  LET k == IF offset \div bs.ESLen >= U64(s[1] * s[2]) THEN 5 ELSE 4
      found == SBNFound(s, offset)
  IN  IF found < s[k] THEN found ELSE U32(s[Len(s)] - 1)

-----------------------------------------------------------------------------
(* Queries *)

Loads ==
  CASE rd.query = "SrcOffset" -> OffsetLoads(rd.seen, rd.arg)
    [] rd.query = "SrcBlockSize" -> BlockSizeLoads(rd.seen, rd.arg)
    [] rd.query = "NumSrcSym" -> NumSrcSymLoads(rd.seen, rd.arg)
    [] rd.query = "SourceSBN" -> SourceSBNLoads(rd.seen, rd.arg)

Answered == rd # NoQuery /\ Len(rd.seen) = Len(Loads)

Answer ==
  CASE rd.query = "SrcOffset" -> OffsetSeen(rd.seen, rd.arg)
    [] rd.query = "SrcBlockSize" -> BlockSizeSeen(rd.seen, rd.arg)
    [] rd.query = "NumSrcSym" -> NumSrcSymSeen(rd.seen, rd.arg)
    [] rd.query = "SourceSBN" -> SourceSBNSeen(rd.seen, rd.arg)

Ask(query, arg) ==
  /\ rd = NoQuery
  /\ good
  /\ rd' = [query |-> query, arg |-> arg, seen |-> <<>>, base |-> whole,
            during |-> 0, steady |-> todo = <<>> \/ growing]
  /\ UNCHANGED <<bs, good, whole, todo, growing>>

Load ==
  /\ rd # NoQuery
  /\ ~Answered
  /\ rd' = [rd EXCEPT !.seen = Append(@, bs[Loads[Len(@) + 1]])]
  /\ UNCHANGED <<bs, good, whole, todo, growing>>

Reply ==
  /\ Answered
  /\ rd' = NoQuery
  /\ UNCHANGED <<bs, good, whole, todo, growing>>

-----------------------------------------------------------------------------
Init ==
  /\ bs = Zero /\ whole = Zero
  /\ good = FALSE
  /\ todo = <<>> /\ growing = FALSE
  /\ rd = NoQuery

Args(query) == IF query = "SourceSBN" THEN 0..(whole.TransferLen - 1) ELSE 0..whole.N

Next ==
  \/ \E len \in Lengths, max \in MaxSbLens, es \in ESLens, group \in Groups, stream \in BOOLEAN :
        New(len, max, es, group, stream) \/ Update(bs, len, max, es, group, stream)
  \/ \E len \in Lengths, stream \in BOOLEAN : UpdateLength(len, stream)
  \/ Store
  \/ \E query \in Queries : \E arg \in Args(query) : Ask(query, arg)
  \/ Load
  \/ Reply

Spec == Init /\ [][Next]_vars

-----------------------------------------------------------------------------
(* Properties *)

AtRest == good /\ todo = <<>>

\* After any sequence of updates, also ones that failed and ones that left
\* the I of an earlier one behind (recompute with symbols of one byte), the
\* blocks of a structure cover the object, one after another.
PartitionAtRest == AtRest => Partition(bs)

\* And SourceSBN finds the block of every byte.
LookupAtRest == AtRest => Lookup(bs)

\* And every block has the symbols its bytes take, the short last one too.
SymbolsAtRest == AtRest => Symbols(bs)

\* A query that runs during UpdateLength never divides by zero, whatever
\* mixture of the old and the new sizes it sees.
QueriesDoNotPanic ==
  rd.query = "SourceSBN" /\ Len(rd.seen) \in 3..4 => rd.seen[3] # 0

\* While a stream grows, the answers on what was there before stay exact: the
\* offset and the block of every byte, the size of every block but the last.
StreamQueriesExact ==
  Answered /\ rd.steady /\ Streaming(rd.base) =>
     LET arg == rd.arg  base == rd.base
     IN  CASE rd.query = "SrcOffset" -> arg < base.N => Answer = SrcOffset(base, arg)
           [] rd.query = "SourceSBN" -> arg < base.TransferLen => Answer = SourceSBN(base, arg)
           [] rd.query = "SrcBlockSize" -> arg < base.N - 1 => Answer = SrcBlockSize(base, arg)
           [] rd.query = "NumSrcSym" -> arg < base.N - 1 => Answer = NumSrcSym(base, arg)

\* "B  -- Maximum SourceAddr Block Length, i.e., the maximum number of source
\* symbols per source block" (fec/blocking.go:48-49): no block has more.
NumSrcSymWithinMaximum ==
  Answered /\ rd.query = "NumSrcSym" /\ rd.steady /\ Streaming(rd.base) => Answer <= bs.MaxSbLen

=============================================================================
