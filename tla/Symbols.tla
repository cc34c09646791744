------------------------------ MODULE Symbols -------------------------------
(***************************************************************************)
(* ESIRange of fec/util.go: for some blocks of an object, a list of the    *)
(* symbols (ESIs) of the block.  A receiver turns the bytes it has or      *)
(* lacks into symbols, works out which it must ask for, and turns these    *)
(* into bytes again.  Each function is an action, called with any of its   *)
(* arguments.  A receiver has a structure of its own and no call is        *)
(* concurrent with another one; Receiver puts them together.               *)
(***************************************************************************)
EXTENDS Ranges, Blocking, Results

CONSTANTS
  Structures,   \* blocking structures
  ByteLists,    \* lists of bytes or of repair bytes
  Texts         \* ESIRanges that are written as text

\* What a structure at rest is, after updates of an object and a repair object
\* that fit into the widths of the fields, with blocks of less than 2^32 bytes.
AtRest(b) ==
  /\ b.N \in Nat /\ b.I \in Nat /\ b.A \in Nat /\ b.ASmall \in Nat /\ b.T \in Nat
  /\ b.ESLen \in Nat \ {0} /\ b.TransferLen \in Nat
  /\ b.MaxSbLen \in Nat /\ b.MaxNumEs \in Nat /\ b.MaxSbLen <= b.MaxNumEs
  /\ b.N < Max32 /\ b.MaxSbLen < Max32 /\ b.ESLen * b.MaxSbLen + b.ESLen <= Max32
  /\ (b.MaxNumEs - b.MaxSbLen) * b.ESLen * (b.N + 1) < Max64
  /\ Partition(b) /\ Lookup(b) /\ Symbols(b)

ASSUME StructuresAssumption == \A b \in Structures : AtRest(b)

\* No list has an offset below 0.
ASSUME BytesAssumption ==
  \A rl \in ByteLists : rl \in Seq(RangeType) /\ \A k \in DOMAIN rl : rl[k].start >= 0

\* Lists in normal form, of blocks that an object may have: there are fewer
\* than 2^32 of them.  (The reader would not come to an end of a range of
\* blocks up to the largest uint32.)
ASSUME TextsAssumption ==
  \A er \in Texts :
     /\ IsFiniteSet(DOMAIN er) /\ DOMAIN er \subseteq 0..(Max32 - 2)
     /\ er \in [DOMAIN er -> Seq(RangeType)]
     /\ \A sbn \in DOMAIN er : Normal(er[sbn])

VARIABLES
  call,    \* the function that was called, "none" before
  bs,      \* the structure it was called with
  args,    \* its other arguments
  answer   \* what it returned

symbolVars == <<call, bs, args, answer>>

NoESIs == <<>>

-----------------------------------------------------------------------------
(* Lists made of sets.  What Intersection, InplaceUnion and Missing return *)
(* is a normal list, and there is one for every set of numbers.            *)

ListOf(S) ==
  LET starts == {x \in S : x - 1 \notin S}
      nth(k) == CHOOSE x \in starts : Cardinality({y \in starts : y < x}) = k - 1
      last(x) == Min({y \in S : y >= x /\ y + 1 \notin S})
  IN  [k \in 1..Cardinality(starts) |-> Interval(nth(k), last(nth(k)))]

-----------------------------------------------------------------------------
(* Faulty variants *)

EndRoundedUp(first, length, esLen, inclusive) == first + CeilDiv(length, esLen) - 1

StillNeeded1(missing, has) == missing - has - 1

LastByteOf(offset, esi, esLen) == offset + esi * esLen

FirstSymbolBehind(b, offset) == U32(U32(offset) \div b.ESLen + 1)

EndWholeOnly(first, length, esLen, inclusive) == first + length \div esLen - 1

EndsSpanBefore(er, keys, k) == k < Len(keys) /\ er[keys[k + 1]] # <<>>

-----------------------------------------------------------------------------
(* From bytes to symbols *)

SBNOf(b, offset, source) == IF source THEN SourceSBN(b, offset) ELSE RepairSBN(b, offset)

OffsetOf(b, sbn, source) == IF source THEN SrcOffset(b, sbn) ELSE RprOffset(b, sbn)

Added(er, sbn, r) ==
  [s \in DOMAIN er \cup {sbn} |->
     IF s # sbn THEN er[s] ELSE Append(IF s \in DOMAIN er THEN er[s] ELSE <<>>, r)]

\* The last symbol of so many bytes from symbol `first` on: the whole ones,
\* and with inclusive a part of one as well.
EndOf(first, length, esLen, inclusive) ==
  first + length \div esLen - (IF length % esLen # 0 /\ inclusive THEN 0 ELSE 1)

\* The symbols that the part of r in a block adds to er.
BlockAdded(b, er, r, sbn, source, inclusive) ==
  LET offset == OffsetOf(b, sbn, source)
      from == Greatest(r.start, offset) - offset
      to == Least(r.end, OffsetOf(b, sbn + 1, source) - 1) - offset
      first == from \div b.ESLen
      base == IF source THEN 0 ELSE NumSrcSym(b, sbn)
  IN  Added(er, sbn, Interval(base + first,
                              base + EndOf(first, to - from + 1, b.ESLen, inclusive)))

RangeAdded(b, er, r, source, inclusive) ==
  LET first == SBNOf(b, r.start, source)
      last == SBNOf(b, r.end, source)
  IN  FoldLeft(LAMBDA e, sbn : BlockAdded(b, e, r, sbn, source, inclusive), er,
               [k \in 1..(last - first + 1) |-> first + k - 1])

\* A range that is not one ends the loop, and leaves the lists as they are.
ESIRangeFromRangeList(b, rl, source, inclusive) ==
  LET bad == SelectInSeq(rl, LAMBDA r : r.start > r.end)
      added(er, r) == RangeAdded(b, er, r, source, inclusive)
  IN  IF bad # 0
      THEN Error(FoldLeft(added, NoESIs, SubSeq(rl, 1, bad - 1)))
      ELSE LET er == FoldLeft(added, NoESIs, rl)
           IN  Ok([sbn \in DOMAIN er |-> Flatten(er[sbn])])

\* The first symbol that begins at or behind an offset in a block; uint32(...)
\* drops the high half of the offset, and the remainder is that of all of it.
FirstWholeSymbol(b, offset) ==
  U32(U32(offset) \div b.ESLen + (IF offset % b.ESLen # 0 THEN 1 ELSE 0))

\* The last symbol, in the same arithmetic, before it is compared with the
\* number of symbols of the block.
LastWholeSymbol(b, r, offset) ==
  LET after == r.end - offset + 1
  IN  U32(U32(after) \div b.ESLen - (IF after % b.ESLen # 0 /\ r.end # b.TransferLen - 1 THEN 1 ELSE 0))

\* The part of a block that a range covers, as symbols.
WholeSymbols(b, sbn, r) ==
  LET offset == SrcOffset(b, sbn)
      first == FirstWholeSymbol(b, r.start - offset)
      last == LastWholeSymbol(b, r, offset)
  IN  Interval(first, IF U32(first + U32(first - last)) > NumSrcSym(b, sbn)
                      THEN U32(NumSrcSym(b, sbn) - 1) ELSE last)

\* ESRangeListForSBNFromRangeList
ESRangeListForSBN(b, sbn, rl) ==
  LET offset == SrcOffset(b, sbn)
      has == ListOf(Offsets(rl) \cap offset..(offset + SrcBlockSize(b, sbn) - 1))
      \* The ranges of has before the one that is refused.
      bad == SelectInSeq(has, LAMBDA r : offset >= r.start)
      symbols == {WholeSymbols(b, sbn, has[k]) :
                    k \in {m \in DOMAIN has : bad = 0 \/ m < bad}}
      list == ListOf(UNION {r.start..r.end : r \in symbols})
  IN  IF bad # 0 THEN Error(list) ELSE Ok(list)

-----------------------------------------------------------------------------
(* Which symbols to ask for *)

CountOf(rl) == FoldLeft(LAMBDA n, r : n + Count(r), 0, rl)

StillNeeded(missing, has) == missing - has

\* The first n numbers of a list, one by one.
FirstOf(rl, n) ==
  LET singles == FoldLeft(LAMBDA s, r : s \o [k \in 1..Count(r) |->
                            Interval(r.start + k - 1, r.start + k - 1)], <<>>, rl)
  IN  SubSeq(singles, 1, Least(n, Len(singles)))

\* Repair symbols stand in for as many missing ones; a block of which there
\* is nothing is asked for whole.
GetMissingESIs(b, srcMissing, rprHas) ==
  LET missing(sbn) == CountOf(srcMissing[sbn])
      repairable(sbn) == IF sbn \in DOMAIN rprHas THEN CountOf(rprHas[sbn]) ELSE 0
      nothing(sbn) == missing(sbn) = NumSrcSym(b, sbn) /\ repairable(sbn) = 0
  IN  [sbn \in {s \in DOMAIN srcMissing : nothing(s) \/ missing(s) > repairable(s)} |->
         IF nothing(sbn) THEN <<Interval(0, NumSrcSym(b, sbn) - 1)>>
         ELSE Flatten(FirstOf(srcMissing[sbn], StillNeeded(missing(sbn), repairable(sbn))))]

-----------------------------------------------------------------------------
(* From symbols to bytes *)

LastByte(offset, esi, esLen) == offset + (esi + 1) * esLen - 1

\* The bytes of a range of symbols of a block; source symbols among repair
\* symbols are left out.
BytesOf(b, sbn, r, source) ==
  LET offset == OffsetOf(b, sbn, source)
      k == IF source THEN 0 ELSE NumSrcSym(b, sbn)
      first == IF source THEN r.start ELSE Greatest(r.start - k, 0)
  IN  IF ~source /\ r.end + 1 - k < 0 THEN <<>>
      ELSE <<Interval(offset + first * b.ESLen, LastByte(offset, r.end - k, b.ESLen))>>

\* A block without a list is all of the block.  The blocks come in any order
\* and flatten sorts what they give.
ToRangeList(b, er, source) ==
  LET size(sbn) == IF source THEN SrcBlockSize(b, sbn) ELSE (b.MaxNumEs - b.MaxSbLen) * b.ESLen
      whole(sbn) == Interval(OffsetOf(b, sbn, source), OffsetOf(b, sbn, source) + size(sbn) - 1)
      bytes(sbn) ==
        IF er[sbn] = <<>> THEN <<whole(sbn)>>
        ELSE FoldLeft(LAMBDA l, r : l \o BytesOf(b, sbn, r, source), <<>>, er[sbn])
  IN  Flatten(FoldSet(LAMBDA sbn, l : l \o bytes(sbn), <<>>, DOMAIN er))

-----------------------------------------------------------------------------
(* The text of an ESIRange, as a sequence of its parts between semicolons: *)
(* blocks from-to without a list, or a block and perhaps a list            *)

Span(from, to) == [span |-> TRUE, from |-> from, to |-> to, list |-> <<>>]

Block(sbn, rl) == [span |-> FALSE, from |-> sbn, to |-> sbn, list |-> rl]

Keys(er) == [k \in 1..Cardinality(DOMAIN er) |->
               CHOOSE x \in DOMAIN er : Cardinality({y \in DOMAIN er : y < x}) = k - 1]

\* The k-th block may be the last one of a span.
EndsSpan(er, keys, k) ==
  \/ k < Len(keys) /\ er[keys[k + 1]] # <<>>
  \/ k = Len(keys) /\ er[keys[k]] = <<>>

\* What the k-th block adds to the text; `start` is where a span would begin.
PartAdded(er, keys, k, acc) ==
  LET sbn == keys[k]
      rl == er[sbn]
  IN  IF acc.start < sbn /\ k > 1 /\ er[keys[k - 1]] = <<>> /\ EndsSpan(er, keys, k)
      THEN [start |-> Max32 - 1, text |-> Append(acc.text, Span(acc.start, sbn))]
      ELSE IF rl = <<Interval(0, -1)>>
      THEN [acc EXCEPT !.text = Append(@, Block(sbn, <<>>))]
      ELSE IF rl # <<>>
      THEN [start |-> U32(sbn + 1), text |-> Append(acc.text, Block(sbn, rl))]
      ELSE IF k = Len(keys) THEN [acc EXCEPT !.text = Append(@, Block(sbn, <<>>))] ELSE acc

MarshalText(er) ==
  LET keys == Keys(er)
  IN  IF keys = <<>> THEN <<>>
      ELSE FoldLeft(LAMBDA acc, k : PartAdded(er, keys, k, acc),
                    [start |-> keys[1], text |-> <<>>], [k \in DOMAIN keys |-> k]).text

\* What a part of the text says of its blocks, in place of what was read before.
Read(er, p) ==
  [sbn \in DOMAIN er \cup p.from..p.to |->
     IF sbn \in p.from..p.to THEN Flatten(p.list) ELSE er[sbn]]

\* The empty text has no number of a block in it and is an error.
UnmarshalText(text) ==
  IF text = <<>> THEN Error(NoESIs) ELSE Ok(FoldLeft(Read, NoESIs, text))

-----------------------------------------------------------------------------
(* An ESIRange as the query of a 3GPP URL: its text with other separators, *)
(* where others may write a range as its first number and how far it goes  *)

ToMBMSRawQuery(er) == MarshalText(er)

\* Every end moved by its start, forth (1) or back (-1).
WithEnds(parts, way) ==
  LET moved(r) == Interval(r.start, r.end + way * r.start)
  IN  [k \in DOMAIN parts |->
         LET p == parts[k]
         IN  IF p.span THEN Span(p.from, p.to + way * p.from)
             ELSE Block(p.from, [m \in DOMAIN p.list |-> moved(p.list[m])])]

Counted(parts) == WithEnds(parts, -1)

NewESIRangeFromMBMSQuery(query) ==
  UnmarshalText(IF query.counted THEN WithEnds(query.parts, 1) ELSE query.parts)

-----------------------------------------------------------------------------
(* What a receiver asks for, as TestESIRangeFromRangeListBorderCase does   *)
(* it: the missing bytes as symbols, less what repair symbols stand in     *)
(* for, as bytes.  The repair symbols of small blocks are not counted on.  *)

Request(b, missingBytes, hasRepair) ==
  LET missing == ESIRangeFromRangeList(b, missingBytes, TRUE, TRUE)
      repair == ESIRangeFromRangeList(b, hasRepair, FALSE, FALSE)
      large == {sbn \in DOMAIN repair.value : sbn \notin b.I..(b.N - 1)}
  IN  ToRangeList(b, GetMissingESIs(b, missing.value, [sbn \in large |-> repair.value[sbn]]), TRUE)

-----------------------------------------------------------------------------
(* The calls *)

RprSymbols(b) == b.MaxNumEs - b.MaxSbLen

SourceESIs(b, sbn) == 0..(NumSrcSym(b, sbn) - 1)

RepairESIs(b, sbn) == NumSrcSym(b, sbn)..(NumSrcSym(b, sbn) + RprSymbols(b) - 1)

ESIs(b, sbn, source) == IF source THEN SourceESIs(b, sbn) ELSE RepairESIs(b, sbn)

\* Every ESIRange of some symbols of some blocks.
ESIRanges(b, source) ==
  {[sbn \in {s \in Blocks(b) : f[s] # {}} |-> ListOf(f[sbn])] :
     f \in {g \in [Blocks(b) -> SUBSET UNION {ESIs(b, s, source) : s \in Blocks(b)}] :
              \A s \in Blocks(b) : g[s] \subseteq ESIs(b, s, source)}}

\* The bytes of a symbol; the last source symbol may be short.
SymbolBytes(b, sbn, esi, source) ==
  LET e == IF source THEN esi ELSE esi - NumSrcSym(b, sbn)
      from == OffsetOf(b, sbn, source) + e * b.ESLen
  IN  from..(from + b.ESLen - 1) \cap 0..(OffsetOf(b, sbn + 1, source) - 1)

BytesOfESIs(b, er, source) ==
  UNION {UNION {SymbolBytes(b, sbn, e, source) : e \in Offsets(er[sbn]) \cap ESIs(b, sbn, source)}
           : sbn \in DOMAIN er}

Called(f, b, a, result) ==
  /\ call' = f
  /\ bs' = b
  /\ args' = a
  /\ answer' = result

Within(rl, b, source) == \A k \in DOMAIN rl : rl[k].end < OffsetOf(b, b.N, source)

CallFromList ==
  \E b \in Structures, rl \in ByteLists, source, inclusive \in BOOLEAN :
     /\ Within(rl, b, source)
     /\ Called("FromList", b, [rl |-> rl, source |-> source, inclusive |-> inclusive],
               ESIRangeFromRangeList(b, rl, source, inclusive))

CallForSBN ==
  \E b \in Structures, rl \in ByteLists :
     \E sbn \in Blocks(b) :
        /\ Normal(rl) /\ Within(rl, b, TRUE)
        /\ Called("ForSBN", b, [rl |-> rl, sbn |-> sbn], ESRangeListForSBN(b, sbn, rl))

CallMissing ==
  \E b \in Structures :
     \E missing \in ESIRanges(b, TRUE), has \in ESIRanges(b, FALSE) :
        Called("Missing", b, [missing |-> missing, has |-> has], GetMissingESIs(b, missing, has))

CallToList ==
  \E b \in Structures, source \in BOOLEAN :
     \E er \in ESIRanges(b, source) :
        Called("ToList", b, [er |-> er, source |-> source], ToRangeList(b, er, source))

CallText ==
  \E er \in Texts : Called("Text", Zero, [er |-> er], UnmarshalText(MarshalText(er)))

CallQuery ==
  \E er \in Texts, counted \in BOOLEAN :
     LET query == [counted |-> counted,
                   parts |-> IF counted THEN Counted(ToMBMSRawQuery(er)) ELSE ToMBMSRawQuery(er)]
     IN  Called("Query", Zero, [er |-> er, counted |-> counted], NewESIRangeFromMBMSQuery(query))

SymbolsCall ==
  /\ call = "none"
  /\ CallFromList \/ CallForSBN \/ CallMissing \/ CallToList \/ CallText \/ CallQuery

SymbolsReturn ==
  /\ call # "none"
  /\ call' = "none"
  /\ bs' = Zero /\ args' = <<>> /\ answer' = <<>>

SymbolsInit == call = "none" /\ bs = Zero /\ args = <<>> /\ answer = <<>>

-----------------------------------------------------------------------------
(* Properties *)

\* Every range begins with the first byte of a symbol.
AtSymbols(b, rl, source) ==
  \A k \in DOMAIN rl : \E sbn \in Blocks(b) : \E e \in ESIs(b, sbn, source) :
     SymbolBytes(b, sbn, e, source) # {} /\ rl[k].start = Min(SymbolBytes(b, sbn, e, source))

Touched(b, sbn, rl, source) ==
  {e \in ESIs(b, sbn, source) : SymbolBytes(b, sbn, e, source) \cap Offsets(rl) # {}}

Covered(b, sbn, rl, source) ==
  {e \in ESIs(b, sbn, source) : SymbolBytes(b, sbn, e, source) \subseteq Offsets(rl)}

Full(b, sbn, source) ==
  {e \in ESIs(b, sbn, source) : Cardinality(SymbolBytes(b, sbn, e, source)) = b.ESLen}

Listed(er, sbn) == IF sbn \in DOMAIN er THEN Offsets(er[sbn]) ELSE {}

\* ESIRangeFromRangeList names the symbols that the list touches, or without
\* `inclusive` those of full length that it covers, in every block; if the
\* ranges begin within symbols, still none that the list does not touch.
FromListExact ==
  call = "FromList" /\ answer.ok =>
     \A sbn \in Blocks(bs) :
        LET esis == Listed(answer.value, sbn)
            touched == Touched(bs, sbn, args.rl, args.source)
            covered == Covered(bs, sbn, args.rl, args.source)
        IN  /\ esis \subseteq touched
            /\ AtSymbols(bs, args.rl, args.source) =>
                 esis = IF args.inclusive THEN touched
                        ELSE covered \cap Full(bs, sbn, args.source)

\* ESRangeListForSBNFromRangeList misses no symbol of which all bytes are in
\* the list, if it gives an answer.  (It may name others.)
ForSBNComplete ==
  call = "ForSBN" /\ answer.ok =>
     Covered(bs, args.sbn, args.rl, TRUE) \subseteq Offsets(answer.value)

\* GetMissingESIs asks only for what is missing, and for exactly as much as
\* the repair symbols do not stand in for.
MissingBalanced ==
  call = "Missing" =>
     \A sbn \in Blocks(bs) :
        LET missing == Listed(args.missing, sbn)
            repair == Cardinality(Listed(args.has, sbn))
            asked == Listed(answer, sbn)
        IN  /\ asked \subseteq missing
            /\ Cardinality(asked) = Greatest(Cardinality(missing) - repair, 0)

\* ToRangeList gives the bytes of the symbols, in a list fit for the set
\* operations; only behind the end of the object may it go on, to the end of
\* the last symbol.
ToListExact ==
  call = "ToList" =>
     LET object == 0..(OffsetOf(bs, bs.N, args.source) - 1)
     IN  /\ Offsets(answer) \cap object = BytesOfESIs(bs, args.er, args.source)
         /\ Normal(answer)
         /\ \A x \in Offsets(answer) : x < OffsetOf(bs, bs.N, args.source) + bs.ESLen - 1

\* The blocks without a list come in runs of two or more, or one at the end,
\* and no number is left out before one of them.
InRuns(er) ==
  LET bare == {sbn \in DOMAIN er : er[sbn] = <<>>}
  IN  \A sbn \in bare :
         /\ sbn - 1 \in DOMAIN er \/ \A s \in DOMAIN er : s >= sbn
         /\ {sbn - 1, sbn + 1} \cap bare # {} \/ \A s \in DOMAIN er : s <= sbn

\* What is written as text or as a query is read back, where the blocks
\* without a list are in runs as in the tests, and so is a query of the same
\* ranges that another wrote in its own way.
TextInRunsExact ==
  call \in {"Text", "Query"} /\ args.er # NoESIs /\ InRuns(args.er) => answer = Ok(args.er)

=============================================================================
