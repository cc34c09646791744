------------------------------ MODULE Blocking ------------------------------
(***************************************************************************)
(* BlockingStructure of fec/blocking.go: how an object is cut into source  *)
(* blocks of encoding symbols (RFC 5052, 9.1).  The queries are functions  *)
(* of the structure and an update is a sequence of stores to its fields;   *)
(* BlockingShared has the updates and the queries that run meanwhile.      *)
(***************************************************************************)
EXTENDS Integers, Sequences, SequencesExt, FiniteSetsExt

CONSTANTS
  Max32,  \* one more than the largest uint32
  Max64   \* one more than the largest uint64

ASSUME WidthAssumption == Max32 \in Nat \ {0} /\ Max64 \in Nat \ {0} /\ Max32 <= Max64

U32(x) == x % Max32
U64(x) == x % Max64

CeilDiv(x, y) == (x + y - 1) \div y

\* How the code rounds up, with a sum that wraps around.
CeilDiv64(x, y) == U64(x + y - 1) \div y

Zero == [N |-> 0, I |-> 0, A |-> 0, ASmall |-> 0, ESLen |-> 0, T |-> 0, TransferLen |-> 0,
         MaxSbLen |-> 0, MaxNumEs |-> 0, NumEsPerGroup |-> 0]

-----------------------------------------------------------------------------
(* Faulty variants *)

SrcOffsetSmall(bs, sbn) ==
  IF sbn >= bs.N THEN bs.TransferLen
  ELSE IF sbn < bs.I THEN U64(bs.ESLen * bs.A * sbn)
  ELSE U64(bs.ESLen * (bs.I * bs.ASmall + U32(sbn - bs.I) * bs.ASmall))

SourceSBNLarge(bs, offset) ==
  LET symbol == offset \div bs.ESLen
  IN  IF symbol \div bs.A < bs.N THEN symbol \div bs.A ELSE U32(bs.N - 1)

NumSrcSymUntrimmed(bs, sbn) ==
  IF sbn >= bs.N THEN 0 ELSE IF sbn < bs.I THEN bs.A ELSE bs.ASmall

SizesCleared(b) == <<<<"ASmall", 0>>, <<"A", 0>>>>

StreamBlocksCleared(b, t, n) == <<<<"T", t>>, <<"I", 0>>, <<"N", n>>, <<"I", n>>>>

-----------------------------------------------------------------------------
(* Updates *)

\* The plain fields, stored by UpdateBlockingStructure5052 before the rest.
Parameters(b, maxSbLen, esLen, group) ==
  [b EXCEPT !.ESLen = esLen, !.MaxSbLen = maxSbLen, !.NumEsPerGroup = group,
            !.MaxNumEs = IF @ = 0 THEN maxSbLen ELSE @]

Validated(b) ==
  /\ b.MaxSbLen > 0 /\ b.ESLen > 0
  /\ b.NumEsPerGroup > 0 /\ b.NumEsPerGroup <= b.MaxSbLen

\* A stream is not validated: without a length of symbols or of blocks the
\* division panics.
Succeeds(b, stream) == IF stream THEN b.ESLen > 0 /\ b.MaxSbLen > 0 ELSE Validated(b)

\* The blocks of RFC 5052 9.1: all of the same size, or I of them larger by
\* a symbol.
Even(b, t, n) ==
  <<<<"A", t \div n>>, <<"ASmall", t \div n>>, <<"I", t % n>>>>
    \o (IF t % n > 0 THEN <<<<"A", t \div n + 1>>>> ELSE <<>>)

Sizes(b) == <<<<"ASmall", b.MaxSbLen>>, <<"A", b.MaxSbLen>>>>

StreamBlocks(b, t, n) == <<<<"T", t>>, <<"N", n>>, <<"I", n>>>>

\* The stores of an update to this length, in order.  One that fails its
\* checks has done the first three, and T before a division by MaxSbLen.
Stores(b, len, stream) ==
  LET t == CeilDiv64(len, b.ESLen)
      n == U32(CeilDiv64(t, b.MaxSbLen))
  IN  Sizes(b) \o <<<<"TransferLen", len>>>>
        \o (IF ~Succeeds(b, stream)
            THEN IF stream /\ b.ESLen > 0 THEN <<<<"T", t>>>> ELSE <<>>
            ELSE IF stream THEN StreamBlocks(b, t, n)
            ELSE <<<<"T", t>>, <<"N", n>>>>
                   \o (IF b.ESLen > 1 THEN Even(b, t, n)
                       ELSE <<<<"A", b.MaxSbLen>>, <<"ASmall", b.MaxSbLen>>>>))

Stored(b, s) == [b EXCEPT ![s[1]] = s[2]]

\* A field has the value of the last store to it.
StoredAll(b, stores) ==
  [field \in DOMAIN b |->
     LET ks == {k \in DOMAIN stores : stores[k][1] = field}
     IN  IF ks = {} THEN b[field] ELSE stores[Max(ks)][2]]

-----------------------------------------------------------------------------
(* Source blocks *)

SrcOffset(bs, sbn) ==
  IF sbn >= bs.N THEN bs.TransferLen
  ELSE IF sbn < bs.I THEN U64(bs.ESLen * bs.A * sbn)
  ELSE U64(bs.ESLen * (bs.I * bs.A + U32(sbn - bs.I) * bs.ASmall))

SrcBlockSize(bs, sbn) ==
  IF sbn = U32(bs.N - 1) THEN U64(bs.TransferLen - SrcOffset(bs, sbn))
  ELSE IF sbn < bs.I THEN U64(bs.ESLen * bs.A)
  ELSE IF sbn < U32(bs.N - 1) THEN U64(bs.ESLen * bs.ASmall)
  ELSE 0

\* The symbols of what is left of an object from an offset on; uint32(...)
\* drops the high half of what is left.
SymbolsFrom(bs, offset) == U32(U32(bs.TransferLen - offset) + bs.ESLen - 1) \div bs.ESLen

NumSrcSym(bs, sbn) ==
  LET full == IF sbn < bs.I THEN bs.A ELSE bs.ASmall
      offset == SrcOffset(bs, sbn)
  IN  IF sbn >= bs.N THEN 0
      ELSE IF sbn = bs.N - 1 /\ U64(offset + bs.ESLen * full) > bs.TransferLen
           THEN SymbolsFrom(bs, offset)
           ELSE full

SourceSBN(bs, offset) ==
  LET symbol == offset \div bs.ESLen
      large == U64(bs.A * bs.I)
      sbn == IF symbol < large THEN symbol \div bs.A
             ELSE (symbol - large) \div bs.ASmall + bs.I
  IN  IF sbn < bs.N THEN sbn ELSE U32(bs.N - 1)

-----------------------------------------------------------------------------
(* Repair blocks: each has the symbols of a block beyond MaxSbLen *)

RprBlockSize(bs) == U64((bs.MaxNumEs - bs.MaxSbLen) * bs.ESLen)

RprOffset(bs, sbn) == U64(RprBlockSize(bs) * (IF sbn > bs.N THEN bs.N ELSE sbn))

RepairSBN(bs, offset) == U32(offset \div RprBlockSize(bs))

-----------------------------------------------------------------------------
(* What the queries owe their callers *)

Blocks(bs) == 0..(bs.N - 1)

\* The blocks follow one another from the first byte to the last.
Partition(bs) ==
  /\ bs.N > 0 /\ SrcOffset(bs, 0) = 0
  /\ \A sbn \in Blocks(bs) :
        /\ SrcBlockSize(bs, sbn) > 0
        /\ SrcOffset(bs, sbn + 1) = SrcOffset(bs, sbn) + SrcBlockSize(bs, sbn)
  /\ SrcOffset(bs, bs.N) = bs.TransferLen

\* SourceSBN is the inverse of SrcOffset.
Lookup(bs) ==
  \A offset \in 0..(bs.TransferLen - 1) :
     LET sbn == SourceSBN(bs, offset)
     IN  sbn \in Blocks(bs) /\ SrcOffset(bs, sbn) <= offset /\ offset < SrcOffset(bs, sbn + 1)

\* A block has the symbols it takes to hold its bytes, at most MaxSbLen; the
\* next block begins behind them, so that the last one ends with symbol T.
Symbols(bs) ==
  \A sbn \in Blocks(bs) :
     LET n == NumSrcSym(bs, sbn)
         behind == SrcOffset(bs, sbn) + bs.ESLen * n
     IN  /\ n = CeilDiv(SrcBlockSize(bs, sbn), bs.ESLen)
         /\ n <= bs.MaxSbLen
         /\ behind = IF sbn = bs.N - 1 THEN bs.ESLen * bs.T ELSE SrcOffset(bs, sbn + 1)

=============================================================================
