----------------------------- MODULE MCReceiver -----------------------------
(* Values of the constants of Receiver for model checking. *)
EXTENDS Receiver

LastOffset == 7

\* A structure as an update makes it, for a code with two repair symbols.
Made(len, maxSbLen, esLen, stream) ==
  LET p == Parameters(Zero, maxSbLen, esLen, 1)
  IN  [StoredAll(p, Stores(p, len, stream)) EXCEPT !.MaxNumEs = maxSbLen + 2]

\* Large and small blocks, only large ones, a short last symbol of two bytes,
\* and symbols of one byte.
MadeStructures ==
  {Made(9, 2, 2, FALSE), Made(9, 2, 2, TRUE), Made(8, 2, 3, FALSE), Made(4, 2, 1, FALSE)}

\* Every list over the offsets 0..LastOffset whose ranges do not overlap, and
\* every list of some symbols of an object.
HadLists ==
  LET ranges == {Interval(a, b) : a, b \in 0..LastOffset}
      grow(ls) == {rs \in {Append(l, r) : l \in ls, r \in ranges} : Apart(rs, 0)}
      one == grow({<<>>})
      ofSymbols(b) == {ListOf(BytesOfESIs(b, er, TRUE)) : er \in ESIRanges(b, TRUE)}
  IN  {<<>>} \cup one \cup grow(one) \cup grow(grow(one)) \cup UNION {ofSymbols(b) : b \in MadeStructures}

First == 0..LastOffset

Final == -1..8

\* Every normal list over these bytes, and two with a range that is not one.
AllLists ==
  {ListOf(S) : S \in SUBSET (0..8)}
    \cup {<<Interval(0, 1), Interval(3, 2)>>, <<Interval(2, -1)>>}

\* Some of these blocks, each with no list or with one of these.
SomeTexts ==
  UNION {[D -> {<<>>, <<Interval(3, 3)>>, <<Interval(1, 1), Interval(3, 4)>>}] : D \in SUBSET (0..4)}

=============================================================================
