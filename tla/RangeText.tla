------------------------------ MODULE RangeText -----------------------------
(***************************************************************************)
(* The texts of ranges and lists of ranges (fec/util.go): as the feedback  *)
(* of a receiver, "1,4-7,9-", and as the header Content-Range of HTTP,     *)
(* "0-99,200-299/1000".  A text is the sequence of its pieces between      *)
(* commas.  A range without an end has the end -1.                         *)
(***************************************************************************)
EXTENDS Ranges, Results

CONSTANT MaxInt  \* the largest number of an int64

\* For a number that is not there.
Absent == -1

\* A piece: "first-last/length", where the dash, last and length may be
\* absent; for first there may be "*" (star).  What else a piece may contain
\* is skipped, as the bytes of "bytes 0-99"; `blank` is a piece of no
\* characters at all.
Piece(first, dash, last) ==
  [first |-> first, dash |-> dash, last |-> last, length |-> Absent, star |-> FALSE,
   blank |-> FALSE]

Blank == [Piece(Absent, FALSE, Absent) EXCEPT !.blank = TRUE]

NoDigits == Piece(Absent, FALSE, Absent)

Star == [Piece(Absent, FALSE, Absent) EXCEPT !.star = TRUE]

\* The first number of a piece is `first`, but behind a star.
PieceType ==
  {p \in [first : Nat \cup {Absent}, dash : BOOLEAN, last : Nat \cup {Absent},
          length : Nat \cup {Absent}, star : BOOLEAN, blank : BOOLEAN] :
     /\ p.first # Absent => ~p.star
     /\ p.first = Absent /\ ~p.star => p \in {Blank, NoDigits}
     /\ p.blank => p = Blank
     /\ p.last # Absent => p.dash}

-----------------------------------------------------------------------------
(* Faulty variants *)

KeepsUnlessOpen(kept, r) == kept = <<>> \/ kept[Len(kept)].end < r.start

-----------------------------------------------------------------------------
(* strconv.ParseInt of digits: too large a number gives the largest one,   *)
(* and an error.                                                           *)

Fits(n) == n <= MaxInt

ParseInt(n) == Least(n, MaxInt)

-----------------------------------------------------------------------------
(* Ranges *)

\* parseLimits; only the error of the first number is returned.
Limits(p) ==
  IF ~Fits(p.first) THEN Error(Interval(0, 0))
  ELSE Ok(Interval(p.first, IF p.last # Absent THEN ParseInt(p.last)
                            ELSE IF p.dash THEN -1 ELSE p.first))

\* The number that the digits furthest to the left are.
Leftmost(p) ==
  IF p.first # Absent THEN p.first ELSE IF p.last # Absent THEN p.last ELSE p.length

\* Range.UnmarshalText: a text without digits is not an error, and a number
\* behind a star is a range of its own.
ReadRange(p) ==
  IF p.first # Absent THEN Limits(p)
  ELSE IF Leftmost(p) = Absent THEN Ok(Interval(0, 0))
  ELSE Limits(Piece(Leftmost(p), FALSE, Absent))

\* Range.MarshalText and String
WriteRange(r) ==
  IF r.start = r.end THEN Piece(r.start, FALSE, Absent)
  ELSE Piece(r.start, TRUE, IF r.end = -1 THEN Absent ELSE r.end)

\* Range.StringHTTP
WriteHTTP(r) == Piece(r.start, TRUE, IF r.end = -1 THEN Absent ELSE r.end)

-----------------------------------------------------------------------------
(* Lists *)

WriteList(rl) == [k \in DOMAIN rl |-> WriteRange(rl[k])]

WriteListHTTP(rl) == [k \in DOMAIN rl |-> WriteHTTP(rl[k])]

\* The tokens that scanComma finds: there is none behind a last comma.
Tokens(text) ==
  IF text # <<>> /\ text[Len(text)] = Blank THEN SubSeq(text, 1, Len(text) - 1) ELSE text

\* The ranges of a text behind those that are there.
ReadAll(old, text) == FoldLeft(LAMBDA l, p : Append(l, ReadRange(p).value), old, text)

\* RangeList.UnmarshalText: only if all ranges can be read are they put in order.
ReadList(old, text) ==
  LET tokens == Tokens(text)
      bad == SelectInSeq(tokens, LAMBDA p : ~ReadRange(p).ok)
  IN  IF bad # 0 THEN Error(ReadAll(old, SubSeq(tokens, 1, bad - 1)))
      ELSE Ok(Flatten(ReadAll(old, tokens)))

-----------------------------------------------------------------------------
(* ParseContentRange *)

\* A range that a piece may stand for: 0-0 and 0- are taken for none.
Stands(r) == r.start > 0 \/ r.end > 0

\* Only a range behind the last one is kept, and none behind an open one.
Keeps(kept, r) ==
  kept = <<>> \/ (kept[Len(kept)].end < r.start /\ kept[Len(kept)].end # -1)

\* A length behind another one is not looked at.
Readable(text, k) ==
  LET p == text[k]
  IN  /\ p.star \/ p.first # Absent
      /\ Fits(p.first) /\ Fits(p.last)
      /\ Fits(p.length) \/ \E j \in 1..(k - 1) : text[j].length # Absent

ContentLimits(p) == Interval(IF p.star THEN 0 ELSE p.first, p.last)

NoContent == [ranges |-> <<>>, length |-> 0]

\* A header that has been read so far, with a piece more.
WithPiece(header, p) ==
  LET r == ContentLimits(p)
  IN  [ranges |-> IF Stands(r) /\ Keeps(header.ranges, r) THEN Append(header.ranges, r)
                  ELSE header.ranges,
       length |-> IF header.length = Absent THEN p.length ELSE header.length]

Header(text) ==
  FoldLeft(LAMBDA h, p : WithPiece(h, p), [ranges |-> <<>>, length |-> Absent], text)

ParseContentRange(text) ==
  IF text = <<>> \/ \E k \in DOMAIN text : ~Readable(text, k) THEN Error(NoContent)
  ELSE Ok(Header(text))

=============================================================================
