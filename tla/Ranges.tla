------------------------------- MODULE Ranges -------------------------------
(***************************************************************************)
(* Range and RangeList of fec/util.go: closed ranges of byte offsets or    *)
(* symbol numbers, and lists of them.  A range with end < start is empty;  *)
(* <<k, -1>> is how ParseContentRange writes "from k on", which the set    *)
(* operations do not know about.                                           *)
(***************************************************************************)
EXTENDS Integers, Sequences, FiniteSets, SequencesExt

RangeType == [start : Int, end : Int]

Interval(a, b) == [start |-> a, end |-> b]

Least(a, b) == IF a <= b THEN a ELSE b
Greatest(a, b) == IF a >= b THEN a ELSE b

-----------------------------------------------------------------------------
(* Faulty variants *)

MeetOfEnds(r, l) == <<Interval(Greatest(r.start, l.start), Greatest(r.end, l.end))>>

SearchPast(rl, x) ==
  LET k == SelectInSeq(rl, LAMBDA r : r.end > x)
  IN  IF k = 0 THEN Len(rl) + 1 ELSE k

-----------------------------------------------------------------------------
(* Two ranges *)

Encloses(r, l) == r.start <= l.start /\ l.end <= r.end

\* r starts first and overlaps or touches l.
OverlapsFront(r, l) == r.start <= l.start /\ r.end + 1 >= l.start

Join(r, l) == Interval(Least(r.start, l.start), Greatest(r.end, l.end))

\* Range.Intersection, as a list of at most one range.
Meet(r, l) ==
  IF \/ r.start <= l.start /\ r.end >= l.start
     \/ l.start <= r.start /\ l.end >= r.start
  THEN <<Interval(Greatest(r.start, l.start), Least(r.end, l.end))>>
  ELSE <<>>

Count(r) == r.end - r.start + 1

\* Where r is with respect to l, by the first test that succeeds in the
\* chains of Subtract and Intersection.
Position(r, l) ==
  IF Encloses(r, l) THEN "around"
  ELSE IF Encloses(l, r) THEN "inside"
  ELSE IF OverlapsFront(r, l) THEN "front"
  ELSE IF OverlapsFront(l, r) THEN "back"
  ELSE IF r.end < l.start THEN "before" ELSE "after"

\* The chain of InplaceUnion asks for the overlap before the enclosure.
PositionInplace(r, l) ==
  IF ~Encloses(r, l) /\ OverlapsFront(r, l) THEN "front" ELSE Position(r, l)

-----------------------------------------------------------------------------
(* Lists *)

\* The list sorted by start.  sort.Slice leaves equal starts as they are in
\* short lists; in long ones it may swap them, which the merge that follows
\* makes up for if none of the ranges is empty.
Sorted(rl) ==
  LET before(k) == {m \in DOMAIN rl : \/ rl[m].start < rl[k].start
                                      \/ rl[m].start = rl[k].start /\ m < k}
  IN  [p \in DOMAIN rl |-> rl[CHOOSE k \in DOMAIN rl : Cardinality(before(k)) = p - 1]]

\* r before a list: merged with its first range if they touch.
MergeFront(r, list) ==
  IF list # <<>> /\ list[1].start <= r.end + 1
  THEN <<Interval(r.start, Greatest(r.end, list[1].end))>> \o Tail(list)
  ELSE <<r>> \o list

\* A list from each of its ranges on, with its neighbours merged.
Merged(rl) ==
  LET from[k \in 1..(Len(rl) + 1)] == IF k > Len(rl) THEN <<>> ELSE MergeFront(rl[k], from[k + 1])
  IN  from

\* flatten: sort, then merge neighbours that touch, from the right.
Flatten(rl) == Merged(Sorted(rl))[1]

\* The first range that ends at x - 1 or later (sort.Search on a sorted list).
Search(rl, x) ==
  LET k == SelectInSeq(rl, LAMBDA r : r.end + 1 >= x)
  IN  IF k = 0 THEN Len(rl) + 1 ELSE k

Rest(rl, k) == SubSeq(rl, k, Len(rl))

\* The numbers a list stands for.
Offsets(rl) == UNION {rl[k].start..rl[k].end : k \in DOMAIN rl}

\* Ranges in order that do not overlap; and with a gap between neighbours,
\* which makes the list unique among those with the same offsets.
Apart(rl, gap) ==
  /\ \A k \in DOMAIN rl : rl[k].start <= rl[k].end
  /\ \A k, l \in DOMAIN rl : k < l => rl[k].end + gap < rl[l].start

Normal(rl) == Apart(rl, 1)

=============================================================================
