------------------------------- MODULE Missing -------------------------------
(***************************************************************************)
(* Missing of fec/util.go: what a list lacks of the offsets start..end, by *)
(* one pass over the list.  An iteration of its loop is a step.            *)
(***************************************************************************)
EXTENDS Ranges

CONSTANTS
  HasLists,  \* the lists
  Starts,    \* the first offsets asked for
  Ends       \* the last ones

\* The lists are in order, as UnmarshalText and the set operations leave them.
ASSUME ListsAssumption ==
  /\ HasLists \subseteq {h \in Seq(RangeType) : Apart(h, 0)}
  /\ Starts \subseteq Nat
  /\ Ends \subseteq Int

VARIABLES pc, has, start, end, cur, i, ret

vars == <<pc, has, start, end, cur, i, ret>>

-----------------------------------------------------------------------------
(* Faulty variants *)

TailFromNext == IF cur' < end THEN <<Interval(cur', end)>> ELSE <<>>

SkipToStart == cur' = has[i].start

-----------------------------------------------------------------------------
Init ==
  /\ pc = "idle"
  /\ has = <<>> /\ ret = <<>>
  /\ start = 0 /\ end = 0 /\ cur = 0 /\ i = 1

\* A call; nothing is missing from no offsets.
Call(h, s, e) ==
  /\ pc = "idle"
  /\ pc' = IF s > e \/ e < 0 THEN "done" ELSE "loop"
  /\ has' = h
  /\ start' = s /\ cur' = s
  /\ end' = e
  /\ i' = 1 /\ ret' = <<>>

\* What follows the loop: the offsets from cur' on.
TailMissing == IF cur' <= end THEN <<Interval(cur', end)>> ELSE <<>>

\* The list is used up or is past the end.
Finish ==
  /\ pc = "loop"
  /\ i <= Len(has) => has[i].start > end
  /\ pc' = "done"
  /\ cur' = cur
  /\ ret' = ret \o TailMissing
  /\ UNCHANGED <<has, start, end, i>>

\* has[i] is the current range, and starts in time.
Looking == pc = "loop" /\ i <= Len(has) /\ has[i].start <= end

Behind ==
  /\ Looking
  /\ cur > has[i].end
  /\ i' = i + 1
  /\ UNCHANGED <<pc, has, start, end, cur, ret>>

SkipRange == cur' = has[i].end + 1

\* has[i] is ahead of cur or holds it: the gap before it, if any, is missing,
\* and the loop goes on behind it or ends.
Ahead ==
  /\ Looking
  /\ cur <= has[i].end
  /\ SkipRange
  /\ ret' = IF cur < has[i].start THEN Append(ret, Interval(cur, has[i].start - 1)) ELSE ret
  /\ IF cur' > end THEN pc' = "done" /\ i' = i ELSE pc' = pc /\ i' = i + 1
  /\ UNCHANGED <<has, start, end>>

Return ==
  /\ pc = "done"
  /\ pc' = "idle"
  /\ has' = <<>> /\ ret' = <<>>
  /\ start' = 0 /\ end' = 0 /\ cur' = 0 /\ i' = 1

Next ==
  \/ \E h \in HasLists, s \in Starts, e \in Ends : Call(h, s, e)
  \/ Finish \/ Behind \/ Ahead
  \/ Return

Spec == Init /\ [][Next]_vars

-----------------------------------------------------------------------------
(* Properties *)

\* What Missing returns is what the list lacks, all of it and nothing else,
\* also where the bounds cut through ranges and gaps.
MissingExact == pc = "done" => Offsets(ret) = (start..end) \ Offsets(has)

\* And it is a normal list, fit for the set operations.
MissingNormal == pc = "done" => Normal(ret)

=============================================================================
