------------------------------ MODULE RangeOps ------------------------------
(***************************************************************************)
(* The set operations on RangeList of fec/util.go: Intersection, Subtract, *)
(* Union, InplaceUnion and Contains.  Each is a loop that walks two lists  *)
(* with an index each and decides by the position of the current ranges;   *)
(* an iteration is one action.  Slices are values here: no operation of    *)
(* these writes to the lists it is given but InplaceUnion to its receiver. *)
(***************************************************************************)
EXTENDS Ranges

CONSTANTS
  Lists,      \* lists the operations are called with
  OpenLists   \* more lists for Union, with an open range <<k, -1>> at the end

\* Lists are in order, as UnmarshalText and the set operations leave them.
ASSUME ListsAssumption ==
  /\ Lists \subseteq {l \in Seq(RangeType) : Apart(l, 0)}
  /\ OpenLists \subseteq Seq(RangeType)

\* Ranges are read from texts, in which offsets have no sign.
ASSUME OffsetsAssumption ==
  \A l \in Lists \cup OpenLists : \A k \in DOMAIN l : l[k].start >= 0

VARIABLES
  op,      \* the operation
  pc,      \* "idle", "loop" or "done"
  given,   \* the two lists of the call
  rl, ll,  \* the receiver and the argument
  i, j,    \* the current range of each, counted from 1
  toAdd,   \* Union: the range to add
  out,     \* the list built so far; at "done", the result
  frames   \* Subtract: the calls that wait for the one they made

vars == <<op, pc, given, rl, ll, i, j, toAdd, out, frames>>

Ops == {"intersection", "subtract", "union", "inplace", "contains"}

-----------------------------------------------------------------------------
(* Calls and returns *)

Start(o, a, b) ==
  /\ pc = "idle"
  /\ op' = o
  /\ given' = <<a, b>>
  /\ rl' = a
  /\ ll' = b
  /\ j' = 1
  /\ toAdd' = Interval(0, -1)
  /\ frames' = <<>>

\* The call enters its loop at range k of the receiver.
Enter(k) == pc' = "loop" /\ i' = k /\ out' = <<>>

\* The call is over at once.
Shortcut(result) == pc' = "done" /\ i' = 1 /\ out' = result

Looping(o) == pc = "loop" /\ op = o

Continue(m, k) == i' = m /\ j' = k /\ UNCHANGED <<op, pc, given>>

Done(result) ==
  /\ pc' = "done"
  /\ out' = result
  /\ UNCHANGED <<op, given, rl, ll, i, j, toAdd, frames>>

Return ==
  /\ pc = "done"
  /\ op' = "none"
  /\ pc' = "idle"
  /\ given' = <<<<>>, <<>>>>
  /\ rl' = <<>> /\ ll' = <<>> /\ out' = <<>> /\ frames' = <<>>
  /\ i' = 1 /\ j' = 1
  /\ toAdd' = Interval(0, -1)

-----------------------------------------------------------------------------
(* Faulty variants *)

SubtractAroundOnce(r, l) ==
  LET before == IF l.start - 1 >= r.start THEN <<Interval(r.start, l.start - 1)>> ELSE <<>>
      behind == IF r.end >= l.end + 1 THEN <<Interval(l.end + 1, r.end)>> ELSE <<>>
  IN  out' = out \o before \o behind /\ Continue(i + 1, j + 1) /\ UNCHANGED <<rl, ll, frames>>

RemainderNext(done, left, k) ==
  IF k <= Len(left) /\ (Last(done).end <= left[k].end \/ Count(Last(done)) = 0)
  THEN Rest(left, k + 1) ELSE <<>>

AbsorbEnd(rs, m) == RemoveAt([rs EXCEPT ![m - 1].end = rs[m].end], m)

AbsorbKeeping(rs, m) == [rs EXCEPT ![m - 1].end = Greatest(@, rs[m].end)]

EndedLate(rs, m) == m > Len(rs) + 1

-----------------------------------------------------------------------------
(* Intersection *)

Intersection(a, b) ==
  /\ Start("intersection", a, b)
  /\ IF a = <<>> \/ b = <<>>
     THEN Shortcut(<<>>)
     ELSE Enter(Least(Search(a, b[1].start), Len(a)))

Emit(ranges) == out' = Flatten(out \o ranges) /\ UNCHANGED <<rl, ll, toAdd, frames>>

IntersectionStep ==
  /\ Looping("intersection")
  /\ i <= Len(rl) /\ j <= Len(ll)
  /\ LET r == rl[i]  l == ll[j]  p == Position(r, l)
     IN  \/ p = "around" /\ Emit(<<l>>) /\ Continue(i, j + 1)
         \/ p = "inside" /\ Emit(<<r>>) /\ Continue(i + 1, j)
         \/ p = "front" /\ Emit(Meet(r, l)) /\ Continue(i + 1, j)
         \/ p = "back" /\ Emit(Meet(r, l)) /\ Continue(i, j + 1)
         \/ p = "before" /\ Emit(<<>>) /\ Continue(i + 1, j)
         \/ p = "after" /\ Emit(<<>>) /\ Continue(i, j + 1)

IntersectionReturn ==
  /\ Looping("intersection")
  /\ i > Len(rl) \/ j > Len(ll)
  /\ Done(out)

-----------------------------------------------------------------------------
(* Subtract *)

Subtract(a, b) ==
  /\ Start("subtract", a, b)
  /\ IF b = <<>> THEN Shortcut(a) ELSE Enter(1)

Append1(r) == out' = (IF r.end >= r.start THEN Append(out, r) ELSE out)

\* What is left of a range that holds l: the part before l at once, the part
\* behind it by a call with the rest of ll, which returns its receiver when
\* nothing is left to subtract.
SubtractAround(r, l) ==
  LET before == IF l.start - 1 >= r.start THEN <<Interval(r.start, l.start - 1)>> ELSE <<>>
      behind == IF r.end >= l.end + 1 THEN <<Interval(l.end + 1, r.end)>> ELSE <<>>
  IN  IF behind = <<>> \/ j = Len(ll)
      THEN /\ out' = out \o before \o behind
           /\ Continue(i + 1, j + 1)
           /\ UNCHANGED <<rl, ll, frames>>
      ELSE /\ frames' = Append(frames, [rl |-> rl, ll |-> ll, i |-> i + 1, j |-> j + 1,
                                        out |-> out \o before])
           /\ rl' = behind
           /\ ll' = Rest(ll, j + 1)
           /\ out' = <<>>
           /\ Continue(1, 1)

SubtractStep ==
  /\ Looping("subtract")
  /\ i <= Len(rl) /\ j <= Len(ll)
  /\ LET r == rl[i]  l == ll[j]  p == Position(r, l)
     IN  \/ p = "around" /\ SubtractAround(r, l)
         \/ /\ \/ p \in {"inside", "front"} /\ Append1(Interval(r.start, l.start - 1))
               \/ p = "back" /\ Append1(Interval(l.end + 1, r.end))
               \/ p = "before" /\ Append1(r)
            /\ Continue(i + 1, j)
            /\ UNCHANGED <<rl, ll, frames>>
         \/ p = "after" /\ Continue(i, j + 1) /\ UNCHANGED <<rl, ll, out, frames>>
  /\ UNCHANGED toAdd

\* ll is used up.
SubtractRest ==
  /\ Looping("subtract")
  /\ i <= Len(rl) /\ j > Len(ll)
  /\ out' = Append(out, rl[i])
  /\ Continue(i + 1, j)
  /\ UNCHANGED <<rl, ll, toAdd, frames>>

SubtractReturn ==
  /\ Looping("subtract")
  /\ i > Len(rl)
  /\ IF frames = <<>>
     THEN Done(Flatten(out))
     ELSE LET f == Last(frames)
          IN  /\ rl' = f.rl
              /\ ll' = f.ll
              /\ out' = f.out \o Flatten(out)
              /\ frames' = Front(frames)
              /\ Continue(f.i, f.j)
              /\ UNCHANGED toAdd

-----------------------------------------------------------------------------
(* Union *)

Union(a, b) ==
  /\ Start("union", a, b)
  /\ IF b = <<>> THEN Shortcut(a) ELSE IF a = <<>> THEN Shortcut(b) ELSE Enter(1)

\* Every iteration ends by adding r to out, also one that only moves on and
\* so adds the range of an earlier iteration again.
Add(r) ==
  /\ toAdd' = r
  /\ out' = IF out # <<>> /\ OverlapsFront(Last(out), r)
            THEN Append(Front(out), Join(Last(out), r))
            ELSE IF r.end >= 0 THEN Append(out, r) ELSE out
  /\ UNCHANGED <<rl, ll, frames>>

UnionStep ==
  /\ Looping("union")
  /\ i <= Len(rl) /\ j <= Len(ll)
  /\ LET r == rl[i]  l == ll[j]  p == Position(r, l)
     IN  \/ Count(r) <= 0 /\ Add(toAdd) /\ Continue(i + 1, j)
         \/ Count(r) > 0 /\ Count(l) <= 0 /\ Add(toAdd) /\ Continue(i, j + 1)
         \/ /\ Count(r) > 0 /\ Count(l) > 0
            /\ \/ p = "around" /\ Add(toAdd) /\ Continue(i, j + 1)
               \/ p = "inside" /\ Add(toAdd) /\ Continue(i + 1, j)
               \/ p \in {"front", "back"} /\ Add(Join(r, l)) /\ Continue(i + 1, j + 1)
               \/ p = "before" /\ Add(r) /\ Continue(i + 1, j)
               \/ p = "after" /\ Add(l) /\ Continue(i, j + 1)

\* One list is used up; the other goes to out unless its current range ends
\* before the last one of the list that is used up.
Remainder(done, left, k) ==
  IF k <= Len(left) /\ (Last(done).end <= left[k].end \/ Count(Last(done)) = 0)
  THEN Rest(left, k) ELSE <<>>

UnionReturn ==
  /\ Looping("union")
  /\ \/ i > Len(rl) /\ Done(Flatten(out \o Remainder(rl, ll, j)))
     \/ i <= Len(rl) /\ j > Len(ll) /\ Done(Flatten(out \o Remainder(ll, rl, i)))

-----------------------------------------------------------------------------
(* InplaceUnion; its count of added ranges is left out *)

InplaceUnion(a, b) ==
  /\ Start("inplace", a, b)
  /\ IF b = <<>> THEN Shortcut(a)
     ELSE IF a = <<>> THEN Shortcut(b)
     ELSE Enter(Greatest(Search(a, b[1].start) - 1, 1))

\* The range at m is merged into the one before it if they touch.
Touches(rs, m) == m > 1 /\ m <= Len(rs) /\ rs[m].start <= rs[m - 1].end + 1

Absorb(rs, m) ==
  RemoveAt([rs EXCEPT ![m - 1].end = Greatest(@, rs[m].end)], m)

Ended(rs, m) == m > Len(rs)

\* What the end of the receiver adds: the rest of ll, its first range merged
\* into the last one of the receiver if they touch.
Extended(rs, k) ==
  IF k > Len(ll) \/ Last(rs).end > ll[k].end THEN rs
  ELSE IF ll[k].start <= Last(rs).end + 1
       THEN [rs EXCEPT ![Len(rs)].end = ll[k].end] \o Rest(ll, k + 1)
       ELSE rs \o Rest(ll, k)

\* The end of every iteration, with the receiver and the indexes it leaves.
Rejoin(rs, m, k) ==
  LET joined == IF Touches(rs, m) THEN Absorb(rs, m) ELSE rs
      at == IF Touches(rs, m) THEN m - 1 ELSE m
  IN  /\ rl' = joined
      /\ i' = at
      /\ j' = k
      /\ IF Ended(joined, at)
         THEN pc' = "done" /\ out' = Flatten(Extended(joined, k))
         ELSE UNCHANGED <<pc, out>>
      /\ UNCHANGED <<op, given, ll, toAdd, frames>>

InplaceUnionStep ==
  /\ Looping("inplace")
  /\ \/ j > Len(ll) /\ Rejoin(rl, i + 1, j)
     \/ /\ j <= Len(ll)
        /\ LET l == ll[j]  p == PositionInplace(rl[i], l)
           IN  \/ p = "around" /\ Rejoin(rl, i, j + 1)
               \/ p = "front" /\ Rejoin([rl EXCEPT ![i].end = l.end], i, j + 1)
               \/ p = "inside" /\ Rejoin([rl EXCEPT ![i] = l], i + 1, j)
               \/ p = "back" /\ Rejoin([rl EXCEPT ![i].start = l.start], i, j + 1)
               \/ p = "before" /\ Rejoin(rl, i + 1, j)
               \/ p = "after" /\ Rejoin(InsertAt(rl, i, l), i + 1, j + 1)

-----------------------------------------------------------------------------
(* Contains answers whether it got to the end of ll *)

RangesContain(a, b) ==
  /\ Start("contains", a, b)
  /\ IF b = <<>> THEN Shortcut(<<>>) ELSE Enter(Search(a, b[1].start))

ContainsStep ==
  /\ Looping("contains")
  /\ i <= Len(rl) /\ j <= Len(ll)
  /\ \/ Encloses(rl[i], ll[j]) /\ Continue(i, j + 1)
     \/ ~Encloses(rl[i], ll[j]) /\ Continue(i + 1, j)
  /\ UNCHANGED <<rl, ll, toAdd, out, frames>>

ContainsReturn ==
  /\ Looping("contains")
  /\ i > Len(rl) \/ j > Len(ll)
  /\ Done(out)

Answer == j > Len(ll)

-----------------------------------------------------------------------------
Init ==
  /\ op = "none"
  /\ pc = "idle"
  /\ given = <<<<>>, <<>>>>
  /\ rl = <<>> /\ ll = <<>> /\ out = <<>> /\ frames = <<>>
  /\ i = 1 /\ j = 1
  /\ toAdd = Interval(0, -1)

Step ==
  \/ IntersectionStep \/ IntersectionReturn
  \/ SubtractStep \/ SubtractRest \/ SubtractReturn
  \/ UnionStep \/ UnionReturn
  \/ InplaceUnionStep
  \/ ContainsStep \/ ContainsReturn

Call ==
  /\ pc = "idle"
  /\ \/ \E a, b \in Lists :
           Intersection(a, b) \/ Subtract(a, b) \/ InplaceUnion(a, b) \/ RangesContain(a, b)
     \/ \E a, b \in Lists \cup OpenLists : Union(a, b)

Next == Call \/ Step \/ Return

Spec == Init /\ [][Next]_vars

\* A call that runs goes on running.
FairSpec == Spec /\ WF_vars(Step)

-----------------------------------------------------------------------------
(* Properties *)

Receiver == given[1]
Argument == given[2]

Finished(o) == pc = "done" /\ op = o

\* The indexes stay within the lists: no iteration reads past the end of a
\* slice, also while InplaceUnion inserts into and deletes from the list it
\* walks.  (The return of InplaceUnion reads the last range of its receiver.)
IndexesInRange ==
  /\ op \in Ops \cup {"none"}
  /\ i \in 1..(Len(rl) + 1)
  /\ j \in 1..(Len(ll) + 1)
  /\ pc = "loop" /\ op = "inplace" => i <= Len(rl)
  /\ pc = "loop" /\ op = "union" => rl # <<>> /\ ll # <<>>

\* Intersection is the intersection: FuzzRangeList_SetOps only compares it
\* with itself, arguments swapped.
IntersectionExact ==
  Finished("intersection") =>
     /\ Offsets(out) = Offsets(Receiver) \cap Offsets(Argument)
     /\ Normal(out)

\* Subtract removes nothing but what it is told to, and adds nothing; it is
\* exact where the tests use it: what is subtracted is a part of the receiver,
\* as an intersection with it is, and both are normal lists.
SubtractPartExact ==
  Finished("subtract") =>
     LET a == Offsets(Receiver)  b == Offsets(Argument)
     IN  /\ a \ b \subseteq Offsets(out) /\ Offsets(out) \subseteq a
         /\ Normal(Receiver) /\ Normal(Argument) /\ b \subseteq a
              => Offsets(out) = a \ b /\ Normal(out)

\* Union invents nothing, also when a list ends with an open range, and is
\* exact where the tests use it: on normal lists with nothing in common.
UnionDisjointExact ==
  Finished("union") =>
     LET a == Offsets(Receiver)  b == Offsets(Argument)
     IN  /\ Offsets(out) \subseteq a \cup b
         /\ Normal(Receiver) /\ Normal(Argument) /\ a \cap b = {}
              => Offsets(out) = a \cup b /\ Normal(out)

\* InplaceUnion is the union, whatever the lists have in common.
InplaceUnionExact ==
  Finished("inplace") =>
     /\ Offsets(out) = Offsets(Receiver) \cup Offsets(Argument)
     /\ Receiver # <<>> /\ Argument # <<>> => Normal(out)

\* Contains is inclusion, if the receiver is a normal list: no range of the
\* argument has to be covered by two ranges of it.
ContainsExact ==
  Finished("contains") /\ Normal(Receiver) =>
     (Answer <=> Offsets(Argument) \subseteq Offsets(Receiver))

\* No loop runs forever: each iteration moves one of the indexes on, although
\* InplaceUnion also moves one back.
CallsReturn == pc = "loop" ~> pc = "done"

\* "missing1 = range0.Subtract(sub)" and "assert.Equal(t, fec.RangeList{},
\* missing1)" (fec/util_test.go:67-68), where sub covers range0 and more:
\* what is subtracted is gone.
SubtractExact ==
  Finished("subtract") /\ Normal(Receiver) /\ Normal(Argument) =>
     Offsets(out) \cap Offsets(Argument) = {}

\* "expect := fec.RangeList{{0, 7}}; assert.Equal(t, expect, rl5);
\* assert.Equal(t, expect, rl6)" (fec/util_test.go:161-163): for lists that
\* overlap, Union returns what InplaceUnion leaves in its receiver, which is
\* the union (InplaceUnionExact).
UnionExact ==
  Finished("union") /\ Normal(Receiver) /\ Normal(Argument) =>
     Offsets(out) = Offsets(Receiver) \cup Offsets(Argument)

=============================================================================
