--------------------------- MODULE RangeOpsProofs ---------------------------
(***************************************************************************)
(* For lists of any length: no loop of the set operations reads past the   *)
(* end of a slice, Contains is inclusion, Intersection is intersection and *)
(* Subtract is the difference where what is subtracted is a part of the    *)
(* receiver.  InplaceUnion leaves the union in its receiver, although it   *)
(* walks a list that it inserts into, removes from and changes the ranges  *)
(* of, and goes one range back after a removal.  Union invents nothing,    *)
(* and is exact on normal lists with nothing in common, although it adds a *)
(* range again whenever it only moves on.                                  *)
(***************************************************************************)
EXTENDS RangeOps, ListLemmas

-----------------------------------------------------------------------------
(* The indexes *)

\* A call of Subtract that waits goes on within its own lists.
FrameOK(f) ==
  /\ f.rl \in Seq(RangeType) /\ f.ll \in Seq(RangeType)
  /\ f.i \in 1..(Len(f.rl) + 1) /\ f.j \in 1..(Len(f.ll) + 1)

\* Only the frames of Subtract hold lists while another call runs.
ListsOK ==
  /\ pc \in {"idle", "loop", "done"}
  /\ rl \in Seq(RangeType) /\ ll \in Seq(RangeType)
  /\ \E S : frames \in Seq(S)
  /\ \A k \in 1..Len(frames) : FrameOK(frames[k])

IndexInv == ListsOK /\ IndexesInRange

LEMMA InitIndex == Init => IndexInv
<1> SUFFICES ASSUME Init PROVE IndexInv
  OBVIOUS
<1>1. <<>> \in Seq(RangeType) /\ Len(<<>>) = 0
  OBVIOUS
<1> QED BY <1>1 DEF Init, IndexInv, ListsOK, IndexesInRange

\* Steps that only move the indexes on, or end the loop.
LEMMA MovesIndex ==
  ASSUME IndexInv, UNCHANGED <<op, rl, ll, frames>>,
         pc' \in {"loop", "done"}, pc' = "loop" => pc = "loop",
         i' \in 1..(Len(rl) + 1), j' \in 1..(Len(ll) + 1),
         pc' = "loop" /\ op = "inplace" => i' <= Len(rl)
  PROVE  IndexInv'
BY DEF IndexInv, ListsOK, IndexesInRange, FrameOK

LEMMA CallIndex ==
  ASSUME IndexInv, Call
  PROVE  IndexInv'
<1>1. PICK a, b : /\ a \in Lists \cup OpenLists /\ b \in Lists \cup OpenLists
                  /\ \/ Intersection(a, b) \/ Subtract(a, b) \/ InplaceUnion(a, b)
                     \/ RangesContain(a, b) \/ Union(a, b)
  BY DEF Call
<1>2. a \in Seq(RangeType) /\ b \in Seq(RangeType) /\ Len(a) \in Nat /\ Len(b) \in Nat
  BY <1>1, ListsAssumption
<1>3. /\ rl' = a /\ ll' = b /\ j' = 1 /\ frames' = <<>>
      /\ op' \in Ops
  BY <1>1 DEF Intersection, Subtract, InplaceUnion, RangesContain, Union, Start, Ops
<1>4. ListsOK'
  <2>1. pc' \in {"idle", "loop", "done"}
    BY <1>1 DEF Intersection, Subtract, InplaceUnion, RangesContain, Union, Enter, Shortcut
  <2>2. frames' \in Seq({}) /\ Len(frames') = 0
    BY <1>3
  <2> QED BY <1>2, <1>3, <2>1, <2>2 DEF ListsOK
<1>5. ASSUME b # <<>>
      PROVE  /\ Search(a, b[1].start) \in 1..(Len(a) + 1)
             /\ Len(b) >= 1
  <2>1. 1 \in 1..Len(b)
    BY <1>2, <1>5
  <2>2. b[1].start \in Int
    BY <1>2, <2>1, ElementTyped
  <2>3. Search(a, b[1].start) \in 1..(Len(a) + 1)
    BY <1>2, <2>2, SearchIs
  <2>4. Len(b) >= 1
    BY <1>2, <2>1
  <2> QED BY <2>3, <2>4
<1>6. /\ i' \in 1..(Len(a) + 1)
      /\ pc' = "loop" /\ op' = "inplace" => i' <= Len(a)
      /\ pc' = "loop" /\ op' = "union" => a # <<>> /\ b # <<>>
  <2>1. a # <<>> => Len(a) >= 1
    BY <1>2
  <2>2. CASE Intersection(a, b)
    BY <1>2, <1>5, <2>1, <2>2 DEF Intersection, Start, Enter, Shortcut, Least
  <2>3. CASE Subtract(a, b)
    BY <1>2, <2>3 DEF Subtract, Start, Enter, Shortcut
  <2>4. CASE InplaceUnion(a, b)
    BY <1>2, <1>5, <2>1, <2>4 DEF InplaceUnion, Start, Enter, Shortcut, Greatest
  <2>5. CASE RangesContain(a, b)
    BY <1>2, <1>5, <2>5 DEF RangesContain, Start, Enter, Shortcut
  <2>6. CASE Union(a, b)
    BY <1>2, <2>6 DEF Union, Start, Enter, Shortcut
  <2> QED BY <1>1, <2>2, <2>3, <2>4, <2>5, <2>6
<1> QED BY <1>2, <1>3, <1>4, <1>6 DEF IndexInv, IndexesInRange

LEMMA IntersectionIndex ==
  ASSUME IndexInv, IntersectionStep \/ IntersectionReturn
  PROVE  IndexInv'
<1>1. rl \in Seq(RangeType) /\ ll \in Seq(RangeType) /\ Len(rl) \in Nat /\ Len(ll) \in Nat
  BY DEF IndexInv, ListsOK
<1>2. /\ pc = "loop" /\ op = "intersection" /\ UNCHANGED <<op, rl, ll, frames>>
      /\ i \in 1..(Len(rl) + 1) /\ j \in 1..(Len(ll) + 1)
      /\ \/ pc' = "done" /\ i' = i /\ j' = j
         \/ pc' = "loop" /\ i <= Len(rl) /\ j <= Len(ll) /\ i' \in {i, i + 1} /\ j' \in {j, j + 1}
  BY DEF IntersectionStep, IntersectionReturn, Looping, Continue, Emit, Done, IndexInv, IndexesInRange
<1> QED BY SMTT(30), <1>1, <1>2, MovesIndex

LEMMA UnionIndex ==
  ASSUME IndexInv, UnionStep \/ UnionReturn
  PROVE  IndexInv'
<1>1. rl \in Seq(RangeType) /\ ll \in Seq(RangeType) /\ Len(rl) \in Nat /\ Len(ll) \in Nat
  BY DEF IndexInv, ListsOK
<1>2. /\ pc = "loop" /\ op = "union" /\ UNCHANGED <<op, rl, ll, frames>>
      /\ i \in 1..(Len(rl) + 1) /\ j \in 1..(Len(ll) + 1)
      /\ \/ pc' = "done" /\ i' = i /\ j' = j
         \/ pc' = "loop" /\ i <= Len(rl) /\ j <= Len(ll) /\ i' \in {i, i + 1} /\ j' \in {j, j + 1}
  BY DEF UnionStep, UnionReturn, Looping, Continue, Add, Done, IndexInv, IndexesInRange
<1> QED BY SMTT(30), <1>1, <1>2, MovesIndex

LEMMA ContainsIndex ==
  ASSUME IndexInv, ContainsStep \/ ContainsReturn
  PROVE  IndexInv'
<1>1. rl \in Seq(RangeType) /\ ll \in Seq(RangeType) /\ Len(rl) \in Nat /\ Len(ll) \in Nat
  BY DEF IndexInv, ListsOK
<1>2. /\ pc = "loop" /\ op = "contains" /\ UNCHANGED <<op, rl, ll, frames>>
      /\ i \in 1..(Len(rl) + 1) /\ j \in 1..(Len(ll) + 1)
      /\ \/ pc' = "done" /\ i' = i /\ j' = j
         \/ pc' = "loop" /\ i <= Len(rl) /\ j <= Len(ll) /\ i' \in {i, i + 1} /\ j' \in {j, j + 1}
  BY DEF ContainsStep, ContainsReturn, Looping, Continue, Done, IndexInv, IndexesInRange
<1> QED BY SMTT(30), <1>1, <1>2, MovesIndex

\* A call of Subtract for the part of a range behind another one leaves a
\* frame with the indexes behind both.
LEMMA SubtractStepIndex ==
  ASSUME IndexInv, SubtractStep
  PROVE  IndexInv'
<1>1. /\ rl \in Seq(RangeType) /\ ll \in Seq(RangeType)
      /\ Len(rl) \in Nat /\ Len(ll) \in Nat
      /\ i \in 1..Len(rl) /\ j \in 1..Len(ll)
  BY DEF IndexInv, ListsOK, IndexesInRange, SubtractStep
<1>2. pc = "loop" /\ op = "subtract" /\ pc' = "loop" /\ op' = "subtract"
  BY DEF SubtractStep, SubtractAround, Looping, Continue
<1> DEFINE r == rl[i]
           l == ll[j]
           before == IF l.start - 1 >= r.start THEN <<Interval(r.start, l.start - 1)>> ELSE <<>>
           behind == IF r.end >= l.end + 1 THEN <<Interval(l.end + 1, r.end)>> ELSE <<>>
           f == [rl |-> rl, ll |-> ll, i |-> i + 1, j |-> j + 1, out |-> out \o before]
<1>3. \/ /\ UNCHANGED <<rl, ll, frames>>
         /\ i' \in {i, i + 1} /\ j' \in {j, j + 1}
      \/ /\ frames' = Append(frames, f)
         /\ rl' = behind /\ ll' = Rest(ll, j + 1)
         /\ i' = 1 /\ j' = 1
  <2> HIDE DEF f
  <2>1. CASE SubtractAround(r, l)
    BY <2>1 DEF SubtractAround, Continue, f
  <2>2. CASE ~SubtractAround(r, l)
    BY <2>2 DEF SubtractStep, Continue, Append1
  <2> QED BY <2>1, <2>2
<1>4. CASE /\ UNCHANGED <<rl, ll, frames>>
           /\ i' \in {i, i + 1} /\ j' \in {j, j + 1}
  BY <1>1, <1>2, <1>4, MovesIndex
<1>5. CASE /\ frames' = Append(frames, f)
           /\ rl' = behind /\ ll' = Rest(ll, j + 1)
           /\ i' = 1 /\ j' = 1
  <2>1. behind \in Seq(RangeType) /\ Len(behind) \in Nat
    <3>1. r.end \in Int /\ l.end \in Int
      BY <1>1, ElementTyped
    <3>2. Interval(l.end + 1, r.end) \in RangeType
      BY <3>1, RangeTyped
    <3> QED BY <3>2
  <2>2. Rest(ll, j + 1) \in Seq(RangeType) /\ Len(Rest(ll, j + 1)) \in Nat
    BY <1>1, RestProperties
  <2>3. FrameOK(f)
    BY <1>1 DEF FrameOK
  <2>4. PICK S : frames \in Seq(S)
    BY DEF IndexInv, ListsOK
  <2> HIDE DEF f, behind
  <2>5. frames \in Seq(S \cup {f}) /\ f \in S \cup {f}
    BY <2>4
  <2>6. /\ frames' \in Seq(S \cup {f}) /\ Len(frames') = Len(frames) + 1 /\ Len(frames) \in Nat
        /\ frames'[Len(frames) + 1] = f
        /\ \A k \in 1..Len(frames) : frames'[k] = frames[k]
    BY <1>5, <2>5
  <2>7. \A k \in 1..Len(frames') : FrameOK(frames'[k])
    BY SMTT(30), <2>3, <2>6 DEF IndexInv, ListsOK
  <2>8. ListsOK'
    BY <1>2, <1>5, <2>1, <2>2, <2>6, <2>7 DEF ListsOK, FrameOK
  <2> QED BY <1>2, <1>5, <2>1, <2>2, <2>8 DEF IndexInv, IndexesInRange, Ops
<1> QED BY <1>3, <1>4, <1>5

LEMMA SubtractReturnIndex ==
  ASSUME IndexInv, SubtractRest \/ SubtractReturn
  PROVE  IndexInv'
<1>1. /\ rl \in Seq(RangeType) /\ ll \in Seq(RangeType)
      /\ Len(rl) \in Nat /\ Len(ll) \in Nat
      /\ i \in 1..(Len(rl) + 1) /\ j \in 1..(Len(ll) + 1)
  BY DEF IndexInv, ListsOK, IndexesInRange
<1>2. pc = "loop" /\ op = "subtract" /\ op' = op
  BY DEF SubtractRest, SubtractReturn, Looping, Continue, Done
<1>3. CASE SubtractRest \/ frames = <<>>
  <2>1. /\ UNCHANGED <<rl, ll, frames>> /\ pc' \in {"loop", "done"}
        /\ i' = i \/ (i <= Len(rl) /\ i' = i + 1)
        /\ j' = j
    BY <1>2, <1>3 DEF SubtractRest, SubtractReturn, Continue, Done
  <2> QED BY <1>1, <1>2, <2>1, MovesIndex
<1>4. CASE SubtractReturn /\ frames # <<>>
  <2>1. PICK S : frames \in Seq(S)
    BY DEF IndexInv, ListsOK
  <2>2. /\ Len(frames) \in 1..Len(frames) /\ Len(frames) \in Nat
        /\ Front(frames) \in Seq(S) /\ Len(Front(frames)) = Len(frames) - 1
        /\ \A k \in 1..(Len(frames) - 1) : Front(frames)[k] = frames[k]
    BY <1>4, <2>1, FrontProperties
  <2> DEFINE f == frames[Len(frames)]
  <2>3. FrameOK(f)
    BY <2>2 DEF IndexInv, ListsOK
  <2>4. /\ rl' = f.rl /\ ll' = f.ll /\ i' = f.i /\ j' = f.j /\ pc' = pc
        /\ frames' = Front(frames)
    BY <1>4 DEF SubtractReturn, Continue, Last
  <2>5. \A k \in 1..Len(frames') : FrameOK(frames'[k])
    BY SMTT(30), <2>2, <2>4 DEF IndexInv, ListsOK
  <2> HIDE DEF f
  <2>6. ListsOK'
    BY <1>2, <2>2, <2>3, <2>4, <2>5 DEF ListsOK, FrameOK
  <2> QED BY <1>2, <2>3, <2>4, <2>6 DEF IndexInv, IndexesInRange, FrameOK, Ops
<1> QED BY <1>3, <1>4

\* What the end of an iteration of InplaceUnion needs: a list that is not
\* empty and an index that is at most one behind its end.
LEMMA RejoinIndex ==
  ASSUME IndexInv, pc = "loop", op = "inplace",
         NEW rs \in Seq(RangeType), Len(rs) >= 1, NEW m \in 1..(Len(rs) + 1),
         NEW k \in 1..(Len(ll) + 1), Rejoin(rs, m, k)
  PROVE  IndexInv'
<1> DEFINE joined == IF Touches(rs, m) THEN Absorb(rs, m) ELSE rs
           at == IF Touches(rs, m) THEN m - 1 ELSE m
<1>1. joined \in Seq(RangeType) /\ Len(joined) \in Nat /\ at \in 1..(Len(joined) + 1)
  <2>1. CASE Touches(rs, m)
    <3>1. m \in 2..Len(rs) /\ m - 1 \in 1..Len(rs)
      BY <2>1 DEF Touches
    <3> DEFINE longer == [rs EXCEPT ![m - 1].end = Greatest(@, rs[m].end)]
    <3>2. longer \in Seq(RangeType) /\ Len(longer) = Len(rs)
      <4>1. /\ rs[m - 1] \in RangeType /\ rs[m - 1].end \in Int /\ rs[m].end \in Int
        BY <3>1, ElementTyped
      <4>2. [rs[m - 1] EXCEPT !.end = Greatest(@, rs[m].end)] \in RangeType
        BY <4>1 DEF RangeType, Greatest
      <4> QED BY <3>1, <4>2
    <3>3. Absorb(rs, m) = RemoveAt(longer, m)
      BY DEF Absorb
    <3> HIDE DEF longer
    <3>4. Absorb(rs, m) \in Seq(RangeType) /\ Len(Absorb(rs, m)) = Len(rs) - 1
      BY SMTT(30), <3>1, <3>2, <3>3, RemoveAtProperties
    <3> QED BY <2>1, <3>1, <3>4
  <2>2. CASE ~Touches(rs, m)
    BY <2>2
  <2> QED BY <2>1, <2>2
<1>2. /\ rl' = joined /\ i' = at /\ j' = k
      /\ UNCHANGED <<op, ll, frames>>
      /\ pc' = "done" \/ (pc' = "loop" /\ ~Ended(joined, at))
  BY DEF Rejoin
<1> HIDE DEF joined, at
<1>3. ListsOK'
  BY <1>1, <1>2 DEF IndexInv, ListsOK, FrameOK
<1> QED BY SMTT(30), <1>1, <1>2, <1>3 DEF IndexInv, IndexesInRange, Ended, Ops

LEMMA InplaceUnionIndex ==
  ASSUME IndexInv, InplaceUnionStep
  PROVE  IndexInv'
<1>1. /\ rl \in Seq(RangeType) /\ ll \in Seq(RangeType)
      /\ Len(rl) \in Nat /\ Len(ll) \in Nat
      /\ pc = "loop" /\ op = "inplace"
      /\ i \in 1..Len(rl) /\ j \in 1..(Len(ll) + 1)
  BY DEF IndexInv, ListsOK, IndexesInRange, InplaceUnionStep, Looping
<1>2. CASE Rejoin(rl, i + 1, j)
  BY SMTT(30), <1>1, <1>2, RejoinIndex
<1>3. CASE j <= Len(ll) /\ ~Rejoin(rl, i + 1, j)
  <2> DEFINE l == ll[j]
  <2>1. l \in RangeType /\ rl[i] \in RangeType
    BY <1>1, <1>3, ElementTyped
  <2>2. PICK rs, m, k : /\ Rejoin(rs, m, k)
                        /\ \/ rs = rl /\ m = i /\ k = j + 1
                           \/ rs = [rl EXCEPT ![i].end = l.end] /\ m = i /\ k = j + 1
                           \/ rs = [rl EXCEPT ![i] = l] /\ m = i + 1 /\ k = j
                           \/ rs = [rl EXCEPT ![i].start = l.start] /\ m = i /\ k = j + 1
                           \/ rs = InsertAt(rl, i, l) /\ m = i + 1 /\ k = j + 1
    BY <1>3 DEF InplaceUnionStep
  <2>3. rs \in Seq(RangeType) /\ Len(rs) \in {Len(rl), Len(rl) + 1}
    <3>1. /\ [rl[i] EXCEPT !.end = l.end] \in RangeType
          /\ [rl[i] EXCEPT !.start = l.start] \in RangeType
      BY <2>1 DEF RangeType
    <3> HIDE DEF l
    <3>2. CASE rs = InsertAt(rl, i, l)
      BY <1>1, <2>1, <3>2, InsertAtProperties
    <3>3. CASE rs = [rl EXCEPT ![i].end = l.end]
      BY <1>1, <3>1, <3>3
    <3>4. CASE rs = [rl EXCEPT ![i].start = l.start]
      BY <1>1, <3>1, <3>4
    <3>5. CASE rs = [rl EXCEPT ![i] = l] \/ rs = rl
      BY <1>1, <2>1, <3>5
    <3> QED BY <2>2, <3>2, <3>3, <3>4, <3>5
  <2>4. m \in 1..(Len(rs) + 1) /\ k \in 1..(Len(ll) + 1) /\ Len(rs) >= 1
    BY SMTT(30), <1>1, <1>3, <2>2, <2>3
  <2> QED BY <1>1, <2>2, <2>3, <2>4, RejoinIndex
<1> QED BY <1>1, <1>2, <1>3 DEF InplaceUnionStep

LEMMA StepIndex == IndexInv /\ [Next]_vars => IndexInv'
<1> SUFFICES ASSUME IndexInv, [Next]_vars PROVE IndexInv'
  OBVIOUS
<1>1. CASE Call
  BY <1>1, CallIndex
<1>2. CASE Step
  BY <1>2, IntersectionIndex, SubtractStepIndex, SubtractReturnIndex, UnionIndex,
     InplaceUnionIndex, ContainsIndex DEF Step
<1>3. CASE Return
  <2>1. <<>> \in Seq(RangeType) /\ <<>> \in Seq({}) /\ Len(<<>>) = 0
    OBVIOUS
  <2> QED BY <1>3, <2>1 DEF Return, IndexInv, ListsOK, IndexesInRange
<1>4. CASE UNCHANGED vars
  BY <1>4 DEF vars, IndexInv, ListsOK, IndexesInRange, FrameOK
<1> QED BY <1>1, <1>2, <1>3, <1>4 DEF Next

\* No iteration of the set operations (fec/util.go) reads past the end of a
\* slice, whatever lists they are called with, also while InplaceUnion inserts
\* into the list it walks and Subtract calls itself.
THEOREM IndexesSafe == Spec => []IndexesInRange
<1>1. IndexInv => IndexesInRange
  BY DEF IndexInv
<1> QED BY <1>1, InitIndex, StepIndex, PTL DEF Spec

-----------------------------------------------------------------------------
(* Contains *)

\* The ranges of ll before j lie in ranges of rl, and the ones of rl before i
\* do not hold the current one of ll, nor any behind it.
Walk ==
  /\ \A k \in 1..(j - 1) : \E m \in 1..Len(rl) : Encloses(rl[m], ll[k])
  /\ j <= Len(ll) => \A k \in 1..(i - 1) : ~Encloses(rl[k], ll[j])

\* Contains leaves its lists alone.
ContainsInv ==
  op = "contains" /\ pc # "idle" =>
    /\ rl = Receiver /\ ll = Argument /\ Apart(ll, 0)
    /\ Normal(Receiver) => Walk
    /\ pc = "done" => i > Len(rl) \/ j > Len(ll)

\* All lists but the ones for Union are in order.
LEMMA CallContains ==
  ASSUME NEW a \in Lists, NEW b \in Lists, RangesContain(a, b)
  PROVE  ContainsInv'
<1>1. /\ a \in Seq(RangeType) /\ b \in Seq(RangeType) /\ Apart(b, 0)
      /\ Len(a) \in Nat /\ Len(b) \in Nat
  BY ListsAssumption
<1>2. rl' = a /\ ll' = b /\ given' = <<a, b>> /\ j' = 1
  BY DEF RangesContain, Start
<1>3. CASE b = <<>>
  BY <1>1, <1>2, <1>3 DEF RangesContain, Shortcut, ContainsInv, Walk, Receiver, Argument
<1>4. CASE b # <<>>
  <2>1. 1 \in 1..Len(b)
    BY <1>1, <1>4
  <2>2. b[1].start \in Int /\ b[1].end \in Int /\ b[1].start <= b[1].end
    BY <1>1, <2>1, ElementTyped, InApart
  <2>3. /\ i' = Search(a, b[1].start) /\ pc' = "loop"
    BY <1>4 DEF RangesContain, Enter
  <2>4. \A k \in 1..(Search(a, b[1].start) - 1) : ~Encloses(a[k], b[1])
    <3> SUFFICES ASSUME NEW k \in 1..(Search(a, b[1].start) - 1) PROVE ~Encloses(a[k], b[1])
      OBVIOUS
    <3>1. /\ Search(a, b[1].start) \in 1..(Len(a) + 1)
          /\ a[k].end + 1 < b[1].start
      BY <1>1, <2>2, SearchIs
    <3>2. a[k].end \in Int
      BY <1>1, <3>1, ElementTyped
    <3> QED BY SMTT(30), <2>2, <3>1, <3>2 DEF Encloses
  <2> QED BY <1>1, <1>2, <2>3, <2>4 DEF ContainsInv, Walk, Receiver, Argument
<1> QED BY <1>3, <1>4

LEMMA ContainsStepInv ==
  ASSUME IndexInv, ContainsInv, ContainsStep
  PROVE  ContainsInv'
<1>1. /\ rl \in Seq(RangeType) /\ ll \in Seq(RangeType)
      /\ Len(rl) \in Nat /\ Len(ll) \in Nat
      /\ i \in 1..Len(rl) /\ j \in 1..Len(ll)
  BY DEF IndexInv, ListsOK, IndexesInRange, ContainsStep
<1>2. /\ rl = Receiver /\ ll = Argument /\ Apart(ll, 0)
      /\ Normal(Receiver) => Walk
  BY DEF ContainsStep, Looping, ContainsInv
<1>3. /\ pc' = "loop" /\ UNCHANGED <<op, rl, ll, given>>
      /\ \/ Encloses(rl[i], ll[j]) /\ i' = i /\ j' = j + 1
         \/ ~Encloses(rl[i], ll[j]) /\ i' = i + 1 /\ j' = j
  BY DEF ContainsStep, Looping, Continue
<1>4. ASSUME Normal(Receiver) PROVE Walk'
  <2>1. /\ \A k \in 1..(j - 1) : \E m \in 1..Len(rl) : Encloses(rl[m], ll[k])
        /\ \A k \in 1..(i - 1) : ~Encloses(rl[k], ll[j])
    BY <1>1, <1>2, <1>4 DEF Walk
  <2>2. CASE Encloses(rl[i], ll[j]) /\ i' = i /\ j' = j + 1
    <3>1. \A k \in 1..j : \E m \in 1..Len(rl) : Encloses(rl[m], ll[k])
      <4> SUFFICES ASSUME NEW k \in 1..j PROVE \E m \in 1..Len(rl) : Encloses(rl[m], ll[k])
        OBVIOUS
      <4>1. k = j \/ k \in 1..(j - 1)
        BY <1>1
      <4> QED BY <1>1, <2>1, <2>2, <4>1
    <3>2. ASSUME j + 1 <= Len(ll), NEW k \in 1..(i - 1) PROVE ~Encloses(rl[k], ll[j + 1])
      <4>1. j + 1 \in 1..Len(ll) /\ k \in 1..Len(rl) /\ k < i
        BY <1>1, <3>2
      <4>2. rl[k].end + 1 < rl[i].start
        BY <1>1, <1>2, <1>4, <4>1, InApart DEF Normal
      <4>3. /\ ll[j].start <= ll[j].end /\ ll[j].end + 0 < ll[j + 1].start
            /\ ll[j + 1].start <= ll[j + 1].end
        BY <1>1, <1>2, <4>1, InApart
      <4>4. /\ rl[k].end \in Int /\ rl[i].start \in Int
            /\ ll[j].start \in Int /\ ll[j].end \in Int
            /\ ll[j + 1].start \in Int /\ ll[j + 1].end \in Int
        BY <1>1, <4>1, ElementTyped
      <4> QED BY <2>2, <4>2, <4>3, <4>4 DEF Encloses
    <3>3. (j + 1) - 1 = j
      BY <1>1
    <3> QED BY <1>3, <2>2, <3>1, <3>2, <3>3 DEF Walk
  <2>3. CASE ~Encloses(rl[i], ll[j]) /\ i' = i + 1 /\ j' = j
    <3>1. \A k \in 1..((i + 1) - 1) : k = i \/ k \in 1..(i - 1)
      BY <1>1
    <3> QED BY <1>3, <2>1, <2>3, <3>1 DEF Walk
  <2> QED BY <1>3, <2>2, <2>3
<1> QED BY <1>2, <1>3, <1>4 DEF ContainsInv, Receiver, Argument

LEMMA StepContains == IndexInv /\ ContainsInv /\ [Next]_vars => ContainsInv'
<1> SUFFICES ASSUME IndexInv, ContainsInv, [Next]_vars PROVE ContainsInv'
  OBVIOUS
<1>1. CASE Call
  <2>1. ASSUME NEW a \in Lists, NEW b \in Lists, RangesContain(a, b) PROVE ContainsInv'
    BY <2>1, CallContains
  <2>2. CASE op' # "contains"
    BY <2>2 DEF ContainsInv
  <2>3. CASE op' = "contains"
    BY <1>1, <2>1, <2>3 DEF Call, Intersection, Subtract, InplaceUnion, Union, Start
  <2> QED BY <2>2, <2>3
<1>2. CASE ContainsStep
  BY <1>2, ContainsStepInv
<1>3. CASE ContainsReturn
  BY <1>3 DEF ContainsReturn, Looping, Done, ContainsInv, Walk, Receiver, Argument
<1>4. CASE Step /\ ~ContainsStep /\ ~ContainsReturn
  <2>1. op' # "contains"
    BY ZenonT(30), <1>4 DEF Step, IntersectionStep, IntersectionReturn, SubtractStep, SubtractAround,
       SubtractRest, SubtractReturn, UnionStep, UnionReturn, InplaceUnionStep, Rejoin,
       Looping, Continue, Done
  <2> QED BY <2>1 DEF ContainsInv
<1>5. CASE Return \/ UNCHANGED vars
  BY <1>5 DEF Return, vars, ContainsInv, Walk, Receiver, Argument
<1> QED BY <1>1, <1>2, <1>3, <1>4, <1>5 DEF Next

\* RangeList.Contains (fec/util.go:511-527) answers whether every offset of its
\* argument is one of the receiver's, for every normal receiver and every
\* argument in order, of any length.
THEOREM ContainsIsInclusion == Spec => []ContainsExact
<1>1. Init => ContainsInv
  BY DEF Init, ContainsInv
<1>2. IndexInv /\ ContainsInv => ContainsExact
  <2> SUFFICES ASSUME IndexInv, ContainsInv, Finished("contains"), Normal(Receiver)
               PROVE  Answer <=> Offsets(Argument) \subseteq Offsets(Receiver)
    BY DEF ContainsExact
  <2>1. /\ rl = Receiver /\ ll = Argument /\ Apart(ll, 0) /\ Walk
        /\ i > Len(rl) \/ j > Len(ll)
    BY DEF ContainsInv, Finished
  <2>2. /\ rl \in Seq(RangeType) /\ ll \in Seq(RangeType)
        /\ Len(rl) \in Nat /\ Len(ll) \in Nat
        /\ i \in 1..(Len(rl) + 1) /\ j \in 1..(Len(ll) + 1)
    BY DEF IndexInv, ListsOK, IndexesInRange
  <2>3. ASSUME Answer, NEW x \in Offsets(ll) PROVE x \in Offsets(rl)
    <3>1. PICK k \in 1..Len(ll) : x \in ll[k].start..ll[k].end
      BY <2>2, InOffsets
    <3>2. k \in 1..(j - 1)
      BY <2>2, <2>3 DEF Answer
    <3>3. PICK m \in 1..Len(rl) : Encloses(rl[m], ll[k])
      BY <2>1, <3>2 DEF Walk
    <3>4. /\ rl[m].start \in Int /\ rl[m].end \in Int
          /\ ll[k].start \in Int /\ ll[k].end \in Int
      BY <2>2, ElementTyped
    <3>5. x \in rl[m].start..rl[m].end
      BY SMTT(30), <3>1, <3>3, <3>4 DEF Encloses
    <3> QED BY <2>2, <3>5, InOffsets
  <2>4. ASSUME ~Answer, Offsets(ll) \subseteq Offsets(rl) PROVE FALSE
    <3>1. j \in 1..Len(ll) /\ i = Len(rl) + 1
      BY <2>1, <2>2, <2>4 DEF Answer
    <3>2. ll[j].start \in Int /\ ll[j].end \in Int /\ ll[j].start <= ll[j].end
      BY <2>1, <2>2, <3>1, ElementTyped, InApart
    <3>3. \A x \in ll[j].start..ll[j].end : x \in Offsets(ll)
      BY <2>2, <3>1, InOffsets
    <3>4. PICK k \in 1..Len(rl) : rl[k].start <= ll[j].start /\ ll[j].end <= rl[k].end
      BY <2>1, <2>2, <2>4, <3>2, <3>3, InOneRange
    <3>5. k \in 1..(i - 1) /\ j <= Len(ll)
      BY <2>2, <3>1
    <3> QED BY <2>1, <3>4, <3>5 DEF Walk, Encloses
  <2> QED BY <2>1, <2>3, <2>4
<1> QED BY <1>1, <1>2, InitIndex, StepIndex, StepContains, PTL DEF Spec

-----------------------------------------------------------------------------
(* Intersection *)

\* What is in a range of each list, one of them before the current one.
Met(a, b, m, n) ==
  {x \in Int : \E k \in 1..Len(a), l \in 1..Len(b) :
                  /\ k < m \/ l < n
                  /\ x \in a[k].start..a[k].end /\ x \in b[l].start..b[l].end}

\* The list built so far is what the lists have in common of their ranges
\* before the current ones.
IntersectionInv ==
  op = "intersection" /\ pc # "idle" =>
    /\ rl = Receiver /\ ll = Argument /\ Apart(rl, 0) /\ Apart(ll, 0)
    /\ out \in Seq(RangeType) /\ Normal(out)
    /\ Offsets(out) = Met(rl, ll, i, j)
    /\ pc = "done" => i > Len(rl) \/ j > Len(ll)

\* The ranges of the receiver that the search passes over have nothing of the
\* argument.
LEMMA CallIntersection ==
  ASSUME NEW a \in Lists, NEW b \in Lists, Intersection(a, b)
  PROVE  IntersectionInv'
<1>1. /\ a \in Seq(RangeType) /\ b \in Seq(RangeType) /\ Apart(a, 0) /\ Apart(b, 0)
      /\ Len(a) \in Nat /\ Len(b) \in Nat
  BY ListsAssumption
<1>2. rl' = a /\ ll' = b /\ given' = <<a, b>> /\ j' = 1
  BY DEF Intersection, Start
<1>3. out' = <<>>
  BY DEF Intersection, Shortcut, Enter
<1>4. Met(a, b, i', 1) = {}
  <2> SUFFICES ASSUME NEW k \in 1..Len(a), NEW l \in 1..Len(b), NEW x \in Int, k < i' \/ l < 1,
                      x \in a[k].start..a[k].end, x \in b[l].start..b[l].end
               PROVE  FALSE
    BY DEF Met
  <2>1. b # <<>> /\ a # <<>> /\ 1 \in 1..Len(b)
    BY <1>1
  <2> PICK s \in Int : s = b[1].start
    BY <1>1, <2>1, ElementTyped
  <2>2. i' = Least(Search(a, s), Len(a)) /\ k < i'
    BY <1>1, <2>1 DEF Intersection, Enter
  <2>3. k \in 1..(Search(a, s) - 1)
    <3>1. Search(a, s) \in 1..(Len(a) + 1)
      BY <1>1, SearchIs
    <3> QED BY <1>1, <2>2, <3>1 DEF Least
  <2>4. a[k].end + 1 < s
    BY <1>1, <2>3, SearchIs
  <2>5. s <= b[l].start
    <3>1. l = 1 \/ 1 < l
      BY <1>1
    <3>2. 1 < l => b[1].start < b[l].start
      BY <1>1, <2>1, InOrder
    <3>3. b[l].start \in Int
      BY <1>1, ElementTyped
    <3> QED BY <3>1, <3>2, <3>3
  <2> PICK e, c, d, f \in Int : a[k].end = e /\ b[l].start = c /\ a[k].start = d /\ b[l].end = f
    BY <1>1, ElementTyped
  <2> QED BY <2>4, <2>5
<1>5. pc' = "done" => i' > Len(a) \/ j' > Len(b)
  <2>1. pc' = "done" => i' = 1 /\ (a = <<>> \/ b = <<>>)
    BY DEF Intersection, Shortcut, Enter
  <2> QED BY <1>2, <2>1
<1> QED BY <1>1, <1>2, <1>3, <1>4, <1>5, EmptyList DEF IntersectionInv, Receiver, Argument

\* A list of at most one range has what two ranges have in common.
Common(ranges, r, l) ==
  \/ ranges = <<>> /\ \A x \in Int : ~(x \in r.start..r.end /\ x \in l.start..l.end)
  \/ \E e \in RangeType :
        /\ ranges = <<e>> /\ e.start <= e.end
        /\ \A x \in Int : x \in e.start..e.end <=> x \in r.start..r.end /\ x \in l.start..l.end

LEMMA MeetIs ==
  ASSUME NEW r \in RangeType, NEW l \in RangeType, r.start <= r.end, l.start <= l.end
  PROVE  Common(Meet(r, l), r, l)
<1> PICK a, b, c, d \in Int : r.start = a /\ r.end = b /\ l.start = c /\ l.end = d
  BY DEF RangeType
<1>1. CASE (a <= c /\ b >= c) \/ (c <= a /\ d >= a)
  <2> PICK s, t \in Int : s = Greatest(a, c) /\ t = Least(b, d)
    BY DEF Greatest, Least
  <2>1. s <= t /\ \A x \in Int : x \in s..t <=> x \in a..b /\ x \in c..d
    BY <1>1 DEF Greatest, Least
  <2>2. Meet(r, l) = <<Interval(s, t)>>
    BY <1>1 DEF Meet
  <2>3. Interval(s, t) \in RangeType /\ Interval(s, t).start = s /\ Interval(s, t).end = t
    BY RangeTyped
  <2> PICK e \in RangeType : e = Interval(s, t) /\ e.start = s /\ e.end = t
    BY <2>3
  <2> QED BY <2>1, <2>2 DEF Common
<1>2. CASE ~((a <= c /\ b >= c) \/ (c <= a /\ d >= a))
  <2>1. Meet(r, l) = <<>>
    BY <1>2 DEF Meet
  <2>2. \A x \in Int : ~(x \in a..b /\ x \in c..d)
    BY <1>2
  <2> QED BY <2>1, <2>2 DEF Common
<1> QED BY <1>1, <1>2

\* An iteration adds what the current ranges have in common and moves past the
\* one that ends first.
LEMMA IntersectionMoves ==
  ASSUME IntersectionStep, rl[i] \in RangeType, ll[j] \in RangeType,
         rl[i].start <= rl[i].end, ll[j].start <= ll[j].end
  PROVE  \E ranges :
            /\ Common(ranges, rl[i], ll[j]) /\ out' = Flatten(out \o ranges)
            /\ \/ i' = i + 1 /\ j' = j /\ rl[i].end <= ll[j].end
               \/ i' = i /\ j' = j + 1 /\ ll[j].end <= rl[i].end
<1> PICK r, l : r = rl[i] /\ l = ll[j]
  OBVIOUS
<1>1. r \in RangeType /\ l \in RangeType /\ r.start <= r.end /\ l.start <= l.end
  OBVIOUS
<1> PICK a, b, c, d \in Int : r.start = a /\ r.end = b /\ l.start = c /\ l.end = d
  BY <1>1 DEF RangeType
<1>2. PICK p : p = Position(r, l)
  OBVIOUS
<1>3. \/ p = "around" /\ Emit(<<l>>) /\ Continue(i, j + 1)
      \/ p = "inside" /\ Emit(<<r>>) /\ Continue(i + 1, j)
      \/ p = "front" /\ Emit(Meet(r, l)) /\ Continue(i + 1, j)
      \/ p = "back" /\ Emit(Meet(r, l)) /\ Continue(i, j + 1)
      \/ p = "before" /\ Emit(<<>>) /\ Continue(i + 1, j)
      \/ p = "after" /\ Emit(<<>>) /\ Continue(i, j + 1)
  BY <1>2 DEF IntersectionStep
<1>4. CASE p = "around"
  <2>1. a <= c /\ d <= b
    BY <1>2, <1>4 DEF Position, Encloses
  <2>2. Common(<<l>>, r, l)
    <3>1. l.start <= l.end /\ \A x \in Int : x \in c..d <=> x \in a..b /\ x \in c..d
      BY <1>1, <2>1
    <3> QED BY <1>1, <3>1 DEF Common
  <2> QED BY <1>3, <1>4, <2>1, <2>2 DEF Emit, Continue
<1>5. CASE p = "inside"
  <2>1. c <= a /\ b <= d
    BY <1>2, <1>5 DEF Position, Encloses
  <2>2. Common(<<r>>, r, l)
    <3>1. r.start <= r.end /\ \A x \in Int : x \in a..b <=> x \in a..b /\ x \in c..d
      BY <1>1, <2>1
    <3> QED BY <1>1, <3>1 DEF Common
  <2> QED BY <1>3, <1>5, <2>1, <2>2 DEF Emit, Continue
<1>6. CASE p = "front"
  <2>1. b <= d
    BY <1>2, <1>6 DEF Position, Encloses, OverlapsFront
  <2> QED BY <1>1, <1>3, <1>6, <2>1, MeetIs DEF Emit, Continue
<1>7. CASE p = "back"
  <2>1. d <= b
    BY <1>2, <1>7 DEF Position, Encloses, OverlapsFront
  <2> QED BY <1>1, <1>3, <1>7, <2>1, MeetIs DEF Emit, Continue
<1>8. CASE p = "before"
  <2>1. b < c /\ b <= d
    BY <1>1, <1>2, <1>8 DEF Position, Encloses, OverlapsFront
  <2>2. Common(<<>>, r, l)
    BY <2>1 DEF Common
  <2> QED BY <1>3, <1>8, <2>1, <2>2 DEF Emit, Continue
<1>9. CASE p = "after"
  <2>1. d < a /\ d <= b
    BY <1>1, <1>2, <1>9 DEF Position, Encloses, OverlapsFront
  <2>2. Common(<<>>, r, l)
    BY <2>1 DEF Common
  <2> QED BY <1>3, <1>9, <2>1, <2>2 DEF Emit, Continue
<1> QED BY <1>3, <1>4, <1>5, <1>6, <1>7, <1>8, <1>9

\* What moving on past one of the current ranges adds: the ranges behind the
\* other one have nothing of it.
LEMMA MetGrows ==
  ASSUME NEW a \in Seq(RangeType), NEW b \in Seq(RangeType), Apart(a, 0), Apart(b, 0),
         NEW m \in 1..Len(a), NEW n \in 1..Len(b), NEW x \in Int
  PROVE  /\ a[m].end <= b[n].end =>
              (x \in Met(a, b, m + 1, n) <=>
                 \/ x \in Met(a, b, m, n)
                 \/ x \in a[m].start..a[m].end /\ x \in b[n].start..b[n].end)
         /\ b[n].end <= a[m].end =>
              (x \in Met(a, b, m, n + 1) <=>
                 \/ x \in Met(a, b, m, n)
                 \/ x \in a[m].start..a[m].end /\ x \in b[n].start..b[n].end)
<1> DEFINE In(r) == x \in r.start..r.end
<1>1. \A u, v : x \in Met(a, b, u, v) <=>
                  \E k \in 1..Len(a), l \in 1..Len(b) : (k < u \/ l < v) /\ In(a[k]) /\ In(b[l])
  BY DEF Met
<1>2. Len(a) \in Nat /\ Len(b) \in Nat
  OBVIOUS
<1>3. ASSUME a[m].end <= b[n].end, NEW l \in 1..Len(b), In(a[m]), In(b[l]), ~(l < n)
      PROVE  l = n
  <2> SUFFICES ASSUME n < l PROVE FALSE
    BY <1>2, <1>3
  <2>1. b[n].end < b[l].start
    BY InOrder
  <2> PICK c, d, e \in Int : a[m].end = c /\ b[n].end = d /\ b[l].start = e
    BY ElementTyped
  <2>2. x <= c /\ e <= x
    <3>1. a[m].start \in Int /\ b[l].end \in Int
      BY ElementTyped
    <3> QED BY <1>3, <3>1
  <2> QED BY <1>3, <2>1, <2>2
<1>4. ASSUME b[n].end <= a[m].end, NEW k \in 1..Len(a), In(a[k]), In(b[n]), ~(k < m)
      PROVE  k = m
  <2> SUFFICES ASSUME m < k PROVE FALSE
    BY <1>2, <1>4
  <2>1. a[m].end < a[k].start
    BY InOrder
  <2> PICK c, d, e \in Int : b[n].end = c /\ a[m].end = d /\ a[k].start = e
    BY ElementTyped
  <2>2. x <= c /\ e <= x
    <3>1. b[n].start \in Int /\ a[k].end \in Int
      BY ElementTyped
    <3> QED BY <1>4, <3>1
  <2> QED BY <1>4, <2>1, <2>2
<1> HIDE DEF In
<1>5. \A k \in 1..Len(a) : k < m + 1 <=> k < m \/ k = m
  BY <1>2
<1>6. \A l \in 1..Len(b) : l < n + 1 <=> l < n \/ l = n
  BY <1>2
<1>7. ASSUME a[m].end <= b[n].end
      PROVE  x \in Met(a, b, m + 1, n) <=> x \in Met(a, b, m, n) \/ (In(a[m]) /\ In(b[n]))
  <2>1. ASSUME x \in Met(a, b, m + 1, n) PROVE x \in Met(a, b, m, n) \/ (In(a[m]) /\ In(b[n]))
    <3>1. PICK k \in 1..Len(a), l \in 1..Len(b) :
             (k < m + 1 \/ l < n) /\ In(a[k]) /\ In(b[l])
      BY <1>1, <2>1, Zenon
    <3>2. k < m \/ k = m \/ l < n
      BY <1>5, <3>1, Zenon
    <3>3. CASE k < m \/ l < n
      BY <1>1, <3>1, <3>3, Zenon
    <3>4. CASE k = m /\ ~(l < n)
      BY <1>3, <1>7, <3>1, <3>4, Zenon
    <3> QED BY <3>2, <3>3, <3>4
  <2>2. ASSUME x \in Met(a, b, m, n) PROVE x \in Met(a, b, m + 1, n)
    BY <1>1, <1>5, <2>2, Zenon
  <2>3. ASSUME In(a[m]) /\ In(b[n]) PROVE x \in Met(a, b, m + 1, n)
    BY <1>1, <1>5, <2>3, Zenon
  <2> QED BY <2>1, <2>2, <2>3
<1>8. ASSUME b[n].end <= a[m].end
      PROVE  x \in Met(a, b, m, n + 1) <=> x \in Met(a, b, m, n) \/ (In(a[m]) /\ In(b[n]))
  <2>1. ASSUME x \in Met(a, b, m, n + 1) PROVE x \in Met(a, b, m, n) \/ (In(a[m]) /\ In(b[n]))
    <3>1. PICK k \in 1..Len(a), l \in 1..Len(b) :
             (k < m \/ l < n + 1) /\ In(a[k]) /\ In(b[l])
      BY <1>1, <2>1, Zenon
    <3>2. k < m \/ l = n \/ l < n
      BY <1>6, <3>1, Zenon
    <3>3. CASE k < m \/ l < n
      BY <1>1, <3>1, <3>3, Zenon
    <3>4. CASE l = n /\ ~(k < m)
      BY <1>4, <1>8, <3>1, <3>4, Zenon
    <3> QED BY <3>2, <3>3, <3>4
  <2>2. ASSUME x \in Met(a, b, m, n) PROVE x \in Met(a, b, m, n + 1)
    BY <1>1, <1>6, <2>2, Zenon
  <2>3. ASSUME In(a[m]) /\ In(b[n]) PROVE x \in Met(a, b, m, n + 1)
    BY <1>1, <1>6, <2>3, Zenon
  <2> QED BY <2>1, <2>2, <2>3
<1> QED BY <1>7, <1>8 DEF In

\* A range behind all that is in a normal list.
LEMMA Emitted ==
  ASSUME NEW list \in Seq(RangeType), Normal(list), NEW e \in RangeType, e.start <= e.end,
         \A x \in Offsets(list) : x < e.start
  PROVE  LET new == Flatten(list \o <<e>>)
         IN  new \in Seq(RangeType) /\ Normal(new) /\ Offsets(new) = Offsets(list) \cup (e.start..e.end)
<1> PICK al : al = list \o <<e>>
  OBVIOUS
<1>1. al = Append(list, e)
  OBVIOUS
<1>2. /\ al \in Seq(RangeType) /\ Len(al) = Len(list) + 1 /\ Len(list) \in Nat
      /\ \A k \in 1..Len(list) : al[k] = list[k]
      /\ al[Len(list) + 1] = e
  BY <1>1, Appended
<1>3. Offsets(al) = Offsets(list) \cup (e.start..e.end)
  BY <1>1, OffsetsAppend
<1>4. ASSUME NEW k \in 1..Len(list)
      PROVE  list[k].start <= list[k].end /\ list[k].end + 0 < e.start
  <2> PICK a, b \in Int : list[k].start = a /\ list[k].end = b /\ a <= b
    BY ElementTyped, InApart DEF Normal
  <2>1. b \in list[k].start..list[k].end
    OBVIOUS
  <2>2. b \in Offsets(list)
    BY <2>1, InOffsets
  <2> QED BY <2>2
<1>5. ASSUME NEW k \in 1..Len(list), NEW l \in 1..Len(list), k < l
      PROVE  list[k].end + 0 < list[l].start
  <2> PICK a, b \in Int : list[k].end = a /\ list[l].start = b
    BY ElementTyped
  <2>1. a + 1 < b
    BY <1>5, InApart DEF Normal
  <2> QED BY <2>1
<1>6. \A k \in 1..Len(al) : k \in 1..Len(list) \/ k = Len(list) + 1
  BY <1>2
<1>7. \A k \in 1..Len(al) : al[k].start <= al[k].end
  BY <1>2, <1>4, <1>6
<1>8. ASSUME NEW k \in 1..Len(al), NEW l \in 1..Len(al), k < l
      PROVE  al[k].end + 0 < al[l].start
  <2>1. k \in 1..Len(list)
    BY <1>2, <1>8
  <2>2. CASE l \in 1..Len(list)
    BY <1>2, <1>5, <1>8, <2>1, <2>2
  <2>3. CASE l = Len(list) + 1
    BY <1>2, <1>4, <2>1, <2>3
  <2> QED BY <1>6, <2>2, <2>3
<1>9. Apart(al, 0)
  BY <1>2, <1>7, <1>8, InApart
<1> QED BY <1>2, <1>3, <1>9, FlattenApart

LEMMA FlattenNormal ==
  ASSUME NEW list \in Seq(RangeType), Normal(list)
  PROVE  LET new == Flatten(list \o <<>>)
         IN  new \in Seq(RangeType) /\ Normal(new) /\ Offsets(new) = Offsets(list)
<1>1. list \o <<>> = list
  OBVIOUS
<1>2. \A k \in 1..Len(list) : list[k].start <= list[k].end
  BY InApart DEF Normal
<1>3. ASSUME NEW k \in 1..Len(list), NEW l \in 1..Len(list), k < l
      PROVE  list[k].end + 0 < list[l].start
  <2> PICK a, b \in Int : list[k].end = a /\ list[l].start = b
    BY ElementTyped
  <2>1. a + 1 < b
    BY <1>3, InApart DEF Normal
  <2> QED BY <2>1
<1>4. Apart(list, 0)
  BY <1>2, <1>3, InApart
<1> QED BY <1>1, <1>4, FlattenApart

LEMMA IntersectionStepInv ==
  ASSUME IndexInv, IntersectionInv, IntersectionStep
  PROVE  IntersectionInv'
<1>1. /\ rl \in Seq(RangeType) /\ ll \in Seq(RangeType)
      /\ i \in 1..Len(rl) /\ j \in 1..Len(ll)
  BY DEF IndexInv, ListsOK, IndexesInRange, IntersectionStep
<1>2. /\ rl = Receiver /\ ll = Argument /\ Apart(rl, 0) /\ Apart(ll, 0)
      /\ out \in Seq(RangeType) /\ Normal(out) /\ Offsets(out) = Met(rl, ll, i, j)
  BY DEF IntersectionStep, Looping, IntersectionInv
<1>3. pc' = "loop" /\ UNCHANGED <<op, rl, ll, given>>
  BY DEF IntersectionStep, Looping, Continue, Emit
<1> PICK r, l : r = rl[i] /\ l = ll[j]
  OBVIOUS
<1>4. /\ r \in RangeType /\ l \in RangeType /\ r.start <= r.end /\ l.start <= l.end
      /\ r.start \in Int /\ r.end \in Int /\ l.start \in Int /\ l.end \in Int
  BY <1>1, <1>2, ElementTyped, InApart
<1>5. PICK ranges :
         /\ Common(ranges, r, l) /\ out' = Flatten(out \o ranges)
         /\ \/ i' = i + 1 /\ j' = j /\ r.end <= l.end
            \/ i' = i /\ j' = j + 1 /\ l.end <= r.end
  BY <1>4, IntersectionMoves
<1>6. ASSUME NEW x \in Int
      PROVE  x \in Met(rl, ll, i', j') <=>
               x \in Offsets(out) \/ (x \in r.start..r.end /\ x \in l.start..l.end)
  <2>1. CASE i' = i + 1 /\ j' = j /\ r.end <= l.end
    BY <1>1, <1>2, <2>1, MetGrows
  <2>2. CASE i' = i /\ j' = j + 1 /\ l.end <= r.end
    BY <1>1, <1>2, <2>2, MetGrows
  <2> QED BY <1>5, <2>1, <2>2
<1>7. Met(rl, ll, i', j') \subseteq Int /\ Offsets(out) \subseteq Int
  BY <1>2 DEF Met
<1>8. /\ out' \in Seq(RangeType) /\ Normal(out')
      /\ Offsets(out') = Met(rl, ll, i', j')
  <2>1. CASE ranges = <<>> /\ \A x \in Int : ~(x \in r.start..r.end /\ x \in l.start..l.end)
    <3>1. out' \in Seq(RangeType) /\ Normal(out') /\ Offsets(out') = Offsets(out)
      BY <1>2, <1>5, <2>1, FlattenNormal
    <3>2. Met(rl, ll, i', j') = Offsets(out)
      BY <1>6, <1>7, <2>1
    <3> QED BY <3>1, <3>2
  <2>2. CASE \E e \in RangeType :
                /\ ranges = <<e>> /\ e.start <= e.end
                /\ \A x \in Int : x \in e.start..e.end <=>
                                     x \in r.start..r.end /\ x \in l.start..l.end
    <3> PICK e \in RangeType :
           /\ ranges = <<e>> /\ e.start <= e.end
           /\ \A x \in Int : x \in e.start..e.end <=>
                                x \in r.start..r.end /\ x \in l.start..l.end
      BY <2>2
    <3> PICK a, b \in Int : e.start = a /\ e.end = b /\ a <= b
      BY DEF RangeType
    <3>1. a \in r.start..r.end /\ a \in l.start..l.end
      <4>1. a \in a..b
        OBVIOUS
      <4> QED BY <4>1
    <3>2. ASSUME NEW x \in Offsets(out) PROVE x < a
      <4>1. x \in Int
        BY <1>7
      <4>2. PICK k \in 1..Len(rl), m \in 1..Len(ll) :
               /\ k < i \/ m < j
               /\ x \in rl[k].start..rl[k].end /\ x \in ll[m].start..ll[m].end
        BY <1>2 DEF Met
      <4>3. CASE k < i
        <5>1. rl[k].end < r.start
          BY <1>1, <1>2, <4>3, InOrder
        <5> PICK c, d, g \in Int : rl[k].end = c /\ rl[k].start = d /\ r.start = g
          BY <1>1, <1>4, ElementTyped DEF RangeType
        <5>2. x <= c
          BY <4>1, <4>2
        <5>3. g <= a
          BY <3>1
        <5>4. c < g
          BY <5>1
        <5> QED BY ONLY <4>1, a \in Int, c \in Int, g \in Int, <5>2, <5>3, <5>4
      <4>4. CASE m < j
        <5>1. ll[m].end < l.start
          BY <1>1, <1>2, <4>4, InOrder
        <5> PICK c, d, g \in Int : ll[m].end = c /\ ll[m].start = d /\ l.start = g
          BY <1>1, <1>4, ElementTyped DEF RangeType
        <5>2. x <= c
          BY <4>1, <4>2
        <5>3. g <= a
          BY <3>1
        <5>4. c < g
          BY <5>1
        <5> QED BY ONLY <4>1, a \in Int, c \in Int, g \in Int, <5>2, <5>3, <5>4
      <4> QED BY <4>2, <4>3, <4>4
    <3>3. /\ out' \in Seq(RangeType) /\ Normal(out')
          /\ Offsets(out') = Offsets(out) \cup (e.start..e.end)
      BY <1>2, <1>5, <3>2, Emitted
    <3>4. Met(rl, ll, i', j') = Offsets(out) \cup (e.start..e.end)
      <4>1. e.start..e.end \subseteq Int
        OBVIOUS
      <4> QED BY <1>6, <1>7, <4>1
    <3> QED BY <3>3, <3>4
  <2> QED BY <1>5, <2>1, <2>2 DEF Common
<1> QED BY <1>2, <1>3, <1>8 DEF IntersectionInv, Receiver, Argument

LEMMA StepIntersection == IndexInv /\ IntersectionInv /\ [Next]_vars => IntersectionInv'
<1> SUFFICES ASSUME IndexInv, IntersectionInv, [Next]_vars PROVE IntersectionInv'
  OBVIOUS
<1>1. CASE Call
  <2>1. ASSUME NEW a \in Lists, NEW b \in Lists, Intersection(a, b) PROVE IntersectionInv'
    BY <2>1, CallIntersection
  <2>2. CASE op' # "intersection"
    BY <2>2 DEF IntersectionInv
  <2>3. CASE op' = "intersection"
    BY <1>1, <2>1, <2>3 DEF Call, RangesContain, Subtract, InplaceUnion, Union, Start
  <2> QED BY <2>2, <2>3
<1>2. CASE IntersectionStep
  BY <1>2, IntersectionStepInv
<1>3. CASE IntersectionReturn
  BY <1>3 DEF IntersectionReturn, Looping, Done, IntersectionInv, Met, Receiver, Argument
<1>4. CASE Step /\ ~IntersectionStep /\ ~IntersectionReturn
  <2>1. op' # "intersection"
    BY ZenonT(30), <1>4 DEF Step, ContainsStep, ContainsReturn, SubtractStep, SubtractAround,
       SubtractRest, SubtractReturn, UnionStep, UnionReturn, InplaceUnionStep, Rejoin,
       Looping, Continue, Done
  <2> QED BY <2>1 DEF IntersectionInv
<1>5. CASE Return \/ UNCHANGED vars
  BY <1>5 DEF Return, vars, IntersectionInv, Met, Receiver, Argument
<1> QED BY <1>1, <1>2, <1>3, <1>4, <1>5 DEF Next

\* RangeList.Intersection (fec/util.go:326-365) returns what its two lists have
\* in common, as a normal list, for all lists in order, of any length.
THEOREM IntersectionIsExact == Spec => []IntersectionExact
<1>1. Init => IntersectionInv
  BY DEF Init, IntersectionInv
<1>2. IndexInv /\ IntersectionInv => IntersectionExact
  <2> SUFFICES ASSUME IndexInv, IntersectionInv, Finished("intersection")
               PROVE  /\ Offsets(out) = Offsets(Receiver) \cap Offsets(Argument)
                      /\ Normal(out)
    BY DEF IntersectionExact
  <2>1. /\ rl = Receiver /\ ll = Argument /\ Normal(out) /\ Offsets(out) = Met(rl, ll, i, j)
        /\ i > Len(rl) \/ j > Len(ll)
    BY DEF IntersectionInv, Finished
  <2>2. /\ rl \in Seq(RangeType) /\ ll \in Seq(RangeType)
        /\ Len(rl) \in Nat /\ Len(ll) \in Nat /\ i \in Nat /\ j \in Nat
    BY DEF IndexInv, ListsOK, IndexesInRange
  <2>3. ASSUME NEW x \in Int
        PROVE  x \in Met(rl, ll, i, j) <=> x \in Offsets(rl) /\ x \in Offsets(ll)
    <3>1. \A k \in 1..Len(rl), l \in 1..Len(ll) : k < i \/ l < j
      BY <2>1, <2>2
    <3>2. /\ x \in Offsets(rl) <=> \E k \in 1..Len(rl) : x \in rl[k].start..rl[k].end
          /\ x \in Offsets(ll) <=> \E k \in 1..Len(ll) : x \in ll[k].start..ll[k].end
      BY <2>2, InOffsets
    <3> QED BY <3>1, <3>2 DEF Met
  <2>4. Met(rl, ll, i, j) \subseteq Int /\ Offsets(rl) \subseteq Int
    <3>1. Met(rl, ll, i, j) \subseteq Int
      BY DEF Met
    <3>2. Offsets(rl) \subseteq Int
      BY <2>2, InOffsets
    <3> QED BY <3>1, <3>2
  <2> QED BY <2>1, <2>3, <2>4
<1> QED BY <1>1, <1>2, InitIndex, StepIndex, StepIntersection, PTL DEF Spec

-----------------------------------------------------------------------------
(* Subtract *)

\* What is kept of the ranges before n.
Kept(list, n, o) ==
  /\ o \in Seq(RangeType) /\ Apart(o, 0)
  /\ \A x \in Offsets(o) : \E k \in 1..Len(list) : k < n /\ x \in list[k].start..list[k].end

\* What is subtracted is a part of the receiver: Subtract is exact then.
Part(a, b) == Normal(a) /\ Normal(b) /\ Offsets(b) \subseteq Offsets(a)

\* A range of the argument lies in one of the receiver, or there is a gap.
Nested(rs, ls, m, n) ==
  \A k \in m..Len(rs), q \in n..Len(ls) :
     \/ rs[k].start <= ls[q].start /\ ls[q].end <= rs[k].end
     \/ ls[q].end + 1 < rs[k].start
     \/ rs[k].end + 1 < ls[q].start

\* All of b that is not in ls from n on ends before rs from m on.
Passed(b, rs, ls, m, n) ==
  \A x \in Offsets(b) : x \in Coming(ls, n) \/ \A k \in m..Len(rs) : x < rs[k].start

\* One call of Subtract, at range m of rs and range n of ls, with o kept so far,
\* where a and b are the lists of the call it is a part of.
Level(a, b, rs, ls, m, n, o) ==
  /\ Apart(rs, 0) /\ Apart(ls, 0)
  /\ Offsets(rs) \subseteq Offsets(a) /\ Offsets(ls) \subseteq Offsets(b)
  /\ Kept(rs, m, o)
  /\ Part(a, b) => /\ Normal(ls) /\ Nested(rs, ls, m, n) /\ Passed(b, rs, ls, m, n)
                   /\ Offsets(o) \cap Offsets(b) = {}

\* The call that f made has one range for its receiver, which is what is left
\* of the range before f.i and lies behind what f keeps.
Waits(f, rs) ==
  /\ Len(rs) = 1 /\ f.i - 1 \in 1..Len(f.rl)
  /\ f.rl[f.i - 1].start <= rs[1].start /\ rs[1].end <= f.rl[f.i - 1].end
  /\ \A x \in Offsets(f.out) : x < rs[1].start

\* The calls that wait for the one with receiver rs.
Levels(a, b, fs, rs) ==
  \A n \in 1..Len(fs) :
     /\ Level(a, b, fs[n].rl, fs[n].ll, fs[n].i, fs[n].j, fs[n].out)
     /\ Waits(fs[n], IF n = Len(fs) THEN rs ELSE fs[n + 1].rl)

\* x is kept by a call, or is still to be looked at by it.
InHand(x, rs, m, o) == x \in Offsets(o) \/ x \in Coming(rs, m)

\* No call lost anything that was not to be subtracted.
NothingLost(a, b, fs, rs, m, o) ==
  \A x \in Offsets(a) :
     \/ x \in Offsets(b) \/ InHand(x, rs, m, o)
     \/ \E n \in 1..Len(fs) : InHand(x, fs[n].rl, fs[n].i, fs[n].out)

SubtractInv ==
  op = "subtract" =>
    /\ Receiver \in Seq(RangeType) /\ Argument \in Seq(RangeType)
    /\ pc = "loop" => /\ Level(Receiver, Argument, rl, ll, i, j, out)
                      /\ Levels(Receiver, Argument, frames, rl)
                      /\ NothingLost(Receiver, Argument, frames, rl, i, out)
    /\ pc = "done" => SubtractPartExact

LEMMA PositionIs ==
  ASSUME NEW r \in RangeType, NEW l \in RangeType, r.start <= r.end, l.start <= l.end
  PROVE  /\ Position(r, l) = "around" <=> r.start <= l.start /\ l.end <= r.end
         /\ Position(r, l) = "inside" => l.start <= r.start /\ r.end <= l.end
         /\ Position(r, l) = "front" =>
              r.start <= l.start /\ l.start <= r.end + 1 /\ r.end < l.end
         /\ Position(r, l) = "back" =>
              l.start <= r.start /\ r.start <= l.end + 1 /\ l.end < r.end
         /\ Position(r, l) = "before" => r.end < l.start
         /\ Position(r, l) = "after" => l.end + 1 < r.start
<1> PICK a, b, c, d \in Int : r.start = a /\ r.end = b /\ l.start = c /\ l.end = d
  BY DEF RangeType
<1> PICK p : p = Position(r, l)
  OBVIOUS
<1>1. /\ Encloses(r, l) <=> a <= c /\ d <= b
      /\ Encloses(l, r) <=> c <= a /\ b <= d
      /\ OverlapsFront(r, l) <=> a <= c /\ b + 1 >= c
      /\ OverlapsFront(l, r) <=> c <= a /\ d + 1 >= a
  BY DEF Encloses, OverlapsFront
<1>2. p = IF Encloses(r, l) THEN "around"
          ELSE IF Encloses(l, r) THEN "inside"
          ELSE IF OverlapsFront(r, l) THEN "front"
          ELSE IF OverlapsFront(l, r) THEN "back"
          ELSE IF b < c THEN "before" ELSE "after"
  BY DEF Position
<1>3. /\ p = "around" <=> a <= c /\ d <= b
      /\ p = "inside" => c <= a /\ b <= d
      /\ p = "front" => a <= c /\ c <= b + 1 /\ b < d
      /\ p = "back" => c <= a /\ a <= d + 1 /\ d < b
      /\ p = "before" => b < c
      /\ p = "after" => d + 1 < a
  BY <1>1, <1>2
<1> QED BY <1>3

\* In a part, a range of the receiver and one of the argument are nested in one
\* range, or have a gap between them.
LEMMA PartNested ==
  ASSUME NEW a \in Seq(RangeType), NEW b \in Seq(RangeType), Part(a, b)
  PROVE  Nested(a, b, 1, 1)
<1> SUFFICES ASSUME NEW k \in 1..Len(a), NEW q \in 1..Len(b)
             PROVE  \/ a[k].start <= b[q].start /\ b[q].end <= a[k].end
                    \/ b[q].end + 1 < a[k].start
                    \/ a[k].end + 1 < b[q].start
  BY DEF Nested
<1> PICK c, d \in Int : b[q].start = c /\ b[q].end = d
  BY ElementTyped
<1>1. c <= d
  BY InApart DEF Part, Normal
<1>2. PICK m \in 1..Len(a) : a[m].start <= c /\ d <= a[m].end
  <2>1. c..d \subseteq Offsets(a)
    BY InOffsets DEF Part
  <2> QED BY <1>1, <2>1, InOneRange DEF Part
<1> PICK e, f, g, h \in Int :
       a[k].start = e /\ a[k].end = f /\ a[m].start = g /\ a[m].end = h
  BY ElementTyped
<1>3. /\ k < m => f + 1 < g
      /\ m < k => h + 1 < e
  BY InApart DEF Part, Normal
<1>4. k = m \/ k < m \/ m < k
  OBVIOUS
<1>5. CASE k = m
  BY <1>2, <1>5
<1>6. CASE k < m
  BY <1>2, <1>3, <1>6
<1>7. CASE m < k
  BY <1>2, <1>3, <1>7
<1> QED BY <1>4, <1>5, <1>6, <1>7

\* More ranges are kept, behind the others.
LEMMA KeptMore ==
  ASSUME NEW list \in Seq(RangeType), NEW n, NEW o, Kept(list, n, o),
         NEW p \in Seq(RangeType), Apart(p, 0),
         \A x \in Offsets(o), y \in Offsets(p) : x < y,
         \A y \in Offsets(p) : \E k \in 1..Len(list) : k < n /\ y \in list[k].start..list[k].end
  PROVE  Kept(list, n, o \o p) /\ Offsets(o \o p) = Offsets(o) \cup Offsets(p)
<1>1. o \in Seq(RangeType) /\ Apart(o, 0)
  BY DEF Kept
<1>2. o \o p \in Seq(RangeType) /\ Apart(o \o p, 0)
  BY <1>1, ApartConcat
<1>3. Offsets(o \o p) = Offsets(o) \cup Offsets(p)
  BY <1>1, OffsetsConcat
<1> QED BY <1>2, <1>3 DEF Kept

\* What is kept of the ranges before m lies before range m.
LEMMA KeptBefore ==
  ASSUME NEW list \in Seq(RangeType), Apart(list, 0), NEW m \in 1..Len(list), NEW o,
         Kept(list, m, o)
  PROVE  /\ \A x \in Offsets(o) : x \in Int /\ x < list[m].start
         /\ Kept(list, m + 1, o)
<1>1. ASSUME NEW x \in Offsets(o)
      PROVE  /\ x \in Int /\ x < list[m].start
             /\ \E k \in 1..Len(list) : k < m + 1 /\ x \in list[k].start..list[k].end
  <2>1. PICK k \in 1..Len(list) : k < m /\ x \in list[k].start..list[k].end
    BY DEF Kept
  <2> PICK c, d, e \in Int : list[k].start = c /\ list[k].end = d /\ list[m].start = e
    BY ElementTyped
  <2>2. d < e
    BY <2>1, InOrder
  <2>3. k < m + 1
    BY <2>1
  <2> QED BY SMTT(30), <2>1, <2>2, <2>3
<1> QED BY <1>1 DEF Kept

\* Range m of rs is done with, and perhaps range n of ls: p is kept of it.
LEMMA LevelMoves ==
  ASSUME NEW a, NEW b \in Seq(RangeType), NEW rs \in Seq(RangeType), NEW ls \in Seq(RangeType),
         NEW m \in 1..Len(rs), NEW n \in 1..(Len(ls) + 1), NEW nn \in {n, n + 1}, NEW o,
         Level(a, b, rs, ls, m, n, o),
         NEW p \in Seq(RangeType), Apart(p, 0),
         Offsets(p) \subseteq rs[m].start..rs[m].end,
         Part(a, b) => Offsets(p) \cap Offsets(b) = {},
         nn = n + 1 => n \in 1..Len(ls) /\ ls[n].end <= rs[m].end
  PROVE  /\ Level(a, b, rs, ls, m + 1, nn, o \o p)
         /\ Offsets(o \o p) = Offsets(o) \cup Offsets(p)
<1> PICK c, d \in Int : rs[m].start = c /\ rs[m].end = d
  BY ElementTyped
<1>1. /\ Apart(rs, 0) /\ Apart(ls, 0) /\ Kept(rs, m, o)
      /\ Offsets(rs) \subseteq Offsets(a) /\ Offsets(ls) \subseteq Offsets(b)
  BY DEF Level
<1>2. /\ \A x \in Offsets(o) : x \in Int /\ x < c
      /\ Kept(rs, m + 1, o)
  BY <1>1, KeptBefore
<1>3. \A x \in Offsets(o), y \in Offsets(p) : x < y
  BY SMTT(30), <1>2
<1>4. \A y \in Offsets(p) : \E k \in 1..Len(rs) : k < m + 1 /\ y \in rs[k].start..rs[k].end
  <2>1. m < m + 1
    OBVIOUS
  <2> QED BY <2>1
<1>5. Kept(rs, m + 1, o \o p) /\ Offsets(o \o p) = Offsets(o) \cup Offsets(p)
  BY <1>2, <1>3, <1>4, KeptMore
<1>6. ASSUME Part(a, b)
      PROVE  /\ Normal(ls) /\ Nested(rs, ls, m + 1, nn) /\ Passed(b, rs, ls, m + 1, nn)
             /\ Offsets(o \o p) \cap Offsets(b) = {}
  <2>1. /\ Normal(ls) /\ Nested(rs, ls, m, n) /\ Passed(b, rs, ls, m, n)
        /\ Offsets(o) \cap Offsets(b) = {}
    BY <1>6 DEF Level
  <2>2. (m + 1)..Len(rs) \subseteq m..Len(rs) /\ nn..Len(ls) \subseteq n..Len(ls)
    BY SMTT(30)
  <2>3. Nested(rs, ls, m + 1, nn)
    BY <2>1, <2>2 DEF Nested
  <2>4. ASSUME NEW x \in Offsets(b), x \notin Coming(ls, nn), NEW k \in (m + 1)..Len(rs)
        PROVE  x < rs[k].start
    <3>1. k \in 1..Len(rs) /\ m < k
      OBVIOUS
    <3> PICK e \in Int : rs[k].start = e
      BY <3>1, ElementTyped
    <3>2. x \in Int
      BY InOffsets
    <3>3. CASE x \in Coming(ls, n)
      <4>1. nn = n + 1 /\ n \in 1..Len(ls) /\ n <= Len(ls)
        BY <2>4, <3>3
      <4>2. x \in ls[n].start..ls[n].end
        <5>1. n \in 1..(Len(ls) + 1)
          OBVIOUS
        <5> QED BY <1>1, <2>4, <3>3, <4>1, ComingIs
      <4> PICK f \in Int : ls[n].end = f
        BY <4>1, ElementTyped
      <4>3. x <= f /\ f <= d
        BY <4>1, <4>2
      <4>4. d < e
        BY <1>1, <3>1, InOrder
      <4>5. x < e
        BY <3>2, <4>3, <4>4
      <4> QED BY <4>5
    <3>4. CASE x \notin Coming(ls, n)
      BY <2>1, <2>2, <2>4, <3>4 DEF Passed
    <3> QED BY <3>3, <3>4
  <2>5. Passed(b, rs, ls, m + 1, nn)
    BY <2>4 DEF Passed
  <2> QED BY <1>5, <1>6, <2>1, <2>3, <2>5
<1> QED BY <1>1, <1>5, <1>6 DEF Level

LEMMA LevelMovesBoth ==
  ASSUME NEW a, NEW b \in Seq(RangeType), NEW rs \in Seq(RangeType), NEW ls \in Seq(RangeType),
         NEW m \in 1..Len(rs), NEW n \in 1..Len(ls), NEW o,
         Level(a, b, rs, ls, m, n, o), ls[n].end <= rs[m].end,
         NEW p \in Seq(RangeType), Apart(p, 0),
         Offsets(p) \subseteq rs[m].start..rs[m].end,
         Part(a, b) => Offsets(p) \cap Offsets(b) = {}
  PROVE  /\ Level(a, b, rs, ls, m + 1, n + 1, o \o p)
         /\ Offsets(o \o p) = Offsets(o) \cup Offsets(p)
<1>k. PICK k : k = n + 1
  OBVIOUS
<1>1. n \in 1..(Len(ls) + 1) /\ k \in {n, n + 1}
  BY <1>k
<1>2. k = n + 1 => n \in 1..Len(ls) /\ ls[n].end <= rs[m].end
  OBVIOUS
<1>3. /\ Level(a, b, rs, ls, m + 1, k, o \o p)
      /\ Offsets(o \o p) = Offsets(o) \cup Offsets(p)
  BY <1>1, <1>2, LevelMoves
<1> QED BY <1>k, <1>3

\* Range n of ls ends before range m of rs.
LEMMA LevelPasses ==
  ASSUME NEW a, NEW b \in Seq(RangeType), NEW rs \in Seq(RangeType), NEW ls \in Seq(RangeType),
         NEW m \in 1..Len(rs), NEW n \in 1..Len(ls), NEW o,
         Level(a, b, rs, ls, m, n, o), ls[n].end < rs[m].start
  PROVE  Level(a, b, rs, ls, m, n + 1, o)
<1>1. /\ Apart(rs, 0) /\ Apart(ls, 0) /\ Kept(rs, m, o)
      /\ Offsets(rs) \subseteq Offsets(a) /\ Offsets(ls) \subseteq Offsets(b)
  BY DEF Level
<1> PICK c, d \in Int : rs[m].start = c /\ ls[n].end = d /\ d < c
  BY ElementTyped
<1>2. ASSUME Part(a, b)
      PROVE  /\ Normal(ls) /\ Nested(rs, ls, m, n + 1) /\ Passed(b, rs, ls, m, n + 1)
             /\ Offsets(o) \cap Offsets(b) = {}
  <2>1. /\ Normal(ls) /\ Nested(rs, ls, m, n) /\ Passed(b, rs, ls, m, n)
        /\ Offsets(o) \cap Offsets(b) = {}
    BY <1>2 DEF Level
  <2>2. (n + 1)..Len(ls) \subseteq n..Len(ls)
    OBVIOUS
  <2>3. Nested(rs, ls, m, n + 1)
    BY <2>1, <2>2 DEF Nested
  <2>4. ASSUME NEW x \in Offsets(b), x \notin Coming(ls, n + 1), NEW k \in m..Len(rs)
        PROVE  x < rs[k].start
    <3>1. k \in 1..Len(rs) /\ (m < k \/ k = m)
      OBVIOUS
    <3> PICK e \in Int : rs[k].start = e
      BY <3>1, ElementTyped
    <3>2. x \in Int
      BY InOffsets
    <3>3. CASE x \in Coming(ls, n)
      <4>1. x \in ls[n].start..ls[n].end
        <5>1. n \in 1..(Len(ls) + 1) /\ n <= Len(ls)
          OBVIOUS
        <5> QED BY <1>1, <2>4, <3>3, <5>1, ComingIs
      <4>2. x <= d
        BY <4>1
      <4>3. c <= e
        <5>1. Stairs(rs)
          BY <1>1, ApartStairs
        <5>2. m < k => c <= e
          BY <3>1, <5>1 DEF Stairs
        <5>3. k = m => c <= e
          OBVIOUS
        <5> QED BY <3>1, <5>2, <5>3
      <4>4. x < e
        BY <3>2, <4>2, <4>3
      <4> QED BY <4>4
    <3>4. CASE x \notin Coming(ls, n)
      BY <2>1, <2>4, <3>4 DEF Passed
    <3> QED BY <3>3, <3>4
  <2>5. Passed(b, rs, ls, m, n + 1)
    BY <2>4 DEF Passed
  <2> QED BY <2>1, <2>3, <2>5
<1> QED BY <1>1, <1>2 DEF Level

\* What is kept of a range: nothing, or a range.
Piece(c, d) == IF d >= c THEN <<Interval(c, d)>> ELSE <<>>

LEMMA PieceIs ==
  ASSUME NEW c \in Int, NEW d \in Int
  PROVE  /\ Piece(c, d) \in Seq(RangeType) /\ Apart(Piece(c, d), 0)
         /\ Offsets(Piece(c, d)) = c..d
<1>1. CASE d >= c
  <2> PICK e : e = Interval(c, d)
    OBVIOUS
  <2>1. e \in RangeType /\ e.start = c /\ e.end = d
    BY RangeTyped DEF Interval
  <2>2. <<e>> \in Seq(RangeType) /\ Apart(<<e>>, 0) /\ Offsets(<<e>>) = c..d
    BY <1>1, <2>1, SingleList
  <2>3. Piece(c, d) = <<e>>
    BY <1>1 DEF Piece
  <2> QED BY <2>2, <2>3
<1>2. CASE ~(d >= c)
  <2>1. Piece(c, d) = <<>> /\ c..d = {}
    BY <1>2 DEF Piece
  <2>2. Apart(<<>>, 0)
    BY DEF Apart
  <2> QED BY <2>1, <2>2, EmptyList
<1> QED BY <1>1, <1>2

\* What moves from what is still to be looked at to what is kept.
LEMMA HandMoves ==
  ASSUME NEW b, NEW rs \in Seq(RangeType), Apart(rs, 0), NEW m \in 1..Len(rs), NEW o, NEW new,
         NEW P, Offsets(new) = Offsets(o) \cup P,
         \A x \in rs[m].start..rs[m].end : x \in Offsets(b) \/ x \in P,
         NEW x, InHand(x, rs, m, o)
  PROVE  x \in Offsets(b) \/ InHand(x, rs, m + 1, new)
<1>1. m \in 1..(Len(rs) + 1) /\ m <= Len(rs)
  OBVIOUS
<1>2. Coming(rs, m) = (rs[m].start..rs[m].end) \cup Coming(rs, m + 1)
  BY <1>1, ComingIs
<1> QED BY <1>2, Zenon DEF InHand

\* In a part, nothing of b that lies in range m comes before range n of ls.
LEMMA OfPart ==
  ASSUME NEW a, NEW b \in Seq(RangeType), NEW rs \in Seq(RangeType), NEW ls \in Seq(RangeType),
         NEW m \in 1..Len(rs), NEW n \in 1..Len(ls), NEW o,
         Level(a, b, rs, ls, m, n, o), Part(a, b),
         NEW x \in Offsets(b), x \in rs[m].start..rs[m].end
  PROVE  /\ x \in Int /\ ls[n].start <= x
         /\ n = Len(ls) => x <= ls[n].end
<1> PICK c, d, e, f \in Int :
       rs[m].start = c /\ rs[m].end = d /\ ls[n].start = e /\ ls[n].end = f
  BY ElementTyped
<1>0. x \in Int /\ c <= x
  OBVIOUS
<1>1. m \in m..Len(rs)
  OBVIOUS
<1>2. x \in Coming(ls, n)
  <2>1. x \in Coming(ls, n) \/ x < c
    BY <1>1 DEF Level, Passed
  <2> QED BY <1>0, <2>1
<1>3. PICK q \in n..Len(ls) : x \in ls[q].start..ls[q].end
  BY <1>2 DEF Coming
<1>4. q \in 1..Len(ls) /\ (q = n \/ n < q)
  OBVIOUS
<1>5. Apart(ls, 0)
  BY DEF Level
<1>6. e <= x
  <2> PICK g, h \in Int : ls[q].start = g /\ ls[q].end = h
    BY <1>4, ElementTyped
  <2>1. g <= x
    BY <1>3
  <2>2. n < q => e < g
    BY <1>4, <1>5, InOrder
  <2>3. q = n => e = g
    OBVIOUS
  <2>4. e <= g
    BY <1>4, <2>2, <2>3
  <2> QED BY SMTT(30), <1>0, <2>1, <2>4
<1>7. n = Len(ls) => q = n
  OBVIOUS
<1>8. n = Len(ls) => x <= f
  <2> HAVE n = Len(ls)
  <2>1. x \in ls[n].start..ls[n].end
    BY <1>3, <1>7
  <2> QED BY <2>1
<1> QED BY <1>0, <1>6, <1>8

\* In a part, a range is not cut at one end, nor inside another one.
LEMMA NoCutInPart ==
  ASSUME NEW a, NEW b, NEW rs \in Seq(RangeType), NEW ls \in Seq(RangeType),
         NEW m \in 1..Len(rs), NEW n \in 1..Len(ls), NEW o,
         Level(a, b, rs, ls, m, n, o), Part(a, b),
         Position(rs[m], ls[n]) \in {"inside", "front", "back"}
  PROVE  FALSE
<1> PICK c, d, e, f \in Int :
       rs[m].start = c /\ rs[m].end = d /\ ls[n].start = e /\ ls[n].end = f
  BY ElementTyped
<1>1. c <= d /\ e <= f
  BY InApart DEF Level
<1>2. rs[m] \in RangeType /\ ls[n] \in RangeType
  BY ElementTyped
<1> PICK p : p = Position(rs[m], ls[n])
  OBVIOUS
<1>7. rs[m].start <= rs[m].end /\ ls[n].start <= ls[n].end
  BY <1>1
<1>3. /\ p = "around" <=> c <= e /\ f <= d
      /\ p = "inside" => e <= c /\ d <= f
      /\ p = "front" => c <= e /\ e <= d + 1 /\ d < f
      /\ p = "back" => e <= c /\ c <= f + 1 /\ f < d
  BY <1>2, <1>7, PositionIs
<1>4. m \in m..Len(rs) /\ n \in n..Len(ls)
  OBVIOUS
<1>5. (c <= e /\ f <= d) \/ f + 1 < c \/ d + 1 < e
  BY <1>4 DEF Level, Nested
<1>6. p # "around"
  OBVIOUS
<1> QED BY <1>1, <1>3, <1>5, <1>6

LEMMA NormalApart ==
  ASSUME NEW list \in Seq(RangeType), Normal(list)
  PROVE  Apart(list, 0)
<1>1. ASSUME NEW k \in 1..Len(list), NEW l \in 1..Len(list), k < l
      PROVE  list[k].end + 0 < list[l].start
  <2> PICK c, d \in Int : list[k].end = c /\ list[l].start = d
    BY ElementTyped
  <2>1. c + 1 < d
    BY <1>1, InApart DEF Normal
  <2> QED BY <2>1
<1>2. \A k \in 1..Len(list) : list[k].start <= list[k].end
  BY InApart DEF Normal
<1> QED BY <1>1, <1>2, InApart

LEMMA RestApart ==
  ASSUME NEW list \in Seq(RangeType), Apart(list, 0), NEW k \in 1..(Len(list) + 1),
         NEW gap \in Nat, Apart(list, gap)
  PROVE  Apart(Rest(list, k), gap)
<1> PICK al : al = Rest(list, k)
  OBVIOUS
<1>1. /\ al \in Seq(RangeType)
      /\ \A n \in 1..Len(al) : n + k - 1 \in k..Len(list) /\ al[n] = list[n + k - 1]
  BY RestRanges
<1>2. \A n \in 1..Len(al) : n + k - 1 \in 1..Len(list)
  BY <1>1
<1>3. ASSUME NEW n \in 1..Len(al) PROVE al[n].start <= al[n].end
  BY <1>1, <1>2, InApart
<1>4. ASSUME NEW n \in 1..Len(al), NEW q \in 1..Len(al), n < q
      PROVE  al[n].end + gap < al[q].start
  <2>1. n + k - 1 < q + k - 1
    BY <1>4
  <2> QED BY <1>1, <1>2, <2>1, InApart
<1>5. Apart(al, gap)
  BY <1>1, <1>3, <1>4, InApart
<1> QED BY <1>5

\* The same call goes on.
LEMMA SameCall ==
  ASSUME SubtractInv, op = "subtract", pc = "loop", pc' = "loop",
         UNCHANGED <<op, given, rl, ll, frames>>,
         Level(Receiver, Argument, rl, ll, i', j', out'),
         \A x : InHand(x, rl, i, out) => x \in Offsets(Argument) \/ InHand(x, rl, i', out')
  PROVE  SubtractInv'
<1> PICK a, b : a = Receiver /\ b = Argument
  OBVIOUS
<1>1. Receiver' = a /\ Argument' = b
  BY DEF Receiver, Argument
<1>2. Levels(a, b, frames, rl) /\ NothingLost(a, b, frames, rl, i, out)
  BY DEF SubtractInv
<1>3. NothingLost(a, b, frames, rl, i', out')
  BY <1>2, Zenon DEF NothingLost
<1> QED BY <1>1, <1>2, <1>3 DEF SubtractInv

\* The current range is done with, and p is kept of it.
LEMMA SubtractMoves ==
  ASSUME IndexInv, SubtractInv, op = "subtract", pc = "loop", pc' = "loop",
         UNCHANGED <<op, given, rl, ll, frames>>,
         NEW a, NEW b \in Seq(RangeType), a = Receiver, b = Argument,
         i \in 1..Len(rl), i' = i + 1,
         j' = j \/ (j' = j + 1 /\ j \in 1..Len(ll) /\ ll[j].end <= rl[i].end),
         NEW p \in Seq(RangeType), Apart(p, 0), out' = out \o p,
         Offsets(p) \subseteq rl[i].start..rl[i].end,
         Part(a, b) => Offsets(p) \cap Offsets(b) = {},
         \A x \in rl[i].start..rl[i].end : x \in Offsets(b) \/ x \in Offsets(p)
  PROVE  SubtractInv'
<1>1. rl \in Seq(RangeType) /\ ll \in Seq(RangeType) /\ j \in 1..(Len(ll) + 1)
  BY DEF IndexInv, ListsOK, IndexesInRange
<1>2. Level(a, b, rl, ll, i, j, out)
  BY DEF SubtractInv
<1> PICK k : k = j'
  OBVIOUS
<1>6. k \in {j, j + 1} /\ (k = j + 1 => j \in 1..Len(ll) /\ ll[j].end <= rl[i].end)
  BY <1>1
<1>3. /\ Level(a, b, rl, ll, i + 1, k, out \o p)
      /\ Offsets(out \o p) = Offsets(out) \cup Offsets(p)
  BY ONLY SMTT(30), <1>1, <1>2, b \in Seq(RangeType), i \in 1..Len(rl), <1>6,
     p \in Seq(RangeType), Apart(p, 0), Offsets(p) \subseteq rl[i].start..rl[i].end,
     Part(a, b) => Offsets(p) \cap Offsets(b) = {}, LevelMoves
<1>4. Apart(rl, 0)
  BY <1>2 DEF Level
<1>5. ASSUME NEW x, InHand(x, rl, i, out)
      PROVE  x \in Offsets(b) \/ InHand(x, rl, i + 1, out \o p)
  BY <1>1, <1>3, <1>4, <1>5, HandMoves
<1> QED BY <1>3, <1>5, SameCall

LEMMA AppendPiece ==
  ASSUME NEW o \in Seq(RangeType), NEW c \in Int, NEW d \in Int
  PROVE  (IF d >= c THEN Append(o, Interval(c, d)) ELSE o) = o \o Piece(c, d)
<1>1. CASE d >= c
  <2> PICK e : e = Interval(c, d)
    OBVIOUS
  <2>1. e \in RangeType
    BY RangeTyped
  <2>2. Append(o, e) = o \o <<e>>
    BY <2>1
  <2> QED BY <1>1, <2>2 DEF Piece
<1>2. CASE ~(d >= c)
  <2>1. o \o <<>> = o
    BY ConcatEmptySeq
  <2> QED BY <1>2, <2>1 DEF Piece
<1> QED BY <1>1, <1>2

\* A range that does not hold the current one of ll is cut, kept or left alone.
LEMMA SubtractCut ==
  ASSUME IndexInv, SubtractInv, SubtractStep, Position(rl[i], ll[j]) # "around"
  PROVE  SubtractInv'
<1> PICK a, b : a = Receiver /\ b = Argument
  OBVIOUS
<1>1. /\ rl \in Seq(RangeType) /\ ll \in Seq(RangeType)
      /\ i \in 1..Len(rl) /\ j \in 1..Len(ll)
  BY DEF IndexInv, ListsOK, IndexesInRange, SubtractStep
<1>2. /\ op = "subtract" /\ pc = "loop" /\ pc' = "loop"
      /\ UNCHANGED <<op, given, rl, ll, frames>>
  BY DEF SubtractStep, Looping, Continue
<1>3. b \in Seq(RangeType) /\ Level(a, b, rl, ll, i, j, out)
  BY <1>2 DEF SubtractInv
<1>4. out \in Seq(RangeType) /\ Apart(rl, 0) /\ Apart(ll, 0) /\ Offsets(ll) \subseteq Offsets(b)
  BY <1>3 DEF Level, Kept
<1> PICK r, l : r = rl[i] /\ l = ll[j]
  OBVIOUS
<1> PICK p : p = Position(r, l)
  OBVIOUS
<1>5. r \in RangeType /\ l \in RangeType /\ r.start <= r.end /\ l.start <= l.end
  BY <1>1, <1>4, ElementTyped, InApart
<1> PICK c, d, e, f \in Int : r.start = c /\ r.end = d /\ l.start = e /\ l.end = f
  BY <1>5 DEF RangeType
<1>6. /\ p = "inside" => e <= c /\ d <= f
      /\ p = "front" => c <= e /\ e <= d + 1 /\ d < f
      /\ p = "back" => e <= c /\ c <= f + 1 /\ f < d
      /\ p = "before" => d < e
      /\ p = "after" => f + 1 < c
  BY <1>5, PositionIs
<1>7. l.start..l.end \subseteq Offsets(b)
  BY <1>1, <1>4, InOffsets
<1> PICK g, h \in Int : g = e - 1 /\ h = f + 1
  OBVIOUS
<1>8. \/ /\ \/ p \in {"inside", "front"} /\ out' = out \o Piece(c, g)
            \/ p = "back" /\ out' = out \o Piece(h, d)
            \/ p = "before" /\ out' = out \o <<r>>
         /\ i' = i + 1 /\ j' = j
      \/ p = "after" /\ i' = i /\ j' = j + 1 /\ out' = out
  <2>1. \/ /\ \/ p \in {"inside", "front"} /\ Append1(Interval(c, g))
              \/ p = "back" /\ Append1(Interval(h, d))
              \/ p = "before" /\ Append1(r)
           /\ i' = i + 1 /\ j' = j
        \/ p = "after" /\ i' = i /\ j' = j + 1 /\ out' = out
    BY DEF SubtractStep, Continue
  <2>2. ASSUME NEW u \in Int, NEW v \in Int, Append1(Interval(u, v))
        PROVE  out' = out \o Piece(u, v)
    <3>1. out' = IF v >= u THEN Append(out, Interval(u, v)) ELSE out
      BY <2>2 DEF Append1, Interval
    <3> QED BY ONLY <1>4, <3>1, u \in Int, v \in Int, AppendPiece
  <2>3. Append1(r) => out' = out \o <<r>>
    <3> SUFFICES ASSUME Append1(r) PROVE out' = out \o <<r>>
      OBVIOUS
    <3>1. out' = Append(out, r)
      BY <1>5 DEF Append1
    <3>2. out \o <<r>> = Append(out, r)
      BY ONLY <1>4, <1>5
    <3> QED BY ONLY <3>1, <3>2
  <2> QED BY <2>1, <2>2, <2>3, Zenon
<1>9. p \in {"inside", "front", "back"} => ~Part(a, b)
  BY <1>1, <1>3, NoCutInPart
<1>10. CASE p \in {"inside", "front"}
  <2> PICK q : q = Piece(c, g)
    OBVIOUS
  <2>1. q \in Seq(RangeType) /\ Apart(q, 0) /\ Offsets(q) = c..g
    BY PieceIs
  <2>2. c..g \subseteq rl[i].start..rl[i].end
    BY <1>6, <1>10
  <2>3. ASSUME NEW x \in rl[i].start..rl[i].end PROVE x \in Offsets(b) \/ x \in Offsets(q)
    <3>1. x \in e..f \/ x \in c..g
      BY <1>6, <1>10
    <3> QED BY <1>7, <2>1, <3>1
  <2>4. ~Part(a, b) /\ out' = out \o q /\ i' = i + 1 /\ j' = j
    BY <1>8, <1>9, <1>10
  <2> QED BY ONLY IndexInv, SubtractInv, a = Receiver /\ b = Argument, <1>1, <1>2, <1>3,
         <2>1, <2>2, <2>3, <2>4, SubtractMoves
<1>11. CASE p = "back"
  <2> PICK q : q = Piece(h, d)
    OBVIOUS
  <2>1. q \in Seq(RangeType) /\ Apart(q, 0) /\ Offsets(q) = h..d
    BY PieceIs
  <2>2. h..d \subseteq rl[i].start..rl[i].end
    BY <1>6, <1>11
  <2>3. ASSUME NEW x \in rl[i].start..rl[i].end PROVE x \in Offsets(b) \/ x \in Offsets(q)
    <3>1. x \in e..f \/ x \in h..d
      BY <1>6, <1>11
    <3> QED BY <1>7, <2>1, <3>1
  <2>4. ~Part(a, b) /\ out' = out \o q /\ i' = i + 1 /\ j' = j
    BY <1>8, <1>9, <1>11
  <2> QED BY ONLY IndexInv, SubtractInv, a = Receiver /\ b = Argument, <1>1, <1>2, <1>3,
         <2>1, <2>2, <2>3, <2>4, SubtractMoves
<1>12. CASE p = "before"
  <2> PICK q : q = <<r>>
    OBVIOUS
  <2>1. q \in Seq(RangeType) /\ Apart(q, 0) /\ Offsets(q) = r.start..r.end
    BY <1>5, SingleList
  <2>2. r.start..r.end \subseteq rl[i].start..rl[i].end
    OBVIOUS
  <2>3. \A x \in rl[i].start..rl[i].end : x \in Offsets(b) \/ x \in Offsets(q)
    BY <2>1
  <2>4. out' = out \o q /\ i' = i + 1 /\ j' = j
    BY <1>8, <1>12
  <2>5. ASSUME Part(a, b), NEW x \in Offsets(q), x \in Offsets(b) PROVE FALSE
    <3>1. x \in Int /\ ll[j].start <= x /\ x <= d
      BY <1>1, <1>3, <2>1, <2>5, OfPart
    <3> QED BY <1>6, <1>12, <3>1
  <2>6. Part(a, b) => Offsets(q) \cap Offsets(b) = {}
    BY <2>5
  <2> QED BY ONLY IndexInv, SubtractInv, a = Receiver /\ b = Argument, <1>1, <1>2, <1>3,
         <2>1, <2>2, <2>3, <2>4, <2>6, SubtractMoves
<1>13. CASE p = "after"
  <2>1. Level(a, b, rl, ll, i, j + 1, out)
    <3>1. ll[j].end < rl[i].start
      BY <1>6, <1>13
    <3> QED BY <1>1, <1>3, <3>1, LevelPasses
  <2>2. i' = i /\ j' = j + 1 /\ out' = out
    BY <1>8, <1>13
  <2> QED BY <1>2, <2>1, <2>2, SameCall
<1> QED BY <1>8, <1>10, <1>11, <1>12, <1>13

\* What is left of a range that holds one of ll goes to out, if it need not be
\* looked at again.
LEMMA SubtractThrough ==
  ASSUME IndexInv, SubtractInv, SubtractStep, Position(rl[i], ll[j]) = "around",
         NEW c \in Int, NEW d \in Int, NEW g \in Int, NEW h \in Int,
         rl[i].start = c, rl[i].end = d, ll[j].start - 1 = g, ll[j].end + 1 = h,
         Piece(h, d) = <<>> \/ j = Len(ll),
         out' = out \o Piece(c, g) \o Piece(h, d), i' = i + 1, j' = j + 1,
         UNCHANGED <<rl, ll, frames>>
  PROVE  SubtractInv'
<1> PICK a, b : a = Receiver /\ b = Argument
  OBVIOUS
<1>1. /\ rl \in Seq(RangeType) /\ ll \in Seq(RangeType)
      /\ i \in 1..Len(rl) /\ j \in 1..Len(ll)
  BY DEF IndexInv, ListsOK, IndexesInRange, SubtractStep
<1>2. /\ op = "subtract" /\ pc = "loop" /\ pc' = "loop"
      /\ UNCHANGED <<op, given, rl, ll, frames>>
  BY DEF SubtractStep, SubtractAround, Looping, Continue
<1>3. b \in Seq(RangeType) /\ Level(a, b, rl, ll, i, j, out)
  BY <1>2 DEF SubtractInv
<1>4. out \in Seq(RangeType) /\ Apart(rl, 0) /\ Apart(ll, 0) /\ Offsets(ll) \subseteq Offsets(b)
  BY <1>3 DEF Level, Kept
<1> PICK r, l : r = rl[i] /\ l = ll[j]
  OBVIOUS
<1>5. r \in RangeType /\ l \in RangeType /\ r.start <= r.end /\ l.start <= l.end
  BY <1>1, <1>4, ElementTyped, InApart
<1>e. PICK e, f \in Int : l.start = e /\ l.end = f /\ g = e - 1 /\ h = f + 1
  BY <1>5 DEF RangeType
<1>6. c <= e /\ e <= f /\ f <= d
  BY <1>5, <1>e, PositionIs
<1>7. l.start..l.end \subseteq Offsets(b)
  BY <1>1, <1>4, InOffsets
<1>u. PICK u, v : u = Piece(c, g) /\ v = Piece(h, d)
  OBVIOUS
<1>8. /\ u \in Seq(RangeType) /\ Apart(u, 0) /\ Offsets(u) = c..g
      /\ v \in Seq(RangeType) /\ Apart(v, 0) /\ Offsets(v) = h..d
  BY <1>u, PieceIs
<1>q. PICK q : q = u \o v
  OBVIOUS
<1>9. \A x \in Offsets(u), y \in Offsets(v) : x < y
  BY ONLY <1>6, <1>8, <1>e, c \in Int, d \in Int, e \in Int, f \in Int
<1>10. q \in Seq(RangeType) /\ Apart(q, 0) /\ Offsets(q) = (c..g) \cup (h..d)
  BY ONLY <1>q, <1>8, <1>9, ApartConcat, OffsetsConcat
<1>11. out' = out \o q
  <2>1. out' = (out \o u) \o v
    BY <1>u
  <2>2. (out \o u) \o v = out \o (u \o v)
    <3>1. out \in Seq(RangeType)
      BY <1>4
    <3>2. u \in Seq(RangeType)
      BY <1>8
    <3>3. v \in Seq(RangeType)
      BY <1>8
    <3> QED BY ONLY SMTT(30), <3>1, <3>2, <3>3, ConcatAssociative
  <2> QED BY ONLY <1>q, <2>1, <2>2
<1>12. Offsets(q) \subseteq rl[i].start..rl[i].end
  <2>1. c..g \subseteq c..d /\ h..d \subseteq c..d
    BY ONLY <1>6, <1>e, c \in Int, d \in Int, e \in Int, f \in Int
  <2> QED BY <1>10, <2>1
<1>13. ASSUME NEW x \in rl[i].start..rl[i].end PROVE x \in Offsets(b) \/ x \in Offsets(q)
  <2>1. x \in e..f \/ x \in c..g \/ x \in h..d
    BY <1>6, <1>e
  <2> QED BY <1>7, <1>10, <1>e, <2>1
<1>14. ASSUME Part(a, b), NEW x \in Offsets(q), x \in Offsets(b) PROVE FALSE
  <2>1. /\ x \in Int /\ ll[j].start <= x
        /\ j = Len(ll) => x <= ll[j].end
    BY <1>1, <1>3, <1>12, <1>14, OfPart
  <2>2. x \in h..d
    <3>1. x \in c..g \/ x \in h..d
      BY <1>10, <1>14
    <3>2. ~(x \in c..g)
      BY <2>1, <1>e
    <3> QED BY <3>1, <3>2
  <2>3. v # <<>>
    BY <1>8, <2>2, EmptyList
  <2>4. j = Len(ll)
    BY <1>u, <2>3
  <2>5. x <= f
    BY <2>1, <2>4, <1>e
  <2> QED BY ONLY <1>e, <2>1, <2>2, <2>5, d \in Int, f \in Int
<1>15. Part(a, b) => Offsets(q) \cap Offsets(b) = {}
  BY <1>14
<1>16. j' = j + 1 /\ j \in 1..Len(ll) /\ ll[j].end <= rl[i].end /\ i' = i + 1
  BY <1>1, <1>6, <1>e
<1> QED BY ONLY IndexInv, SubtractInv, a = Receiver /\ b = Argument, <1>1, <1>2, <1>3,
       <1>10, <1>11, <1>12, <1>13, <1>15, <1>16, SubtractMoves

\* ll is used up, and the current range has nothing of it.
LEMMA SubtractRestInv ==
  ASSUME IndexInv, SubtractInv, SubtractRest
  PROVE  SubtractInv'
<1> PICK a, b : a = Receiver /\ b = Argument
  OBVIOUS
<1>1. /\ rl \in Seq(RangeType) /\ ll \in Seq(RangeType)
      /\ i \in 1..Len(rl) /\ j \in 1..(Len(ll) + 1) /\ j > Len(ll)
  BY DEF IndexInv, ListsOK, IndexesInRange, SubtractRest
<1>2. /\ op = "subtract" /\ pc = "loop" /\ pc' = "loop"
      /\ UNCHANGED <<op, given, rl, ll, frames>>
      /\ out' = Append(out, rl[i]) /\ i' = i + 1 /\ j' = j
  BY DEF SubtractRest, Looping, Continue
<1>3. b \in Seq(RangeType) /\ Level(a, b, rl, ll, i, j, out)
  BY <1>2 DEF SubtractInv
<1>4. out \in Seq(RangeType) /\ Apart(rl, 0) /\ Apart(ll, 0)
  BY <1>3 DEF Level, Kept
<1> PICK r : r = rl[i]
  OBVIOUS
<1>5. r \in RangeType /\ r.start <= r.end
  BY <1>1, <1>4, ElementTyped, InApart
<1> PICK q : q = <<r>>
  OBVIOUS
<1>6. q \in Seq(RangeType) /\ Apart(q, 0) /\ Offsets(q) = r.start..r.end
  BY <1>5, SingleList
<1>7. out' = out \o q
  <2>1. out \o q = Append(out, r)
    BY <1>4, <1>5
  <2> QED BY <1>2, <2>1
<1>8. /\ Offsets(q) \subseteq rl[i].start..rl[i].end
      /\ \A x \in rl[i].start..rl[i].end : x \in Offsets(b) \/ x \in Offsets(q)
  BY <1>6
<1>9. ASSUME Part(a, b), NEW x \in Offsets(q), x \in Offsets(b) PROVE FALSE
  <2>1. Coming(ll, j) = {}
    BY <1>1, <1>4, ComingIs
  <2>2. i \in i..Len(rl)
    BY <1>1
  <2>3. x < r.start
    BY <1>3, <1>9, <2>1, <2>2 DEF Level, Passed
  <2>4. r.start \in Int /\ r.end \in Int
    BY <1>5 DEF RangeType
  <2> QED BY <1>6, <1>9, <2>3, <2>4
<1>10. Part(a, b) => Offsets(q) \cap Offsets(b) = {}
  BY <1>9
<1>11. i' = i + 1 /\ j' = j
  BY <1>2
<1> QED BY ONLY IndexInv, SubtractInv, a = Receiver /\ b = Argument, <1>1, <1>2, <1>3,
       <1>6, <1>7, <1>8, <1>10, <1>11, SubtractMoves

\* The call for what is behind range n of ls in range m of rs.
LEMMA ChildLevel ==
  ASSUME NEW a, NEW b \in Seq(RangeType), NEW rs \in Seq(RangeType), NEW ls \in Seq(RangeType),
         NEW m \in 1..Len(rs), NEW n \in 1..Len(ls), NEW o,
         Level(a, b, rs, ls, m, n, o), Encloses(rs[m], ls[n]),
         NEW e \in RangeType, e.start <= e.end,
         e.start = ls[n].end + 1, e.end = rs[m].end
  PROVE  Level(a, b, <<e>>, Rest(ls, n + 1), 1, 1, <<>>)
<1>r. PICK one, rest : one = <<e>> /\ rest = Rest(ls, n + 1)
  OBVIOUS
<1>1. /\ one \in Seq(RangeType) /\ Len(one) = 1 /\ one[1] = e
      /\ Apart(one, 0) /\ Offsets(one) = e.start..e.end
  BY <1>r, SingleList
<1>2. /\ Apart(rs, 0) /\ Apart(ls, 0)
      /\ Offsets(rs) \subseteq Offsets(a) /\ Offsets(ls) \subseteq Offsets(b)
  BY DEF Level
<1>3. n + 1 \in 1..(Len(ls) + 1) /\ n \in 1..(Len(ls) + 1) /\ n <= Len(ls)
  OBVIOUS
<1>4. /\ rest \in Seq(RangeType) /\ Offsets(rest) = Coming(ls, n + 1)
      /\ \A q \in 1..Len(rest) :
            q + (n + 1) - 1 \in (n + 1)..Len(ls) /\ rest[q] = ls[q + (n + 1) - 1]
  <2>k. PICK k : k = n + 1
    OBVIOUS
  <2>1. k \in 1..(Len(ls) + 1)
    BY <1>3, <2>k
  <2>2. /\ Rest(ls, k) \in Seq(RangeType)
        /\ \A q \in 1..Len(Rest(ls, k)) :
              q + k - 1 \in k..Len(ls) /\ Rest(ls, k)[q] = ls[q + k - 1]
    BY ONLY <1>2, <2>1, ls \in Seq(RangeType), RestRanges
  <2>3. Offsets(Rest(ls, k)) = Coming(ls, k)
    BY ONLY <1>2, <2>1, ls \in Seq(RangeType), ComingIs
  <2> QED BY <1>r, <2>k, <2>2, <2>3
<1>5. Apart(rest, 0)
  BY <1>r, <1>2, <1>3, RestApart
<1>6. Coming(one, 1) = Offsets(one) /\ Coming(rest, 1) = Offsets(rest)
  BY <1>1, <1>4, <1>5, ComingIs
<1>p. PICK c, d, g, h \in Int :
         rs[m].start = c /\ rs[m].end = d /\ ls[n].start = g /\ ls[n].end = h
  BY ElementTyped
<1>7. g <= h /\ c <= g /\ h <= d /\ e.start = h + 1 /\ e.end = d
  BY <1>2, <1>p, InApart DEF Encloses
<1>8. Offsets(one) \subseteq Offsets(a)
  <2>1. Offsets(one) \subseteq rs[m].start..rs[m].end
    BY <1>1, <1>7, <1>p
  <2>2. rs[m].start..rs[m].end \subseteq Offsets(rs)
    BY InOffsets
  <2> QED BY <1>2, <2>1, <2>2
<1>9. Offsets(rest) \subseteq Offsets(b)
  <2>1. Coming(ls, n + 1) \subseteq Offsets(ls)
    BY <1>3, InOffsets DEF Coming
  <2> QED BY <1>2, <1>4, <2>1
<1>10. Kept(one, 1, <<>>)
  BY EmptyList DEF Kept, Apart
<1>11. ASSUME Part(a, b)
       PROVE  /\ Normal(rest) /\ Nested(one, rest, 1, 1) /\ Passed(b, one, rest, 1, 1)
              /\ Offsets(<<>>) \cap Offsets(b) = {}
  <2>1. Normal(ls) /\ Nested(rs, ls, m, n) /\ Passed(b, rs, ls, m, n)
    BY <1>11 DEF Level
  <2>2. Normal(rest)
    BY <1>r, <1>2, <1>3, <2>1, RestApart DEF Normal
  <2>3. ASSUME NEW q \in 1..Len(rest)
        PROVE  \/ e.start <= rest[q].start /\ rest[q].end <= e.end
               \/ rest[q].end + 1 < e.start
               \/ e.end + 1 < rest[q].start
    <3>k. PICK k : k = q + (n + 1) - 1
      OBVIOUS
    <3>1. k \in (n + 1)..Len(ls) /\ rest[q] = ls[k]
      BY <1>4, <3>k
    <3>2. k \in n..Len(ls) /\ k \in 1..Len(ls) /\ n < k /\ m \in m..Len(rs)
      <4>1. k \in n..Len(ls) /\ k \in 1..Len(ls) /\ n < k
        BY ONLY <3>1, ls \in Seq(RangeType), n \in 1..Len(ls)
      <4>2. m \in m..Len(rs)
        BY ONLY rs \in Seq(RangeType), m \in 1..Len(rs)
      <4> QED BY <4>1, <4>2
    <3>3. \/ rs[m].start <= ls[k].start /\ ls[k].end <= rs[m].end
          \/ ls[k].end + 1 < rs[m].start
          \/ rs[m].end + 1 < ls[k].start
      BY <2>1, <3>2 DEF Nested
    <3>p. PICK u, v \in Int : ls[k].start = u /\ ls[k].end = v
      BY <3>2, ElementTyped
    <3>4. h < u
      BY <1>2, <1>p, <3>2, <3>p, InOrder
    <3>5. (c <= u /\ v <= d) \/ v + 1 < c \/ d + 1 < u
      BY <1>p, <3>3, <3>p
    <3>6. (h + 1 <= u /\ v <= d) \/ v + 1 < h + 1 \/ d + 1 < u
      BY <1>7, <3>4, <3>5
    <3> QED BY <1>7, <3>1, <3>6, <3>p
  <2>4. Nested(one, rest, 1, 1)
    <3>1. \A k \in 1..Len(one) : one[k] = e
      BY ONLY <1>1
    <3> QED BY ONLY <2>3, <3>1 DEF Nested
  <2>5. ASSUME NEW x \in Offsets(b), x \notin Coming(rest, 1) PROVE x < e.start
    <3>1. x \in Int
      BY InOffsets
    <3>2. CASE x \in Coming(ls, n)
      <4>1. x \in ls[n].start..ls[n].end
        BY <1>2, <1>3, <1>4, <1>6, <2>5, <3>2, ComingIs
      <4> QED BY <1>7, <1>p, <4>1
    <3>3. CASE x \notin Coming(ls, n)
      <4>1. m \in m..Len(rs)
        OBVIOUS
      <4>2. x < c
        BY <1>p, <2>1, <2>5, <3>3, <4>1 DEF Passed
      <4>3. x < h + 1
        BY ONLY <1>7, <3>1, <4>2, c \in Int, g \in Int, h \in Int
      <4> QED BY <1>7, <4>3
    <3> QED BY <3>2, <3>3
  <2>6. Passed(b, one, rest, 1, 1)
    BY <1>1, <2>5 DEF Passed
  <2> QED BY <2>2, <2>4, <2>6, EmptyList
<1>12. Level(a, b, one, rest, 1, 1, <<>>)
  BY <1>1, <1>5, <1>8, <1>9, <1>10, <1>11 DEF Level
<1> QED BY <1>r, <1>12

\* A call more waits.
LEMMA LevelsPush ==
  ASSUME NEW a, NEW b, NEW S, NEW fs \in Seq(S), NEW f \in S, NEW rs,
         Levels(a, b, fs, f.rl), Level(a, b, f.rl, f.ll, f.i, f.j, f.out), Waits(f, rs)
  PROVE  Levels(a, b, Append(fs, f), rs)
<1>g. PICK gs : gs = Append(fs, f)
  OBVIOUS
<1>1. /\ Len(gs) = Len(fs) + 1 /\ Len(fs) \in Nat
      /\ gs[Len(fs) + 1] = f /\ \A n \in 1..Len(fs) : gs[n] = fs[n]
  BY <1>g
<1>2. ASSUME NEW n \in 1..Len(gs)
      PROVE  /\ Level(a, b, gs[n].rl, gs[n].ll, gs[n].i, gs[n].j, gs[n].out)
             /\ Waits(gs[n], IF n = Len(gs) THEN rs ELSE gs[n + 1].rl)
  <2>1. CASE n = Len(fs) + 1
    BY <1>1, <2>1
  <2>2. CASE n # Len(fs) + 1
    <3>1. n \in 1..Len(fs) /\ n # Len(gs) /\ gs[n] = fs[n]
      BY <1>1, <2>2
    <3>2. (IF n = Len(fs) THEN f.rl ELSE fs[n + 1].rl) = gs[n + 1].rl
      <4>1. CASE n = Len(fs)
        BY <1>1, <4>1
      <4>2. CASE n # Len(fs)
        BY <1>1, <3>1, <4>2
      <4> QED BY <4>1, <4>2
    <3> QED BY <3>1, <3>2 DEF Levels
  <2> QED BY <2>1, <2>2
<1> QED BY <1>g, <1>2 DEF Levels

\* The last of the calls that wait goes on.
LEMMA LevelsPop ==
  ASSUME NEW a, NEW b, NEW S, NEW fs \in Seq(S), fs # <<>>, NEW rs, Levels(a, b, fs, rs)
  PROVE  Levels(a, b, Front(fs), fs[Len(fs)].rl)
<1>g. PICK gs : gs = Front(fs)
  OBVIOUS
<1>1. /\ Len(gs) = Len(fs) - 1 /\ Len(fs) \in Nat
      /\ \A n \in 1..(Len(fs) - 1) : gs[n] = fs[n]
  BY <1>g, FrontProperties
<1>2. ASSUME NEW n \in 1..Len(gs)
      PROVE  /\ Level(a, b, gs[n].rl, gs[n].ll, gs[n].i, gs[n].j, gs[n].out)
             /\ Waits(gs[n], IF n = Len(gs) THEN fs[Len(fs)].rl ELSE gs[n + 1].rl)
  <2>1. n \in 1..Len(fs) /\ n # Len(fs) /\ gs[n] = fs[n]
    BY <1>1
  <2>2. (IF n = Len(gs) THEN fs[Len(fs)].rl ELSE gs[n + 1].rl) = fs[n + 1].rl
    <3>1. CASE n = Len(gs)
      BY <1>1, <3>1
    <3>2. CASE n # Len(gs)
      BY <1>1, <2>1, <3>2
    <3> QED BY <3>1, <3>2
  <2> QED BY <2>1, <2>2 DEF Levels
<1> QED BY <1>g, <1>2 DEF Levels

LEMMA LostPush ==
  ASSUME NEW a, NEW b, NEW S, NEW fs \in Seq(S), NEW f \in S, NEW rs, NEW m, NEW o,
         NEW one, NEW none, NothingLost(a, b, fs, rs, m, o),
         \A x : InHand(x, rs, m, o) =>
                   \/ x \in Offsets(b) \/ InHand(x, f.rl, f.i, f.out) \/ InHand(x, one, 1, none)
  PROVE  NothingLost(a, b, Append(fs, f), one, 1, none)
<1>g. PICK gs : gs = Append(fs, f)
  OBVIOUS
<1>1. /\ Len(fs) + 1 \in 1..Len(gs) /\ gs[Len(fs) + 1] = f
      /\ \A n \in 1..Len(fs) : n \in 1..Len(gs) /\ gs[n] = fs[n]
  BY <1>g
<1>2. ASSUME NEW x \in Offsets(a)
      PROVE  \/ x \in Offsets(b) \/ InHand(x, one, 1, none)
             \/ \E n \in 1..Len(gs) : InHand(x, gs[n].rl, gs[n].i, gs[n].out)
  <2>1. \/ x \in Offsets(b) \/ InHand(x, rs, m, o)
        \/ \E n \in 1..Len(fs) : InHand(x, fs[n].rl, fs[n].i, fs[n].out)
    BY DEF NothingLost
  <2>2. CASE \E n \in 1..Len(fs) : InHand(x, fs[n].rl, fs[n].i, fs[n].out)
    <3>1. PICK n \in 1..Len(fs) : InHand(x, fs[n].rl, fs[n].i, fs[n].out)
      BY <2>2
    <3>2. n \in 1..Len(gs) /\ gs[n] = fs[n]
      BY <1>1
    <3>3. InHand(x, gs[n].rl, gs[n].i, gs[n].out)
      BY <3>1, <3>2
    <3> QED BY <3>2, <3>3
  <2>3. InHand(x, f.rl, f.i, f.out) => InHand(x, gs[Len(fs) + 1].rl, gs[Len(fs) + 1].i, gs[Len(fs) + 1].out)
    BY <1>1
  <2> QED BY <1>1, <2>1, <2>2, <2>3, Zenon
<1> QED BY <1>g, <1>2 DEF NothingLost

LEMMA LostPop ==
  ASSUME NEW a, NEW b, NEW S, NEW fs \in Seq(S), fs # <<>>, NEW rs, NEW m, NEW o,
         NEW f, f = fs[Len(fs)], NEW new, NothingLost(a, b, fs, rs, m, o),
         \A x : InHand(x, rs, m, o) \/ InHand(x, f.rl, f.i, f.out) => InHand(x, f.rl, f.i, new)
  PROVE  NothingLost(a, b, Front(fs), f.rl, f.i, new)
<1>g. PICK gs : gs = Front(fs)
  OBVIOUS
<1>1. /\ Len(gs) = Len(fs) - 1 /\ Len(fs) \in Nat
      /\ \A n \in 1..(Len(fs) - 1) : gs[n] = fs[n]
  BY <1>g, FrontProperties
<1>2. ASSUME NEW x \in Offsets(a)
      PROVE  \/ x \in Offsets(b) \/ InHand(x, f.rl, f.i, new)
             \/ \E n \in 1..Len(gs) : InHand(x, gs[n].rl, gs[n].i, gs[n].out)
  <2>1. \/ x \in Offsets(b) \/ InHand(x, rs, m, o)
        \/ \E n \in 1..Len(fs) : InHand(x, fs[n].rl, fs[n].i, fs[n].out)
    BY DEF NothingLost
  <2>2. ASSUME NEW n \in 1..Len(fs), InHand(x, fs[n].rl, fs[n].i, fs[n].out)
        PROVE  \/ InHand(x, f.rl, f.i, new)
               \/ \E k \in 1..Len(gs) : InHand(x, gs[k].rl, gs[k].i, gs[k].out)
    <3>1. CASE n = Len(fs)
      <4>1. InHand(x, f.rl, f.i, f.out)
        BY <2>2, <3>1
      <4> QED BY <4>1
    <3>2. CASE n # Len(fs)
      <4>1. n \in 1..Len(gs) /\ gs[n] = fs[n]
        BY <1>1, <3>2
      <4>2. InHand(x, gs[n].rl, gs[n].i, gs[n].out)
        BY <2>2, <4>1
      <4> QED BY <4>1, <4>2
    <3> QED BY <3>1, <3>2
  <2> QED BY <2>1, <2>2
<1> QED BY <1>g, <1>2 DEF NothingLost

\* What is behind the current range of ll is left to a call of its own.
LEMMA SubtractCalls ==
  ASSUME IndexInv, SubtractInv, SubtractStep, Position(rl[i], ll[j]) = "around",
         NEW c \in Int, NEW d \in Int, NEW g \in Int, NEW h \in Int,
         rl[i].start = c, rl[i].end = d, ll[j].start - 1 = g, ll[j].end + 1 = h,
         h <= d, NEW f, f = [rl |-> rl, ll |-> ll, i |-> i + 1, j |-> j + 1,
                             out |-> out \o Piece(c, g)],
         frames' = Append(frames, f), rl' = <<Interval(h, d)>>, ll' = Rest(ll, j + 1),
         out' = <<>>, i' = 1, j' = 1
  PROVE  SubtractInv'
<1> PICK a, b : a = Receiver /\ b = Argument
  OBVIOUS
<1>1. /\ rl \in Seq(RangeType) /\ ll \in Seq(RangeType)
      /\ i \in 1..Len(rl) /\ j \in 1..Len(ll)
  BY DEF IndexInv, ListsOK, IndexesInRange, SubtractStep
<1>2. op = "subtract" /\ pc = "loop" /\ pc' = "loop" /\ op' = op /\ given' = given
  BY DEF SubtractStep, SubtractAround, Looping, Continue
<1>3. /\ a \in Seq(RangeType) /\ b \in Seq(RangeType) /\ Level(a, b, rl, ll, i, j, out)
      /\ Levels(a, b, frames, rl) /\ NothingLost(a, b, frames, rl, i, out)
  BY <1>2 DEF SubtractInv
<1>0. b \in Seq(RangeType) /\ Level(a, b, rl, ll, i, j, out)
  BY <1>3
<1>4. out \in Seq(RangeType) /\ Apart(rl, 0) /\ Apart(ll, 0) /\ Kept(rl, i, out)
      /\ Offsets(ll) \subseteq Offsets(b)
  BY <1>3 DEF Level, Kept
<1>l. PICK r, l : r = rl[i] /\ l = ll[j]
  OBVIOUS
<1>5. r \in RangeType /\ l \in RangeType /\ r.start <= r.end /\ l.start <= l.end
  BY <1>1, <1>4, <1>l, ElementTyped, InApart
<1>p. PICK u, v \in Int : l.start = u /\ l.end = v /\ g = u - 1 /\ h = v + 1
  BY <1>5, <1>l DEF RangeType
<1>6. c <= u /\ u <= v /\ v <= d
  BY <1>5, <1>l, <1>p, PositionIs
<1>7. Encloses(rl[i], ll[j])
  BY <1>6, <1>l, <1>p DEF Encloses
<1>e. PICK e : e = Interval(h, d)
  OBVIOUS
<1>8. e \in RangeType /\ e.start = h /\ e.end = d
  BY <1>e, RangeTyped DEF Interval
<1>o. PICK one, rest : one = <<e>> /\ rest = Rest(ll, j + 1)
  OBVIOUS
<1>9. /\ Level(a, b, one, rest, 1, 1, <<>>)
      /\ one \in Seq(RangeType) /\ Len(one) = 1 /\ one[1] = e
      /\ Coming(one, 1) = e.start..e.end
  <2>1. e.start <= e.end /\ e.start = ll[j].end + 1 /\ e.end = rl[i].end
    BY <1>8
  <2>2. e \in RangeType
    BY <1>8
  <2>3. Level(a, b, <<e>>, Rest(ll, j + 1), 1, 1, <<>>)
    BY ONLY <1>0, <1>1, <1>7, <2>1, <2>2, ChildLevel
  <2>4. /\ <<e>> \in Seq(RangeType) /\ Len(<<e>>) = 1 /\ <<e>>[1] = e
        /\ Apart(<<e>>, 0) /\ Offsets(<<e>>) = e.start..e.end
    BY ONLY <2>1, <2>2, SingleList
  <2>5. Coming(one, 1) = Offsets(one)
    <3>1. one \in Seq(RangeType) /\ Apart(one, 0) /\ 1 \in 1..(Len(one) + 1)
      BY ONLY <1>o, <2>4
    <3> QED BY ONLY <3>1, ComingIs
  <2> QED BY ONLY <1>o, <2>3, <2>4, <2>5
<1>q. PICK q : q = Piece(c, g)
  OBVIOUS
<1>10. q \in Seq(RangeType) /\ Apart(q, 0) /\ Offsets(q) = c..g
  BY <1>q, PieceIs
<1>11. /\ Level(a, b, rl, ll, i + 1, j + 1, out \o q)
       /\ Offsets(out \o q) = Offsets(out) \cup Offsets(q)
  <2>1. Offsets(q) \subseteq rl[i].start..rl[i].end
    <3>1. c..g \subseteq c..d
      BY ONLY <1>6, <1>p, c \in Int, d \in Int, u \in Int, v \in Int
    <3> QED BY ONLY <1>10, <3>1, rl[i].start = c, rl[i].end = d
  <2>2. ASSUME Part(a, b), NEW x \in Offsets(q), x \in Offsets(b) PROVE FALSE
    <3>1. x \in Int /\ ll[j].start <= x
      BY <1>1, <1>3, <2>1, <2>2, OfPart
    <3>2. x \in c..g /\ u <= x
      BY <1>10, <1>l, <1>p, <2>2, <3>1
    <3> QED BY ONLY <1>p, <3>2, c \in Int, u \in Int
  <2>3. Part(a, b) => Offsets(q) \cap Offsets(b) = {}
    BY <2>2
  <2>4. ll[j].end <= rl[i].end
    <3>1. ll[j].end = v
      BY <1>l, <1>p
    <3> QED BY <1>6, <3>1
  <2>5. q \in Seq(RangeType) /\ Apart(q, 0)
    BY <1>10
  <2> QED BY ONLY <1>0, <1>1, <2>1, <2>3, <2>4, <2>5, LevelMovesBoth
<1>12. /\ f.rl = rl /\ f.ll = ll /\ f.i = i + 1 /\ f.j = j + 1 /\ f.out = out \o q
  BY <1>q
<1>13. Waits(f, one)
  <2>1. f.i - 1 = i
    BY <1>1, <1>12
  <2>2. f.rl[f.i - 1].start <= e.start /\ e.end <= f.rl[f.i - 1].end
    BY <1>6, <1>8, <1>12, <1>p, <2>1
  <2>3. ASSUME NEW x \in Offsets(f.out) PROVE x < e.start
    <3>1. x \in Offsets(out) \/ x \in c..g
      BY <1>10, <1>11, <1>12
    <3>2. x \in Offsets(out) => x \in Int /\ x < c
      BY <1>1, <1>4, KeptBefore
    <3>3. x \in Int /\ x < h
      BY ONLY <1>6, <1>p, <3>1, <3>2, c \in Int, d \in Int, u \in Int, v \in Int
    <3> QED BY <1>8, <3>3
  <2> QED BY <1>1, <1>9, <1>12, <2>1, <2>2, <2>3 DEF Waits
<1>14. PICK S : frames \in Seq(S) /\ f \in S
  <2>1. PICK T : frames \in Seq(T)
    BY DEF IndexInv, ListsOK
  <2>2. frames \in Seq(T \cup {f}) /\ f \in T \cup {f}
    BY ONLY <2>1
  <2> QED BY <2>2
<1>15. Levels(a, b, Append(frames, f), one)
  <2>1. Levels(a, b, frames, f.rl) /\ Level(a, b, f.rl, f.ll, f.i, f.j, f.out)
    BY <1>3, <1>11, <1>12
  <2> QED BY ONLY <1>13, <1>14, <2>1, LevelsPush
<1>16. ASSUME NEW x, InHand(x, rl, i, out)
       PROVE  \/ x \in Offsets(b) \/ InHand(x, f.rl, f.i, f.out) \/ InHand(x, one, 1, <<>>)
  <2>1. CASE x \in Offsets(out)
    BY <1>11, <1>12, <2>1 DEF InHand
  <2>2. CASE x \in Coming(rl, i)
    <3>1. Coming(rl, i) = (rl[i].start..rl[i].end) \cup Coming(rl, i + 1)
      <4>1. i \in 1..(Len(rl) + 1) /\ i <= Len(rl)
        BY ONLY <1>1
      <4> QED BY <1>1, <1>4, <4>1, ComingIs
    <3>2. CASE x \in Coming(rl, i + 1)
      BY <1>12, <3>2 DEF InHand
    <3>3. CASE x \in c..d
      <4>1. x \in c..g \/ x \in u..v \/ x \in h..d
        BY ONLY <1>p, <3>3, c \in Int, d \in Int, u \in Int, v \in Int
      <4>2. CASE x \in c..g
        BY <1>10, <1>11, <1>12, <4>2 DEF InHand
      <4>3. CASE x \in u..v
        <5>1. u..v \subseteq Offsets(ll)
          BY <1>1, <1>l, <1>p, InOffsets
        <5> QED BY <1>4, <4>3, <5>1
      <4>4. CASE x \in h..d
        BY <1>8, <1>9, <4>4 DEF InHand
      <4> QED BY <4>1, <4>2, <4>3, <4>4
    <3> QED BY <2>2, <3>1, <3>2, <3>3
  <2> QED BY <1>16, <2>1, <2>2 DEF InHand
<1>17. NothingLost(a, b, Append(frames, f), one, 1, <<>>)
  BY ONLY <1>3, <1>14, <1>16, LostPush
<1>18. Receiver' = a /\ Argument' = b /\ rl' = one /\ ll' = rest
  BY <1>2, <1>e, <1>o DEF Receiver, Argument
<1> QED BY <1>2, <1>3, <1>9, <1>15, <1>17, <1>18 DEF SubtractInv

LEMMA SubtractStepInv ==
  ASSUME IndexInv, SubtractInv, SubtractStep
  PROVE  SubtractInv'
<1>1. /\ rl \in Seq(RangeType) /\ ll \in Seq(RangeType)
      /\ i \in 1..Len(rl) /\ j \in 1..Len(ll)
  BY DEF IndexInv, ListsOK, IndexesInRange, SubtractStep
<1>p. PICK c, d, g, h \in Int :
         rl[i].start = c /\ rl[i].end = d /\ ll[j].start - 1 = g /\ ll[j].end + 1 = h
  <2>1. PICK u, v \in Int : ll[j].start = u /\ ll[j].end = v
    BY <1>1, ElementTyped
  <2>2. rl[i].start \in Int /\ rl[i].end \in Int
    BY <1>1, ElementTyped
  <2>3. u - 1 \in Int /\ v + 1 \in Int
    OBVIOUS
  <2> QED BY <2>1, <2>2, <2>3
<1>2. CASE Position(rl[i], ll[j]) = "around"
  <2>1. SubtractAround(rl[i], ll[j])
    BY <1>2 DEF SubtractStep
  <2>f. PICK f : f = [rl |-> rl, ll |-> ll, i |-> i + 1, j |-> j + 1,
                      out |-> out \o Piece(c, g)]
    OBVIOUS
  <2>2. \/ /\ Piece(h, d) = <<>> \/ j = Len(ll)
           /\ out' = out \o Piece(c, g) \o Piece(h, d) /\ i' = i + 1 /\ j' = j + 1
           /\ UNCHANGED <<rl, ll, frames>>
        \/ /\ h <= d /\ frames' = Append(frames, f) /\ rl' = <<Interval(h, d)>>
           /\ ll' = Rest(ll, j + 1) /\ out' = <<>> /\ i' = 1 /\ j' = 1
    <3>b. PICK before, behind : before = Piece(c, g) /\ behind = Piece(h, d)
      OBVIOUS
    <3>0. /\ before = IF ll[j].start - 1 >= rl[i].start
                      THEN <<Interval(rl[i].start, ll[j].start - 1)>> ELSE <<>>
          /\ behind = IF rl[i].end >= ll[j].end + 1
                      THEN <<Interval(ll[j].end + 1, rl[i].end)>> ELSE <<>>
      BY <1>p, <3>b DEF Piece
    <3>1. IF behind = <<>> \/ j = Len(ll)
          THEN /\ out' = out \o before \o behind
               /\ Continue(i + 1, j + 1)
               /\ UNCHANGED <<rl, ll, frames>>
          ELSE /\ frames' = Append(frames, [rl |-> rl, ll |-> ll, i |-> i + 1, j |-> j + 1,
                                            out |-> out \o before])
               /\ rl' = behind
               /\ ll' = Rest(ll, j + 1)
               /\ out' = <<>>
               /\ Continue(1, 1)
      BY <2>1, <3>0, Zenon DEF SubtractAround
    <3>2. CASE behind = <<>> \/ j = Len(ll)
      BY <3>1, <3>2, <3>b, Zenon DEF Continue
    <3>3. CASE ~(behind = <<>> \/ j = Len(ll))
      <4>1. /\ frames' = Append(frames, f) /\ rl' = behind
            /\ ll' = Rest(ll, j + 1) /\ out' = <<>> /\ i' = 1 /\ j' = 1
        BY <2>f, <3>1, <3>3, <3>b, Zenon DEF Continue
      <4>2. h <= d /\ behind = <<Interval(h, d)>>
        BY ONLY <3>3, <3>b, c \in Int, d \in Int, h \in Int DEF Piece
      <4> QED BY <4>1, <4>2, Zenon
    <3> QED BY <3>2, <3>3
  <2>3. CASE /\ Piece(h, d) = <<>> \/ j = Len(ll)
             /\ out' = out \o Piece(c, g) \o Piece(h, d) /\ i' = i + 1 /\ j' = j + 1
             /\ UNCHANGED <<rl, ll, frames>>
    BY <1>2, <1>p, <2>3, SubtractThrough, Zenon
  <2>4. CASE /\ h <= d /\ frames' = Append(frames, f) /\ rl' = <<Interval(h, d)>>
             /\ ll' = Rest(ll, j + 1) /\ out' = <<>> /\ i' = 1 /\ j' = 1
    BY <1>2, <1>p, <2>4, <2>f, SubtractCalls, Zenon
  <2> QED BY <2>2, <2>3, <2>4
<1>3. CASE Position(rl[i], ll[j]) # "around"
  BY <1>3, SubtractCut
<1> QED BY <1>2, <1>3

\* The first call returns.
LEMMA SubtractDone ==
  ASSUME IndexInv, SubtractInv, SubtractReturn, frames = <<>>
  PROVE  SubtractInv'
<1> PICK a, b : a = Receiver /\ b = Argument
  OBVIOUS
<1>1. rl \in Seq(RangeType) /\ i \in 1..(Len(rl) + 1) /\ i > Len(rl)
  BY DEF IndexInv, ListsOK, IndexesInRange, SubtractReturn
<1>2. op = "subtract" /\ pc = "loop" /\ pc' = "done" /\ op' = op /\ given' = given
      /\ out' = Flatten(out)
  BY DEF SubtractReturn, Looping, Done
<1>3. /\ a \in Seq(RangeType) /\ b \in Seq(RangeType) /\ Level(a, b, rl, ll, i, j, out)
      /\ NothingLost(a, b, frames, rl, i, out)
  BY <1>2 DEF SubtractInv
<1>4. /\ Apart(rl, 0) /\ Kept(rl, i, out) /\ Offsets(rl) \subseteq Offsets(a)
      /\ out \in Seq(RangeType) /\ Apart(out, 0)
  BY <1>3 DEF Level, Kept
<1>5. out' \in Seq(RangeType) /\ Normal(out') /\ Offsets(out') = Offsets(out)
  BY <1>2, <1>4, FlattenApart
<1>6. Offsets(out) \subseteq Offsets(a)
  <2>1. \A x \in Offsets(out) : \E k \in 1..Len(rl) : x \in rl[k].start..rl[k].end
    BY <1>4 DEF Kept
  <2> QED BY <1>1, <1>4, <2>1, InOffsets
<1>7. ASSUME NEW x \in Offsets(a), x \notin Offsets(b) PROVE x \in Offsets(out)
  <2>1. Coming(rl, i) = {}
    BY <1>1, <1>4, ComingIs
  <2>2. ~ \E n \in 1..Len(frames) : InHand(x, frames[n].rl, frames[n].i, frames[n].out)
    OBVIOUS
  <2>3. InHand(x, rl, i, out)
    BY <1>3, <1>7, <2>2 DEF NothingLost
  <2> QED BY <2>1, <2>3 DEF InHand
<1>8. Part(a, b) => Offsets(out) \cap Offsets(b) = {}
  BY <1>3 DEF Level
<1>9. Receiver' = a /\ Argument' = b
  BY <1>2 DEF Receiver, Argument
<1>10. Normal(a) /\ Normal(b) /\ Offsets(b) \subseteq Offsets(a)
          => Offsets(out') = Offsets(a) \ Offsets(b)
  BY <1>5, <1>6, <1>7, <1>8 DEF Part
<1>11. SubtractPartExact'
  BY <1>5, <1>6, <1>7, <1>9, <1>10 DEF SubtractPartExact
<1> QED BY <1>2, <1>3, <1>9, <1>11 DEF SubtractInv

\* A call made by another one returns to it.
LEMMA SubtractResumes ==
  ASSUME IndexInv, SubtractInv, SubtractReturn, frames # <<>>
  PROVE  SubtractInv'
<1> PICK a, b : a = Receiver /\ b = Argument
  OBVIOUS
<1>1. rl \in Seq(RangeType) /\ i \in 1..(Len(rl) + 1) /\ i > Len(rl)
  BY DEF IndexInv, ListsOK, IndexesInRange, SubtractReturn
<1>s. PICK S : frames \in Seq(S)
  BY DEF IndexInv, ListsOK
<1>f. PICK f : f = frames[Len(frames)]
  OBVIOUS
<1>2. Len(frames) \in 1..Len(frames)
  BY <1>s, FrontProperties
<1>3. /\ op = "subtract" /\ pc = "loop" /\ pc' = "loop" /\ op' = op /\ given' = given
      /\ rl' = f.rl /\ ll' = f.ll /\ i' = f.i /\ j' = f.j
      /\ out' = f.out \o Flatten(out) /\ frames' = Front(frames)
  BY <1>f DEF SubtractReturn, Looping, Continue, Last
<1>4. /\ a \in Seq(RangeType) /\ b \in Seq(RangeType) /\ Level(a, b, rl, ll, i, j, out)
      /\ Levels(a, b, frames, rl) /\ NothingLost(a, b, frames, rl, i, out)
  BY <1>3 DEF SubtractInv
<1>5. Level(a, b, f.rl, f.ll, f.i, f.j, f.out) /\ Waits(f, rl)
  BY <1>2, <1>4, <1>f DEF Levels
<1>6. f.rl \in Seq(RangeType) /\ f.i \in 1..(Len(f.rl) + 1)
  BY <1>2, <1>f DEF IndexInv, ListsOK, FrameOK
<1>7. /\ Apart(rl, 0) /\ Kept(rl, i, out) /\ out \in Seq(RangeType) /\ Apart(out, 0)
  BY <1>4 DEF Level, Kept
<1>p. PICK p : p = Flatten(out)
  OBVIOUS
<1>8. p \in Seq(RangeType) /\ Apart(p, 0) /\ Offsets(p) = Offsets(out)
  BY <1>7, <1>p, FlattenApart, NormalApart
<1>k. PICK k : k = f.i - 1
  OBVIOUS
<1>9. /\ Len(rl) = 1 /\ k \in 1..Len(f.rl) /\ k < f.i
      /\ f.rl[k].start <= rl[1].start /\ rl[1].end <= f.rl[k].end
      /\ \A x \in Offsets(f.out) : x < rl[1].start
  BY <1>5, <1>6, <1>k DEF Waits
<1>c. PICK c, d, u, v \in Int :
         rl[1].start = c /\ rl[1].end = d /\ f.rl[k].start = u /\ f.rl[k].end = v
  <2>1. 1 \in 1..Len(rl)
    BY <1>9
  <2> QED BY <1>1, <1>6, <1>9, <2>1, ElementTyped
<1>10. ASSUME NEW y \in Offsets(p) PROVE y \in c..d /\ y \in u..v
  <2>1. PICK n \in 1..Len(rl) : y \in rl[n].start..rl[n].end
    BY <1>7, <1>8 DEF Kept
  <2>2. n = 1
    BY <1>9
  <2>3. y \in c..d
    BY <1>c, <2>1, <2>2
  <2>4. u <= c /\ d <= v
    BY <1>9, <1>c
  <2> QED BY <2>3, <2>4
<1>11. \A x \in Offsets(f.out), y \in Offsets(p) : x < y
  <2> SUFFICES ASSUME NEW x \in Offsets(f.out), NEW y \in Offsets(p) PROVE x < y
    OBVIOUS
  <2>1. f.out \in Seq(RangeType)
    BY <1>5 DEF Level, Kept
  <2>2. x \in Int
    BY <2>1, InOffsets
  <2>3. x < c /\ c <= y /\ y \in Int
    BY <1>9, <1>10, <1>c
  <2> QED BY <2>2, <2>3
<1>12. \A y \in Offsets(p) : \E n \in 1..Len(f.rl) :
          n < f.i /\ y \in f.rl[n].start..f.rl[n].end
  BY <1>9, <1>10, <1>c
<1>13. /\ Kept(f.rl, f.i, f.out \o p)
       /\ Offsets(f.out \o p) = Offsets(f.out) \cup Offsets(p)
  <2>1. Kept(f.rl, f.i, f.out)
    BY <1>5 DEF Level
  <2> QED BY ONLY <1>6, <1>8, <1>11, <1>12, <2>1, KeptMore
<1>14. Level(a, b, f.rl, f.ll, f.i, f.j, f.out \o p)
  <2>1. ASSUME Part(a, b) PROVE Offsets(f.out \o p) \cap Offsets(b) = {}
    BY <1>4, <1>5, <1>8, <1>13, <2>1 DEF Level
  <2> QED BY <1>5, <1>13, <2>1 DEF Level
<1>15. Levels(a, b, Front(frames), f.rl)
  <2>1. Levels(a, b, Front(frames), frames[Len(frames)].rl)
    BY <1>4, <1>s, LevelsPop
  <2> QED BY <1>f, <2>1
<1>16. NothingLost(a, b, Front(frames), f.rl, f.i, f.out \o p)
  <2>1. Coming(rl, i) = {}
    BY <1>1, <1>7, ComingIs
  <2>2. \A x : InHand(x, rl, i, out) \/ InHand(x, f.rl, f.i, f.out)
                  => InHand(x, f.rl, f.i, f.out \o p)
    BY ONLY <1>8, <1>13, <2>1 DEF InHand
  <2> QED BY <1>4, <1>s, <1>f, <2>2, LostPop
<1>17. Receiver' = a /\ Argument' = b /\ out' = f.out \o p
  BY <1>3, <1>p DEF Receiver, Argument
<1> QED BY <1>3, <1>4, <1>14, <1>15, <1>16, <1>17 DEF SubtractInv

LEMMA CallSubtract ==
  ASSUME NEW a \in Lists, NEW b \in Lists, Subtract(a, b)
  PROVE  SubtractInv'
<1>1. /\ a \in Seq(RangeType) /\ b \in Seq(RangeType) /\ Apart(a, 0) /\ Apart(b, 0)
      /\ 1 \in 1..(Len(a) + 1) /\ 1 \in 1..(Len(b) + 1)
  BY ListsAssumption
<1>2. rl' = a /\ ll' = b /\ given' = <<a, b>> /\ j' = 1 /\ frames' = <<>> /\ op' = "subtract"
  BY DEF Subtract, Start
<1>3. Receiver' = a /\ Argument' = b
  BY <1>2 DEF Receiver, Argument
<1>4. CASE b = <<>>
  <2>1. pc' = "done" /\ out' = a
    BY <1>4 DEF Subtract, Shortcut
  <2>2. Offsets(b) = {}
    BY <1>4, EmptyList
  <2>3. SubtractPartExact'
    BY <1>3, <2>1, <2>2 DEF SubtractPartExact
  <2> QED BY <1>1, <1>3, <2>1, <2>3 DEF SubtractInv
<1>5. CASE b # <<>>
  <2>1. pc' = "loop" /\ i' = 1 /\ out' = <<>>
    BY <1>5 DEF Subtract, Enter
  <2>2. Coming(a, 1) = Offsets(a) /\ Coming(b, 1) = Offsets(b)
    BY <1>1, ComingIs
  <2>3. Kept(a, 1, <<>>) /\ Offsets(<<>>) = {}
    BY EmptyList DEF Kept, Apart
  <2>4. Part(a, b) => Nested(a, b, 1, 1)
    BY <1>1, PartNested
  <2>5. Passed(b, a, b, 1, 1)
    BY <2>2 DEF Passed
  <2>6. Level(a, b, a, b, 1, 1, <<>>)
    BY <1>1, <2>3, <2>4, <2>5 DEF Level, Part
  <2>7. Levels(a, b, <<>>, a)
    BY DEF Levels
  <2>8. NothingLost(a, b, <<>>, a, 1, <<>>)
    BY <2>2 DEF NothingLost, InHand
  <2> QED BY <1>1, <1>2, <1>3, <2>1, <2>6, <2>7, <2>8 DEF SubtractInv
<1> QED BY <1>4, <1>5

LEMMA StepSubtract == IndexInv /\ SubtractInv /\ [Next]_vars => SubtractInv'
<1> SUFFICES ASSUME IndexInv, SubtractInv, [Next]_vars PROVE SubtractInv'
  OBVIOUS
<1>1. CASE Call
  <2>1. ASSUME NEW a \in Lists, NEW b \in Lists, Subtract(a, b) PROVE SubtractInv'
    BY <2>1, CallSubtract
  <2>2. CASE op' # "subtract"
    BY <2>2 DEF SubtractInv
  <2>3. CASE op' = "subtract"
    BY <1>1, <2>1, <2>3 DEF Call, RangesContain, Intersection, InplaceUnion, Union, Start
  <2> QED BY <2>2, <2>3
<1>2. CASE SubtractStep
  BY <1>2, SubtractStepInv
<1>3. CASE SubtractRest
  BY <1>3, SubtractRestInv
<1>4. CASE SubtractReturn
  BY <1>4, SubtractDone, SubtractResumes
<1>5. CASE Step /\ ~SubtractStep /\ ~SubtractRest /\ ~SubtractReturn
  <2>1. op' # "subtract"
    BY <1>5 DEF Step, ContainsStep, ContainsReturn, IntersectionStep, IntersectionReturn,
       UnionStep, UnionReturn, InplaceUnionStep, Rejoin, Looping, Continue, Done
  <2> QED BY <2>1 DEF SubtractInv
<1>6. CASE Return
  BY <1>6 DEF Return, SubtractInv
<1>7. CASE UNCHANGED vars
  BY <1>7 DEF vars, SubtractInv, SubtractPartExact, Finished, Receiver, Argument
<1> QED BY <1>1, <1>2, <1>3, <1>4, <1>5, <1>6, <1>7 DEF Next

\* RangeList.Subtract (fec/util.go:275-324) removes nothing but what it is told
\* to and adds nothing, and what it returns is exact if the argument is a part
\* of the receiver and both are normal, for lists of any length and however
\* many of its own calls wait.
THEOREM SubtractPartIsExact == Spec => []SubtractPartExact
<1>1. Init => SubtractInv
  BY DEF Init, SubtractInv
<1>2. SubtractInv => SubtractPartExact
  BY DEF SubtractInv, SubtractPartExact, Finished
<1> QED BY <1>1, <1>2, InitIndex, StepIndex, StepSubtract, PTL DEF Spec

-----------------------------------------------------------------------------
(* InplaceUnion: the inductive invariant *)

\* The receiver between two iterations, at range m: up to there the ranges
\* neither start nor end before the one in front of them, and only range m,
\* which may have grown, may reach the ranges behind it.
Shape(rs, m) ==
  /\ \A k \in 1..Len(rs) : rs[k].start <= rs[k].end
  /\ \A k, l \in 1..Len(rs) :
        k < l => /\ rs[k].start <= rs[l].start
                 /\ k < m => rs[k].end <= rs[l].end
                 /\ l > m /\ k # m => rs[k].end < rs[l].start

\* The same before range m is merged into the one in front of it, which may
\* reach as far.
Unmerged(rs, m) ==
  /\ \A k \in 1..Len(rs) : rs[k].start <= rs[k].end
  /\ \A k, l \in 1..Len(rs) :
        k < l => /\ rs[k].start <= rs[l].start
                 /\ k < m - 1 => rs[k].end <= rs[l].end
                 /\ l > m /\ k # m /\ k # m - 1 => rs[k].end < rs[l].start

\* No range in front of m starts or ends behind range k of the argument.
Below(rs, m, list, k) ==
  k <= Len(list) =>
     \A n \in 1..Len(rs) : n < m => rs[n].start <= list[k].start /\ rs[n].end <= list[k].end

\* While it runs, the receiver and what is still to come are the union.
InplaceInv ==
  op = "inplace" =>
    /\ pc = "loop" =>
         /\ Apart(ll, 0)
         /\ Shape(rl, i) /\ Below(rl, i, ll, j)
         /\ Offsets(rl) \cup Coming(ll, j) = Offsets(Receiver) \cup Offsets(Argument)
    /\ pc = "done" => InplaceUnionExact

-----------------------------------------------------------------------------
(* What an iteration does to the receiver *)

LEMMA ShapeUnmerged ==
  ASSUME NEW rs \in Seq(RangeType), NEW m \in Int, Shape(rs, m)
  PROVE  Unmerged(rs, m) /\ Unmerged(rs, m + 1)
<1>1. Unmerged(rs, m)
  BY DEF Shape, Unmerged
<1>2. \A k \in Int : (k < m + 1 - 1 <=> k < m) /\ (k > m + 1 => k > m) /\ (k = m + 1 - 1 <=> k = m)
  OBVIOUS
<1>3. Unmerged(rs, m + 1)
  BY <1>2 DEF Shape, Unmerged
<1> QED BY <1>1, <1>3

\* What an iteration leaves after the merge with the range in front.
LEMMA Rejoined ==
  ASSUME NEW rs \in Seq(RangeType), NEW m \in 1..(Len(rs) + 1), Unmerged(rs, m)
  PROVE  LET joined == IF Touches(rs, m) THEN Absorb(rs, m) ELSE rs
             at == IF Touches(rs, m) THEN m - 1 ELSE m
         IN  /\ joined \in Seq(RangeType) /\ at \in 1..(Len(joined) + 1)
             /\ Shape(joined, at)
             /\ Offsets(joined) = Offsets(rs)
             /\ at <= m
             /\ \A k \in 1..Len(joined) : k < at => k \in 1..Len(rs) /\ joined[k] = rs[k]
             /\ rs # <<>> => joined # <<>>
<1>1. PICK n \in Nat : n = Len(rs)
  OBVIOUS
<1>2. CASE Touches(rs, m)
  <2>1. m > 1 /\ m <= n /\ m - 1 \in 1..n /\ m \in 1..n
    BY <1>1, <1>2 DEF Touches
  <2> PICK p \in 1..n : p = m - 1 /\ m = p + 1
    BY <2>1
  <2> PICK a, b, c, d \in Int :
         rs[p].start = a /\ rs[p].end = b /\ rs[m].start = c /\ rs[m].end = d
    BY <1>1, <2>1, ElementTyped
  <2>2. a <= b /\ c <= d /\ a <= c /\ c <= b + 1
    <3>1. p < m
      OBVIOUS
    <3> QED BY <1>1, <1>2, <2>1, <3>1 DEF Unmerged, Touches
  <2> PICK e \in Int : e = Greatest(b, d) /\ b <= e /\ d <= e /\ (e = b \/ e = d)
    BY SMTT(30) DEF Greatest
  <2>r. PICK r : r = [rs[p] EXCEPT !.end = e]
    OBVIOUS
  <2>3. r \in RangeType /\ r.start = a /\ r.end = e
    <3>1. rs[p] \in RangeType
      BY <1>1, ElementTyped
    <3> QED BY <2>r, <3>1 DEF RangeType
  <2>g. PICK grown : grown = [rs EXCEPT ![p] = r]
    OBVIOUS
  <2>4. grown = [rs EXCEPT ![m - 1].end = Greatest(@, rs[m].end)]
    BY <2>r, <2>g
  <2>5. /\ grown \in Seq(RangeType) /\ Len(grown) = n /\ grown[p] = r
        /\ \A k \in 1..n : k # p => grown[k] = rs[k]
        /\ Offsets(grown) = Offsets(rs) \cup (r.start..r.end)
    <3>1. /\ grown \in Seq(RangeType) /\ Len(grown) = n /\ grown[p] = r
          /\ \A k \in 1..n : k # p => grown[k] = rs[k]
      <4>1. p \in 1..Len(rs) /\ r \in RangeType
        BY <1>1, <2>3
      <4> QED BY ONLY rs \in Seq(RangeType), <1>1, <2>g, <4>1
    <3>2. /\ p \in 1..Len(rs) /\ Len(grown) = Len(rs)
          /\ \A k \in 1..Len(rs) : k # p => grown[k] = rs[k]
          /\ grown[p].start <= rs[p].start /\ rs[p].end <= grown[p].end
      BY <1>1, <2>3, <3>1
    <3>3. Offsets(grown) = Offsets(rs) \cup (grown[p].start..grown[p].end)
      BY ONLY rs \in Seq(RangeType), <3>1, <3>2, Replaced
    <3> QED BY <3>1, <3>3
  <2>j. PICK joined : joined = Absorb(rs, m)
    OBVIOUS
  <2>6. joined = RemoveAt(grown, m)
    BY <2>4, <2>j DEF Absorb
  <2>7. /\ joined \in Seq(RangeType) /\ Len(joined) = n - 1
        /\ \A k \in 1..(n - 1) : joined[k] = IF k < m THEN grown[k] ELSE grown[k + 1]
    <3>1. m \in 1..Len(grown) /\ grown \in Seq(RangeType)
      BY <2>1, <2>5
    <3>2. /\ joined \in Seq(RangeType) /\ Len(joined) = Len(grown) - 1
          /\ \A k \in 1..(Len(grown) - 1) :
                joined[k] = IF k < m THEN grown[k] ELSE grown[k + 1]
      BY <2>6, <3>1, RemoveAtProperties
    <3> QED BY <2>5, <3>2
  \* Where the ranges of joined come from.
  <2> DEFINE from(k) == IF k < m THEN k ELSE k + 1
  <2>8. ASSUME NEW k \in 1..(n - 1)
        PROVE  /\ from(k) \in 1..n /\ from(k) # m /\ joined[k] = grown[from(k)]
               /\ k = p <=> from(k) = p
               /\ k < p <=> from(k) < p
               /\ k > p <=> from(k) > m
    <3>1. joined[k] = IF k < m THEN grown[k] ELSE grown[k + 1]
      BY <2>7
    <3>2. CASE k < m
      <4>1. from(k) = k /\ k \in 1..n /\ ~(k > p)
        BY <3>2
      <4> QED BY <3>1, <3>2, <4>1
    <3>3. CASE ~(k < m)
      <4>1. from(k) = k + 1
        BY <3>3
      <4>2. k + 1 \in 1..n /\ k > p /\ k + 1 > m /\ k # p /\ k + 1 # p
        BY ONLY k \in 1..(n - 1), n \in Nat, p \in 1..n, m = p + 1, <3>3
      <4> HIDE DEF from
      <4> QED BY <2>1, <3>1, <3>3, <4>1, <4>2
    <3> QED BY <3>2, <3>3
  <2>9. ASSUME NEW k \in 1..(n - 1), NEW l \in 1..(n - 1), k < l
        PROVE  from(k) < from(l)
    BY <2>9 DEF from
  <2> HIDE DEF from
  <2>10. ASSUME NEW k \in 1..(n - 1)
         PROVE  /\ joined[k].start = rs[from(k)].start
                /\ k # p => joined[k].end = rs[from(k)].end
                /\ rs[from(k)].end <= joined[k].end
    <3>1. CASE k = p
      <4>1. joined[k] = r /\ from(k) = p
        BY <2>5, <2>8, <3>1
      <4> QED BY <2>3, <3>1, <4>1
    <3>2. CASE k # p
      <4>1. from(k) \in 1..n /\ from(k) # p /\ joined[k] = grown[from(k)]
        BY <2>8, <3>2
      <4>2. joined[k] = rs[from(k)]
        BY <2>5, <4>1
      <4>3. PICK f \in Int : rs[from(k)].end = f
        BY <1>1, <4>1, ElementTyped
      <4>4. f <= f
        OBVIOUS
      <4> QED BY <3>2, <4>2, <4>3, <4>4
    <3> QED BY <3>1, <3>2
  <2>11. Shape(joined, p)
    <3>1. ASSUME NEW k \in 1..(n - 1) PROVE joined[k].start <= joined[k].end
      <4>1. from(k) \in 1..n
        BY <2>8
      <4> PICK s, f, g \in Int : rs[from(k)].start = s /\ rs[from(k)].end = f /\ joined[k].end = g
        BY <1>1, <2>7, <4>1, ElementTyped
      <4>2. s <= f
        BY <1>1, <4>1 DEF Unmerged
      <4>3. joined[k].start = s /\ f <= g
        BY <2>10
      <4>4. s <= g
        BY ONLY s \in Int, f \in Int, g \in Int, <4>2, <4>3
      <4> QED BY <4>3, <4>4, Zenon
    <3>2. ASSUME NEW k \in 1..(n - 1), NEW l \in 1..(n - 1), k < l
          PROVE  /\ joined[k].start <= joined[l].start
                 /\ k < p => joined[k].end <= joined[l].end
                 /\ l > p /\ k # p => joined[k].end < joined[l].start
      <4>1. from(k) \in 1..n /\ from(l) \in 1..n /\ from(k) < from(l) /\ from(k) # m
        BY <2>8, <2>9, <3>2
      <4>2. joined[k].start <= joined[l].start
        BY <1>1, <2>10, <4>1 DEF Unmerged
      <4>3. ASSUME k < p PROVE joined[k].end <= joined[l].end
        <5>1. rs[from(k)].end <= rs[from(l)].end
          <6>1. from(k) < m - 1
            BY <2>8, <4>3
          <6> QED BY <1>1, <4>1, <6>1 DEF Unmerged
        <5>2. joined[k].end = rs[from(k)].end /\ rs[from(l)].end <= joined[l].end
          BY <2>10, <4>3
        <5> PICK s, f, g \in Int : rs[from(k)].end = s /\ rs[from(l)].end = f /\ joined[l].end = g
          BY <1>1, <2>7, <4>1, ElementTyped
        <5>3. joined[k].end = s /\ s <= f /\ f <= g
          BY <5>1, <5>2
        <5>4. s <= g
          BY ONLY s \in Int, f \in Int, g \in Int, <5>3
        <5> QED BY <5>3, <5>4, Zenon
      <4>4. ASSUME l > p, k # p PROVE joined[k].end < joined[l].start
        <5>1. from(l) > m /\ from(k) # m /\ from(k) # m - 1
          BY <2>8, <4>1, <4>4
        <5>2. rs[from(k)].end < rs[from(l)].start
          BY <1>1, <4>1, <5>1 DEF Unmerged
        <5> QED BY <2>10, <4>4, <5>2
      <4> QED BY <4>2, <4>3, <4>4
    <3> QED BY <2>7, <3>1, <3>2 DEF Shape
  <2>12. Offsets(joined) = Offsets(rs)
    <3>1. ASSUME NEW k \in 1..n, k # m
          PROVE  \E q \in 1..(n - 1) : from(q) = k
      <4>1. CASE k < m
        <5>1. k \in 1..(n - 1)
          BY <4>1, <2>1
        <5> QED BY <4>1, <5>1 DEF from
      <4>2. CASE k > m
        <5>1. k - 1 \in 1..(n - 1) /\ ~(k - 1 < m) /\ (k - 1) + 1 = k
          BY <4>2, <2>1
        <5> QED BY <5>1 DEF from
      <4> QED BY <3>1, <4>1, <4>2
    <3>2. a..e = (a..b) \cup (c..d)
      BY <2>2
    <3>3. ASSUME NEW x
          PROVE  x \in Offsets(joined) <=> x \in Offsets(rs)
      <4>1. x \in Offsets(joined) <=> \E k \in 1..(n - 1) : x \in joined[k].start..joined[k].end
        BY <2>7, InOffsets
      <4>2. x \in Offsets(rs) <=> \E k \in 1..n : x \in rs[k].start..rs[k].end
        BY <1>1, InOffsets
      <4>3. x \in Offsets(joined) => x \in Offsets(rs)
        <5> SUFFICES ASSUME NEW k \in 1..(n - 1), x \in joined[k].start..joined[k].end
                     PROVE  x \in Offsets(rs)
          BY <4>1
        <5>1. CASE k = p
          <6>1. joined[k] = r
            BY <2>5, <2>8, <5>1
          <6>2. x \in (a..b) \cup (c..d)
            BY <2>3, <3>2, <6>1
          <6> QED BY <2>1, <4>2, <6>2
        <5>2. CASE k # p
          BY <2>8, <2>10, <4>2, <5>2
        <5> QED BY <5>1, <5>2
      <4>4. x \in Offsets(rs) => x \in Offsets(joined)
        <5> SUFFICES ASSUME NEW k \in 1..n, x \in rs[k].start..rs[k].end
                     PROVE  x \in Offsets(joined)
          BY <4>2
        <5>0. p \in 1..(n - 1) /\ joined[p] = r
          <6>1. p \in 1..(n - 1) /\ p < m
            BY SMTT(30), <2>1
          <6> QED BY <2>5, <2>7, <6>1
        <5>1. CASE k = p \/ k = m
          <6>1. x \in r.start..r.end
            BY <2>3, <3>2, <5>1
          <6> QED BY <4>1, <5>0, <6>1
        <5>2. CASE k # p /\ k # m
          <6>1. PICK q \in 1..(n - 1) : from(q) = k
            BY <3>1, <5>2
          <6>2. q # p
            BY <2>8, <5>2, <6>1
          <6> QED BY <2>10, <4>1, <6>1, <6>2
        <5> QED BY <5>1, <5>2
      <4> QED BY <4>3, <4>4
    <3> QED BY <3>3
  <2>13. ASSUME NEW k \in 1..(n - 1), k < p
         PROVE  k \in 1..n /\ joined[k] = rs[k]
    BY <2>5, <2>7, <2>13
  <2>14. p \in 1..(Len(joined) + 1) /\ p <= m /\ Len(joined) # 0
    BY SMTT(30), <2>1, <2>7
  <2> QED BY SMTT(30), <1>1, <1>2, <2>j, <2>7, <2>11, <2>12, <2>13, <2>14
<1>3. CASE ~Touches(rs, m)
  <2>1. ASSUME NEW k \in 1..n, NEW l \in 1..n, k < l
        PROVE  /\ rs[k].start <= rs[l].start
               /\ k < m => rs[k].end <= rs[l].end
               /\ l > m /\ k # m => rs[k].end < rs[l].start
    <3>1. /\ rs[k].start <= rs[l].start /\ rs[l].start <= rs[l].end
          /\ k < m - 1 => rs[k].end <= rs[l].end
          /\ l > m /\ k # m /\ k # m - 1 => rs[k].end < rs[l].start
      BY <1>1, <2>1 DEF Unmerged
    <3>2. CASE k = m - 1
      <4>1. m \in 1..n /\ m > 1 /\ m <= Len(rs) /\ m - 1 = k /\ (m = l \/ m < l) /\ k < m
        BY <1>1, <2>1, <3>2
      <4> PICK b, c, d, e \in Int :
             rs[k].end = b /\ rs[m].start = c /\ rs[l].start = d /\ rs[l].end = e
        BY <1>1, <4>1, ElementTyped
      <4>2. ~(c <= b + 1)
        BY <1>3, <4>1 DEF Touches
      <4>3. c <= d
        BY <1>1, <4>1 DEF Unmerged
      <4> QED BY <3>1, <4>2, <4>3
    <3>3. CASE k # m - 1
      BY <3>1, <3>3
    <3> QED BY <3>2, <3>3
  <2>2. Shape(rs, m)
    BY <1>1, <2>1 DEF Shape, Unmerged
  <2> QED BY <1>1, <1>3, <2>2
<1> QED BY <1>2, <1>3

\* Range m grows to the front or to the back.
LEMMA Grown ==
  ASSUME NEW rs \in Seq(RangeType), NEW new \in Seq(RangeType), NEW m \in 1..Len(rs),
         Shape(rs, m), Len(new) = Len(rs),
         \A k \in 1..Len(rs) : k # m => new[k] = rs[k],
         new[m].start <= rs[m].start, rs[m].end <= new[m].end,
         \A k \in 1..Len(rs) : k < m => rs[k].start <= new[m].start
  PROVE  Shape(new, m)
<1>1. PICK n \in Nat : n = Len(rs)
  OBVIOUS
<1>2. ASSUME NEW k \in 1..n
      PROVE  /\ new[k].start <= rs[k].start /\ rs[k].end <= new[k].end
             /\ new[k].start \in Int /\ new[k].end \in Int
             /\ rs[k].start \in Int /\ rs[k].end \in Int
             /\ rs[k].start <= rs[k].end
             /\ k # m => new[k].start = rs[k].start /\ new[k].end = rs[k].end
  <2>1. /\ new[k].start \in Int /\ new[k].end \in Int
        /\ rs[k].start \in Int /\ rs[k].end \in Int
        /\ rs[k].start <= rs[k].end
    BY <1>1, ElementTyped DEF Shape
  <2>2. CASE k = m
    BY <2>1, <2>2
  <2>3. CASE k # m
    <3>1. new[k] = rs[k]
      BY <1>1, <2>3
    <3> QED BY <2>1, <2>3, <3>1
  <2> QED BY <2>2, <2>3
<1>3. ASSUME NEW k \in 1..n PROVE new[k].start <= new[k].end
  <2> PICK a, b, c, d \in Int :
         new[k].start = a /\ rs[k].start = b /\ rs[k].end = c /\ new[k].end = d
    BY <1>2
  <2>1. a <= b /\ b <= c /\ c <= d
    BY <1>2
  <2> QED BY <2>1
<1>4. ASSUME NEW k \in 1..n, NEW l \in 1..n, k < l
      PROVE  /\ new[k].start <= new[l].start
             /\ k < m => new[k].end <= new[l].end
             /\ l > m /\ k # m => new[k].end < new[l].start
  <2> PICK a, b, c, d \in Int :
         rs[k].start = a /\ rs[k].end = b /\ rs[l].start = c /\ rs[l].end = d
    BY <1>2
  <2> PICK e, f, g, h \in Int :
         new[k].start = e /\ new[k].end = f /\ new[l].start = g /\ new[l].end = h
    BY <1>2
  <2>1. a <= c /\ (k < m => b <= d) /\ (l > m /\ k # m => b < c)
    BY <1>1, <1>4 DEF Shape
  <2>2. e <= a /\ b <= f /\ g <= c /\ d <= h
    BY <1>2
  <2>3. (k # m => e = a /\ f = b) /\ (l # m => g = c /\ h = d)
    BY <1>2
  <2>4. l = m => a <= g
    BY <1>1, <1>4
  <2>5. k < m => k # m
    OBVIOUS
  <2>6. l > m => l # m
    OBVIOUS
  <2>7. e <= g /\ (k < m => f <= h) /\ (l > m /\ k # m => f < g)
    BY <2>1, <2>2, <2>3, <2>4, <2>5, <2>6
  <2> QED BY <2>7
<1> QED BY <1>1, <1>3, <1>4 DEF Shape

\* A range is put in front of range m, which it does not reach.
LEMMA Inserted ==
  ASSUME NEW rs \in Seq(RangeType), NEW m \in 1..Len(rs), NEW r \in RangeType,
         Shape(rs, m), r.start <= r.end, r.end < rs[m].start,
         \A k \in 1..Len(rs) : k < m => rs[k].start <= r.start /\ rs[k].end <= r.end,
         NEW new, new = InsertAt(rs, m, r)
  PROVE  /\ new \in Seq(RangeType) /\ Len(new) = Len(rs) + 1
         /\ Unmerged(new, m + 1)
         /\ Offsets(new) = Offsets(rs) \cup (r.start..r.end)
         /\ new[m] = r
         /\ \A k \in 1..Len(rs) : k < m => new[k] = rs[k]
<1>1. PICK n \in Nat : n = Len(rs)
  OBVIOUS
<1>2. /\ new \in Seq(RangeType) /\ Len(new) = n + 1
      /\ \A k \in 1..(n + 1) :
            new[k] = IF k < m THEN rs[k] ELSE IF k = m THEN r ELSE rs[k - 1]
  <2>1. m \in 1..(Len(rs) + 1)
    BY <1>1
  <2>2. /\ InsertAt(rs, m, r) \in Seq(RangeType)
        /\ Len(InsertAt(rs, m, r)) = Len(rs) + 1
        /\ \A q \in 1..(Len(rs) + 1) :
              InsertAt(rs, m, r)[q] = IF q < m THEN rs[q] ELSE IF q = m THEN r ELSE rs[q - 1]
    BY ONLY rs \in Seq(RangeType), r \in RangeType, <2>1, InsertAtProperties
  <2> QED BY <1>1, <2>2
<1>3. /\ m \in 1..n /\ m \in 1..(n + 1) /\ new[m] = r
      /\ \A k \in 1..n : k < m => k \in 1..(n + 1) /\ new[k] = rs[k]
  BY <1>1, <1>2
\* Where the ranges of new come from.
<1>4. ASSUME NEW k \in 1..(n + 1)
      PROVE  \/ k < m /\ k \in 1..n /\ new[k] = rs[k]
             \/ k = m /\ new[k] = r
             \/ k > m /\ k - 1 \in 1..n /\ k - 1 >= m /\ new[k] = rs[k - 1]
  <2>1. k < m => k \in 1..n
    BY <1>3
  <2>2. k > m => k - 1 \in 1..n /\ k - 1 >= m
    BY <1>3
  <2>3. k < m \/ k = m \/ k > m
    BY <1>3
  <2>4. /\ k < m => new[k] = rs[k]
        /\ k = m => new[k] = r
        /\ k > m => new[k] = rs[k - 1]
    BY <1>2, <1>3
  <2> QED BY <2>1, <2>2, <2>3, <2>4
<1>5. PICK s, e, c \in Int : r.start = s /\ r.end = e /\ rs[m].start = c /\ s <= e /\ e < c
  BY ElementTyped DEF RangeType
<1>6. ASSUME NEW k \in 1..(n + 1) PROVE new[k].start <= new[k].end
  BY <1>1, <1>4 DEF Shape
<1>7. ASSUME NEW l \in 1..n, l >= m PROVE c <= rs[l].start
  <2>1. l = m \/ m < l
    BY <1>3, <1>7
  <2>2. m < l => rs[m].start <= rs[l].start
    BY <1>1, <1>3 DEF Shape
  <2> QED BY <1>5, <2>1, <2>2
<1>8. ASSUME NEW k \in 1..(n + 1), NEW l \in 1..(n + 1), k < l
      PROVE  /\ new[k].start <= new[l].start
             /\ k < m => new[k].end <= new[l].end
             /\ l > m + 1 /\ k # m + 1 /\ k # m => new[k].end < new[l].start
  <2>1. CASE k < m
    <3>1. k \in 1..n /\ new[k] = rs[k]
      BY <1>4, <2>1
    <3>2. CASE l < m
      <4>1. l \in 1..n /\ new[l] = rs[l] /\ ~(l > m + 1)
        BY <1>4, <3>2
      <4> QED BY <1>1, <1>8, <2>1, <3>1, <4>1 DEF Shape
    <3>3. CASE l = m
      <4>1. ~(l > m + 1)
        BY <3>3
      <4> QED BY <1>1, <1>3, <2>1, <3>1, <3>3, <4>1
    <3>4. CASE l > m
      <4>1. l - 1 \in 1..n /\ new[l] = rs[l - 1] /\ k < l - 1
        BY <1>4, <2>1, <3>4
      <4>2. l > m + 1 => l - 1 > m /\ k # m
        BY <2>1
      <4> QED BY <1>1, <2>1, <3>1, <4>1, <4>2 DEF Shape
    <3> QED BY <1>3, <3>2, <3>3, <3>4
  <2>2. CASE k = m
    <3>1. l - 1 \in 1..n /\ new[l] = rs[l - 1] /\ l - 1 >= m
      BY <1>4, <1>8, <2>2
    <3> PICK d \in Int : rs[l - 1].start = d
      BY <1>1, <3>1, ElementTyped
    <3>2. c <= d
      BY <1>7, <3>1
    <3>3. s <= d
      BY <1>5, <3>2
    <3> QED BY <1>3, <1>5, <2>2, <3>1, <3>3
  <2>3. CASE k > m
    <3>1. /\ k - 1 \in 1..n /\ new[k] = rs[k - 1] /\ l > m
          /\ l - 1 \in 1..n /\ new[l] = rs[l - 1] /\ k - 1 < l - 1
      <4>1. l > m
        BY <1>3, <1>8, <2>3
      <4> QED BY SMTT(30), <1>4, <1>8, <2>3, <4>1
    <3>2. /\ ~(k < m)
          /\ l > m + 1 => l - 1 > m
          /\ k # m + 1 => k - 1 # m
      BY <1>3, <2>3
    <3> QED BY <1>1, <3>1, <3>2 DEF Shape
  <2> QED BY <1>3, <2>1, <2>2, <2>3
<1>9. Unmerged(new, m + 1)
  <2>1. m + 1 - 1 = m
    BY <1>3
  <2> QED BY <1>2, <1>6, <1>8, <2>1 DEF Unmerged
<1>10. ASSUME NEW x PROVE x \in Offsets(new) <=> x \in Offsets(rs) \/ x \in r.start..r.end
  <2>1. x \in Offsets(new) <=> \E k \in 1..(n + 1) : x \in new[k].start..new[k].end
    BY <1>2, InOffsets
  <2>2. x \in Offsets(rs) <=> \E k \in 1..n : x \in rs[k].start..rs[k].end
    BY <1>1, InOffsets
  <2>3. ASSUME NEW k \in 1..(n + 1), x \in new[k].start..new[k].end
        PROVE  x \in Offsets(rs) \/ x \in r.start..r.end
    BY <1>4, <2>2, <2>3
  <2>4. ASSUME NEW k \in 1..n, x \in rs[k].start..rs[k].end
        PROVE  x \in Offsets(new)
    <3>1. CASE k < m
      <4>1. k \in 1..(n + 1) /\ new[k] = rs[k]
        BY <1>3, <3>1
      <4> QED BY <2>1, <2>4, <4>1
    <3>2. CASE k >= m
      <4>1. k + 1 \in 1..(n + 1) /\ k + 1 > m /\ (k + 1) - 1 = k
        BY <1>3, <3>2
      <4>2. new[k + 1] = rs[k]
        BY <1>3, <1>4, <4>1
      <4> QED BY <2>1, <2>4, <4>1, <4>2
    <3> QED BY <1>3, <3>1, <3>2
  <2>5. x \in r.start..r.end => x \in Offsets(new)
    BY <1>3, <2>1
  <2> QED BY <2>1, <2>2, <2>3, <2>4, <2>5
<1> QED BY <1>1, <1>2, <1>3, <1>9, <1>10

LEMMA ShapeStairs ==
  ASSUME NEW rs \in Seq(RangeType)
  PROVE  /\ Stairs(rs) => Shape(rs, Len(rs))
         /\ \A m \in Nat : m >= Len(rs) /\ Shape(rs, m) => Stairs(rs)
<1> PICK n \in Nat : n = Len(rs)
  OBVIOUS
<1>1. Stairs(rs) => Shape(rs, n)
  BY DEF Stairs, Shape
<1>2. ASSUME NEW m \in Nat, m >= n, Shape(rs, m) PROVE Stairs(rs)
  <2>1. \A k, l \in 1..n : k < l => k < m
    BY <1>2
  <2> QED BY <1>2, <2>1 DEF Stairs, Shape
<1> QED BY <1>1, <1>2

\* What the end of the receiver adds is what was still to come.
LEMMA ExtendedIs ==
  ASSUME NEW rs \in Seq(RangeType), rs # <<>>, Stairs(rs),
         ll \in Seq(RangeType), Apart(ll, 0), NEW k \in 1..(Len(ll) + 1),
         Below(rs, Len(rs) + 1, ll, k)
  PROVE  /\ Extended(rs, k) \in Seq(RangeType) /\ Stairs(Extended(rs, k))
         /\ Offsets(Extended(rs, k)) = Offsets(rs) \cup Coming(ll, k)
<1> PICK list : list = ll
  OBVIOUS
<1>1. list \in Seq(RangeType) /\ Apart(list, 0) /\ k \in 1..(Len(list) + 1)
  OBVIOUS
<1> PICK n \in Nat : n = Len(rs)
  OBVIOUS
<1>2. n \in 1..n /\ n >= 1 /\ Last(rs) = rs[n]
  BY DEF Last
<1> PICK a, b \in Int : rs[n].start = a /\ rs[n].end = b
  BY <1>2, ElementTyped
<1>3. CASE k > Len(list)
  <2>1. Extended(rs, k) = rs /\ Coming(list, k) = {}
    BY <1>1, <1>3, ComingIs DEF Extended
  <2> QED BY <2>1
<1>4. CASE k <= Len(list)
  <2>1. k \in 1..Len(list)
    BY <1>1, <1>4
  <2> PICK c, d \in Int : list[k].start = c /\ list[k].end = d
    BY <1>1, <2>1, ElementTyped
  <2>2. c <= d
    BY <1>1, <2>1, InApart
  <2>3. \A q \in 1..n : rs[q].start <= c /\ rs[q].end <= d
    <3>1. \A q \in 1..n : q < n + 1
      OBVIOUS
    <3> QED BY <1>4, <3>1 DEF Below
  <2>4. a <= c /\ b <= d /\ a <= b
    BY <1>2, <2>3 DEF Stairs
  <2>5. ASSUME NEW q \in 1..n, NEW m \in k..Len(list)
        PROVE  /\ rs[q].start <= list[m].start /\ rs[q].end <= list[m].end
               /\ m > k => d <= list[m].end
    <3>1. m = k \/ k < m
      BY <2>1
    <3>2. m \in 1..Len(list)
      BY <2>1
    <3> PICK s, e, f, g \in Int :
           rs[q].start = s /\ rs[q].end = e /\ list[m].start = f /\ list[m].end = g
      BY <1>1, <3>2, ElementTyped
    <3>3. k < m => c < f /\ d < g
      BY <1>1, <2>1, <3>2, InOrder
    <3>4. s <= c /\ e <= d
      BY <2>3
    <3>5. m = k => f = c /\ g = d
      OBVIOUS
    <3>6. s <= f /\ e <= g /\ (m > k => d <= g)
      BY SMTT(30), <3>1, <3>3, <3>4, <3>5
    <3> QED BY <3>6
  <2>6. CASE c <= b + 1
    <3>r. PICK r : r = [rs[n] EXCEPT !.end = d]
      OBVIOUS
    <3>1. r \in RangeType /\ r.start = a /\ r.end = d
      <4>1. rs[n] \in RangeType
        BY <1>2, ElementTyped
      <4> QED BY <3>r, <4>1 DEF RangeType
    <3>n. PICK new : new = [rs EXCEPT ![n] = r]
      OBVIOUS
    <3>2. new = [rs EXCEPT ![Len(rs)].end = ll[k].end]
      BY <3>r, <3>n
    <3>3. /\ new \in Seq(RangeType) /\ Len(new) = Len(rs) /\ new[n] = r
          /\ \A q \in 1..Len(rs) : q # n => new[q] = rs[q]
      <4>1. n \in 1..Len(rs)
        BY <1>2
      <4> QED BY ONLY rs \in Seq(RangeType), <3>1, <3>n, <4>1
    <3>4. /\ n \in 1..Len(rs)
          /\ new[n].start <= rs[n].start /\ rs[n].end <= new[n].end
          /\ \A q \in 1..Len(rs) : q < n => rs[q].start <= new[n].start
      <4>1. \A q \in 1..Len(rs) : q < n => rs[q].start <= rs[n].start
        BY <1>2 DEF Stairs
      <4> QED BY SMTT(30), <1>2, <2>4, <3>1, <3>3, <4>1
    <3>5. Shape(new, n)
      <4>1. Shape(rs, n)
        BY ShapeStairs
      <4> QED BY ONLY rs \in Seq(RangeType), <3>3, <3>4, <4>1, Grown
    <3>6. Stairs(new)
      <4>1. n >= Len(new) /\ n \in Nat
        BY <3>3
      <4> QED BY <3>3, <3>5, <4>1, ShapeStairs
    <3>7. Offsets(new) = Offsets(rs) \cup (c..d)
      <4>1. Offsets(new) = Offsets(rs) \cup (new[n].start..new[n].end)
        BY ONLY rs \in Seq(RangeType), <3>3, <3>4, Replaced
      <4>2. a..d = (a..b) \cup (c..d)
        BY <2>2, <2>4, <2>6
      <4>3. a..b \subseteq Offsets(rs)
        BY <1>2, InOffsets
      <4>4. new[n].start..new[n].end = a..d
        BY <3>1, <3>3
      <4> QED BY <4>1, <4>2, <4>3, <4>4
    <3> PICK rest : rest = Rest(list, k + 1)
      OBVIOUS
    <3>8. /\ rest \in Seq(RangeType) /\ Stairs(rest)
          /\ \A q \in 1..Len(rest) :
                q + (k + 1) - 1 \in (k + 1)..Len(list) /\ rest[q] = list[q + (k + 1) - 1]
          /\ Offsets(rest) = Coming(list, k + 1)
      <4>1. k + 1 \in 1..(Len(list) + 1)
        BY <2>1
      <4>2. /\ Rest(list, k + 1) \in Seq(RangeType) /\ Stairs(Rest(list, k + 1))
            /\ \A q \in 1..Len(Rest(list, k + 1)) :
                  /\ q + (k + 1) - 1 \in (k + 1)..Len(list)
                  /\ Rest(list, k + 1)[q] = list[q + (k + 1) - 1]
        BY <1>1, <4>1, RestRanges, Zenon
      <4>3. Offsets(Rest(list, k + 1)) = Coming(list, k + 1)
        BY <1>1, <4>1, ComingIs, Zenon
      <4> QED BY <4>2, <4>3, Zenon
    <3>9. ASSUME NEW q \in 1..Len(new), NEW l \in 1..Len(rest)
          PROVE  new[q].start <= rest[l].start /\ new[q].end <= rest[l].end
      <4> PICK m \in (k + 1)..Len(list) : rest[l] = list[m]
        BY <3>8
      <4>1. m \in k..Len(list) /\ m > k /\ q \in 1..n
        <5>1. k \in Int /\ Len(list) \in Int
          BY <1>1
        <5>2. m \in k..Len(list) /\ m > k
          BY ONLY m \in (k + 1)..Len(list), <5>1
        <5>3. q \in 1..n
          BY ONLY q \in 1..Len(new), <3>3, n = Len(rs)
        <5> QED BY <5>2, <5>3
      <4>2. rs[q].start <= list[m].start /\ rs[q].end <= list[m].end /\ d <= list[m].end
        BY <2>5, <4>1
      <4>3. CASE q = n
        BY <3>1, <3>3, <4>2, <4>3
      <4>4. CASE q # n
        <5>1. new[q] = rs[q]
          BY <3>3, <4>1, <4>4
        <5> QED BY <4>2, <5>1
      <4> QED BY <4>3, <4>4
    <3>10. new \o rest \in Seq(RangeType) /\ Stairs(new \o rest)
      BY <3>3, <3>6, <3>8, <3>9, StairsConcat
    <3>11. Offsets(new \o rest) = Offsets(new) \cup Offsets(rest)
      BY <3>3, <3>8, OffsetsConcat
    <3>12. Extended(rs, k) = new \o rest
      <4>1. ~(k > Len(ll)) /\ ~(Last(rs).end > ll[k].end) /\ ll[k].start <= Last(rs).end + 1
        BY SMTT(30), <1>2, <1>4, <2>1, <2>4, <2>6
      <4> QED BY <3>2, <4>1 DEF Extended
    <3>13. Coming(list, k) = (c..d) \cup Coming(list, k + 1)
      BY <1>1, <1>4, ComingIs
    <3>14. Offsets(new \o rest) = Offsets(rs) \cup Coming(list, k)
      BY ONLY <3>7, <3>8, <3>11, <3>13
    <3> QED BY ONLY list = ll, <3>10, <3>12, <3>14
  <2>7. CASE ~(c <= b + 1)
    <3> PICK rest : rest = Rest(list, k)
      OBVIOUS
    <3>1. /\ rest \in Seq(RangeType) /\ Stairs(rest)
          /\ \A q \in 1..Len(rest) : q + k - 1 \in k..Len(list) /\ rest[q] = list[q + k - 1]
          /\ Offsets(rest) = Coming(list, k)
      <4>1. /\ Rest(list, k) \in Seq(RangeType) /\ Stairs(Rest(list, k))
            /\ \A q \in 1..Len(Rest(list, k)) :
                  q + k - 1 \in k..Len(list) /\ Rest(list, k)[q] = list[q + k - 1]
        BY <1>1, RestRanges, Zenon
      <4>2. Offsets(Rest(list, k)) = Coming(list, k)
        BY <1>1, ComingIs, Zenon
      <4> QED BY <4>1, <4>2, Zenon
    <3>2. ASSUME NEW q \in 1..Len(rs), NEW l \in 1..Len(rest)
          PROVE  rs[q].start <= rest[l].start /\ rs[q].end <= rest[l].end
      BY <2>5, <3>1
    <3>3. rs \o rest \in Seq(RangeType) /\ Stairs(rs \o rest)
      BY <3>1, <3>2, StairsConcat
    <3>4. Offsets(rs \o rest) = Offsets(rs) \cup Offsets(rest)
      BY <3>1, OffsetsConcat
    <3>5. Extended(rs, k) = rs \o rest
      <4>1. ~(k > Len(ll)) /\ ~(Last(rs).end > ll[k].end) /\ ~(ll[k].start <= Last(rs).end + 1)
        BY SMTT(30), <1>2, <1>4, <2>1, <2>4, <2>7
      <4> QED BY <4>1 DEF Extended
    <3> QED BY <3>1, <3>3, <3>4, <3>5
  <2> QED BY <2>6, <2>7
<1> QED BY <1>1, <1>3, <1>4

-----------------------------------------------------------------------------
(* Steps *)

\* The end of an iteration.
LEMMA RejoinInv ==
  ASSUME ll \in Seq(RangeType), Apart(ll, 0), pc = "loop", op = "inplace",
         NEW rs \in Seq(RangeType), rs # <<>>,
         NEW m \in 1..(Len(rs) + 1), NEW k \in 1..(Len(ll) + 1),
         Rejoin(rs, m, k), Unmerged(rs, m), Below(rs, m, ll, k),
         Offsets(rs) \cup Coming(ll, k) = Offsets(Receiver) \cup Offsets(Argument)
  PROVE  InplaceInv'
<1> PICK joined : joined = IF Touches(rs, m) THEN Absorb(rs, m) ELSE rs
  OBVIOUS
<1> PICK at : at = IF Touches(rs, m) THEN m - 1 ELSE m
  OBVIOUS
<1>1. /\ joined \in Seq(RangeType) /\ at \in 1..(Len(joined) + 1)
      /\ Shape(joined, at)
      /\ Offsets(joined) = Offsets(rs)
      /\ at <= m
      /\ \A q \in 1..Len(joined) : q < at => q \in 1..Len(rs) /\ joined[q] = rs[q]
      /\ joined # <<>>
  BY Rejoined
<1>2. /\ rl' = joined /\ i' = at /\ j' = k
      /\ IF Ended(joined, at)
         THEN pc' = "done" /\ out' = Flatten(Extended(joined, k))
         ELSE pc' = pc /\ out' = out
      /\ op' = op /\ given' = given /\ ll' = ll
  BY DEF Rejoin
<1>3. Below(joined, at, ll, k)
  <2>1. ASSUME k <= Len(ll), NEW q \in 1..Len(joined), q < at
        PROVE  joined[q].start <= ll[k].start /\ joined[q].end <= ll[k].end
    <3>1. q \in 1..Len(rs) /\ joined[q] = rs[q]
      BY <1>1, <2>1
    <3>2. q < m
      <4>1. at \in Int /\ m \in Int
        BY <1>1
      <4> QED BY <1>1, <2>1, <4>1
    <3> QED BY <2>1, <3>1, <3>2 DEF Below
  <2> QED BY <2>1 DEF Below
<1>4. Offsets(joined) \cup Coming(ll, k) = Offsets(Receiver) \cup Offsets(Argument)
  BY <1>1
<1>5. CASE ~Ended(joined, at)
  <2>1. pc' = "loop"
    BY <1>2, <1>5
  <2> QED BY <1>1, <1>2, <1>3, <1>4, <2>1 DEF InplaceInv, Receiver, Argument
<1>6. CASE Ended(joined, at)
  <2>1. at > Len(joined) /\ at \in Nat /\ at = Len(joined) + 1
    BY SMTT(30), <1>1, <1>6 DEF Ended
  <2>2. Stairs(joined)
    <3>1. at >= Len(joined)
      BY <1>1, <2>1
    <3> QED BY <1>1, <2>1, <3>1, ShapeStairs
  <2>3. Below(joined, Len(joined) + 1, ll, k)
    BY <1>3, <2>1
  <2>4. /\ Extended(joined, k) \in Seq(RangeType) /\ Stairs(Extended(joined, k))
        /\ Offsets(Extended(joined, k)) = Offsets(joined) \cup Coming(ll, k)
    BY <1>1, <2>2, <2>3, ExtendedIs
  <2>5. pc' = "done" /\ out' = Flatten(Extended(joined, k))
    BY <1>2, <1>6
  <2>6. Normal(out') /\ Offsets(out') = Offsets(Receiver) \cup Offsets(Argument)
    BY <1>4, <2>4, <2>5, FlattenStairs
  <2> QED BY <1>2, <2>5, <2>6 DEF InplaceInv, InplaceUnionExact, Finished, Receiver, Argument
<1> QED BY <1>5, <1>6

\* Where the ranges are, by the test that succeeds.
LEMMA PositionInplaceIs ==
  ASSUME NEW a \in Int, NEW b \in Int, NEW c \in Int, NEW d \in Int,
         NEW r \in RangeType, NEW l \in RangeType,
         r.start = a, r.end = b, l.start = c, l.end = d, a <= b, c <= d
  PROVE  LET p == PositionInplace(r, l)
         IN  /\ p = "around" => a <= c /\ d <= b
             /\ p = "front" => a <= c /\ c <= b + 1 /\ b < d
             /\ p = "inside" => c <= a /\ b <= d
             /\ p = "back" => c <= a /\ a <= d + 1 /\ d < b
             /\ p = "before" => b < c
             /\ p = "after" => d + 1 < a /\ c < a
<1>0. PICK p : p = PositionInplace(r, l)
  OBVIOUS
<1>1. /\ Encloses(r, l) <=> a <= c /\ d <= b
      /\ Encloses(l, r) <=> c <= a /\ b <= d
      /\ OverlapsFront(r, l) <=> a <= c /\ b + 1 >= c
      /\ OverlapsFront(l, r) <=> c <= a /\ d + 1 >= a
  BY DEF Encloses, OverlapsFront
<1>2. p = IF ~Encloses(r, l) /\ OverlapsFront(r, l) THEN "front"
          ELSE IF Encloses(r, l) THEN "around"
          ELSE IF Encloses(l, r) THEN "inside"
          ELSE IF OverlapsFront(r, l) THEN "front"
          ELSE IF OverlapsFront(l, r) THEN "back"
          ELSE IF b < c THEN "before" ELSE "after"
  BY <1>0 DEF PositionInplace, Position
<1>3. /\ p = "around" => a <= c /\ d <= b
      /\ p = "front" => a <= c /\ c <= b + 1 /\ b < d
      /\ p = "inside" => c <= a /\ b <= d
      /\ p = "back" => c <= a /\ a <= d + 1 /\ d < b
      /\ p = "before" => b < c
      /\ p = "after" => d + 1 < a /\ c < a
  BY <1>1, <1>2
<1> QED BY <1>0, <1>3

LEMMA CallInplace ==
  ASSUME NEW a \in Lists, NEW b \in Lists, InplaceUnion(a, b)
  PROVE  InplaceInv'
<1>1. /\ a \in Seq(RangeType) /\ b \in Seq(RangeType) /\ Apart(a, 0) /\ Apart(b, 0)
      /\ Len(a) \in Nat /\ Len(b) \in Nat
  BY ListsAssumption
<1>2. op' = "inplace" /\ given' = <<a, b>> /\ rl' = a /\ ll' = b /\ j' = 1
  BY DEF InplaceUnion, Start
<1>3. Receiver' = a /\ Argument' = b
  BY <1>2 DEF Receiver, Argument
<1>4. Offsets(<<>>) = {}
  BY EmptyList
<1>5. CASE b = <<>>
  <2>1. pc' = "done" /\ out' = a
    BY <1>5 DEF InplaceUnion, Shortcut
  <2> QED BY <1>3, <1>4, <1>5, <2>1 DEF InplaceInv, InplaceUnionExact, Finished
<1>6. CASE b # <<>> /\ a = <<>>
  <2>1. pc' = "done" /\ out' = b
    BY <1>6 DEF InplaceUnion, Shortcut
  <2> QED BY <1>3, <1>4, <1>6, <2>1 DEF InplaceInv, InplaceUnionExact, Finished
<1>7. CASE b # <<>> /\ a # <<>>
  <2>1. 1 \in 1..Len(b)
    BY <1>1, <1>7
  <2> PICK x, y \in Int : b[1].start = x /\ b[1].end = y /\ x <= y
    BY <1>1, <2>1, ElementTyped, InApart
  <2> PICK s : s = Search(a, x)
    OBVIOUS
  <2>2. s \in 1..(Len(a) + 1) /\ \A q \in 1..(s - 1) : a[q].end + 1 < x
    BY <1>1, SearchIs
  <2> PICK m : m = Greatest(s - 1, 1)
    OBVIOUS
  <2>3. m \in Nat /\ \A q \in 1..Len(a) : q < m => q \in 1..(s - 1)
    BY <2>2 DEF Greatest
  <2>4. pc' = "loop" /\ i' = m
    BY <1>7 DEF InplaceUnion, Enter
  <2>5. \A q \in 1..Len(a) : a[q].start <= a[q].end
    BY <1>1, InApart
  <2>6. Shape(a, m)
    <3>1. ASSUME NEW q \in 1..Len(a), NEW l \in 1..Len(a), q < l
          PROVE  /\ a[q].start <= a[l].start
                 /\ q < m => a[q].end <= a[l].end
                 /\ l > m /\ q # m => a[q].end < a[l].start
      <4>1. a[q].end < a[l].start
        BY <1>1, <3>1, InOrder
      <4>2. a[q].start <= a[l].start /\ a[q].end <= a[l].end
        BY <1>1, <3>1, ApartStairs DEF Stairs
      <4> QED BY <4>1, <4>2
    <3> QED BY <2>5, <3>1 DEF Shape
  <2>7. Below(a, m, b, 1)
    <3>1. ASSUME NEW q \in 1..Len(a), q < m
          PROVE  a[q].start <= b[1].start /\ a[q].end <= b[1].end
      <4> PICK c, d \in Int : a[q].start = c /\ a[q].end = d
        BY <1>1, ElementTyped
      <4>1. d + 1 < x /\ c <= d
        BY <2>2, <2>3, <2>5, <3>1
      <4>2. c <= x /\ d <= y
        BY <4>1
      <4> QED BY <4>2
    <3> QED BY <3>1 DEF Below
  <2>8. Coming(b, 1) = Offsets(b)
    <3>1. 1 \in 1..(Len(b) + 1)
      BY <1>1
    <3> QED BY <1>1, <3>1, ComingIs
  <2> QED BY <1>1, <1>2, <1>3, <2>4, <2>6, <2>7, <2>8 DEF InplaceInv
<1> QED BY <1>5, <1>6, <1>7

LEMMA InplaceUnionStepInv ==
  ASSUME IndexInv, InplaceInv, InplaceUnionStep
  PROVE  InplaceInv'
<1>1. pc = "loop" /\ op = "inplace"
  BY DEF InplaceUnionStep, Looping
<1>2. /\ rl \in Seq(RangeType) /\ ll \in Seq(RangeType) /\ Apart(ll, 0)
      /\ Len(rl) \in Nat /\ Len(ll) \in Nat /\ i \in Nat /\ j \in Nat
      /\ i \in 1..Len(rl) /\ j \in 1..(Len(ll) + 1) /\ rl # <<>>
      /\ i \in 1..(Len(rl) + 1) /\ i + 1 \in 1..(Len(rl) + 1)
  BY <1>1 DEF IndexInv, ListsOK, IndexesInRange, InplaceInv
<1>3. /\ Shape(rl, i) /\ Below(rl, i, ll, j)
      /\ Offsets(rl) \cup Coming(ll, j) = Offsets(Receiver) \cup Offsets(Argument)
  BY <1>1 DEF InplaceInv
<1>4. Unmerged(rl, i) /\ Unmerged(rl, i + 1)
  BY <1>2, <1>3, ShapeUnmerged
<1>5. CASE j > Len(ll)
  <2>1. Rejoin(rl, i + 1, j)
    BY <1>2, <1>5 DEF InplaceUnionStep
  <2>2. Below(rl, i + 1, ll, j)
    BY <1>2, <1>5 DEF Below
  <2> QED BY <1>1, <1>2, <1>3, <1>4, <2>1, <2>2, RejoinInv
<1>6. CASE j <= Len(ll)
  <2>1. j \in 1..Len(ll) /\ j + 1 \in 1..(Len(ll) + 1)
    BY <1>2, <1>6
  <2> PICK r : r = rl[i]
    OBVIOUS
  <2> PICK l : l = ll[j]
    OBVIOUS
  <2>2. r \in RangeType /\ l \in RangeType
    BY <1>2, <2>1, ElementTyped
  <2> PICK a, b, c, d \in Int : r.start = a /\ r.end = b /\ l.start = c /\ l.end = d
    BY <2>2 DEF RangeType
  <2>3. a <= b /\ c <= d
    BY <1>2, <1>3, <2>1, InApart DEF Shape
  <2> PICK p : p = PositionInplace(r, l)
    OBVIOUS
  <2>4. /\ p = "around" => a <= c /\ d <= b
        /\ p = "front" => a <= c /\ c <= b + 1 /\ b < d
        /\ p = "inside" => c <= a /\ b <= d
        /\ p = "back" => c <= a /\ a <= d + 1 /\ d < b
        /\ p = "before" => b < c
        /\ p = "after" => d + 1 < a /\ c < a
    BY <2>2, <2>3, PositionInplaceIs
  \* What is still to come, with and without l.
  <2>5. Coming(ll, j) = (c..d) \cup Coming(ll, j + 1)
    BY <1>2, <1>6, ComingIs
  <2>6. /\ \A q \in 1..Len(rl) : q < i => rl[q].start <= c /\ rl[q].end <= d
    BY <1>3, <1>6 DEF Below
  <2>7. ASSUME j + 1 <= Len(ll)
        PROVE  /\ c <= ll[j + 1].start /\ d <= ll[j + 1].end
               /\ ll[j + 1].start \in Int /\ ll[j + 1].end \in Int
    <3>1. j + 1 \in 1..Len(ll) /\ j < j + 1
      BY <1>2, <2>1, <2>7
    <3>2. Stairs(ll)
      BY <1>2, ApartStairs
    <3> QED BY <1>2, <2>1, <3>1, <3>2, ElementTyped DEF Stairs
  \* The rest of ll is as far behind the ranges that l is behind.
  <2>8. ASSUME NEW rs \in Seq(RangeType), NEW m \in Int,
               \A q \in 1..Len(rs) : q < m => rs[q].start <= c /\ rs[q].end <= d
        PROVE  Below(rs, m, ll, j + 1)
    <3>1. ASSUME NEW q \in 1..Len(rs), q < m, j + 1 <= Len(ll)
          PROVE  rs[q].start <= ll[j + 1].start /\ rs[q].end <= ll[j + 1].end
      <4> PICK s, e, f, g \in Int :
             rs[q].start = s /\ rs[q].end = e /\ ll[j + 1].start = f /\ ll[j + 1].end = g
        BY <2>7, <3>1, ElementTyped
      <4>1. s <= c /\ e <= d /\ c <= f /\ d <= g
        BY <2>7, <2>8, <3>1
      <4>2. s <= f /\ e <= g
        BY <4>1
      <4> QED BY <4>2
    <3> QED BY <3>1 DEF Below
  <2>9. a..b \subseteq Offsets(rl)
    BY <1>2, InOffsets
  \* Range i is replaced by r and l together.
  <2>10. ASSUME NEW new \in Seq(RangeType), Len(new) = Len(rl),
                \A q \in 1..Len(rl) : q # i => new[q] = rl[q],
                new[i].start <= a, b <= new[i].end, new[i].start = a \/ new[i].start = c,
                new[i].start..new[i].end = (a..b) \cup (c..d)
         PROVE  /\ Shape(new, i)
                /\ Offsets(new) = Offsets(rl) \cup (c..d)
                /\ \A q \in 1..Len(new) : q < i => new[q].start <= c /\ new[q].end <= d
    <3>1. \A q \in 1..Len(rl) : q < i => rl[q].start <= new[i].start
      <4>1. \A q \in 1..Len(rl) : q < i => rl[q].start <= a
        BY <1>2, <1>3 DEF Shape
      <4> QED BY <2>6, <2>10, <4>1
    <3>2. new[i].start <= rl[i].start /\ rl[i].end <= new[i].end
      BY <2>10
    <3>0. Len(new) = Len(rl) /\ \A q \in 1..Len(rl) : q # i => new[q] = rl[q]
      BY <2>10, Zenon
    <3>3. Shape(new, i)
      BY <1>2, <1>3, <3>0, <3>1, <3>2, Grown
    <3>4. Offsets(new) = Offsets(rl) \cup (new[i].start..new[i].end)
      BY ONLY new \in Seq(RangeType), <1>2, <3>0, <3>2, Replaced
    <3>5. ASSUME NEW q \in 1..Len(new), q < i PROVE new[q] = rl[q] /\ q \in 1..Len(rl)
      <4>1. q \in 1..Len(rl) /\ q # i
        BY <1>2, <3>0, <3>5
      <4> QED BY <3>0, <4>1
    <3> QED BY <2>6, <2>9, <2>10, <3>3, <3>4, <3>5
  <2>11. CASE p = "around" /\ Rejoin(rl, i, j + 1)
    <3>1. c..d \subseteq a..b
      BY <2>4, <2>11
    <3>2. Offsets(rl) \cup Coming(ll, j + 1) = Offsets(Receiver) \cup Offsets(Argument)
      BY <1>3, <2>5, <2>9, <3>1
    <3>3. Below(rl, i, ll, j + 1)
      BY <1>2, <2>6, <2>8
    <3> QED BY <1>1, <1>2, <1>4, <2>1, <2>11, <3>2, <3>3, RejoinInv
  <2>12. CASE p = "front" /\ Rejoin([rl EXCEPT ![i].end = l.end], i, j + 1)
    <3>e. PICK e : e = [r EXCEPT !.end = d]
      OBVIOUS
    <3>1. e \in RangeType /\ e.start = a /\ e.end = d
      BY <2>2, <3>e DEF RangeType
    <3>n. PICK new : new = [rl EXCEPT ![i] = e]
      OBVIOUS
    <3>2. new = [rl EXCEPT ![i].end = l.end]
      BY <3>e, <3>n
    <3>3. /\ new \in Seq(RangeType) /\ Len(new) = Len(rl) /\ new[i] = e
          /\ \A q \in 1..Len(rl) : q # i => new[q] = rl[q]
      BY SMTT(30), <1>2, <3>1, <3>n
    <3>4. a..d = (a..b) \cup (c..d) /\ a <= a /\ b <= d
      BY <2>3, <2>4, <2>12
    <3>5. /\ Shape(new, i)
          /\ Offsets(new) = Offsets(rl) \cup (c..d)
          /\ \A q \in 1..Len(new) : q < i => new[q].start <= c /\ new[q].end <= d
      <4>1. /\ new[i].start <= a /\ b <= new[i].end
            /\ new[i].start = a \/ new[i].start = c
            /\ new[i].start..new[i].end = (a..b) \cup (c..d)
        BY <3>1, <3>3, <3>4
      <4> QED BY <2>10, <3>3, <4>1
    <3>6. Unmerged(new, i) /\ Below(new, i, ll, j + 1)
      <4>1. i \in Int
        BY <1>2
      <4>2. Unmerged(new, i)
        BY <3>3, <3>5, <4>1, ShapeUnmerged
      <4>3. Below(new, i, ll, j + 1)
        BY <2>8, <3>3, <3>5, <4>1
      <4> QED BY <4>2, <4>3
    <3>7. Offsets(new) \cup Coming(ll, j + 1) = Offsets(Receiver) \cup Offsets(Argument)
      BY <1>3, <2>5, <3>5
    <3>8. new # <<>> /\ i \in 1..(Len(new) + 1) /\ Rejoin(new, i, j + 1)
      BY <1>2, <2>12, <3>2, <3>3
    <3> QED BY <1>1, <1>2, <2>1, <3>3, <3>6, <3>7, <3>8, RejoinInv
  <2>13. CASE p = "inside" /\ Rejoin([rl EXCEPT ![i] = l], i + 1, j)
    <3>n. PICK new : new = [rl EXCEPT ![i] = l]
      OBVIOUS
    <3>1. /\ new \in Seq(RangeType) /\ Len(new) = Len(rl) /\ new[i] = l
          /\ \A q \in 1..Len(rl) : q # i => new[q] = rl[q]
      BY SMTT(30), <1>2, <2>2, <3>n
    <3>2. c..d = (a..b) \cup (c..d) /\ c <= a /\ b <= d
      BY <2>3, <2>4, <2>13
    <3>3. /\ Shape(new, i)
          /\ Offsets(new) = Offsets(rl) \cup (c..d)
          /\ \A q \in 1..Len(new) : q < i => new[q].start <= c /\ new[q].end <= d
      <4>1. /\ new[i].start <= a /\ b <= new[i].end
            /\ new[i].start = a \/ new[i].start = c
            /\ new[i].start..new[i].end = (a..b) \cup (c..d)
        BY <3>1, <3>2
      <4> QED BY <2>10, <3>1, <4>1
    <3>4. Unmerged(new, i + 1)
      <4>1. i \in Int
        BY <1>2
      <4> QED BY <3>1, <3>3, <4>1, ShapeUnmerged
    <3>5. Below(new, i + 1, ll, j)
      <4>1. ASSUME NEW q \in 1..Len(new), q < i + 1
            PROVE  new[q].start <= ll[j].start /\ new[q].end <= ll[j].end
        <5>1. q < i \/ q = i
          BY SMTT(30), <1>2, <4>1
        <5>2. c <= c /\ d <= d
          OBVIOUS
        <5> QED BY <3>1, <3>3, <5>1, <5>2
      <4> QED BY <4>1 DEF Below
    <3>6. Offsets(new) \cup Coming(ll, j) = Offsets(Receiver) \cup Offsets(Argument)
      BY <1>3, <2>5, <3>3
    <3>7. new # <<>> /\ i + 1 \in 1..(Len(new) + 1) /\ Rejoin(new, i + 1, j)
      BY <1>2, <2>13, <3>1, <3>n
    <3> QED BY <1>1, <1>2, <3>1, <3>4, <3>5, <3>6, <3>7, RejoinInv
  <2>14. CASE p = "back" /\ Rejoin([rl EXCEPT ![i].start = l.start], i, j + 1)
    <3>e. PICK e : e = [r EXCEPT !.start = c]
      OBVIOUS
    <3>1. e \in RangeType /\ e.start = c /\ e.end = b
      BY <2>2, <3>e DEF RangeType
    <3>n. PICK new : new = [rl EXCEPT ![i] = e]
      OBVIOUS
    <3>2. new = [rl EXCEPT ![i].start = l.start]
      BY <3>e, <3>n
    <3>3. /\ new \in Seq(RangeType) /\ Len(new) = Len(rl) /\ new[i] = e
          /\ \A q \in 1..Len(rl) : q # i => new[q] = rl[q]
      BY <1>2, <3>1, <3>n
    <3>4. c..b = (a..b) \cup (c..d) /\ c <= a /\ b <= b
      BY <2>3, <2>4, <2>14
    <3>5. /\ Shape(new, i)
          /\ Offsets(new) = Offsets(rl) \cup (c..d)
          /\ \A q \in 1..Len(new) : q < i => new[q].start <= c /\ new[q].end <= d
      <4>1. /\ new[i].start <= a /\ b <= new[i].end
            /\ new[i].start = a \/ new[i].start = c
            /\ new[i].start..new[i].end = (a..b) \cup (c..d)
        BY <3>1, <3>3, <3>4
      <4> QED BY <2>10, <3>3, <4>1
    <3>6. Unmerged(new, i) /\ Below(new, i, ll, j + 1)
      <4>1. i \in Int
        BY <1>2
      <4>2. Unmerged(new, i)
        BY <3>3, <3>5, <4>1, ShapeUnmerged
      <4>3. Below(new, i, ll, j + 1)
        BY <2>8, <3>3, <3>5, <4>1
      <4> QED BY <4>2, <4>3
    <3>7. Offsets(new) \cup Coming(ll, j + 1) = Offsets(Receiver) \cup Offsets(Argument)
      BY <1>3, <2>5, <3>5
    <3>8. new # <<>> /\ i \in 1..(Len(new) + 1) /\ Rejoin(new, i, j + 1)
      BY <1>2, <2>14, <3>2, <3>3
    <3> QED BY <1>1, <1>2, <2>1, <3>3, <3>6, <3>7, <3>8, RejoinInv
  <2>15. CASE p = "before" /\ Rejoin(rl, i + 1, j)
    <3>1. Below(rl, i + 1, ll, j)
      <4>1. ASSUME NEW q \in 1..Len(rl), q < i + 1
            PROVE  rl[q].start <= ll[j].start /\ rl[q].end <= ll[j].end
        <5>1. q < i \/ q = i
          BY <1>2, <4>1
        <5>2. a <= c /\ b <= d
          BY <2>3, <2>4, <2>15
        <5> QED BY <2>6, <5>1, <5>2
      <4> QED BY <4>1 DEF Below
    <3> QED BY <1>1, <1>2, <1>3, <1>4, <2>15, <3>1, RejoinInv
  <2>16. CASE p = "after" /\ Rejoin(InsertAt(rl, i, l), i + 1, j + 1)
    <3>n. PICK new : new = InsertAt(rl, i, l)
      OBVIOUS
    <3>1. l.start <= l.end /\ l.end < rl[i].start
      BY <2>3, <2>4, <2>16
    <3>2. /\ new \in Seq(RangeType) /\ Len(new) = Len(rl) + 1
          /\ Unmerged(new, i + 1)
          /\ Offsets(new) = Offsets(rl) \cup (l.start..l.end)
          /\ new[i] = l
          /\ \A q \in 1..Len(rl) : q < i => new[q] = rl[q]
      <4>1. \A q \in 1..Len(rl) : q < i => rl[q].start <= l.start /\ rl[q].end <= l.end
        BY <2>6
      <4>2. rl \in Seq(RangeType) /\ i \in 1..Len(rl) /\ Shape(rl, i)
        BY <1>2, <1>3
      <4> QED BY SMTT(30), <2>2, <3>1, <3>n, <4>1, <4>2, Inserted
    <3>3. Below(new, i + 1, ll, j + 1)
      <4>1. ASSUME NEW q \in 1..Len(new), q < i + 1
            PROVE  new[q].start <= c /\ new[q].end <= d
        <5>1. q = i \/ (q < i /\ q \in 1..Len(rl))
          BY <1>2, <3>2, <4>1
        <5>2. c <= c /\ d <= d
          OBVIOUS
        <5> QED BY <2>6, <3>2, <5>1, <5>2
      <4>2. i + 1 \in Int
        BY <1>2
      <4> QED BY <2>8, <3>2, <4>1, <4>2
    <3>4. Offsets(new) \cup Coming(ll, j + 1) = Offsets(Receiver) \cup Offsets(Argument)
      BY <1>3, <2>5, <3>2
    <3>5. new # <<>> /\ i + 1 \in 1..(Len(new) + 1) /\ Rejoin(new, i + 1, j + 1)
      BY SMTT(30), <1>2, <2>16, <3>2, <3>n
    <3> QED BY <1>1, <1>2, <2>1, <3>2, <3>3, <3>4, <3>5, RejoinInv
  <2> QED BY SMTT(30), <1>2, <1>6, <2>11, <2>12, <2>13, <2>14, <2>15, <2>16 DEF InplaceUnionStep
<1> QED BY <1>2, <1>5, <1>6

LEMMA StepInplace == IndexInv /\ InplaceInv /\ [Next]_vars => InplaceInv'
<1> SUFFICES ASSUME IndexInv, InplaceInv, [Next]_vars PROVE InplaceInv'
  OBVIOUS
<1>1. CASE Call
  <2>1. ASSUME NEW a \in Lists, NEW b \in Lists, InplaceUnion(a, b) PROVE InplaceInv'
    BY <2>1, CallInplace
  <2>2. CASE op' # "inplace"
    BY <2>2 DEF InplaceInv
  <2>3. CASE op' = "inplace"
    BY <1>1, <2>1, <2>3 DEF Call, RangesContain, Subtract, Intersection, Union, Start
  <2> QED BY <2>2, <2>3
<1>2. CASE InplaceUnionStep
  BY <1>2, InplaceUnionStepInv
<1>3. CASE Step /\ ~InplaceUnionStep
  <2>1. op' # "inplace"
    BY ZenonT(30), <1>3 DEF Step, ContainsStep, ContainsReturn, SubtractStep, SubtractAround,
       SubtractRest, SubtractReturn, UnionStep, UnionReturn, IntersectionStep,
       IntersectionReturn, Looping, Continue, Done
  <2> QED BY <2>1 DEF InplaceInv
<1>4. CASE Return
  BY <1>4 DEF Return, InplaceInv
<1>5. CASE UNCHANGED vars
  BY <1>5 DEF vars, InplaceInv, InplaceUnionExact, Finished, Receiver, Argument
<1> QED BY <1>1, <1>2, <1>3, <1>4, <1>5 DEF Next

\* RangeList.InplaceUnion (fec/util.go:371-437) leaves the union of its two lists
\* in its receiver, whatever they have in common, and as a normal list unless one
\* of them is empty, for all lists in order, of any length.
THEOREM InplaceUnionIsExact == Spec => []InplaceUnionExact
<1>1. Init => InplaceInv
  BY DEF Init, InplaceInv
<1>2. InplaceInv => InplaceUnionExact
  BY DEF InplaceInv, InplaceUnionExact, Finished
<1> QED BY <1>1, <1>2, InitIndex, StepIndex, StepInplace, PTL DEF Spec

-----------------------------------------------------------------------------
(* Union *)

NonEmpty(list) == \A k \in 1..Len(list) : list[k].start <= list[k].end

\* What Union adds again when it only moves on: the range of an earlier
\* iteration, or what its variable is declared with as long as there is none.
Added(r, o, a, b) ==
  \/ r = Interval(0, -1) /\ o = <<>>
  \/ r \in RangeType /\ r.start <= r.end /\ r.start..r.end \subseteq Offsets(a) \cup Offsets(b)

\* Lists that the loop gets through in order: normal, with nothing in common
\* and no offset below 0.
Disjoint(a, b) ==
  /\ Normal(a) /\ Normal(b) /\ Offsets(a) \cap Offsets(b) = {}
  /\ \A x \in Offsets(a) \cup Offsets(b) : x >= 0

\* What is added so far and what is still to come are the union, in order.
InTurn(o, a, m, b, n) ==
  /\ Apart(o, 0)
  /\ \A x \in Offsets(o), y \in Coming(a, m) \cup Coming(b, n) : x < y
  /\ Offsets(o) \cup Coming(a, m) \cup Coming(b, n) = Offsets(a) \cup Offsets(b)

UnionInv ==
  op = "union" =>
    /\ pc = "loop" =>
         /\ rl = Receiver /\ ll = Argument
         /\ out \in Seq(RangeType) /\ NonEmpty(out)
         /\ Offsets(out) \subseteq Offsets(rl) \cup Offsets(ll)
         /\ Added(toAdd, out, rl, ll)
         /\ Normal(rl) /\ Normal(ll) => \A x \in Offsets(rl) \cup Offsets(ll) : x >= 0
         /\ Disjoint(rl, ll) => InTurn(out, rl, i, ll, j)
    /\ pc = "done" => UnionDisjointExact

\* A range behind a list of ranges that are not empty.
LEMMA AddedBehind ==
  ASSUME NEW o \in Seq(RangeType), NonEmpty(o), NEW r \in RangeType, r.start <= r.end
  PROVE  /\ Append(o, r) \in Seq(RangeType) /\ NonEmpty(Append(o, r))
         /\ Apart(o, 0) /\ (\A x \in Offsets(o) : x < r.start) => Apart(Append(o, r), 0)
<1> PICK n \in Nat : n = Len(o)
  OBVIOUS
<1> PICK new : new = Append(o, r)
  OBVIOUS
<1>1. /\ new \in Seq(RangeType) /\ Len(new) = n + 1
      /\ \A k \in 1..n : new[k] = o[k]
      /\ new[n + 1] = r
  BY Appended
<1>2. NonEmpty(new)
  <2>1. ASSUME NEW k \in 1..(n + 1) PROVE new[k].start <= new[k].end
    <3>1. k \in 1..n \/ k = n + 1
      OBVIOUS
    <3> QED BY <1>1, <3>1 DEF NonEmpty
  <2> QED BY <1>1, <2>1 DEF NonEmpty
<1>3. ASSUME Apart(o, 0), \A x \in Offsets(o) : x < r.start
      PROVE  Apart(new, 0)
  <2>1. ASSUME NEW k \in 1..(n + 1), NEW l \in 1..(n + 1), k < l
        PROVE  new[k].end + 0 < new[l].start
    <3>1. k \in 1..n /\ (l \in 1..n \/ l = n + 1)
      BY ONLY <2>1, n \in Nat, k \in 1..(n + 1), l \in 1..(n + 1)
    <3>2. new[k] = o[k]
      BY <1>1, <3>1
    <3>3. CASE l \in 1..n
      <4>1. o[k].end + 0 < o[l].start
        BY <1>3, <2>1, <3>1, <3>3, InApart
      <4> QED BY <1>1, <3>2, <3>3, <4>1
    <3>4. CASE l = n + 1
      <4>1. o[k].start <= o[k].end
        BY <3>1 DEF NonEmpty
      <4>2. o[k].end \in Int /\ o[k].end \in Offsets(o)
        BY <3>1, <4>1, EndsInOffsets
      <4>3. o[k].end < r.start /\ o[k].end + 0 = o[k].end
        BY <1>3, <4>2
      <4> QED BY <1>1, <3>2, <3>4, <4>3
    <3> QED BY <3>1, <3>3, <3>4
  <2> QED BY <1>1, <1>2, <2>1, InApart DEF NonEmpty
<1> QED BY <1>1, <1>2, <1>3

\* The last range of a list grows to the end of one that touches it.
LEMMA AddedJoined ==
  ASSUME NEW o \in Seq(RangeType), NonEmpty(o), o # <<>>, NEW r \in RangeType, r.start <= r.end,
         OverlapsFront(Last(o), r),
         NEW new, new = Append(Front(o), Join(Last(o), r))
  PROVE  /\ new \in Seq(RangeType) /\ NonEmpty(new)
         /\ Offsets(new) = Offsets(o) \cup (r.start..r.end)
         /\ Apart(o, 0) => Apart(new, 0)
<1> PICK c, d \in Int : r.start = c /\ r.end = d
  BY DEF RangeType
<1> PICK n : n = Len(o)
  OBVIOUS
<1> PICK f : f = Front(o)
  OBVIOUS
<1>1. /\ n \in 1..n /\ n \in Nat /\ f \in Seq(RangeType) /\ Len(f) = n - 1
      /\ \A k \in 1..(n - 1) : f[k] = o[k]
  BY FrontProperties
<1> PICK last : last = o[n]
  OBVIOUS
<1>2. Last(o) = last
  BY DEF Last
<1> PICK a, b \in Int : last.start = a /\ last.end = b /\ last \in RangeType
  BY <1>1, ElementTyped
<1>3. a <= b /\ a <= c /\ b + 1 >= c
  <2>1. last.start <= last.end
    BY <1>1 DEF NonEmpty
  <2> QED BY <1>2, <2>1 DEF OverlapsFront
<1> PICK g \in Int : g = Greatest(b, d) /\ g >= b /\ g >= d /\ (g = b \/ g = d)
  BY DEF Greatest
<1> PICK joined \in RangeType : joined = Interval(a, g) /\ joined.start = a /\ joined.end = g
  BY RangeTyped
<1>4. new = Append(f, joined)
  <2>1. Least(a, c) = a
    BY <1>3 DEF Least
  <2> QED BY <1>2, <2>1 DEF Join
<1>6. /\ new \in Seq(RangeType) /\ Len(new) = n
      /\ \A k \in 1..(n - 1) : new[k] = o[k]
      /\ new[n] = joined
  <2>1. /\ Append(f, joined) \in Seq(RangeType) /\ Len(Append(f, joined)) = Len(f) + 1
        /\ \A k \in 1..Len(f) : Append(f, joined)[k] = f[k]
        /\ Append(f, joined)[Len(f) + 1] = joined
    BY ONLY <1>1, joined \in RangeType, Appended
  <2>2. Len(f) + 1 = n
    BY <1>1
  <2> QED BY ONLY <1>1, <1>4, <2>1, <2>2
<1>7. Offsets(o) = Offsets(f) \cup (last.start..last.end)
  <2>1. o = Append(f, last)
    <3>1. /\ Append(f, last) \in Seq(RangeType) /\ Len(Append(f, last)) = Len(f) + 1
          /\ \A k \in 1..Len(f) : Append(f, last)[k] = f[k]
          /\ Append(f, last)[Len(f) + 1] = last
      BY ONLY <1>1, last \in RangeType, Appended
    <3>2. Len(f) + 1 = n
      BY <1>1
    <3>3. \A k \in 1..n : Append(f, last)[k] = o[k]
      <4>1. \A k \in 1..n : k \in 1..(n - 1) \/ k = n
        BY <1>1
      <4> QED BY ONLY <1>1, <3>1, <3>2, <4>1, last = o[n]
    <3> QED BY ONLY SMTT(30), <1>1, <3>1, <3>2, <3>3, o \in Seq(RangeType), n = Len(o)
  <2> QED BY ONLY <1>1, <2>1, last \in RangeType, OffsetsAppend
<1>8. Offsets(new) = Offsets(f) \cup (joined.start..joined.end)
  BY ONLY <1>1, <1>4, joined \in RangeType, OffsetsAppend
<1>9. a..g = (a..b) \cup (c..d)
  BY <1>3
<1>10. Offsets(new) = Offsets(o) \cup (c..d)
  <2>1. Offsets(new) = Offsets(f) \cup (a..g) /\ Offsets(o) = Offsets(f) \cup (a..b)
    BY <1>7, <1>8
  <2> QED BY ONLY <1>9, <2>1
<1>11. a <= g
  BY <1>3
<1>12. NonEmpty(new)
  <2>1. ASSUME NEW k \in 1..n PROVE new[k].start <= new[k].end
    <3>1. k \in 1..(n - 1) \/ k = n
      BY <1>1
    <3> QED BY <1>6, <1>11, <3>1 DEF NonEmpty
  <2> QED BY <1>6, <2>1 DEF NonEmpty
<1>13. ASSUME Apart(o, 0)
       PROVE  Apart(new, 0)
  <2>1. ASSUME NEW k \in 1..n, NEW l \in 1..n, k < l
        PROVE  new[k].end + 0 < new[l].start
    <3>1. k \in 1..(n - 1) /\ (l \in 1..(n - 1) \/ l = n)
      BY ONLY <1>1, <2>1, k \in 1..n, l \in 1..n
    <3>2. o[k].end + 0 < o[l].start
      BY <1>13, <2>1, InApart
    <3>3. new[k] = o[k] /\ new[l].start = o[l].start
      BY ONLY <1>6, <3>1, last = o[n], last.start = a, joined.start = a
    <3> QED BY ONLY <3>2, <3>3
  <2> QED BY <1>6, <1>12, <2>1, InApart DEF NonEmpty
<1> QED BY <1>6, <1>10, <1>12, <1>13

\* The list that Add leaves when r is to be added to o.
Plus(o, r) ==
  IF o # <<>> /\ OverlapsFront(Last(o), r)
  THEN Append(Front(o), Join(Last(o), r))
  ELSE IF r.end >= 0 THEN Append(o, r) ELSE o

\* A range is added to a list of ranges that are not empty.
LEMMA AddedTo ==
  ASSUME NEW o \in Seq(RangeType), NonEmpty(o), NEW r \in RangeType, r.start <= r.end,
         NEW new, new = Plus(o, r)
  PROVE  /\ new \in Seq(RangeType) /\ NonEmpty(new)
         /\ Offsets(new) \subseteq Offsets(o) \cup (r.start..r.end)
         /\ r.start >= 0 => Offsets(new) = Offsets(o) \cup (r.start..r.end)
         /\ Apart(o, 0) /\ (\A x \in Offsets(o) : x < r.start) => Apart(new, 0)
<1> PICK c, d \in Int : r.start = c /\ r.end = d
  BY DEF RangeType
<1>1. CASE o # <<>> /\ OverlapsFront(Last(o), r)
  <2>1. new = Append(Front(o), Join(Last(o), r))
    BY <1>1 DEF Plus
  <2> QED BY <1>1, <2>1, AddedJoined
<1>2. CASE ~(o # <<>> /\ OverlapsFront(Last(o), r)) /\ d >= 0
  <2>1. new = Append(o, r)
    BY <1>2 DEF Plus
  <2> QED BY <2>1, OffsetsAppend, AddedBehind
<1>3. CASE ~(o # <<>> /\ OverlapsFront(Last(o), r)) /\ ~(d >= 0)
  <2>1. new = o /\ ~(c >= 0)
    BY <1>3 DEF Plus
  <2> QED BY <2>1
<1> QED BY <1>1, <1>2, <1>3

\* What a join of two ranges that overlap or touch stands for.
LEMMA JoinIs ==
  ASSUME NEW r \in RangeType, NEW l \in RangeType, r.start <= r.end, l.start <= l.end,
         OverlapsFront(r, l) \/ OverlapsFront(l, r)
  PROVE  /\ Join(r, l) \in RangeType /\ Join(r, l).start <= Join(r, l).end
         /\ Join(r, l).start = r.start \/ Join(r, l).start = l.start
         /\ Join(r, l).start..Join(r, l).end = (r.start..r.end) \cup (l.start..l.end)
<1> PICK a, b, c, d \in Int : r.start = a /\ r.end = b /\ l.start = c /\ l.end = d
  BY DEF RangeType
<1> PICK s, t \in Int : /\ s = Least(a, c) /\ t = Greatest(b, d)
                        /\ s <= a /\ s <= c /\ t >= b /\ t >= d
                        /\ (s = a \/ s = c) /\ (t = b \/ t = d)
  BY DEF Least, Greatest
<1> PICK joined \in RangeType : joined = Interval(s, t) /\ joined.start = s /\ joined.end = t
  BY RangeTyped
<1>1. Join(r, l) = joined
  BY DEF Join
<1>2. (a <= c /\ b + 1 >= c) \/ (c <= a /\ d + 1 >= a)
  BY DEF OverlapsFront
<1>3. s..t = (a..b) \cup (c..d) /\ s <= t
  BY <1>2
<1> QED BY <1>1, <1>3

\* What is still to come of a list in order, seen from its current range.
LEMMA ComingBehind ==
  ASSUME NEW list \in Seq(RangeType), Apart(list, 0), NEW k \in 1..Len(list)
  PROVE  /\ \A x \in list[k].start..list[k].end, y \in Coming(list, k + 1) : x < y
         /\ \A y \in Coming(list, k + 1) : list[k].end < y
         /\ \A y \in Coming(list, k) : list[k].start <= y
<1> PICK a, b \in Int : list[k].start = a /\ list[k].end = b
  BY ElementTyped
<1>1. a <= b
  BY InApart
<1>2. ASSUME NEW y \in Coming(list, k + 1)
      PROVE  b < y /\ y \in Int
  <2>1. y \in Int
    BY DEF Coming
  <2> PICK n \in (k + 1)..Len(list) : y \in list[n].start..list[n].end
    BY DEF Coming
  <2>2. n \in 1..Len(list) /\ k < n
    OBVIOUS
  <2> PICK c, d \in Int : list[n].start = c /\ list[n].end = d
    BY <2>2, ElementTyped
  <2>3. b < c
    BY <2>2, InOrder
  <2>4. c <= y
    OBVIOUS
  <2> QED BY ONLY <2>1, <2>3, <2>4, b \in Int, c \in Int
<1>3. ASSUME NEW x \in a..b, NEW y \in Coming(list, k + 1)
      PROVE  x < y
  <2>1. x \in Int /\ x <= b
    OBVIOUS
  <2> QED BY ONLY <1>2, <2>1, b \in Int
<1>4. ASSUME NEW y \in Coming(list, k)
      PROVE  a <= y
  <2>1. Coming(list, k) = (list[k].start..list[k].end) \cup Coming(list, k + 1)
    BY ComingIs
  <2>2. y \in a..b \/ y \in Coming(list, k + 1)
    BY <2>1
  <2>3. CASE y \in a..b
    BY <2>3
  <2>4. CASE y \in Coming(list, k + 1)
    <3>1. b < y /\ y \in Int
      BY <1>2, <2>4
    <3> QED BY ONLY <1>1, <3>1, a \in Int, b \in Int
  <2> QED BY <2>2, <2>3, <2>4
<1> QED BY <1>2, <1>3, <1>4

\* Nothing comes that is not in the list.
LEMMA ComingInList ==
  ASSUME NEW list \in Seq(RangeType), NEW k \in 1..(Len(list) + 1)
  PROVE  Coming(list, k) \subseteq Offsets(list)
<1> SUFFICES ASSUME NEW x \in Coming(list, k) PROVE x \in Offsets(list)
  OBVIOUS
<1>1. PICK n \in k..Len(list) : x \in list[n].start..list[n].end
  BY DEF Coming
<1>2. n \in 1..Len(list)
  OBVIOUS
<1> QED BY <1>1, <1>2, InOffsets

\* The next offsets are added.
LEMMA TurnGrows ==
  ASSUME NEW a \in Seq(RangeType), NEW b \in Seq(RangeType), Disjoint(a, b),
         NEW o \in Seq(RangeType), NonEmpty(o),
         NEW m \in 1..(Len(a) + 1), NEW n \in 1..(Len(b) + 1), InTurn(o, a, m, b, n),
         NEW p \in 1..(Len(a) + 1), NEW q \in 1..(Len(b) + 1),
         NEW e \in RangeType, e.start <= e.end,
         (e.start..e.end) \cup Coming(a, p) \cup Coming(b, q) = Coming(a, m) \cup Coming(b, n),
         \A x \in e.start..e.end, y \in Coming(a, p) \cup Coming(b, q) : x < y
  PROVE  InTurn(Plus(o, e), a, p, b, q)
<1> PICK c, d \in Int : e.start = c /\ e.end = d /\ c <= d
  BY DEF RangeType
<1> PICK before, after : before = Coming(a, m) \cup Coming(b, n) /\ after = Coming(a, p) \cup Coming(b, q)
  OBVIOUS
<1>1. /\ Apart(o, 0)
      /\ \A x \in Offsets(o), y \in before : x < y
      /\ Offsets(o) \cup before = Offsets(a) \cup Offsets(b)
  BY DEF InTurn
<1>2. before = (c..d) \cup after
  OBVIOUS
<1>3. c \in c..d
  OBVIOUS
<1>4. \A x \in Offsets(o) : x < c
  BY ONLY <1>1, <1>2, <1>3
<1>5. c >= 0
  <2>1. c \in Offsets(a) \cup Offsets(b)
    BY ONLY <1>1, <1>2, <1>3
  <2> QED BY <2>1 DEF Disjoint
<1>6. Apart(Plus(o, e), 0) /\ Offsets(Plus(o, e)) = Offsets(o) \cup (c..d)
  <2>1. \A x \in Offsets(o) : x < e.start
    BY <1>4
  <2>2. e.start >= 0
    BY <1>5
  <2> PICK new : new = Plus(o, e)
    OBVIOUS
  <2>3. Apart(new, 0) /\ Offsets(new) = Offsets(o) \cup (e.start..e.end)
    BY <1>1, <2>1, <2>2, AddedTo
  <2> QED BY <2>3
<1>7. \A x \in Offsets(Plus(o, e)), y \in after : x < y
  <2>1. \A x \in c..d, y \in after : x < y
    OBVIOUS
  <2> QED BY ONLY <1>1, <1>2, <1>6, <2>1, Zenon
<1>8. Offsets(Plus(o, e)) \cup after = Offsets(a) \cup Offsets(b)
  BY ONLY <1>1, <1>2, <1>6
<1>9. Offsets(Plus(o, e)) \cup Coming(a, p) \cup Coming(b, q) = Offsets(a) \cup Offsets(b)
  BY <1>8
<1> QED BY <1>6, <1>7, <1>9 DEF InTurn

\* The current range of a ends before the one of b starts.
LEMMA TurnBefore ==
  ASSUME NEW a \in Seq(RangeType), NEW b \in Seq(RangeType), Apart(a, 0), Apart(b, 0),
         NEW m \in 1..Len(a), NEW n \in 1..Len(b), a[m].end < b[n].start
  PROVE  /\ (a[m].start..a[m].end) \cup Coming(a, m + 1) \cup Coming(b, n)
              = Coming(a, m) \cup Coming(b, n)
         /\ \A x \in a[m].start..a[m].end, y \in Coming(a, m + 1) \cup Coming(b, n) : x < y
<1> PICK r, l : r = a[m] /\ l = b[n]
  OBVIOUS
<1>1. Coming(a, m) = (r.start..r.end) \cup Coming(a, m + 1)
  BY SMTT(30), ComingIs
<1>2. ASSUME NEW x \in r.start..r.end, NEW y \in Coming(b, n)
      PROVE  x < y
  <2>1. y \in Int /\ l.start <= y
    BY ComingBehind DEF Coming
  <2>2. x \in Int /\ x <= r.end /\ r.end \in Int /\ l.start \in Int
    BY ElementTyped
  <2> QED BY ONLY <2>1, <2>2, r.end < l.start
<1>3. \A x \in r.start..r.end, y \in Coming(a, m + 1) : x < y
  BY ComingBehind
<1> QED BY <1>1, <1>2, <1>3

\* And the two touch.
LEMMA TurnJoined ==
  ASSUME NEW a \in Seq(RangeType), NEW b \in Seq(RangeType), Apart(a, 0), Apart(b, 0),
         Offsets(a) \cap Offsets(b) = {},
         NEW m \in 1..Len(a), NEW n \in 1..Len(b), a[m].end < b[n].start,
         b[n].start <= a[m].end + 1
  PROVE  /\ (a[m].start..a[m].end) \cup (b[n].start..b[n].end)
              \cup Coming(a, m + 1) \cup Coming(b, n + 1)
              = Coming(a, m) \cup Coming(b, n)
         /\ \A x \in (a[m].start..a[m].end) \cup (b[n].start..b[n].end),
               y \in Coming(a, m + 1) \cup Coming(b, n + 1) : x < y
<1> PICK r, l : r = a[m] /\ l = b[n]
  OBVIOUS
<1>1. /\ Coming(a, m) = (r.start..r.end) \cup Coming(a, m + 1)
      /\ Coming(b, n) = (l.start..l.end) \cup Coming(b, n + 1)
  BY ComingIs
<1> PICK u, v \in Int : u = r.end /\ v = l.start
  BY ElementTyped
<1> PICK w \in Int : w = l.end
  BY ElementTyped
<1>2. u < v /\ v <= u + 1
  OBVIOUS
<1>3. ASSUME NEW x \in r.start..r.end, NEW y \in Coming(b, n + 1)
      PROVE  x < y
  <2>1. y \in Coming(b, n)
    BY <1>1
  <2> QED BY <2>1, TurnBefore
<1>4. ASSUME NEW x \in l.start..l.end, NEW y \in Coming(a, m + 1)
      PROVE  x < y
  <2>1. y \in Int /\ u < y
    BY ComingBehind DEF Coming
  <2>2. y \in Offsets(a)
    <3>1. m + 1 \in 1..(Len(a) + 1)
      OBVIOUS
    <3> QED BY <3>1, ComingInList
  <2>3. y \notin v..w
    <3>1. y \notin Offsets(b)
      BY <2>2
    <3> QED BY <3>1, InOffsets
  <2>4. x \in Int /\ x <= w
    OBVIOUS
  <2> QED BY ONLY <1>2, <2>1, <2>3, <2>4, u \in Int, v \in Int, w \in Int
<1>5. \A x \in r.start..r.end, y \in Coming(a, m + 1) : x < y
  BY ComingBehind
<1>6. \A x \in l.start..l.end, y \in Coming(b, n + 1) : x < y
  BY ComingBehind
<1>7. (r.start..r.end) \cup (l.start..l.end) \cup Coming(a, m + 1) \cup Coming(b, n + 1)
        = Coming(a, m) \cup Coming(b, n)
  BY ONLY <1>1
<1> QED BY <1>3, <1>4, <1>5, <1>6, <1>7

\* An iteration adds a range again, one of the current ranges or both of them.
LEMMA UnionMoves ==
  ASSUME UnionStep, NEW r \in RangeType, NEW l \in RangeType, r = rl[i], l = ll[j]
  PROVE  /\ out' = Plus(out, toAdd') /\ UNCHANGED <<op, pc, given, rl, ll>>
         /\ \/ toAdd' = toAdd /\ (r.start <= r.end /\ l.start <= l.end =>
                                    \/ r.start <= l.start /\ l.end <= r.end
                                    \/ l.start <= r.start /\ r.end <= l.end)
            \/ /\ r.start <= r.end /\ l.start <= l.end
               /\ \/ /\ toAdd' = Join(r, l) /\ i' = i + 1 /\ j' = j + 1
                     /\ OverlapsFront(r, l) \/ OverlapsFront(l, r)
                  \/ toAdd' = r /\ i' = i + 1 /\ j' = j /\ r.end < l.start
                  \/ toAdd' = l /\ i' = i /\ j' = j + 1 /\ l.end < r.start
<1> PICK a, b, c, d \in Int : r.start = a /\ r.end = b /\ l.start = c /\ l.end = d
  BY DEF RangeType
<1> PICK p : p = Position(r, l)
  OBVIOUS
<1>1. ASSUME NEW e, Add(e)
      PROVE  toAdd' = e /\ out' = Plus(out, toAdd') /\ rl' = rl /\ ll' = ll
  BY <1>1 DEF Add, Plus
<1>2. op' = op /\ pc' = pc /\ given' = given
  BY DEF UnionStep, Continue
<1>3. Count(r) > 0 <=> a <= b
  BY DEF Count
<1>4. Count(l) > 0 <=> c <= d
  BY DEF Count
<1>5. (Count(r) <= 0 <=> ~(a <= b)) /\ (Count(l) <= 0 <=> ~(c <= d))
  BY DEF Count
<1>6. \/ ~(a <= b) /\ Add(toAdd)
      \/ a <= b /\ ~(c <= d) /\ Add(toAdd)
      \/ /\ a <= b /\ c <= d
         /\ \/ p = "around" /\ Add(toAdd)
            \/ p = "inside" /\ Add(toAdd)
            \/ p \in {"front", "back"} /\ Add(Join(r, l)) /\ i' = i + 1 /\ j' = j + 1
            \/ p = "before" /\ Add(r) /\ i' = i + 1 /\ j' = j
            \/ p = "after" /\ Add(l) /\ i' = i /\ j' = j + 1
  BY <1>3, <1>4, <1>5 DEF UnionStep, Continue
<1>7. a <= b /\ c <= d =>
        /\ p = "around" => a <= c /\ d <= b
        /\ p = "inside" => c <= a /\ b <= d
        /\ p = "before" => b < c
        /\ p = "after" => d + 1 < a
  BY PositionIs
<1>8. p \in {"front", "back"} => OverlapsFront(r, l) \/ OverlapsFront(l, r)
  BY DEF Position
<1>9. d + 1 < a => d < a
  OBVIOUS
<1>10. \E e : Add(e)
  BY ONLY <1>6
<1>11. out' = Plus(out, toAdd') /\ rl' = rl /\ ll' = ll
  BY ONLY <1>1, <1>10
<1>12. \/ ~(a <= b) /\ toAdd' = toAdd
       \/ a <= b /\ ~(c <= d) /\ toAdd' = toAdd
       \/ /\ a <= b /\ c <= d
          /\ \/ p = "around" /\ toAdd' = toAdd
             \/ p = "inside" /\ toAdd' = toAdd
             \/ p \in {"front", "back"} /\ toAdd' = Join(r, l) /\ i' = i + 1 /\ j' = j + 1
             \/ p = "before" /\ toAdd' = r /\ i' = i + 1 /\ j' = j
             \/ p = "after" /\ toAdd' = l /\ i' = i /\ j' = j + 1
  BY ONLY <1>1, <1>6
<1>13. \/ toAdd' = toAdd /\ (a <= b /\ c <= d => (a <= c /\ d <= b) \/ (c <= a /\ b <= d))
       \/ /\ a <= b /\ c <= d
          /\ \/ /\ toAdd' = Join(r, l) /\ i' = i + 1 /\ j' = j + 1
                /\ OverlapsFront(r, l) \/ OverlapsFront(l, r)
             \/ toAdd' = r /\ i' = i + 1 /\ j' = j /\ b < c
             \/ toAdd' = l /\ i' = i /\ j' = j + 1 /\ d < a
  BY ONLY <1>7, <1>8, <1>9, <1>12
<1> QED BY ONLY <1>2, <1>11, <1>13, r.start = a, r.end = b, l.start = c, l.end = d

\* Two ranges that have nothing in common do not lie in one another, and one
\* ends before the other starts.
LEMMA NothingInCommon ==
  ASSUME NEW a \in Seq(RangeType), NEW b \in Seq(RangeType), Disjoint(a, b),
         NEW m \in 1..Len(a), NEW n \in 1..Len(b)
  PROVE  /\ Apart(a, 0) /\ Apart(b, 0)
         /\ a[m].start <= a[m].end /\ b[n].start <= b[n].end
         /\ ~(a[m].start <= b[n].start /\ b[n].end <= a[m].end)
         /\ ~(b[n].start <= a[m].start /\ a[m].end <= b[n].end)
         /\ a[m].end < b[n].start \/ b[n].end < a[m].start
<1>1. Apart(a, 0) /\ Apart(b, 0)
  BY NormalApart DEF Disjoint
<1> PICK c, d, e, f \in Int : a[m].start = c /\ a[m].end = d /\ b[n].start = e /\ b[n].end = f
  BY ElementTyped
<1>2. c <= d /\ e <= f
  BY <1>1, InApart
<1>3. \A x : ~(x \in c..d /\ x \in e..f)
  BY InOffsets DEF Disjoint
<1>4. ~(c \in e..f) /\ ~(e \in c..d)
  <2>1. c \in c..d /\ e \in e..f
    BY <1>2
  <2> QED BY <1>3, <2>1
<1> QED BY <1>1, <1>2, <1>4

LEMMA InTurnSwapped ==
  ASSUME NEW o, NEW a, NEW m, NEW b, NEW n, InTurn(o, a, m, b, n)
  PROVE  InTurn(o, b, n, a, m)
BY Zenon DEF InTurn

\* The range that is added keeps the order.
LEMMA UnionTurn ==
  ASSUME NEW a \in Seq(RangeType), NEW b \in Seq(RangeType), Disjoint(a, b),
         NEW o \in Seq(RangeType), NonEmpty(o),
         NEW m \in 1..Len(a), NEW n \in 1..Len(b), InTurn(o, a, m, b, n),
         a[m].end < b[n].start
  PROVE  /\ InTurn(Plus(o, a[m]), a, m + 1, b, n)
<1> PICK r : r = a[m]
  OBVIOUS
<1>1. Apart(a, 0) /\ Apart(b, 0) /\ r.start <= r.end
  BY NothingInCommon
<1>2. r \in RangeType /\ m + 1 \in 1..(Len(a) + 1) /\ m \in 1..(Len(a) + 1) /\ n \in 1..(Len(b) + 1)
  BY SMTT(30), ElementTyped
<1>3. /\ (r.start..r.end) \cup Coming(a, m + 1) \cup Coming(b, n)
            = Coming(a, m) \cup Coming(b, n)
      /\ \A x \in r.start..r.end, y \in Coming(a, m + 1) \cup Coming(b, n) : x < y
  BY <1>1, TurnBefore
<1> QED BY <1>1, <1>2, <1>3, TurnGrows

\* Both current ranges are added at once, joined.
LEMMA UnionTurnJoined ==
  ASSUME NEW a \in Seq(RangeType), NEW b \in Seq(RangeType), Disjoint(a, b),
         NEW o \in Seq(RangeType), NonEmpty(o),
         NEW m \in 1..Len(a), NEW n \in 1..Len(b), InTurn(o, a, m, b, n),
         a[m].end < b[n].start, b[n].start <= a[m].end + 1,
         NEW e \in RangeType, e.start <= e.end,
         e.start..e.end = (a[m].start..a[m].end) \cup (b[n].start..b[n].end)
  PROVE  InTurn(Plus(o, e), a, m + 1, b, n + 1)
<1>1. Apart(a, 0) /\ Apart(b, 0) /\ Offsets(a) \cap Offsets(b) = {}
  BY NothingInCommon DEF Disjoint
<1>2. /\ m + 1 \in 1..(Len(a) + 1) /\ m \in 1..(Len(a) + 1)
      /\ n + 1 \in 1..(Len(b) + 1) /\ n \in 1..(Len(b) + 1)
  BY SMTT(30)
<1>3. /\ (a[m].start..a[m].end) \cup (b[n].start..b[n].end)
            \cup Coming(a, m + 1) \cup Coming(b, n + 1)
            = Coming(a, m) \cup Coming(b, n)
      /\ \A x \in (a[m].start..a[m].end) \cup (b[n].start..b[n].end),
            y \in Coming(a, m + 1) \cup Coming(b, n + 1) : x < y
  BY <1>1, TurnJoined
<1>4. /\ (e.start..e.end) \cup Coming(a, m + 1) \cup Coming(b, n + 1)
            = Coming(a, m) \cup Coming(b, n)
      /\ \A x \in e.start..e.end, y \in Coming(a, m + 1) \cup Coming(b, n + 1) : x < y
  BY <1>3
<1> QED BY <1>2, <1>4, TurnGrows

LEMMA DisjointSwapped ==
  ASSUME NEW a, NEW b, Disjoint(a, b)
  PROVE  Disjoint(b, a)
BY DEF Disjoint

LEMMA UnionStepInv ==
  ASSUME IndexInv, UnionInv, UnionStep
  PROVE  UnionInv'
<1>1. /\ rl \in Seq(RangeType) /\ ll \in Seq(RangeType)
      /\ i \in 1..Len(rl) /\ j \in 1..Len(ll)
  BY DEF IndexInv, ListsOK, IndexesInRange, UnionStep
<1>2. /\ rl = Receiver /\ ll = Argument
      /\ out \in Seq(RangeType) /\ NonEmpty(out)
      /\ Offsets(out) \subseteq Offsets(rl) \cup Offsets(ll)
      /\ Added(toAdd, out, rl, ll)
      /\ Normal(rl) /\ Normal(ll) => \A x \in Offsets(rl) \cup Offsets(ll) : x >= 0
      /\ Disjoint(rl, ll) => InTurn(out, rl, i, ll, j)
      /\ op = "union" /\ pc = "loop"
  BY DEF UnionStep, Looping, UnionInv
<1> PICK a, b : a = rl /\ b = ll
  OBVIOUS
<1> PICK r, l \in RangeType : r = rl[i] /\ l = ll[j]
  BY <1>1, ElementTyped
<1>3. /\ out' = Plus(out, toAdd') /\ UNCHANGED <<op, pc, given, rl, ll>>
      /\ \/ toAdd' = toAdd /\ (r.start <= r.end /\ l.start <= l.end =>
                                 \/ r.start <= l.start /\ l.end <= r.end
                                 \/ l.start <= r.start /\ r.end <= l.end)
         \/ /\ r.start <= r.end /\ l.start <= l.end
            /\ \/ /\ toAdd' = Join(r, l) /\ i' = i + 1 /\ j' = j + 1
                  /\ OverlapsFront(r, l) \/ OverlapsFront(l, r)
               \/ toAdd' = r /\ i' = i + 1 /\ j' = j /\ r.end < l.start
               \/ toAdd' = l /\ i' = i /\ j' = j + 1 /\ l.end < r.start
  BY UnionMoves
<1>4. /\ r.start..r.end \subseteq Offsets(a)
      /\ l.start..l.end \subseteq Offsets(b)
  BY <1>1, InOffsets
<1> PICK e : e = toAdd'
  OBVIOUS
<1>5. \/ e = Interval(0, -1) /\ out = <<>>
      \/ e \in RangeType /\ e.start <= e.end /\ e.start..e.end \subseteq Offsets(a) \cup Offsets(b)
  <2>1. CASE toAdd' = toAdd
    BY <1>2, <2>1 DEF Added
  <2>2. CASE /\ r.start <= r.end /\ l.start <= l.end /\ toAdd' = Join(r, l)
             /\ OverlapsFront(r, l) \/ OverlapsFront(l, r)
    <3>1. /\ e \in RangeType /\ e.start <= e.end
          /\ e.start..e.end = (r.start..r.end) \cup (l.start..l.end)
      BY <2>2, JoinIs
    <3> QED BY <1>4, <3>1
  <2>3. CASE r.start <= r.end /\ toAdd' = r
    BY <1>4, <2>3
  <2>4. CASE l.start <= l.end /\ toAdd' = l
    BY <1>4, <2>4
  <2> QED BY <1>3, <2>1, <2>2, <2>3, <2>4
<1> PICK new : new = out'
  OBVIOUS
<1>6. /\ new \in Seq(RangeType) /\ NonEmpty(new)
      /\ Offsets(new) \subseteq Offsets(a) \cup Offsets(b)
      /\ Added(e, new, a, b)
  <2>1. CASE e = Interval(0, -1) /\ out = <<>>
    <3>1. new = <<>>
      <4>1. e.end = -1
        BY <2>1, RangeTyped
      <4>2. ~(e.end >= 0)
        BY <4>1
      <4> QED BY <1>3, <2>1, <4>2 DEF Plus
    <3> QED BY <1>2, <2>1, <3>1 DEF Added
  <2>2. CASE e \in RangeType /\ e.start <= e.end /\ e.start..e.end \subseteq Offsets(a) \cup Offsets(b)
    <3>1. /\ new \in Seq(RangeType) /\ NonEmpty(new)
          /\ Offsets(new) \subseteq Offsets(out) \cup (e.start..e.end)
      BY <1>2, <1>3, <2>2, AddedTo
    <3> QED BY <1>2, <2>2, <3>1 DEF Added
  <2> QED BY <1>5, <2>1, <2>2
<1>7. ASSUME Disjoint(a, b)
      PROVE  InTurn(new, a, i', b, j')
  <2>1. /\ a \in Seq(RangeType) /\ b \in Seq(RangeType)
        /\ i \in 1..Len(a) /\ j \in 1..Len(b) /\ r = a[i] /\ l = b[j]
        /\ Disjoint(b, a)
    BY <1>1, <1>7, DisjointSwapped
  <2>2. /\ r.start <= r.end /\ l.start <= l.end
        /\ ~(r.start <= l.start /\ l.end <= r.end)
        /\ ~(l.start <= r.start /\ r.end <= l.end)
        /\ r.end < l.start \/ l.end < r.start
    BY <1>7, <2>1, NothingInCommon
  <2>3. InTurn(out, a, i, b, j) /\ InTurn(out, b, j, a, i)
    BY <1>2, <1>7, InTurnSwapped
  <2>4. CASE toAdd' = r /\ i' = i + 1 /\ j' = j /\ r.end < l.start
    <3>1. InTurn(Plus(out, r), a, i + 1, b, j)
      BY <1>2, <1>7, <2>1, <2>3, <2>4, UnionTurn
    <3> QED BY <1>3, <2>4, <3>1
  <2>5. CASE toAdd' = l /\ i' = i /\ j' = j + 1 /\ l.end < r.start
    <3>1. InTurn(Plus(out, l), b, j + 1, a, i)
      BY <1>2, <2>1, <2>3, <2>5, UnionTurn
    <3>2. InTurn(Plus(out, l), a, i, b, j + 1)
      BY <3>1, InTurnSwapped
    <3> QED BY <1>3, <2>5, <3>2
  <2>6. CASE /\ toAdd' = Join(r, l) /\ i' = i + 1 /\ j' = j + 1
             /\ OverlapsFront(r, l) \/ OverlapsFront(l, r)
    <3>1. /\ e \in RangeType /\ e.start <= e.end
          /\ e.start..e.end = (r.start..r.end) \cup (l.start..l.end)
      BY <2>2, <2>6, JoinIs
    <3>2. \/ r.end < l.start /\ l.start <= r.end + 1
          \/ l.end < r.start /\ r.start <= l.end + 1
      <4> PICK c, d, f, g \in Int : r.start = c /\ r.end = d /\ l.start = f /\ l.end = g
        BY DEF RangeType
      <4>1. (c <= f /\ d + 1 >= f) \/ (f <= c /\ g + 1 >= c)
        BY <2>6 DEF OverlapsFront
      <4>2. c <= d /\ f <= g /\ (d < f \/ g < c)
        BY <2>2
      <4> QED BY <4>1, <4>2
    <3>3. CASE r.end < l.start /\ l.start <= r.end + 1
      <4>1. InTurn(Plus(out, e), a, i + 1, b, j + 1)
        BY <1>2, <1>7, <2>1, <2>3, <3>1, <3>3, UnionTurnJoined
      <4> QED BY <1>3, <2>6, <4>1
    <3>4. CASE l.end < r.start /\ r.start <= l.end + 1
      <4>1. e.start..e.end = (l.start..l.end) \cup (r.start..r.end)
        BY <3>1
      <4>2. InTurn(Plus(out, e), b, j + 1, a, i + 1)
        BY <1>2, <2>1, <2>3, <3>1, <3>4, <4>1, UnionTurnJoined
      <4>3. InTurn(Plus(out, e), a, i + 1, b, j + 1)
        BY <4>2, InTurnSwapped
      <4> QED BY <1>3, <2>6, <4>3
    <3> QED BY <3>2, <3>3, <3>4
  <2> QED BY <1>3, <2>2, <2>4, <2>5, <2>6
<1>8. /\ rl' = a /\ ll' = b /\ given' = given /\ op' = "union" /\ pc' = "loop"
      /\ out' = new /\ toAdd' = e
  BY <1>2, <1>3
<1> QED BY <1>2, <1>6, <1>7, <1>8 DEF UnionInv, Receiver, Argument

\* The lists of a call have no offset below 0.
LEMMA NoSign ==
  ASSUME NEW a \in Lists \cup OpenLists
  PROVE  a \in Seq(RangeType) /\ (Normal(a) => \A x \in Offsets(a) : x >= 0)
<1>1. a \in Seq(RangeType)
  BY ListsAssumption
<1>2. ASSUME NEW x \in Offsets(a)
      PROVE  x >= 0
  <2> PICK k \in 1..Len(a) : x \in a[k].start..a[k].end
    BY <1>1, InOffsets
  <2>1. a[k].start \in Int /\ a[k].end \in Int
    BY <1>1, ElementTyped
  <2>2. a[k].start >= 0
    <3>1. k \in DOMAIN a
      BY <1>1
    <3> QED BY <3>1, OffsetsAssumption
  <2> QED BY <2>1, <2>2
<1> QED BY <1>1, <1>2

LEMMA CallUnion ==
  ASSUME NEW a \in Lists \cup OpenLists, NEW b \in Lists \cup OpenLists, Union(a, b)
  PROVE  UnionInv'
<1>1. /\ a \in Seq(RangeType) /\ b \in Seq(RangeType)
      /\ Normal(a) /\ Normal(b) => \A x \in Offsets(a) \cup Offsets(b) : x >= 0
  BY NoSign
<1>2. op' = "union" /\ given' = <<a, b>> /\ rl' = a /\ ll' = b /\ j' = 1
      /\ toAdd' = Interval(0, -1)
  BY DEF Union, Start
<1>3. Receiver' = a /\ Argument' = b
  BY <1>2 DEF Receiver, Argument
<1>4. CASE b = <<>> \/ a = <<>>
  <2>1. pc' = "done" /\ out' = (IF b = <<>> THEN a ELSE b)
    BY <1>4 DEF Union, Shortcut
  <2>2. Offsets(out') = Offsets(a) \cup Offsets(b) /\ out' \in {a, b}
    BY <1>4, <2>1, EmptyList
  <2> QED BY <1>3, <2>1, <2>2 DEF UnionInv, UnionDisjointExact, Finished
<1>5. CASE ~(b = <<>> \/ a = <<>>)
  <2>1. pc' = "loop" /\ i' = 1 /\ out' = <<>>
    BY <1>5 DEF Union, Enter
  <2>2. NonEmpty(<<>>) /\ <<>> \in Seq(RangeType) /\ Offsets(<<>>) = {}
    BY EmptyList DEF NonEmpty
  <2>3. Added(Interval(0, -1), <<>>, a, b)
    BY DEF Added
  <2>4. ASSUME Disjoint(a, b)
        PROVE  InTurn(<<>>, a, 1, b, 1)
    <3>1. Apart(a, 0) /\ Apart(b, 0) /\ Apart(<<>>, 0)
      BY <1>1, <2>4, EmptyList, NormalApart DEF Disjoint
    <3>2. 1 \in 1..(Len(a) + 1) /\ 1 \in 1..(Len(b) + 1)
      BY <1>1
    <3>3. Coming(a, 1) = Offsets(a) /\ Coming(b, 1) = Offsets(b)
      BY <1>1, <3>1, <3>2, ComingIs
    <3> QED BY <2>2, <3>1, <3>3 DEF InTurn
  <2> QED BY <1>1, <1>2, <1>3, <2>1, <2>2, <2>3, <2>4 DEF UnionInv
<1> QED BY <1>4, <1>5

\* The end of a list that is not a list in order.
LEMMA RestInList ==
  ASSUME NEW list \in Seq(RangeType), NEW k \in 1..(Len(list) + 1)
  PROVE  Rest(list, k) \in Seq(RangeType) /\ Offsets(Rest(list, k)) \subseteq Offsets(list)
<1> PICK rest : rest = Rest(list, k)
  OBVIOUS
<1>1. rest \in Seq(RangeType) /\ Len(rest) = Len(list) - k + 1
  BY RestProperties
<1>2. ASSUME NEW n \in 1..Len(rest)
      PROVE  n + k - 1 \in 1..Len(list) /\ rest[n] = list[n + k - 1]
  BY <1>1 DEF Rest
<1>3. ASSUME NEW x \in Offsets(rest)
      PROVE  x \in Offsets(list)
  <2>1. PICK n \in 1..Len(rest) : x \in rest[n].start..rest[n].end
    BY <1>1, InOffsets
  <2> QED BY <1>2, <2>1, InOffsets
<1> QED BY <1>1, <1>3

\* One list is used up: what is left of the other one goes behind what was
\* added, and completes it if the lists have nothing in common.
LEMMA RemainderIs ==
  ASSUME NEW a \in Seq(RangeType), NEW b \in Seq(RangeType), a # <<>>,
         NEW o \in Seq(RangeType), NEW n \in 1..(Len(b) + 1)
  PROVE  /\ Remainder(a, b, n) \in Seq(RangeType)
         /\ Offsets(Remainder(a, b, n)) \subseteq Offsets(b)
         /\ Disjoint(a, b) /\ InTurn(o, a, Len(a) + 1, b, n) =>
              /\ Apart(Remainder(a, b, n), 0)
              /\ Offsets(Remainder(a, b, n)) = Coming(b, n)
<1>1. /\ Rest(b, n) \in Seq(RangeType) /\ Offsets(Rest(b, n)) \subseteq Offsets(b)
      /\ <<>> \in Seq(RangeType) /\ Offsets(<<>>) = {} /\ Apart(<<>>, 0)
  BY RestInList, EmptyList, NormalApart
<1>2. Remainder(a, b, n) \in {Rest(b, n), <<>>}
  BY DEF Remainder
<1>3. ASSUME Disjoint(a, b), InTurn(o, a, Len(a) + 1, b, n)
      PROVE  /\ Apart(Remainder(a, b, n), 0)
             /\ Offsets(Remainder(a, b, n)) = Coming(b, n)
  <2>1. Apart(a, 0) /\ Apart(b, 0)
    BY <1>3, NormalApart DEF Disjoint
  <2>2. CASE n > Len(b)
    <3>1. Remainder(a, b, n) = <<>>
      BY <2>2 DEF Remainder
    <3>2. Coming(b, n) = {}
      BY <2>1, <2>2, ComingIs
    <3> QED BY <1>1, <3>1, <3>2
  <2>3. CASE ~(n > Len(b))
    <3>1. n \in 1..Len(b) /\ n <= Len(b) /\ Len(a) \in 1..Len(a) /\ Len(a) + 1 \in 1..(Len(a) + 1)
      BY <2>3
    <3> PICK last : last = a[Len(a)]
      OBVIOUS
    <3>2. Last(a) = last
      BY DEF Last
    <3> PICK x, u, v, w \in Int :
           x = last.end /\ u = b[n].start /\ v = b[n].end /\ w = last.start
      BY <3>1, ElementTyped
    <3>3. u <= v /\ w <= x
      BY <2>1, <3>1, InApart
    <3>4. x \in Offsets(a)
      BY <3>1, <3>3, EndsInOffsets
    <3>5. Coming(a, Len(a) + 1) = {}
      <4>1. Len(a) + 1 > Len(a)
        OBVIOUS
      <4> QED BY <2>1, <3>1, <4>1, ComingIs
    <3>6. x \notin Coming(b, n)
      <4>1. x \notin Offsets(b)
        BY <1>3, <3>4 DEF Disjoint
      <4> QED BY <4>1, ComingInList
    <3>7. x \in Offsets(o)
      BY <1>3, <3>4, <3>5, <3>6 DEF InTurn
    <3>8. u \in Coming(b, n)
      <4>1. u \in u..v
        BY SMTT(30), <3>3
      <4> QED BY <2>1, <3>1, <4>1, ComingIs
    <3>9. x < u
      BY <1>3, <3>7, <3>8 DEF InTurn
    <3>10. x <= v
      BY SMTT(30), <3>3, <3>9
    <3>11. Remainder(a, b, n) = Rest(b, n)
      BY <3>1, <3>2, <3>10 DEF Remainder
    <3>12. Apart(Rest(b, n), 0) /\ Offsets(Rest(b, n)) = Coming(b, n)
      BY <2>1, ComingIs, RestApart
    <3> QED BY <3>11, <3>12
  <2> QED BY <2>2, <2>3
<1> QED BY <1>1, <1>2, <1>3

LEMMA UnionEnds ==
  ASSUME NEW a \in Seq(RangeType), NEW b \in Seq(RangeType), a # <<>>,
         NEW o \in Seq(RangeType), Offsets(o) \subseteq Offsets(a) \cup Offsets(b),
         NEW n \in 1..(Len(b) + 1),
         Disjoint(a, b) => InTurn(o, a, Len(a) + 1, b, n),
         NEW result, result = Flatten(o \o Remainder(a, b, n))
  PROVE  /\ Offsets(result) \subseteq Offsets(a) \cup Offsets(b)
         /\ Disjoint(a, b) => Offsets(result) = Offsets(a) \cup Offsets(b) /\ Normal(result)
<1> PICK rest : rest = Remainder(a, b, n)
  OBVIOUS
<1>1. rest \in Seq(RangeType) /\ Offsets(rest) \subseteq Offsets(b)
  BY RemainderIs
<1> PICK all : all = o \o rest
  OBVIOUS
<1>2. all \in Seq(RangeType) /\ Offsets(all) = Offsets(o) \cup Offsets(rest)
  BY <1>1, OffsetsConcat
<1>3. Offsets(result) \subseteq Offsets(a) \cup Offsets(b)
  <2>1. Offsets(result) = Offsets(all)
    BY <1>2, FlattenOffsets
  <2> QED BY <1>1, <1>2, <2>1
<1>4. ASSUME Disjoint(a, b)
      PROVE  Offsets(result) = Offsets(a) \cup Offsets(b) /\ Normal(result)
  <2>1. /\ Apart(o, 0)
        /\ \A x \in Offsets(o), y \in Coming(a, Len(a) + 1) \cup Coming(b, n) : x < y
        /\ Offsets(o) \cup Coming(a, Len(a) + 1) \cup Coming(b, n) = Offsets(a) \cup Offsets(b)
    BY <1>4 DEF InTurn
  <2>2. Coming(a, Len(a) + 1) = {}
    <3>1. Len(a) + 1 > Len(a) /\ Len(a) + 1 \in 1..(Len(a) + 1) /\ Apart(a, 0)
      BY <1>4, NormalApart DEF Disjoint
    <3> QED BY <3>1, ComingIs
  <2>3. Apart(rest, 0) /\ Offsets(rest) = Coming(b, n)
    BY <1>4, RemainderIs
  <2>4. \A x \in Offsets(o), y \in Offsets(rest) : x < y
    BY <2>1, <2>3
  <2>5. Apart(all, 0)
    BY <1>1, <2>1, <2>3, <2>4, ApartConcat
  <2>6. Offsets(all) = Offsets(a) \cup Offsets(b)
    BY ONLY <1>2, <2>1, <2>2, <2>3
  <2> QED BY <1>2, <2>5, <2>6, FlattenApart
<1> QED BY <1>3, <1>4

LEMMA UnionReturnInv ==
  ASSUME IndexInv, UnionInv, UnionReturn
  PROVE  UnionInv'
<1>1. /\ rl \in Seq(RangeType) /\ ll \in Seq(RangeType) /\ rl # <<>> /\ ll # <<>>
      /\ i \in 1..(Len(rl) + 1) /\ j \in 1..(Len(ll) + 1)
  BY DEF IndexInv, ListsOK, IndexesInRange, UnionReturn, Looping
<1>2. /\ rl = Receiver /\ ll = Argument /\ out \in Seq(RangeType)
      /\ Offsets(out) \subseteq Offsets(rl) \cup Offsets(ll)
      /\ Normal(rl) /\ Normal(ll) => \A x \in Offsets(rl) \cup Offsets(ll) : x >= 0
      /\ Disjoint(rl, ll) => InTurn(out, rl, i, ll, j)
  BY DEF UnionReturn, Looping, UnionInv
<1> PICK a, b : a = rl /\ b = ll
  OBVIOUS
<1>3. /\ pc' = "done" /\ op' = "union" /\ given' = given
      /\ Receiver' = a /\ Argument' = b
  BY <1>2 DEF UnionReturn, Looping, Done, Receiver, Argument
<1> PICK result : result = out'
  OBVIOUS
<1>4. /\ Offsets(result) \subseteq Offsets(a) \cup Offsets(b)
      /\ Disjoint(a, b) => Offsets(result) = Offsets(a) \cup Offsets(b) /\ Normal(result)
  <2>1. CASE i > Len(a)
    <3>1. i = Len(a) + 1
      BY <1>1, <2>1
    <3>2. result = Flatten(out \o Remainder(a, b, j))
      BY <1>1, <2>1 DEF UnionReturn, Done
    <3>3. Disjoint(a, b) => InTurn(out, a, Len(a) + 1, b, j)
      BY <1>2, <3>1
    <3> QED BY <1>1, <1>2, <3>2, <3>3, UnionEnds
  <2>2. CASE ~(i > Len(a))
    <3>1. j = Len(b) + 1 /\ i <= Len(a)
      BY <1>1, <2>2 DEF UnionReturn
    <3>2. result = Flatten(out \o Remainder(b, a, i))
      BY <2>2 DEF UnionReturn, Done
    <3>3. Disjoint(b, a) => InTurn(out, b, Len(b) + 1, a, i)
      BY <1>2, <3>1, DisjointSwapped, InTurnSwapped
    <3>4. Offsets(out) \subseteq Offsets(b) \cup Offsets(a)
      BY <1>2
    <3>5. /\ Offsets(result) \subseteq Offsets(b) \cup Offsets(a)
          /\ Disjoint(b, a) => Offsets(result) = Offsets(b) \cup Offsets(a) /\ Normal(result)
      BY <1>1, <1>2, <3>2, <3>3, <3>4, UnionEnds
    <3> QED BY <3>5, DisjointSwapped
  <2> QED BY <2>1, <2>2
<1>5. Normal(a) /\ Normal(b) /\ Offsets(a) \cap Offsets(b) = {} => Disjoint(a, b)
  BY <1>2 DEF Disjoint
<1>6. UnionDisjointExact'
  BY <1>3, <1>4, <1>5 DEF UnionDisjointExact
<1> QED BY <1>3, <1>6 DEF UnionInv

LEMMA StepUnion == IndexInv /\ UnionInv /\ [Next]_vars => UnionInv'
<1> SUFFICES ASSUME IndexInv, UnionInv, [Next]_vars PROVE UnionInv'
  OBVIOUS
<1>1. CASE Call
  <2>1. ASSUME NEW a \in Lists \cup OpenLists, NEW b \in Lists \cup OpenLists, Union(a, b)
        PROVE  UnionInv'
    BY <2>1, CallUnion
  <2>2. CASE op' # "union"
    BY <2>2 DEF UnionInv
  <2>3. CASE op' = "union"
    BY <1>1, <2>1, <2>3 DEF Call, RangesContain, Subtract, Intersection, InplaceUnion, Start
  <2> QED BY <2>2, <2>3
<1>2. CASE UnionStep
  BY <1>2, UnionStepInv
<1>3. CASE UnionReturn
  BY <1>3, UnionReturnInv
<1>4. CASE Step /\ ~UnionStep /\ ~UnionReturn
  <2>1. op' # "union"
    BY ZenonT(30), <1>4 DEF Step, ContainsStep, ContainsReturn, SubtractStep, SubtractAround,
       SubtractRest, SubtractReturn, InplaceUnionStep, Rejoin, IntersectionStep,
       IntersectionReturn, Looping, Continue, Done
  <2> QED BY <2>1 DEF UnionInv
<1>5. CASE Return
  BY <1>5 DEF Return, UnionInv
<1>6. CASE UNCHANGED vars
  BY <1>6 DEF vars, UnionInv, UnionDisjointExact, Finished, Receiver, Argument
<1> QED BY <1>1, <1>2, <1>3, <1>4, <1>5, <1>6 DEF Next

\* RangeList.Union (fec/util.go:439-509) returns no offset that neither of its
\* lists has, whatever they have in common and whether or not one of them ends
\* with an open range; and it is the union, as a normal list, of normal lists
\* that have nothing in common: for lists of any length.
THEOREM UnionDisjointIsExact == Spec => []UnionDisjointExact
<1>1. Init => UnionInv
  BY DEF Init, UnionInv
<1>2. UnionInv => UnionDisjointExact
  BY DEF UnionInv, UnionDisjointExact, Finished
<1> QED BY <1>1, <1>2, InitIndex, StepIndex, StepUnion, PTL DEF Spec

=============================================================================
