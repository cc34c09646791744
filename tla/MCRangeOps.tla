----------------------------- MODULE MCRangeOps -----------------------------
(* Values of the constants of RangeOps for model checking. *)
EXTENDS RangeOps

\* The lists over the offsets 0..n with this gap between neighbours: one for
\* every set of cuts, built by adding a last range to a shorter list.
ListsOver(n, gap) ==
  LET last == {Interval(a, b) : a, b \in 0..n}
      grow(ls) == {rs \in {Append(l, r) : l \in ls, r \in last} : Apart(rs, gap)}
      two == grow({<<>>}) \cup grow(grow({<<>>}))
  IN  {<<>>} \cup two \cup grow(grow(grow({<<>>})))

\* Lists whose ranges may touch on few offsets, normal ones on more.
SmallLists == ListsOver(3, 0) \cup ListsOver(5, 1)

OpenEnded ==
  {Append(l, Interval(k, -1)) : l \in ListsOver(2, 1), k \in {4}}

NormalLists == ListsOver(4, 1)

None == {}

=============================================================================
