SPECIFICATION FairSpec
CONSTANTS
  Lists <- SmallLists
  OpenLists <- OpenEnded
INVARIANTS IndexesInRange IntersectionExact SubtractPartExact
  UnionDisjointExact InplaceUnionExact ContainsExact
PROPERTIES CallsReturn
