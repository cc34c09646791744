SPECIFICATION Spec
CONSTANTS
  Lists <- NormalLists
  OpenLists <- None
INVARIANTS SubtractExact
