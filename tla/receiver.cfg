SPECIFICATION ReceiverSpec
CONSTANTS
  Max32 = 256
  Max64 = 65536
  HasLists <- HadLists
  Starts <- First
  Ends <- Final
  Structures <- MadeStructures
  ByteLists <- AllLists
  Texts <- SomeTexts
INVARIANTS MissingExact MissingNormal FromListExact ForSBNComplete MissingBalanced ToListExact
  RequestSuffices TextInRunsExact
