SPECIFICATION Spec
CONSTANTS
  Max32 = 256
  Max64 = 65536
  Lengths = {1, 9, 13}
  MaxSbLens = {0, 2, 3}
  ESLens = {0, 1, 2}
  Groups = {0, 1}
  Queries = {}
  MaxDuring = 1
INVARIANTS PartitionAtRest LookupAtRest SymbolsAtRest
