SPECIFICATION Spec
CONSTANTS
  Max32 = 256
  Max64 = 65536
  Lengths = {3, 5, 9}
  MaxSbLens = {2}
  ESLens = {2}
  Groups = {1}
  MaxDuring = 1
  Queries = {"SrcOffset", "SrcBlockSize", "NumSrcSym", "SourceSBN"}
INVARIANTS QueriesDoNotPanic StreamQueriesExact
