SPECIFICATION GraphSpec
CONSTANTS
  NULL = NULL
  Objects = {a, b, c}
  Fields = {x, y}
  Links = {1, 2, 3}
  Collectors = {k1, k2, k3, k4, k5}
  Workers = {w1, w2}
  MaxRoots = 2
  MaxShared = 2
  MaxOps = 7
SYMMETRY SymmetricGraphs
INVARIANTS
  NoFailure
  
  AccessibleAlive
  CleanedUnreachable
  NoDangling
  CountsExact
  OwnedByLister
  CollectorsReclaimed
