SPECIFICATION AnySpec
CONSTANTS
  NULL = NULL
  Objects = {a, b}
  Fields = {x}
  Links = {1, 2, 3}
  Collectors = {k1, k2, k3, k4, k5}
  Workers = {w1, w2}
  MaxRoots = 2
  MaxOps = 7
SYMMETRY Symmetric
INVARIANTS
  TypeOK
  RefCountExact
  ChainsLive
  OneTaskPerCollector
  OnePhantomizer
CHECK_DEADLOCK FALSE
