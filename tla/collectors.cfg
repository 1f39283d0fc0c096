SPECIFICATION Spec
CONSTANTS
  NULL = NULL
  o1 = o1
  o2 = o2
  o3 = o3
  c1 = c1
  c2 = c2
  c3 = c3
  m = m
  w1 = w1
  w2 = w2
  Mutator = m
  Workers = {w1, w2}
  Threads = {w1, w2, m}
  Objects = {o1, o2, o3}
  Collectors = {c1, c2, c3}
  Order <- MCOrder
  Nesting <- MCNesting
  Starts <- MCStarts
  Adds <- MCAdds
INVARIANTS
  LocksOrdered
  NoDeadlock
  LocksReleased
  CollectorsAlive
  NothingStranded
  CountsKept

  
CHECK_DEADLOCK FALSE
