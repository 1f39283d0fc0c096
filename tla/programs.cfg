SPECIFICATION MCFair
CONSTANTS
  NULL = NULL
  Objects = {A, B, C}
  Fields = {X, Y}
  Links = {1, 2, 3, 4, 5, 6}
  Collectors = {k1, k2, k3, k4, k5}
  Workers = {w1, w2}
  MaxRoots = 3
  A = A
  B = B
  C = C
  D = D
  X = X
  Y = Y
  Programs = {"simplecycle", "simplecycle2", "wheel", "slist_create", "harden",
              "redirect", "weakly_held"}
  Alone = {"multi_collect", "clique", "doubly_linked_list"}
INVARIANTS
  NoFailure
  AccessibleAlive
  NoDangling
  CountsExact
  NothingStranded
PROPERTY
  AllCollected
