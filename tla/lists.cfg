SPECIFICATION Spec
CONSTANTS
  Handles = {L, M}
  L = L
  M = M
  Nodes = {1, 2, 3, 4}
  Elements = {1, 2, 3}
  Rank <- MCRank
  Keep <- MCKeep
  Copy <- MCCopy
  MaxWalked = 3
  AnyAdd = FALSE
  NULL = NULL
VIEW UpToNames
INVARIANTS  IteratorLive ReadersAgree
 
CHECK_DEADLOCK FALSE
