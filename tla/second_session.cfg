SPECIFICATION FairSpec
CONSTANTS
  NULL = NULL
  Tasks = {t1, t2}
  Workers = {w1, w2}
  MaxSessions = 2
PROPERTY
  StopReturns
CHECK_DEADLOCK FALSE
