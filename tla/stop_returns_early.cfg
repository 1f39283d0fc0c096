SPECIFICATION Spec
CONSTANTS
  NULL = NULL
  Tasks = {t1, t2}
  Workers = {w1, w2}
  MaxSessions = 2
INVARIANT
  StopComplete
CHECK_DEADLOCK FALSE
