SPECIFICATION MemSpec
CONSTANTS
  NULL = NULL
  Tasks = {t1, t2, t3}
  Workers = {w1, w2}
  MaxSessions = 2
  Blocks = 1
INVARIANTS
  MemTypeOK
  CountExact
  OnePlace
  StopWaits
  NoTaskLeftAtExit
PROPERTIES
  ProgramWaitEnds
  StopReturnsOrWaits
CHECK_DEADLOCK FALSE
