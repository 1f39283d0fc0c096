SPECIFICATION Spec
CONSTANTS
  NONE = NONE
  Keys = {0, 1, 2, 4, 5, 8}
  Values = {6, 7}
  Capacities = {0, 1, 3}
  MAX_POW_TWO = 8
INVARIANTS
  WellPlaced
  RoomLeft
PROPERTY
  IsDictionary
