SPECIFICATION Spec
CONSTANTS
  v1 = v1
  v2 = v2
  v3 = v3
  Vars = {v1, v2, v3}
  DISCONNECT = none
  MaxStamp = 3
  Stable = 1
  Randec = FALSE
  Reordering = TRUE
  Unit = 1
  MaxScore = 2
SYMMETRY Symmetry
INVARIANTS TypeOK SearchSound HeapComplete
PROPERTIES DecidesBest
