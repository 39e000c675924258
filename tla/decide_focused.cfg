SPECIFICATION Spec
CONSTANTS
  v1 = v1
  v2 = v2
  v3 = v3
  v4 = v4
  Vars = {v1, v2, v3, v4}
  DISCONNECT = none
  MaxStamp = 4
  Stable = 0
  Randec = TRUE
  Reordering = TRUE
  Unit = 1
  MaxScore = 2
SYMMETRY Symmetry
INVARIANTS QueueLinked
PROPERTIES ImplementsVmtf
