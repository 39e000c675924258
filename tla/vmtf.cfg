SPECIFICATION Spec
CONSTANTS
  v1 = v1
  v2 = v2
  v3 = v3
  v4 = v4
  Vars = {v1, v2, v3, v4}
  DISCONNECT = none
  MaxStamp = 6
SYMMETRY Symmetry
INVARIANTS TypeOK StampsOrder SearchCached SearchPointer
PROPERTIES OnlyLastOvertakes
