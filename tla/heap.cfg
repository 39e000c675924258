SPECIFICATION Spec
CONSTANTS
  i1 = i1
  i2 = i2
  i3 = i3
  i4 = i4
  i5 = i5
  i6 = i6
  Indices = {i1, i2, i3, i4, i5, i6}
  MaxScore = 2
SYMMETRY Symmetry
INVARIANTS AlwaysOrdered
PROPERTIES LosesOnlyTheMaximum
