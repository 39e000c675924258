SPECIFICATION Spec
CONSTANTS
  Vars = {1,2,3,4}
  Problems <- FlipProblems
  Orders <- MCOrders
  Phases <- MCPhases
  MaxSolves = 3
  MaxCalls = 3
INVARIANTS FormulaSatisfied
CHECK_DEADLOCK FALSE
