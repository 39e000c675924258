SPECIFICATION Spec
CONSTANTS
  Vars = {1,2,3,4}
  Problems <- EmptyProblems
  Orders <- MCOrders
  Phases <- MCPhases
  MaxSolves = 3
  MaxCalls = 3
INVARIANTS InconsistentKept
CHECK_DEADLOCK FALSE
