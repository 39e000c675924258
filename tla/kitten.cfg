SPECIFICATION Spec
CONSTANTS
  Vars = {1,2,3,4}
  Problems <- MCProblems
  Orders <- MCOrders
  Phases <- MCPhases
  MaxSolves = 3
  MaxCalls = 3
INVARIANTS AnswersRight ChainsImplied NothingMissed
CHECK_DEADLOCK FALSE
