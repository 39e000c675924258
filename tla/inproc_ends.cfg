SPECIFICATION FairSpec
CONSTANTS
  FactorSize = 5
  Vars = {1, 2, 3, 4, 5}
  OccurrenceLimit = 6
  ClauseLimit = 4
  Bound = 0
  FastOccurrences = 6
  FastLimit = 2
  FastSubsumption = TRUE
  Problems <- SubstituteProblems
PROPERTIES ProcedureEnds
