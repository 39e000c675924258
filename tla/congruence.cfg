SPECIFICATION FairSpec
CONSTANTS
  Vars <- MCVars
  Problems <- MCProblems
  Eligible <- MCEligible
INVARIANTS TypeOK ClausesEquivalent GatesImplied ClosureComplete
PROPERTIES ClosureEnds
