SPECIFICATION FairSpec
CONSTANTS
  Vars = {1,2,3,4,5}
  Formulas <- Answers
  Preferred <- Falsify4
  Vivifications <- VivifiedOnce
  LuckyCalls <- LuckyTwice
  ChronoLevels = 1
  BigBig = TRUE
  Minimizing = FALSE
  Shrinking = 3
  MinimizeDepth = 1000
  Otfs = TRUE
  EagerSubsume = 1
  MaxReductions = 1
INVARIANTS IrredundantSuffices
PROPERTIES LearnedIsNew Implements Terminates
