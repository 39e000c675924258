SPECIFICATION Spec
CONSTANTS
  Vars = {1,2,3,4,5,6,7,8,9}
  Formulas <- Trails
  Preferred <- Guided
  Vivifications <- VivifiedOnce
  LuckyCalls <- LuckyTwice
  ChronoLevels = 0
  BigBig = FALSE
  Minimizing = TRUE
  Shrinking = 3
  MinimizeDepth = 1000
  Otfs = TRUE
  EagerSubsume = 4
  MaxReductions = 1
INVARIANTS TypeOK TrailConsistent ReasonsJustify WatchesMatch PropagationComplete ConflictFalsified
PROPERTIES RootForever
