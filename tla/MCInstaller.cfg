SPECIFICATION Spec
CONSTANTS
  Options = {"plain", "new", "clean"}
  MaxRemovals = 1
  KilledRemoving = FALSE
  MaxCrashes = 2
  Downloads = {"whole"}
INVARIANTS TypeOK StatusMeansAvailable NeverWrong
PROPERTY EventuallyInstalled
CHECK_DEADLOCK FALSE
