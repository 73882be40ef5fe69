SPECIFICATION Spec
CONSTANTS
  Options = {"plain", "new"}
  MaxRemovals = 1
  KilledRemoving = TRUE
  MaxCrashes = 1
  Downloads = {"whole"}
INVARIANT StatusMeansAvailable
CHECK_DEADLOCK FALSE
