SPECIFICATION Spec
CONSTANTS
  Options = {"plain"}
  MaxRemovals = 0
  KilledRemoving = FALSE
  MaxCrashes = 1
  Downloads = {"whole", "part", "none"}
INVARIANT StatusMeansAvailable
CHECK_DEADLOCK FALSE
