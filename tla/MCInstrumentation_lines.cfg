SPECIFICATION MCSpec
CONSTANTS
  x = x
  y = y
  k = k
  u = u
  g = g
  Functions <- LongFile
  Addresses <- MCAddresses
  Foreign <- MCForeign
  ConstantData <- MCConstantData
  Uncaptured <- MCUncaptured
INVARIANTS
  LinesArrive
