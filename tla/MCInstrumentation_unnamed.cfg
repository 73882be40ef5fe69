SPECIFICATION MCSpec
CONSTANTS
  x = x
  y = y
  k = k
  u = u
  g = g
  Functions <- UnnamedCalls
  Addresses <- MCAddresses
  Foreign <- MCForeign
  ConstantData <- MCConstantData
  Uncaptured <- MCUncaptured
INVARIANTS
  EverySyncAnnounced
