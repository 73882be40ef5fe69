SPECIFICATION MCSpec
CONSTANTS
  x = x
  y = y
  k = k
  u = u
  g = g
  Functions <- BulkWrites
  Addresses <- MCAddresses
  Foreign <- MCForeign
  ConstantData <- MCConstantData
  Uncaptured <- MCUncaptured
INVARIANTS
  IntrinsicsIntercepted
