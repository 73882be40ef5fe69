SPECIFICATION MCSpec
CONSTANTS
  x = x
  y = y
  k = k
  u = u
  g = g
  Functions <- MCFunctions
  Addresses <- MCAddresses
  Foreign <- MCForeign
  ConstantData <- MCConstantData
  Uncaptured <- MCUncaptured
INVARIANTS
  TypeOK
  JudgedInPlace
  SyncsAnnounced
  CallbacksDefined
  StacksBalanced
