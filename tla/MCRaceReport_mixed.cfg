SPECIFICATION Spec
CONSTANTS
  main = main
  a = a
  b = b
  Threads = {main, a, b}
  Main = main
  Joined = {}
  Found <- MixedRaces
INVARIANTS TypeOK CreatedIsDue QuietMeansPrinted EachIsHeld
