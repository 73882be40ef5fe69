SPECIFICATION Spec
CONSTANTS
  main = main
  a = a
  b = b
  Threads = {main, a, b}
  Main = main
  Joined = {a, b}
  Found <- OneRaceEach
INVARIANT FoundIsPrinted
