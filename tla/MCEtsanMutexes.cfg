SPECIFICATION Spec
CONSTANTS
  main = main
  a = a
  b = b
  mtx = mtx
  cell = cell
  Threads = {main, a, b}
  Main = main
  Locks = {mtx}
  Vars = {cell}
  Program <- MutexProgram
INVARIANTS TypeOK MapsGuarded LockOrder NeverAllBlocked OnlyAtBirth
PROPERTY EveryCallReturns
CHECK_DEADLOCK FALSE
