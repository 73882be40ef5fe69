SPECIFICATION Spec
CONSTANTS
  main = main
  a = a
  b = b
  mtx = mtx
  cell = cell
  Threads = {main, a}
  Main = main
  Locks = {mtx}
  Vars = {cell}
  Program <- ForkProgram
INVARIANT StatesGuarded
CHECK_DEADLOCK FALSE
