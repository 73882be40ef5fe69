SPECIFICATION HBSpec
CONSTANTS
  main = main
  a = a
  b = b
  d = d
  e = e
  h0 = h0
  h1 = h1
  h2 = h2
  h3 = h3
  h4 = h4
  mtx = mtx
  gate = gate
  x = x
  READ_SHARED = READ_SHARED
  Handles = {h0, h1, h2, h3}
  Threads = {main, a, b, d}
  Main = main
  Handle <- OwnHandles
  Locks = {mtx, gate}
  Vars = {x}
  Program <- CondProgram
  Garbage = {0, 9}
INVARIANTS NoFalseAlarm
