SPECIFICATION Spec
CONSTANTS
  p = p
  q = q
  r = r
  f = f
  Threads = {t1, t2}
  Objects = {p, q, r}
  Flags = {f}
  FlagFor <- Flag
  LockFree = {r}
  Size <- Sizes
  Word <- Bits
  Ops <- Calls
  InitialValue <- Zeroes
  Fetched <- FetchOf
  None = None
INVARIANTS TypeOK OneInside
PROPERTIES IsAtomic LocksAreFreed
