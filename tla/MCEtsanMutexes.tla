-------------------------- MODULE MCEtsanMutexes --------------------------
(* Programs for TLC to run the runtime's mutexes under.                      *)
EXTENDS EtsanMutexes, TLC

CONSTANTS main, a, b, mtx, cell

Do(do, on) == [do |-> do, on |-> on]

\* Main creates, accesses and joins while one worker locks and the other
\* reads, each variable and mutex at first unknown.
MutexProgram ==
  (main :> <<Do("create", a), Do("create", b), Do("read", cell), Do("join", a), Do("join", b)>>)
  @@ (a :> <<Do("lock", mtx), Do("write", cell), Do("unlock", mtx)>>)
  @@ (b :> <<Do("read", cell)>>)

\* One worker, with a mutex and no memory.
ForkProgram ==
  (main :> <<Do("create", a), Do("join", a)>>)
  @@ (a :> <<Do("lock", mtx), Do("unlock", mtx)>>)
=============================================================================
