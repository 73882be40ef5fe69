----------------------------- MODULE MCEtsanHB -----------------------------
(***************************************************************************)
(* Small programs for TLC to run the detector's verdicts under.            *)
(***************************************************************************)
EXTENDS EtsanHB, MCEtsan

\* The same gate, before two vptr reads of one object.
VptrProgram ==
  (main :> <<LockGate, Create(a), Create(b), Create(d), UnlockGate>>)
  @@ (a :> <<LockGate, UnlockGate, Do("vptr_read", x)>>)
  @@ (b :> <<LockGate, UnlockGate, Do("vptr_read", x)>>)
  @@ (d :> << >>)

\* tests/unittests/Threads.cpp with two of its four workers; the compiler
\* pass drops the read of balance++, which a write to it follows.
ThreadsCpp ==
  (main :> <<Create(a), Create(b), Join(a), Join(b), Do("read", x)>>)
  @@ (a :> <<LockM, Do("write", x), UnlockM>>)
  @@ (b :> <<LockM, Do("write", x), UnlockM>>)

\* Two workers write one variable, and nothing orders them.
UnprotectedProgram ==
  (main :> <<Create(a), Create(b), Join(a), Join(b)>>)
  @@ (a :> <<Do("write", x)>>)
  @@ (b :> <<Do("write", x)>>)

\* x becomes read-shared between main and a when three threads are known, and
\* Rvc gets four words; b comes later.  Nothing orders b's read before main's
\* write.
LateReader ==
  (main :> <<LockGate, Create(a), Create(d), UnlockGate, Do("read", x),
             LockGate, Create(b), Create(e), UnlockGate, Join(a), Do("write", x)>>)
  @@ (a :> <<LockGate, UnlockGate, Do("read", x)>>)
  @@ (b :> <<LockGate, UnlockGate, Do("read", x)>>)
  @@ (d :> << >>)
  @@ (e :> << >>)

\* A consumer waits for a condition with the mutex that a producer's write of x
\* is protected by.
CondProgram ==
  (main :> <<LockGate, Create(a), Create(b), Create(d), UnlockGate>>)
  @@ (a :> <<LockGate, UnlockGate, LockM, Do("cond_wait", mtx), Do("read", x), UnlockM>>)
  @@ (b :> <<LockGate, UnlockGate, LockM, Do("write", x), UnlockM>>)
  @@ (d :> << >>)

\* The theorems about gated programs are about this one.
ASSUME GateProgramAssumption == Program = GateProgram => RegistersFirst
=============================================================================
