------------------------------ MODULE MCEtsan ------------------------------
(***************************************************************************)
(* Small programs for TLC to run the detector's clocks under.              *)
(***************************************************************************)
EXTENDS Etsan, TLC

CONSTANTS main, a, b, d, e, h0, h1, h2, h3, h4, mtx, gate, x

Do(do, on) == {[do |-> do, on |-> on]}

Create(u) == Do("create", u)

Join(u) == Do("join", u)

AnyLock == [do : {"lock"}, on : Locks]

AnyUnlock == [do : {"unlock"}, on : Locks]

AnyTry == [do : {"trylock"}, on : Locks]

AnyWait == [do : {"cond_wait"}, on : Locks]

AnyAccess == [do : {"read", "write"}, on : Vars]

AnyKind == [do : Accesses, on : Vars]

LockGate == Do("lock", gate)
UnlockGate == Do("unlock", gate)
LockM == Do("lock", mtx)
UnlockM == Do("unlock", mtx)

AnyWrite == [do : {"write", "vptr_update"}, on : Vars]

\* Every thread has an identifier of its own.
OwnHandles ==
  LET own == (main :> h0) @@ (a :> h1) @@ (b :> h2) @@ (d :> h3) @@ (e :> h4)
  IN  [t \in Threads |-> own[t]]

\* a and b are never alive together, and the second gets the first's pthread_t.
ReusedHandles == (main :> h0) @@ (a :> h1) @@ (b :> h1) @@ (d :> h2)

\* Main and two workers each take one of the mutexes, in any order; a may get
\* it by a trylock, and b waits for a condition with it.  a and b share a
\* pthread_t: whichever is created second gets it when the first has been
\* joined, which may be before the callback of that join.
LockingProgram ==
  (main :> <<Create(a), Create(d), Join(a), AnyLock, AnyUnlock, Join(d)>>)
  @@ (a :> <<AnyLock \cup AnyTry, AnyUnlock>>)
  @@ (b :> <<AnyLock, AnyWait, AnyUnlock>>)
  @@ (d :> <<Create(b), Join(b), AnyKind>>)

\* Main writes before it creates any thread, and accesses once more when it has
\* joined all.  It creates its threads while it holds the gate, which every worker passes
\* through first, and the last one created, d, has no work: by the time a
\* worker accesses memory the runtime has heard of all threads.  Main may get
\* the gate by a trylock, of which the runtime hears nothing.
GateProgram ==
  (main :> <<AnyWrite, LockGate \cup Do("trylock", gate), Create(a), Create(b),
             Create(d), UnlockGate, AnyAccess, Join(a), Join(b), Join(d),
             AnyAccess>>)
  @@ (a :> <<LockGate, UnlockGate, LockM, AnyAccess, UnlockM, Do("read", x)>>)
  @@ (b :> <<LockGate, UnlockGate, AnyAccess, LockM, AnyWrite, UnlockM>>)
  @@ (d :> << >>)

\* LiveCount is about such programs.
ASSUME CreatorsJoinAssumption == CreatorsJoin
=============================================================================
