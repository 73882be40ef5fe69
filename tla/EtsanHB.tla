------------------------------ MODULE EtsanHB ------------------------------
(***************************************************************************)
(* The runtime against the truth: Etsan with a history of who really       *)
(* happens before whom, kept from the program's own operations and not     *)
(* from the runtime's clocks.                                              *)
(*                                                                         *)
(* seen[x][k] is the set of threads and mutexes that every access of kind  *)
(* k made to x by thread u so far happens before: seen[x][k][u].  An       *)
(* access counts from the entry of its callback, since getVarState may     *)
(* record it before ft_read or ft_write does; its thread learns of no      *)
(* other between the callback and the instruction that follows it.         *)
(***************************************************************************)
EXTENDS Etsan

VARIABLES
  seen,    \* who is ordered after each thread's accesses
  racy     \* the variables on which two accesses really did race

hbvars == <<vars, seen, racy>>

Knowers == Threads \cup Locks

\* Threads and mutexes are two kinds of things.
ASSUME KnowersAssumption == Threads \cap Locks = {}

Kind(do) == IF do \in {"read", "vptr_read"} THEN "read" ELSE "write"

HBInit ==
  /\ Init
  /\ seen = [x \in Vars |-> [k \in {"read", "write"} |-> [u \in Threads |-> Knowers]]]
  /\ racy = {}

\* From now on b is ordered after all that a is ordered after.
Learn(a, b) ==
  seen' = [x \in Vars |-> [k \in {"read", "write"} |-> [u \in Threads |->
             IF a \in seen[x][k][u] THEN seen[x][k][u] \cup {b} ELSE seen[x][k][u]]]]

\* No other thread runs.
Solitary(t) == \A u \in Threads \ {t} : life[u] # "running"

\* Thread t accesses x: a race with any access not ordered before it, unless
\* both are reads.  Only t itself is ordered after the new access, unless
\* whatever is yet to come is t's, or of threads t is yet to create.
RealAccess(t, x, do) ==
  LET rivals == IF Kind(do) = "read" THEN {"write"} ELSE {"read", "write"}
  IN  /\ racy' = IF \E k \in rivals, u \in Threads : t \notin seen[x][k][u]
                 THEN racy \cup {x} ELSE racy
      /\ seen' = [seen EXCEPT ![x][Kind(do)][t] = IF Solitary(t) THEN Knowers ELSE {t}]

HBThreadStep(t) ==
  \/ \E u \in Threads :
       \/ PthreadCreate(t, u) /\ Learn(t, u) /\ UNCHANGED racy
       \/ PthreadJoin(t, u) /\ Learn(u, t) /\ UNCHANGED racy
  \/ \E m \in Locks :
       \/ PthreadMutexLock(t, m) /\ Learn(m, t) /\ UNCHANGED racy
       \/ PthreadMutexUnlock(t, m) /\ UNCHANGED <<seen, racy>>
       \/ /\ Untracked(t, m)
          /\ IF holder[m] = t THEN Learn(t, m) ELSE Learn(m, t)
          /\ UNCHANGED racy
       \/ getLockState(t, m) /\ UNCHANGED <<seen, racy>>
  \/ \E x \in Vars :
       \/ \E do \in Accesses : Access(t, x, do) /\ RealAccess(t, x, do)
       \/ getVarState(t, x) /\ UNCHANGED <<seen, racy>>
       \/ (ft_read(t, x) \/ ft_write(t, x)) /\ UNCHANGED <<seen, racy>>
  \/ \E h \in Handles : getState(t, h) /\ UNCHANGED <<seen, racy>>
  \/ (ft_fork_count(t) \/ ft_fork(t)) /\ UNCHANGED <<seen, racy>>
  \/ (ft_join_test(t) \/ ft_join_drop(t) \/ ft_join(t)) /\ UNCHANGED <<seen, racy>>
  \/ (ft_acquire(t) \/ ft_acquire_adopt(t) \/ ft_release(t)) /\ UNCHANGED <<seen, racy>>
  \/ ft_release_tick(t) /\ Learn(t, call[t].on) /\ UNCHANGED racy

HBNext == (\E t \in Threads : HBThreadStep(t)) \/ (Terminated /\ UNCHANGED <<seen, racy>>)

HBSpec == HBInit /\ [][HBNext]_hbvars

\* README.md:9 "precise": a variable the runtime reports really has two
\* concurrent accesses, one of them a write.
NoFalseAlarm == reported \subseteq racy

\* README.md:32 "races will be reported, if any": once two accesses to a
\* variable have raced and their callbacks have returned, some callback has
\* reported that variable.
NoMissedRace ==
  \A x \in racy : \/ x \in reported
                  \/ \E t \in Threads : pc[t] = "access" /\ call[t].on = x
-----------------------------------------------------------------------------
(* What the verdicts take for granted of the program.                      *)

\* Whatever has been accessed so far is ordered before everything to come.
AllOrdered ==
  \A x \in Vars, k \in {"read", "write"}, u \in Threads : seen[x][k][u] = Knowers

AllRegistered ==
  \A u \in Threads :
    life[u] # "unborn" /\ Self(u) \in TS /\ pc[u] \notin {"create", "fork"}

\* Thread h's clock may stand in a shadow word: it is within every vector and
\* the same in h.epoch as in h.C (defs.h:71).
Fit(h) == Settled(h) /\ tid[h] < Cardinality(TS) /\ epoch[h] = Own(h)

\* A program that registers its threads first (getState, defs.h:117): while
\* several threads run none accesses memory before the runtime has heard of
\* all, nor when it takes the thread for the only one (isConcurrent); once
\* something has been accessed by one of several, every operation on a mutex
\* has its callback; no pthread_t is used twice, and no vptr is read
\* (tsan_interface.cc calls ft_write for it).
Gated ==
  /\ \A t, u \in Threads : Self(t) = Self(u) => t = u
  /\ \A t \in Threads : pc[t] = "waiting" => AllOrdered
  /\ \A t \in Threads, op \in Op : Performs(t, op) =>
       /\ op.do # "vptr_read"
       /\ op.do \in {"trylock", "cond_wait"} => AllOrdered
       /\ op.do \in Accesses =>
            IF Solitary(t) THEN isConcurrent = 0
            ELSE isConcurrent # 0 /\ AllRegistered /\ Fit(Self(t))

\* Step i of Main creates u and does nothing else.
Creates(i, u) == Program[Main][i] = {[do |-> "create", on |-> u]}

MutexOps == [do : {"lock", "unlock"}, on : Locks]

MemoryOps == [do : {"read", "write", "vptr_update"}, on : Vars]

\* Main takes the mutex g, and at the steps from f to q - 1 it creates every
\* other thread, two at least; what it does before that it does alone.
CreatesHolding(g, f, q) ==
  LET path    == Program[Main]
      workers == Threads \ {Main}
  IN  /\ 1 < f /\ f + 1 < q /\ q <= Len(path) + 1
      /\ path[f - 1] \subseteq [do : {"lock", "trylock"}, on : {g}]
      /\ \A i \in 1 .. f - 1 :
           path[i] \subseteq MutexOps \cup MemoryOps \cup [do : {"trylock"}, on : Locks]
      /\ \A i \in f .. q - 1 : \E u \in workers : Creates(i, u)
      /\ \A u \in workers : \E i \in f .. q - 1 : Creates(i, u)
      /\ \A i, j \in f .. q - 1 : path[i] = path[j] => i = j
      /\ \A i \in q .. Len(path) :
           path[i] \subseteq MutexOps \cup MemoryOps \cup [do : {"join"}, on : workers]

\* Every other thread begins by locking g; the one created last accesses no
\* memory, since its clock may be past its vector's end (getState, defs.h:129).
PassThrough(g, q) ==
  \A u \in Threads \ {Main} : \A i \in DOMAIN Program[u] :
    /\ i = 1 => Program[u][i] \subseteq [do : {"lock"}, on : {g}]
    /\ Program[u][i] \subseteq MutexOps \cup (IF Creates(q - 1, u) THEN {} ELSE MemoryOps)

\* Such a program is Gated, in whatever order its threads run.
RegistersFirst ==
  /\ \A t, u \in Threads : Self(t) = Self(u) => t = u
  /\ \E g \in Locks, f, q \in 1 .. Len(Program[Main]) + 1 :
       CreatesHolding(g, f, q) /\ PassThrough(g, q)
-----------------------------------------------------------------------------
\* The operating system runs every thread that can run; a thread that waits
\* for a mutex gets it when nobody else wants it any more.
FairHBSpec == HBSpec /\ \A t \in Threads : WF_hbvars(HBThreadStep(t))

Detector == INSTANCE RaceDetector

\* The runtime under the program implements RaceDetector: reports follow
\* races, and every race is reported at last, so no callback waits for ever.
IsDetector == Detector!Spec
=============================================================================
