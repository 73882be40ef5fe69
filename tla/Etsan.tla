------------------------------- MODULE Etsan -------------------------------
(***************************************************************************)
(* The EmbedSanitizer runtime (etsan/defs.h, fasttrack.h,                  *)
(* tsan_interface.cc) under the instrumented program that calls it.        *)
(*                                                                         *)
(* The program is a constant: thread t performs, at its i-th step, any one *)
(* operation of the set Program[t][i].  The compiler pass puts each        *)
(* callback in the thread that performs the operation: after               *)
(* pthread_create, pthread_join and pthread_mutex_lock, before             *)
(* pthread_mutex_unlock and before a memory access.  Any other call of the *)
(* threads library gets none.                                              *)
(*                                                                         *)
(* Grain of atomicity: one step for each section the runtime executes      *)
(* under one of its mutexes (TS, VS, LS), each access to the atomic        *)
(* isConcurrent, and each stretch of unlocked code between them.  The C++  *)
(* compiler may evaluate the arguments of ft_fork, ft_join, ft_acquire,    *)
(* ft_release, ft_read and ft_write in either order, so the lookups that   *)
(* produce them are actions of their own and the callee waits for both.    *)
(*                                                                         *)
(* Left out: the statistics counters, and VarState::Racy, which nothing    *)
(* ever sets.                                                              *)
(***************************************************************************)
EXTENDS EtsanClocks, Sequences

CONSTANTS
  Threads,       \* the threads the program may create, and Main
  Main,          \* the initial thread
  Handle,        \* Handle[t] is what pthread_self() returns in thread t
  Locks,         \* the addresses of the program's mutexes
  Vars,          \* the addresses the program reads and writes
  Program,       \* Program[t]: a sequence of sets of operations
  Garbage,       \* what a read past the end of another vector may find
  READ_SHARED    \* the value of R that says "look at Rvc"

Accesses == {"read", "write", "vptr_read", "vptr_update"}

Op == [do : {"create", "join"}, on : Threads]
        \cup [do : {"lock", "unlock", "trylock", "cond_wait"}, on : Locks]
        \cup [do : Accesses, on : Vars]

NoCall == [do |-> "none"]

NoThread == "none"

ASSUME ProgramAssumption ==
  /\ Main \in Threads /\ NoThread \notin Threads
  /\ Handle \in [Threads -> Handles]
  /\ Program \in [Threads -> Seq(SUBSET Op)]

ASSUME GarbageAssumption == Garbage \subseteq Nat /\ Garbage # {}

ASSUME ReadSharedAssumption == READ_SHARED \notin Epoch

-----------------------------------------------------------------------------
VARIABLES
  \* the program
  life,          \* life[t]: not created yet, running, or joined
  step,          \* step[t]: the index of t's next step
  holder,        \* holder[m]: the thread that holds mutex m
  \* the callback each thread is in
  pc,
  call,          \* call[t]: the operation it was called for
  \* defs.h: TStates, NumThreads, isConcurrent
  TS,            \* the keys of TS.C
  tid, C, epoch, \* the fields of the ThreadState of each handle
  NumThreads,
  isConcurrent,
  \* defs.h: LStates
  LS,            \* the keys of LS.L
  L,
  \* defs.h: VStates
  VS,            \* the keys of VS.Vstates
  W, R, Rvc,
  \* the variables some callback has reported a race on
  reported

program == <<life, step, holder>>
control == <<pc, call>>
clocks  == <<tid, C, epoch>>
threads == <<TS, tid, C, epoch, NumThreads>>
locks   == <<LS, L>>
shadow  == <<VS, W, R, Rvc>>

vars == <<life, step, holder, pc, call, TS, tid, C, epoch, NumThreads,
          isConcurrent, LS, L, VS, W, R, Rvc, reported>>

CallbackPoints == {"create", "fork", "join", "drop", "joined",
                   "acquire", "adopt", "release", "tick", "access"}

TypeOK ==
  /\ life \in [Threads -> {"unborn", "running", "joined"}]
  /\ step \in [Threads -> Nat \ {0}]
  /\ holder \in [Locks -> Threads \cup {NoThread}]
  /\ pc \in [Threads -> {"run", "waiting"} \cup CallbackPoints]
  /\ call \in [Threads -> Op \cup {NoCall}]
  /\ TS \subseteq Handles
  /\ tid \in [Handles -> Slots]
  /\ C \in [Handles -> VectorClock]
  /\ epoch \in [Handles -> Nat]
  /\ NumThreads \in 0 .. MaxTid + 1
  /\ isConcurrent \in Int
  /\ LS \subseteq Locks
  /\ L \in [Locks -> VectorClock]
  /\ VS \subseteq Vars
  /\ W \in [Vars -> Epoch]
  /\ R \in [Vars -> Epoch \cup {READ_SHARED}]
  /\ Rvc \in [Vars -> VectorClock]
  /\ reported \subseteq Vars

Init ==
  /\ life = [t \in Threads |-> IF t = Main THEN "running" ELSE "unborn"]
  /\ step = [t \in Threads |-> 1]
  /\ holder = [m \in Locks |-> NoThread]
  /\ pc = [t \in Threads |-> "run"]
  /\ call = [t \in Threads |-> NoCall]
  /\ TS = {}
  /\ tid = [h \in Handles |-> 0]
  /\ C = [h \in Handles |-> newVectorClock(0)]
  /\ epoch = [h \in Handles |-> 0]
  /\ NumThreads = 0
  /\ isConcurrent = 0
  /\ LS = {}
  /\ L = [m \in Locks |-> newVectorClock(0)]
  /\ VS = {}
  /\ W = [x \in Vars |-> [tid |-> 0, clock |-> 0]]
  /\ R = [x \in Vars |-> [tid |-> 0, clock |-> 0]]
  /\ Rvc = [x \in Vars |-> newVectorClock(0)]
  /\ reported = {}

-----------------------------------------------------------------------------
(* The program's own steps, and the callbacks' control flow.               *)

Finished(t) == life[t] = "running" /\ pc[t] = "run" /\ step[t] > Len(Program[t])

\* Thread t is about to perform op.
Performs(t, op) ==
  /\ life[t] = "running"
  /\ pc[t] = "run"
  /\ step[t] <= Len(Program[t])
  /\ op \in Program[t][step[t]]

Enter(t, point, op) ==
  /\ pc' = [pc EXCEPT ![t] = point]
  /\ call' = [call EXCEPT ![t] = op]

Goto(t, point) == pc' = [pc EXCEPT ![t] = point] /\ UNCHANGED call

\* The callback returns and the operation is over.
Return(t) ==
  /\ pc' = [pc EXCEPT ![t] = "run"]
  /\ call' = [call EXCEPT ![t] = NoCall]
  /\ step' = [step EXCEPT ![t] = @ + 1]

Self(t) == Handle[t]

Child(t) == Handle[call[t].on]

\* The handles whose ThreadState the callback of t looks up.
Wanted(t) == CASE pc[t] \in {"create", "join"} -> {Self(t), Child(t)}
               [] pc[t] \in {"acquire", "release", "access"} -> {Self(t)}
               [] OTHER -> {}

\* pthread_create: u runs from here on, before the parent's callback has
\* told the runtime of it.  A handle is free again once its thread is joined.
PthreadCreate(t, u) ==
  LET op == [do |-> "create", on |-> u]
  IN  /\ Performs(t, op)
      /\ life[u] = "unborn"
      /\ \A v \in Threads : life[v] = "running" => Handle[v] # Handle[u]
      /\ life' = [life EXCEPT ![u] = "running"]
      /\ Enter(t, "create", op)
      /\ UNCHANGED <<step, holder, threads, isConcurrent, locks, shadow, reported>>

PthreadJoin(t, u) ==
  LET op == [do |-> "join", on |-> u]
  IN  /\ Performs(t, op)
      /\ Finished(u)
      /\ life' = [life EXCEPT ![u] = "joined"]
      /\ Enter(t, "join", op)
      /\ UNCHANGED <<step, holder, threads, isConcurrent, locks, shadow, reported>>

PthreadMutexLock(t, m) ==
  LET op == [do |-> "lock", on |-> m]
  IN  /\ Performs(t, op)
      /\ holder[m] = NoThread
      /\ holder' = [holder EXCEPT ![m] = t]
      /\ Enter(t, "acquire", op)
      /\ UNCHANGED <<life, step, threads, isConcurrent, locks, shadow, reported>>

\* The callback comes first; the mutex is released in ft_release_tick.
PthreadMutexUnlock(t, m) ==
  LET op == [do |-> "unlock", on |-> m]
  IN  /\ Performs(t, op)
      /\ holder[m] = t
      /\ Enter(t, "release", op)
      /\ UNCHANGED <<life, step, holder, threads, isConcurrent, locks, shadow, reported>>

\* The operations on mutex m the pass knows nothing of: a trylock that gets
\* the mutex (a program whose call fails may try again), a cond_wait that gives
\* it up, and the same call's return, woken or not, when the mutex is free.
Untracked(t, m) ==
  /\ \/ /\ Performs(t, [do |-> "trylock", on |-> m])
        /\ holder[m] = NoThread
        /\ holder' = [holder EXCEPT ![m] = t]
        /\ Return(t)
     \/ /\ Performs(t, [do |-> "cond_wait", on |-> m])
        /\ holder[m] = t
        /\ holder' = [holder EXCEPT ![m] = NoThread]
        /\ Enter(t, "waiting", [do |-> "cond_wait", on |-> m])
        /\ UNCHANGED step
     \/ /\ pc[t] = "waiting" /\ call[t].on = m
        /\ holder[m] = NoThread
        /\ holder' = [holder EXCEPT ![m] = t]
        /\ Return(t)
  /\ UNCHANGED <<life, threads, isConcurrent, locks, shadow, reported>>

\* __tsan_readN, __tsan_writeN, __tsan_vptr_*: nothing is tracked while the
\* runtime believes there is one thread.
Access(t, x, do) ==
  LET op == [do |-> do, on |-> x]
  IN  /\ Performs(t, op)
      /\ IF isConcurrent = 0
         THEN Return(t)
         ELSE Enter(t, "access", op) /\ UNCHANGED step
      /\ UNCHANGED <<life, holder, threads, isConcurrent, locks, shadow, reported>>

-----------------------------------------------------------------------------
(* Looking up, and creating, the states: getState, getLockState,           *)
(* getVarState.                                                            *)

\* Wrong on purpose, to show that KnownClocks notices: the test t.tid == idx
\* dropped.
FirstClockForAll(owner, i) == 1

\* The clock UpdateThreadClocks pushes at index i of the thread owner.
FirstClock(owner, i) == IF owner = i THEN 1 ELSE 0

\* getState(h) of a handle the map does not know.  Every vector, the new one
\* included, grows to the number of threads n; the new thread's index is n,
\* one past the end of its own vector.
getState(t, h) ==
  LET n     == Cardinality(TS) + 1
      tids  == [tid EXCEPT ![h] = n]
      known == [C EXCEPT ![h] = newVectorClock(0)]
      grown(g) == PushUpTo(known[g], n, [i \in Slots |-> FirstClock(tids[g], i)])
  IN  /\ h \in Wanted(t) \ TS
      /\ TS' = TS \cup {h}
      /\ tid' = tids
      /\ epoch' = [epoch EXCEPT ![h] = 1]
      /\ C' = [g \in Handles |->
                 IF g = h THEN [grown(h) EXCEPT !.at[n] = 1]
                 ELSE IF g \in TS THEN grown(g) ELSE C[g]]
      /\ NumThreads' = n + 1
      /\ UNCHANGED <<program, control, isConcurrent, locks, shadow, reported>>

getLockState(t, m) ==
  /\ pc[t] \in {"acquire", "release"} /\ call[t].on = m
  /\ m \notin LS
  /\ LS' = LS \cup {m}
  /\ L' = [L EXCEPT ![m] = newVectorClock(NumThreads)]
  /\ UNCHANGED <<program, control, threads, isConcurrent, shadow, reported>>

EpochOf(h) == [tid |-> tid[h], clock |-> epoch[h]]

Bottom(h) == [tid |-> tid[h], clock |-> 0]

\* A variable's first access is recorded here, and the ft_read or ft_write
\* that follows finds the very epoch it is about to store.  vptr_read asks
\* for a read and then calls ft_write.
getVarState(t, x) ==
  LET h       == Self(t)
      isWrite == call[t].do \in {"write", "vptr_update"}
  IN  /\ pc[t] = "access" /\ call[t].on = x
      /\ h \in TS
      /\ x \notin VS
      /\ VS' = VS \cup {x}
      /\ W' = [W EXCEPT ![x] = IF isWrite THEN EpochOf(h) ELSE Bottom(h)]
      /\ R' = [R EXCEPT ![x] = IF isWrite THEN Bottom(h) ELSE EpochOf(h)]
      /\ UNCHANGED <<program, control, threads, isConcurrent, locks, Rvc, reported>>

-----------------------------------------------------------------------------
(* ft_fork, ft_join, ft_acquire, ft_release.                               *)

Ready(t) == Wanted(t) \subseteq TS

\* Wrong on purpose, to show that StrictlyAhead notices: ++epoch alone.
incrementEpochOnly(h, v) == v

\* C[tid] = ++epoch, on a clock the caller has already extended.
increment(h, v) == [v EXCEPT !.at[tid[h]] = epoch[h] + 1]

ft_fork_count(t) ==
  /\ pc[t] = "create" /\ Ready(t)
  /\ isConcurrent' = isConcurrent + 1
  /\ Goto(t, "fork")
  /\ UNCHANGED <<program, threads, locks, shadow, reported>>

\* Cu := Cu U Ct; u.updateEpoch(); t.increment()
ft_fork(t) ==
  LET p == Self(t)
      u == Child(t)
  IN  /\ pc[t] = "fork"
      /\ C' = [C EXCEPT ![p] = increment(p, ExtendToMatch(C[p], C[u])),
                        ![u] = JoinClock(C[u], C[p])]
      /\ epoch' = [epoch EXCEPT ![p] = @ + 1, ![u] = C'[u].at[tid[u]]]
      /\ Return(t)
      /\ UNCHANGED <<life, holder, TS, tid, NumThreads, isConcurrent,
                     locks, shadow, reported>>

\* if (isConcurrent) isConcurrent--: the test and the decrement are two
\* accesses to the atomic.
ft_join_test(t) ==
  /\ pc[t] = "join" /\ Ready(t)
  /\ Goto(t, IF isConcurrent # 0 THEN "drop" ELSE "joined")
  /\ UNCHANGED <<program, threads, isConcurrent, locks, shadow, reported>>

\* Wrong on purpose, to show that LiveCount notices: the last one out.
ft_join_reset(t) ==
  /\ pc[t] = "drop"
  /\ isConcurrent' = 0
  /\ Goto(t, "joined")
  /\ UNCHANGED <<program, threads, locks, shadow, reported>>

ft_join_drop(t) ==
  /\ pc[t] = "drop"
  /\ isConcurrent' = isConcurrent - 1
  /\ Goto(t, "joined")
  /\ UNCHANGED <<program, threads, locks, shadow, reported>>

\* Ct := Ct U Cu; t.updateEpoch(); u.increment()
ft_join(t) ==
  LET p == Self(t)
      u == Child(t)
  IN  /\ pc[t] = "joined"
      /\ C' = [C EXCEPT ![p] = JoinClock(C[p], C[u]),
                        ![u] = increment(u, ExtendToMatch(C[u], C[p]))]
      /\ epoch' = [epoch EXCEPT ![p] = C'[p].at[tid[p]], ![u] = @ + 1]
      /\ Return(t)
      /\ UNCHANGED <<life, holder, TS, tid, NumThreads, isConcurrent,
                     locks, shadow, reported>>

\* Ct := Ct U Lm
ft_acquire(t) ==
  LET h == Self(t)
      m == call[t].on
  IN  /\ pc[t] = "acquire" /\ Ready(t) /\ m \in LS
      /\ C' = [C EXCEPT ![h] = JoinClock(C[h], L[m])]
      /\ L' = [L EXCEPT ![m] = ExtendToMatch(L[m], C[h])]
      /\ Goto(t, "adopt")
      /\ UNCHANGED <<program, TS, tid, epoch, NumThreads, isConcurrent, LS,
                     shadow, reported>>

\* t.updateEpoch(), after the LS section
ft_acquire_adopt(t) ==
  LET h == Self(t)
  IN  /\ pc[t] = "adopt"
      /\ epoch' = [epoch EXCEPT ![h] = C[h].at[tid[h]]]
      /\ Return(t)
      /\ UNCHANGED <<life, holder, TS, tid, C, NumThreads, isConcurrent,
                     locks, shadow, reported>>

\* Lm := Ct
ft_release(t) ==
  LET h == Self(t)
      m == call[t].on
  IN  /\ pc[t] = "release" /\ Ready(t) /\ m \in LS
      /\ L' = [L EXCEPT ![m] = CopyClock(L[m], C[h])]
      /\ C' = [C EXCEPT ![h] = ExtendToMatch(C[h], L[m])]
      /\ Goto(t, "tick")
      /\ UNCHANGED <<program, TS, tid, epoch, NumThreads, isConcurrent, LS,
                     shadow, reported>>

\* t.updateEpoch(); t.increment(), after the LS section; then the program's
\* own pthread_mutex_unlock.
ft_release_tick(t) ==
  LET h   == Self(t)
      now == C[h].at[tid[h]] + 1
  IN  /\ pc[t] = "tick"
      /\ epoch' = [epoch EXCEPT ![h] = now]
      /\ C' = [C EXCEPT ![h].at[tid[h]] = now]
      /\ holder' = [holder EXCEPT ![call[t].on] = NoThread]
      /\ Return(t)
      /\ UNCHANGED <<life, TS, tid, NumThreads, isConcurrent, locks, shadow,
                     reported>>

-----------------------------------------------------------------------------
(* ft_read and ft_write: the FastTrack checks, each under the VS mutex.    *)

\* t.C[i]: a thread finds its own clock one past its vector's end, because
\* getState put it there; any other thread finds whatever the heap holds.
At(h, i, garbage) ==
  IF i < C[h].size \/ i = tid[h] THEN C[h].at[i] ELSE garbage

\* Wrong on purpose, to show that OverwritesJudged notices: t.C[t.tid].
UnorderedOwnSlot(e, h, garbage) == e.tid # tid[h] /\ e.clock > At(h, tid[h], garbage)

\* TID(e) != t.tid && CLOCK(e) > CLOCK(t.C[TID(e)])
Unordered(e, h, garbage) == e.tid # tid[h] /\ e.clock > At(h, e.tid, garbage)

Report(x, isRace) ==
  reported' = IF isRace THEN reported \cup {x} ELSE reported

InAccess(t, x, ops) ==
  /\ pc[t] = "access" /\ call[t].on = x /\ call[t].do \in ops
  /\ Ready(t)
  /\ x \in VS

\* Wrong on purpose, to show that ReadsRemembered and NoMissedRace notice:
\* one reader is kept.
RecordLastRead(x, h, gR) == R' = [R EXCEPT ![x] = EpochOf(h)] /\ UNCHANGED Rvc

\* The read state after a read by h that is not of the same epoch: shared
\* already, ordered after the last read, or concurrent with it.  gR stands
\* for the word read when R is compared (whole words here, clocks in the
\* race check: two garbage values).
RecordRead(x, h, gR) ==
  IF R[x] = READ_SHARED
  THEN /\ Rvc' = [Rvc EXCEPT ![x].at[tid[h]] = epoch[h]]
       /\ UNCHANGED R
  ELSE IF R[x].clock <= At(h, R[x].tid, gR)
  THEN /\ R' = [R EXCEPT ![x] = EpochOf(h)]
       /\ UNCHANGED Rvc
  ELSE LET old == IF Rvc[x].size = 0 THEN newVectorClock(NumThreads) ELSE Rvc[x]
       IN  /\ Rvc' = [Rvc EXCEPT ![x] = [old EXCEPT !.at[R[x].tid] = R[x].clock,
                                                    !.at[tid[h]] = epoch[h]]]
           /\ R' = [R EXCEPT ![x] = READ_SHARED]

ft_read(t, x) ==
  LET h == Self(t)
  IN  /\ InAccess(t, x, {"read"})
      /\ IF R[x] = EpochOf(h)
         THEN UNCHANGED <<R, Rvc, reported>>
         ELSE \E gW, gR \in Garbage :
                /\ Report(x, Unordered(W[x], h, gW))
                /\ RecordRead(x, h, gR)
      /\ Return(t)
      /\ UNCHANGED <<life, holder, threads, isConcurrent, locks, VS, W>>

\* Some read in Rvc that t does not know of, as far as both vectors reach.
UnorderedRead(x, h) ==
  \E i \in Slots : /\ i < Rvc[x].size /\ i < C[h].size
                   /\ Rvc[x].at[i] > C[h].at[i]

ft_write(t, x) ==
  LET h == Self(t)
  IN  /\ InAccess(t, x, {"write", "vptr_read", "vptr_update"})
      /\ IF W[x] = EpochOf(h)
         THEN UNCHANGED <<W, R, reported>>
         ELSE \E g \in Garbage :
                /\ Report(x, \/ Unordered(W[x], h, g)
                             \/ IF R[x] = READ_SHARED
                                THEN UnorderedRead(x, h)
                                ELSE Unordered(R[x], h, g))
                /\ R' = [R EXCEPT ![x] = IF @ = READ_SHARED THEN Bottom(h) ELSE @]
                /\ W' = [W EXCEPT ![x] = EpochOf(h)]
      /\ Return(t)
      /\ UNCHANGED <<life, holder, threads, isConcurrent, locks, VS, Rvc>>

-----------------------------------------------------------------------------
ThreadStep(t) ==
  \/ \E u \in Threads : PthreadCreate(t, u) \/ PthreadJoin(t, u)
  \/ \E m \in Locks : \/ PthreadMutexLock(t, m)
                      \/ PthreadMutexUnlock(t, m)
                      \/ Untracked(t, m)
                      \/ getLockState(t, m)
  \/ \E x \in Vars : \/ \E do \in Accesses : Access(t, x, do)
                     \/ getVarState(t, x)
                     \/ ft_read(t, x)
                     \/ ft_write(t, x)
  \/ \E h \in Handles : getState(t, h)
  \/ ft_fork_count(t)
  \/ ft_fork(t)
  \/ ft_join_test(t)
  \/ ft_join_drop(t)
  \/ ft_join(t)
  \/ ft_acquire(t)
  \/ ft_acquire_adopt(t)
  \/ ft_release(t)
  \/ ft_release_tick(t)

\* Every created thread has run its program to the end.
Terminated ==
  /\ \A t \in Threads : life[t] = "running" => Finished(t)
  /\ UNCHANGED vars

Next == (\E t \in Threads : ThreadStep(t)) \/ Terminated

Spec == Init /\ [][Next]_vars

-----------------------------------------------------------------------------
(* What must hold.                                                         *)

Own(h) == C[h].at[tid[h]]

\* Every index getState has given out is within reach of every thread's
\* vector, or one past its end for the newest thread (getState, defs.h:129).
\* The tids are dense and unique, so that slot i of every clock means the
\* same thread everywhere.
DenseTids ==
  /\ \A h \in TS : tid[h] \in 1 .. Cardinality(TS) /\ tid[h] <= C[h].size
  /\ \A g, h \in TS : g # h => tid[g] # tid[h] /\ tid[g] <= C[h].size

\* Nobody, thread or mutex, knows of a later clock of thread h than h has
\* itself, and h's epoch is not behind its own clock (ft_acquire, ft_release,
\* ft_fork, ft_join: every join and copy, against every increment).
KnownClocks ==
  \A h \in TS :
    /\ Own(h) <= epoch[h]
    /\ \A k \in TS : C[k].at[tid[h]] <= Own(h)
    /\ \A m \in LS : L[m].at[tid[h]] <= Own(h)

\* h's own slot has been brought inside its vector and has ticked since.
Settled(h) == tid[h] < C[h].size /\ Own(h) >= 1

\* t is between storing its clock in m and its increment.
Publishing(t, m) == pc[t] = "tick" /\ call[t].on = m

\* The foundation of the whole detector: after each fork, join and release,
\* what the others know of thread h is strictly below h's own clock, so an
\* access h makes from now on is not taken for one they already know of.
StrictlyAhead ==
  \A h \in TS : Settled(h) =>
    /\ \A k \in TS \ {h} : C[k].at[tid[h]] < Own(h)
    /\ \A m \in LS : \/ L[m].at[tid[h]] < Own(h)
                     \/ \E t \in Threads : Self(t) = h /\ Publishing(t, m)

\* A settled thread stays settled and its own clock never goes back, whoever
\* extends its vector (UpdateThreadClocks, ExtendVectorClocks).
SettledForGood ==
  \A h \in TS : Settled(h) => Settled(h)' /\ tid'[h] = tid[h] /\ Own(h)' >= Own(h)

SettledClocksAdvance == [][SettledForGood]_vars

\* A program in which nobody joins a thread but its creator, and nobody Main.
CreatorsJoin ==
  \A v \in Threads : \A k \in DOMAIN Program[v] :
    \A join \in {op \in Program[v][k] : op.do = "join"} :
      /\ join.on # Main
      /\ \A t \in Threads : \A i \in DOMAIN Program[t] :
           [do |-> "create", on |-> join.on] \in Program[t][i] => t = v

\* isConcurrent counts the threads that ft_fork has counted and ft_join has
\* not, in a program whose threads are joined by their creators (CreatorsJoin):
\* no thread is lost between ft_join's test and its decrement.
LiveCount ==
  isConcurrent = Cardinality({t \in Threads : life[t] # "unborn" /\ t # Main})
                 - Cardinality({t \in Threads : pc[t] = "create"})
                 - Cardinality({t \in Threads : life[t] = "joined"})
                 + Cardinality({t \in Threads : pc[t] \in {"join", "drop"}})

\* The clock of the read of x the shadow state remembers at index i.
ReadAt(x, i) ==
  IF R[x] = READ_SHARED THEN Rvc[x].at[i]
  ELSE IF R[x].tid = i THEN R[x].clock ELSE 0

\* While nobody writes x, a read of x stays remembered, in R or in Rvc, until
\* a reader that is ordered after it takes its place (ft_read's three branches:
\* shared, exclusive, and from exclusive to shared).
ReadsRemembered ==
  [][\A x \in VS : W'[x] = W[x] =>
       \A i \in Slots :
         \/ ReadAt(x, i)' >= ReadAt(x, i)
         \/ \E h \in TS : R'[x] = EpochOf(h) /\ C[h].at[i] >= ReadAt(x, i)]_vars

\* A write takes the place of accesses that its thread is ordered after, or
\* x is reported: no slot of Rvc that holds a read is out of ft_write's loop,
\* and no epoch is compared with another thread's slot.
OverwritesJudged ==
  [][\A x \in VS : W'[x] # W[x] =>
       \/ x \in reported'
       \/ \E h \in TS : /\ W'[x] = EpochOf(h)
                        /\ W[x].clock <= C[h].at[W[x].tid]
                        /\ \A i \in Slots : ReadAt(x, i) <= C[h].at[i]]_vars

-----------------------------------------------------------------------------
(* What comments in defs.h say, and the code does not keep.                *)

\* defs.h:71 "invariant: epoch == C[tid]", between two callbacks of a thread.
EpochIsOwnClock ==
  \A t \in Threads : (life[t] = "running" /\ pc[t] = "run" /\ Self(t) \in TS)
                       => epoch[Self(t)] = Own(Self(t))

\* defs.h:57 "Invariant: NumThreads == C.size()", C being TS.C.
NumThreadsIsSize == NumThreads = Cardinality(TS)
=============================================================================
