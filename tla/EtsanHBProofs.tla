--------------------------- MODULE EtsanHBProofs ---------------------------
(***************************************************************************)
(* The detector's verdicts, proved for every gated program: any number of  *)
(* threads, mutexes and variables, any schedule.  Programs that register   *)
(* their threads first are gated, which the last part proves.              *)
(*                                                                         *)
(* The argument: the runtime's clocks know of an access exactly what       *)
(* happens after it, and what the shadow words remember of a variable      *)
(* stands for all accesses to it.                                          *)
(***************************************************************************)
EXTENDS EtsanHB, EtsanProofs

Kinds == {"read", "write"}

Rivals(k) == IF k = "read" THEN {"write"} ELSE Kinds

(***************************************************************************)
(* Who knows of an epoch.                                                  *)
(***************************************************************************)
\* A vector knows of everything up to its entry; of clock 0 there is nothing
\* to know.
KnowsOf(v, e) == e.clock = 0 \/ (e.tid < v.size /\ e.clock <= v.at[e.tid])

\* What thread or mutex a knows of, or is about to: a thread that has got a
\* mutex, or joined a thread, knows before its callback tells the runtime.
Knows(a, e) ==
  IF a \in Locks THEN KnowsOf(L[a], e)
  ELSE \/ KnowsOf(C[Self(a)], e)
       \/ pc[a] = "acquire" /\ KnowsOf(L[call[a].on], e)
       \/ pc[a] \in {"join", "drop", "joined"} /\ KnowsOf(C[Child(a)], e)

Knowing(e) == {a \in Knowers : Knows(a, e)}

\* A mutex is told in ft_release what its thread knows, a step before the
\* program lets go of it.
Told(S) == S \cup {m \in Locks : \E t \in Threads : t \in S /\ Publishing(t, m)}

\* Epoch e is thread u's, and not of the future.
Owner(u, e) ==
  /\ Self(u) \in TS /\ Settled(Self(u)) /\ tid[Self(u)] < Cardinality(TS)
  /\ e.tid = tid[Self(u)] /\ e.clock <= Own(Self(u))

(***************************************************************************)
(* The inductive invariant.                                                *)
(***************************************************************************)
HBTypeOK ==
  /\ seen \in [Vars -> [Kinds -> [Threads -> SUBSET Knowers]]]
  /\ racy \subseteq Vars

\* A mutex the runtime has not heard of knows nothing; a thread whose join
\* is under way takes no steps; NumThreads never lags behind.
Support ==
  /\ \A m \in Locks \ LS : L[m] = newVectorClock(0)
  /\ \A t \in Threads : pc[t] \in {"join", "drop", "joined"} => life[call[t].on] = "joined"
  /\ \A t \in Threads : pc[t] = "access" => call[t].on \in Vars /\ call[t].do \in Accesses
  /\ NumThreads >= Cardinality(TS)

\* The reads the shadow word of x holds, and the write.
Slot(x, i) == [tid |-> i, clock |-> Rvc[x].at[i]]

Reads(x) == IF R[x] = READ_SHARED THEN {Slot(x, i) : i \in Slots} ELSE {R[x]}

Accessing(t, x, k) == pc[t] = "access" /\ call[t].on = x /\ Kind(call[t].do) = k

\* Between its callback's entry and exit a thread's clock stands still, and
\* nobody else is ordered after its access; if x has not been raced on, the
\* thread is ordered after all accesses that could race with its own.
InCallback ==
  \A t \in Threads, x \in Vars, k \in Kinds : Accessing(t, x, k) =>
    /\ Fit(Self(t)) /\ call[t].do # "vptr_read"
    /\ seen[x][k][t] = {t}
    /\ x \in racy \/ \A j \in Rivals(k), u \in Threads : t \in seen[x][j][u]

\* Everybody is ordered after its own accesses; a mutex that is held is
\* ordered after nothing its holder is not.
Ordered ==
  \A x \in Vars, k \in Kinds, u \in Threads :
    /\ u \in seen[x][k][u]
    /\ \A m \in Locks : m \in seen[x][k][u] /\ holder[m] # NoThread => holder[m] \in seen[x][k][u]

\* Epoch e in a shadow word of x stands for accesses of kind k by its owner:
\* whoever is ordered after all of these knows of it.
Backed(x, k, e) ==
  \/ e.clock = 0
  \/ \E u \in Threads : Owner(u, e) /\ Told(seen[x][k][u]) \subseteq Knowing(e)

Sound(x) ==
  /\ W[x].tid = 0 \/ W[x].tid < Cardinality(TS)
  /\ R[x] = READ_SHARED \/ R[x].tid = 0 \/ R[x].tid < Cardinality(TS)
  /\ R[x] = READ_SHARED => Rvc[x].size # 0
  /\ Rvc[x].size = 0 \/ Rvc[x].size >= Cardinality(TS)
  /\ Backed(x, "write", W[x])
  /\ R[x] = READ_SHARED \/ Backed(x, "read", R[x])
  /\ \A i \in Slots : Backed(x, "read", Slot(x, i))

Shadow == \A x \in Vars : Sound(x)

\* A variable not in the map has no accesses in its word.
Unrecorded ==
  \A x \in Vars \ VS :
     W[x].clock = 0 /\ R[x] # READ_SHARED /\ R[x].clock = 0

\* Some thread is ordered after both accesses.
Met(e, f) == \E u \in Threads : KnowsOf(C[Self(u)], e) /\ KnowsOf(C[Self(u)], f)

\* The accesses in the shadow word of x stand for all of them.
Represented(x) ==
  /\ R[x] = READ_SHARED \/ Met(W[x], R[x])
  /\ \A u \in Threads :
       /\ Accessing(u, x, "write") \/ Knowing(W[x]) \subseteq Told(seen[x]["write"][u])
       /\ \/ Accessing(u, x, "read")
          \/ Knowing(W[x]) \subseteq Told(seen[x]["read"][u])
          \/ \E e \in Reads(x) : Met(W[x], e) /\ Knowing(e) \subseteq Told(seen[x]["read"][u])

\* A race not reported has its second access still in the callback.
Witnessed(x) ==
  x \in racy => \E t \in Threads, k \in Kinds : Accessing(t, x, k) /\
                  \E j \in Rivals(k), u \in Threads : t \notin seen[x][j][u]

Verdicts == /\ InCallback /\ Ordered /\ Shadow /\ Unrecorded
            /\ \A x \in Vars \ reported : Represented(x) /\ Witnessed(x)

\* Nothing has been judged, and everything to come is ordered after the
\* accesses made so far.
Fresh == /\ AllOrdered /\ VS = {} /\ racy = {}
         /\ \A t \in Threads : pc[t] # "access"
         /\ \A x \in Vars : /\ W[x] = [tid |-> 0, clock |-> 0] /\ R[x] = W[x]
                            /\ Rvc[x] = newVectorClock(0)

\* A step of t moves no other thread.
Apart(t) == \A v \in Threads \ {t} : UNCHANGED <<pc[v], call[v]>>

\* By which step t has come to the point where it is.
Arrives(t) ==
  \/ UNCHANGED <<pc[t], call[t]>>
  \/ /\ pc'[t] = "access" => \E x \in Vars, do \in Accesses : Access(t, x, do)
     /\ pc'[t] = "create" => \E u \in Threads : PthreadCreate(t, u)
     /\ pc'[t] = "fork" => ft_fork_count(t)
     /\ pc'[t] = "join" => \E u \in Threads : PthreadJoin(t, u)
     /\ pc'[t] \in {"drop", "joined"} => ft_join_test(t) \/ ft_join_drop(t)

HBInv == HBTypeOK /\ Support /\ Verdicts /\ (Fresh \/ AllRegistered)

\* Some thread that runs is ordered after each access.
Heirs ==
  \A x \in Vars, k \in Kinds, u \in Threads :
    \E r \in Threads : life[r] = "running" /\ r \in seen[x][k][u]

\* A thread performs an access with nobody else there.
SolitaryAccess(t) ==
  /\ Solitary(t)
  /\ \E x \in Vars, do \in Accesses : Access(t, x, do) /\ RealAccess(t, x, do)

Locking == {"run", "waiting", "acquire", "adopt", "release", "tick"}

\* All threads but one have been joined, and that one is ordered after all
\* accesses; it creates and joins nobody, and races with nobody.
Last ==
  /\ isConcurrent = 0 /\ racy \subseteq reported
  /\ \E t \in Threads :
       /\ life[t] = "running" /\ \A u \in Threads \ {t} : life[u] = "joined"
       /\ pc[t] \in Locking
       /\ \A x \in Vars, k \in Kinds, u \in Threads : t \in seen[x][k][u]

-----------------------------------------------------------------------------
(* What the clock operators do to what a vector knows.                     *)

\* An epoch's fields and a vector's size are numbers.
LEMMA EpochNumbers ==
  ASSUME NEW e \in Epoch, NEW v \in VectorClock
  PROVE  /\ e.tid \in Slots /\ e.tid \in Nat /\ e.clock \in Nat
         /\ v.size \in Nat /\ v.at[e.tid] \in Nat
  BY MaxTidNat DEF Epoch, VectorClock, Slots

\* A join knows what either side knows.
LEMMA JoinKnows ==
  ASSUME NEW v \in VectorClock, NEW w \in VectorClock, NEW e \in Epoch
  PROVE  KnowsOf(JoinClock(v, w), e) <=> KnowsOf(v, e) \/ KnowsOf(w, e)
  <1>1. /\ e.tid \in Slots /\ e.tid \in Nat /\ e.clock \in Nat
        /\ v.size \in Nat /\ v.at[e.tid] \in Nat /\ w.size \in Nat /\ w.at[e.tid] \in Nat
    BY EpochNumbers
  <1>2. /\ JoinClock(v, w).size = Larger(v.size, w.size)
        /\ JoinClock(v, w).at[e.tid] = IF e.tid < Larger(v.size, w.size)
                                      THEN Larger(Known(v, e.tid), Known(w, e.tid))
                                      ELSE v.at[e.tid]
    BY <1>1, JoinedClock
  <1> QED
    BY <1>1, <1>2 DEF KnowsOf, Larger, Known

\* Appended zeros are not knowledge.
LEMMA ExtendKnows ==
  ASSUME NEW v \in VectorClock, NEW w \in VectorClock, NEW e \in Epoch
  PROVE  KnowsOf(ExtendToMatch(v, w), e) <=> KnowsOf(v, e)
  <1>1. /\ e.tid \in Slots /\ e.tid \in Nat /\ e.clock \in Nat
        /\ v.size \in Nat /\ v.at[e.tid] \in Nat /\ w.size \in Nat /\ w.at[e.tid] \in Nat
    BY EpochNumbers
  <1>2. /\ ExtendToMatch(v, w).size = Larger(v.size, w.size)
        /\ ExtendToMatch(v, w).at[e.tid] = IF v.size <= e.tid /\ e.tid < w.size
                                          THEN 0 ELSE v.at[e.tid]
    BY <1>1, ExtendedClock
  <1> QED
    BY <1>1, <1>2 DEF KnowsOf, Larger

\* A copy knows what the original knows.
LEMMA CopyKnows ==
  ASSUME NEW v \in VectorClock, NEW w \in VectorClock, NEW e \in Epoch
  PROVE  KnowsOf(CopyClock(v, w), e) <=> KnowsOf(w, e)
  <1>1. /\ e.tid \in Slots /\ e.tid \in Nat /\ e.clock \in Nat
        /\ v.size \in Nat /\ v.at[e.tid] \in Nat /\ w.size \in Nat /\ w.at[e.tid] \in Nat
    BY EpochNumbers
  <1>2. /\ CopyClock(v, w).size = Larger(v.size, w.size)
        /\ CopyClock(v, w).at[e.tid] = IF e.tid < Larger(v.size, w.size)
                                      THEN Known(w, e.tid) ELSE v.at[e.tid]
    BY <1>1, CopiedClock
  <1> QED
    BY <1>1, <1>2 DEF KnowsOf, Larger, Known

\* A greater entry adds nothing but later clocks of its own index.
LEMMA StoreKnows ==
  ASSUME NEW v \in VectorClock, NEW i \in Slots, NEW n \in Nat, n >= v.at[i],
         NEW e \in Epoch
  PROVE  /\ KnowsOf(v, e) => KnowsOf([v EXCEPT !.at[i] = n], e)
         /\ (e.tid = i => i < v.size /\ e.clock <= v.at[i]) =>
              (KnowsOf([v EXCEPT !.at[i] = n], e) => KnowsOf(v, e))
  <1>1. /\ e.tid \in Slots /\ e.tid \in Nat /\ e.clock \in Nat /\ v.at[e.tid] \in Nat
        /\ v.size \in Nat /\ v.at[i] \in Nat
    BY EpochNumbers DEF VectorClock
  <1>2. /\ [v EXCEPT !.at[i] = n].size = v.size
        /\ [v EXCEPT !.at[i] = n].at[e.tid] = IF e.tid = i THEN n ELSE v.at[e.tid]
    BY <1>1 DEF VectorClock
  <1>3. CASE e.tid = i
    BY <1>1, <1>2, <1>3 DEF KnowsOf
  <1>4. CASE e.tid # i
    BY <1>1, <1>2, <1>4 DEF KnowsOf
  <1> QED
    BY <1>3, <1>4

\* A new vector knows of nothing.
LEMMA NewKnows ==
  ASSUME NEW n \in 0 .. MaxTid + 1, NEW e \in Epoch
  PROVE  KnowsOf(newVectorClock(n), e) <=> e.clock = 0
  <1>1. e.tid \in Slots /\ e.clock \in Nat
    BY DEF Epoch
  <1>2. newVectorClock(n).at[e.tid] = 0
    BY <1>1, NewClock
  <1> QED
    BY <1>1, <1>2 DEF KnowsOf

-----------------------------------------------------------------------------
(* The runtime's invariant, and the parts of this one that any program     *)
(* keeps.                                                                  *)

\* With the history forgotten, a step is a step of Etsan.
LEMMA RuntimeStep ==
  ASSUME NEW t \in Threads, HBThreadStep(t)
  PROVE  ThreadStep(t)
  BY DEF HBThreadStep, ThreadStep

\* EtsanHB adds a history and takes no behaviour away.
LEMMA Runtime == HBSpec => Spec
  <1>1. HBInit => Init
    BY DEF HBInit
  <1>2. [HBNext]_hbvars => [Next]_vars
    BY RuntimeStep DEF HBNext, Next, Terminated, hbvars
  <1> QED
    BY <1>1, <1>2, PTL DEF HBSpec, Spec

\* A step moves its own thread alone, and to each point of a callback by one
\* way.
LEMMA Moves ==
  ASSUME TypeOK, NEW t \in Threads, ThreadStep(t)
  PROVE  Apart(t) /\ Arrives(t)
  <1>1. CASE UNCHANGED <<pc, call>>
    BY <1>1 DEF Apart, Arrives
  <1>2. ASSUME NEW u \in Threads, PthreadCreate(t, u) \/ PthreadJoin(t, u)
        PROVE  Apart(t) /\ Arrives(t)
    BY <1>2 DEF PthreadCreate, PthreadJoin, Enter, Apart, Arrives, TypeOK
  <1>3. ASSUME NEW m \in Locks, PthreadMutexLock(t, m) \/ PthreadMutexUnlock(t, m)
        PROVE  Apart(t) /\ Arrives(t)
    BY <1>3 DEF PthreadMutexLock, PthreadMutexUnlock, Enter, Apart, Arrives, TypeOK
  <1>4. ASSUME NEW m \in Locks, Untracked(t, m)
        PROVE  Apart(t) /\ Arrives(t)
    BY <1>4 DEF Untracked, Enter, Return, Apart, Arrives, TypeOK
  <1>5. ASSUME NEW x \in Vars, NEW do \in Accesses, Access(t, x, do)
        PROVE  Apart(t) /\ Arrives(t)
    <2>1. Enter(t, "access", [do |-> do, on |-> x]) \/ Return(t)
      BY <1>5 DEF Access
    <2>2. Apart(t) /\ pc'[t] \in {"access", "run"}
      BY <2>1 DEF Enter, Return, Apart, TypeOK
    <2> QED
      BY <1>5, <2>2 DEF Arrives
  <1>6. CASE ft_fork_count(t) \/ ft_join_test(t) \/ ft_join_drop(t) \/ ft_acquire(t) \/ ft_release(t)
    BY <1>6 DEF ft_fork_count, ft_join_test, ft_join_drop, ft_acquire, ft_release, Goto,
       Apart, Arrives, TypeOK
  <1>7. CASE Return(t)
    BY <1>7 DEF Return, Apart, Arrives, TypeOK
  <1>8. ASSUME NEW x \in Vars, ft_read(t, x) \/ ft_write(t, x)
        PROVE  Return(t)
    BY <1>8 DEF ft_read, ft_write
  <1>9. ft_fork(t) \/ ft_join(t) \/ ft_acquire_adopt(t) \/ ft_release_tick(t) => Return(t)
    BY DEF ft_fork, ft_join, ft_acquire_adopt, ft_release_tick
  <1>10. /\ \A h \in Handles : getState(t, h) => UNCHANGED <<pc, call>>
         /\ \A m \in Locks : getLockState(t, m) => UNCHANGED <<pc, call>>
         /\ \A x \in Vars : getVarState(t, x) => UNCHANGED <<pc, call>>
    BY DEF getState, getLockState, getVarState, control
  <1> QED
    BY <1>1, <1>2, <1>3, <1>4, <1>5, <1>6, <1>7, <1>8, <1>9, <1>10 DEF ThreadStep

\* Support survives every step of every thread.
LEMMA SupportStep ==
  ASSUME IInv, Support, NEW t \in Threads, ThreadStep(t)
  PROVE  Support'
  <1>a. TypeOK /\ Callbacks
    BY DEF IInv
  <1>1. \A m \in Locks \ LS' : L'[m] = newVectorClock(0)
    <2>1. CASE UNCHANGED <<LS, L>>
      BY <2>1 DEF Support
    <2>2. ASSUME NEW m \in Locks, getLockState(t, m)
          PROVE  \A w \in Locks \ LS' : L'[w] = newVectorClock(0)
      BY <2>2, <1>a DEF getLockState, Support, TypeOK
    <2>3. CASE ft_acquire(t) \/ ft_release(t)
      BY <2>3, <1>a DEF ft_acquire, ft_release, Support, TypeOK
    <2> QED
      BY <2>1, <2>2, <2>3 DEF ThreadStep, PthreadCreate, PthreadJoin, PthreadMutexLock,
         PthreadMutexUnlock, Untracked, Access, getState, getVarState, ft_read, ft_write,
         ft_fork_count, ft_fork, ft_join_test, ft_join_drop, ft_join, ft_acquire_adopt,
         ft_release_tick, locks
  <1>2. NumThreads' >= Cardinality(TS')
    <2>1. CASE UNCHANGED <<TS, NumThreads>>
      BY <2>1 DEF Support
    <2>2. ASSUME NEW h \in Handles, getState(t, h)
          PROVE  NumThreads' >= Cardinality(TS')
      <3> DEFINE n == Cardinality(TS) + 1
      <3>1. Cardinality(TS') = n /\ NumThreads' = n + 1
        BY <2>2, Registered
      <3>2. n \in Nat
        BY <1>a, Counting
      <3> HIDE DEF n
      <3> QED
        BY <3>1, <3>2
    <2> QED
      BY <2>1, <2>2 DEF ThreadStep, PthreadCreate, PthreadJoin, PthreadMutexLock,
         PthreadMutexUnlock, Untracked, Access, getLockState, getVarState, ft_read, ft_write,
         ft_fork_count, ft_fork, ft_join_test, ft_join_drop, ft_join, ft_acquire,
         ft_acquire_adopt, ft_release, ft_release_tick, threads
  <1>3. \A s \in Threads : pc'[s] \in {"join", "drop", "joined"} => life'[call'[s].on] = "joined"
    <2> SUFFICES ASSUME NEW s \in Threads, pc'[s] \in {"join", "drop", "joined"}
                 PROVE  life'[call'[s].on] = "joined"
      OBVIOUS
    <2>1. ASSUME NEW u \in Threads, PthreadCreate(t, u)
          PROVE  life'[call'[s].on] = "joined"
      BY <2>1, <1>a DEF PthreadCreate, Enter, Support, TypeOK
    <2>2. ASSUME NEW u \in Threads, PthreadJoin(t, u)
          PROVE  life'[call'[s].on] = "joined"
      <3>1. /\ life' = [life EXCEPT ![u] = "joined"]
            /\ pc' = [pc EXCEPT ![t] = "join"]
            /\ call' = [call EXCEPT ![t] = [do |-> "join", on |-> u]]
        BY <2>2 DEF PthreadJoin, Enter
      <3>2. CASE s = t
        BY <3>1, <3>2, <1>a DEF TypeOK
      <3>3. CASE s # t
        <4>1. pc[s] \in {"join", "drop", "joined"} /\ call'[s] = call[s]
          BY <3>1, <3>3, <1>a DEF TypeOK
        <4>2. call[s].on \in Threads /\ life[call[s].on] = "joined"
          BY <4>1, <1>a DEF Callbacks, Support
        <4> QED
          BY <3>1, <4>1, <4>2, <1>a DEF TypeOK
      <3> QED
        BY <3>2, <3>3
    <2>3. CASE ft_join_test(t) \/ ft_join_drop(t)
      BY <2>3, <1>a DEF ft_join_test, ft_join_drop, Goto, program, Support, TypeOK
    <2>4. CASE /\ UNCHANGED <<life>> /\ \A v \in Threads \ {t} : UNCHANGED <<pc[v], call[v]>>
               /\ pc'[t] \notin {"join", "drop", "joined"}
      BY <2>4 DEF Support
    <2>5. CASE UNCHANGED life /\ \A v \in Threads : UNCHANGED <<pc[v], call[v]>>
      BY <2>5 DEF Support
    <2>6. \/ \E u \in Threads : PthreadCreate(t, u) \/ PthreadJoin(t, u)
          \/ UNCHANGED life
      BY DEF ThreadStep, PthreadMutexLock, PthreadMutexUnlock, Untracked,
         Access, getState, getLockState, getVarState, ft_read, ft_write, ft_fork_count,
         ft_fork, ft_join_test, ft_join_drop, ft_join, ft_acquire, ft_acquire_adopt, ft_release,
         ft_release_tick, program
    <2>7. /\ UNCHANGED <<pc[t], call[t]>> /\ Apart(t) => \A v \in Threads : UNCHANGED <<pc[v], call[v]>>
          /\ Apart(t) /\ Arrives(t)
      BY <1>a, Moves DEF Apart
    <2> QED
      BY <2>1, <2>2, <2>3, <2>4, <2>5, <2>6, <2>7 DEF Apart, Arrives
  <1>4. \A s \in Threads : pc'[s] = "access" => call'[s].on \in Vars /\ call'[s].do \in Accesses
    <2>1. ASSUME NEW x \in Vars, NEW do \in Accesses, Access(t, x, do)
          PROVE  \A s \in Threads : pc'[s] = "access" => call'[s].on \in Vars /\ call'[s].do \in Accesses
      BY <2>1, <1>a DEF Access, Enter, Return, Support, TypeOK
    <2>2. CASE \A v \in Threads : pc'[v] = "access" => UNCHANGED <<pc[v], call[v]>>
      BY <2>2 DEF Support
    <2> QED
      BY <1>a, <2>1, <2>2, Moves DEF Apart, Arrives
  <1> QED
    BY <1>1, <1>2, <1>3, <1>4 DEF Support

-----------------------------------------------------------------------------
(* Knowledge passes through the runtime as order passes through the        *)
(* program: each step hands what a knows to b, on both sides.              *)

\* No two threads have one pthread_t.
Distinct == \A t, u \in Threads : Self(t) = Self(u) => t = u

Valid(e) == e.clock = 0 \/ \E u \in Threads : Owner(u, e)

\* b knows what a knew, and what it knew itself if it keeps that.
KnowledgePasses(a, b, keep) ==
  \A e \in Epoch : Valid(e) => \A c \in Knowers :
    Knows(c, e)' <=> IF c = b THEN Knows(a, e) \/ (keep /\ Knows(b, e)) ELSE Knows(c, e)

OrderPasses(a, b, keep) ==
  \A x \in Vars, k \in Kinds, u \in Threads : \A c \in Knowers :
    c \in Told(seen[x][k][u])' <=>
      IF c = b THEN \/ a \in Told(seen[x][k][u])
                    \/ keep /\ b \in Told(seen[x][k][u])
               ELSE c \in Told(seen[x][k][u])

\* Learn, pointwise.
Learned(a, b) ==
  \A x \in Vars, k \in Kinds, u \in Threads :
    /\ a \notin seen[x][k][u] => seen'[x][k][u] = seen[x][k][u]
    /\ a \in seen[x][k][u] => seen'[x][k][u] = seen[x][k][u] \cup {b}

LEMMA Learning ==
  ASSUME NEW a, NEW b, Learn(a, b)
  PROVE  Learned(a, b)
  BY DEF Learn, Learned, Kinds

\* A step that publishes nothing and orders nobody.
LEMMA OrderStays ==
  ASSUME UNCHANGED seen, NEW a \in Knowers,
         \A v \in Threads, m \in Locks : Publishing(v, m)' <=> Publishing(v, m)
  PROVE  OrderPasses(a, a, TRUE)
  BY DEF OrderPasses, Told

\* A thread that is not releasing is told by a thread, or by a mutex nobody
\* is releasing.
LEMMA OrderLearned ==
  ASSUME NEW a \in Knowers, NEW b \in Threads, Learned(a, b),
         \A v \in Threads, m \in Locks : Publishing(v, m)' <=> Publishing(v, m),
         \A m \in Locks : ~Publishing(b, m),
         \A v \in Threads : a \in Locks => ~Publishing(v, a)
  PROVE  OrderPasses(a, b, TRUE)
  <1> SUFFICES ASSUME NEW x \in Vars, NEW k \in Kinds, NEW u \in Threads, NEW c \in Knowers
               PROVE  c \in Told(seen[x][k][u])' <=>
                        IF c = b THEN \/ a \in Told(seen[x][k][u])
                                      \/ TRUE /\ b \in Told(seen[x][k][u])
                                 ELSE c \in Told(seen[x][k][u])
    BY DEF OrderPasses
  <1>0. b \notin Locks /\ (a \in Threads => a \notin Locks)
    BY KnowersAssumption
  <1> DEFINE S == seen[x][k][u]
  <1>1. /\ a \notin S => seen'[x][k][u] = S
        /\ a \in S => seen'[x][k][u] = S \cup {b}
    BY DEF Learned
  <1>2. /\ b \in Told(S) <=> b \in S
        /\ a \in Told(S) <=> a \in S
    BY <1>0 DEF Told, Knowers
  <1>3. c \in Told(S)' <=> c \in seen'[x][k][u] \/
                           (c \in Locks /\ \E v \in Threads : v \in seen'[x][k][u] /\ Publishing(v, c))
    BY DEF Told
  <1>4. c \in Locks => \A v \in Threads : v \in seen'[x][k][u] /\ Publishing(v, c) => v \in S
    BY <1>1
  <1>5. CASE c = b
    BY <1>0, <1>1, <1>2, <1>3, <1>5
  <1>6. CASE c # b
    BY <1>1, <1>3, <1>4, <1>6 DEF Told
  <1> QED
    BY <1>5, <1>6

\* ft_release: mutex m is told what its thread knows, and nothing else.
LEMMA OrderReleased ==
  ASSUME UNCHANGED seen, NEW t \in Threads, NEW m \in Locks,
         Ordered, holder[m] = t, NoThread \notin Threads,
         \A v \in Threads, w \in Locks : Publishing(v, w)' <=> Publishing(v, w) \/ (v = t /\ w = m),
         \A v \in Threads : ~Publishing(v, m)
  PROVE  OrderPasses(t, m, FALSE)
  <1> SUFFICES ASSUME NEW x \in Vars, NEW k \in Kinds, NEW u \in Threads, NEW c \in Knowers
               PROVE  c \in Told(seen[x][k][u])' <=>
                        IF c = m THEN \/ t \in Told(seen[x][k][u])
                                      \/ FALSE /\ m \in Told(seen[x][k][u])
                                 ELSE c \in Told(seen[x][k][u])
    BY DEF OrderPasses
  <1> DEFINE S == seen[x][k][u]
  <1>1. m \in S => t \in S
    BY DEF Ordered
  <1>2. t \in Told(S) <=> t \in S
    BY KnowersAssumption DEF Told
  <1>3. c \in Told(S)' <=> c \in S \/
                           (c \in Locks /\ \E v \in Threads : v \in S /\ (Publishing(v, c) \/ (v = t /\ c = m)))
    BY DEF Told
  <1> QED
    BY <1>1, <1>2, <1>3 DEF Told

\* ft_release_tick: what was told in ft_release becomes order in the program.
LEMMA OrderTicked ==
  ASSUME NEW t \in Threads, NEW m \in Locks, Learned(t, m), Publishing(t, m),
         \A v \in Threads, w \in Locks : Publishing(v, w)' <=> Publishing(v, w) /\ v # t,
         \A v \in Threads : Publishing(v, m) => v = t
  PROVE  OrderPasses(t, t, TRUE)
  <1> SUFFICES ASSUME NEW x \in Vars, NEW k \in Kinds, NEW u \in Threads, NEW c \in Knowers
               PROVE  c \in Told(seen[x][k][u])' <=> c \in Told(seen[x][k][u])
    BY DEF OrderPasses
  <1> DEFINE S == seen[x][k][u]
  <1>1. /\ t \notin S => seen'[x][k][u] = S
        /\ t \in S => seen'[x][k][u] = S \cup {m}
    BY DEF Learned
  <1>2. \A w \in Locks : Publishing(t, w) => w = m
    BY DEF Publishing
  <1>3. c \in Told(S)' <=> c \in seen'[x][k][u] \/
          (c \in Locks /\ \E v \in Threads : v \in seen'[x][k][u] /\ Publishing(v, c) /\ v # t)
    BY DEF Told
  <1>4. \A v \in Threads : v \in seen'[x][k][u] <=> v \in S
    BY <1>1, KnowersAssumption
  <1>5. c \in Told(S) <=> c \in S \/ (c \in Locks /\ \E v \in Threads : v \in S /\ Publishing(v, c))
    BY DEF Told
  <1>6. CASE c = m
    BY <1>1, <1>3, <1>4, <1>5, <1>6
  <1>7. CASE c # m
    BY <1>1, <1>2, <1>3, <1>4, <1>5, <1>7
  <1> QED
    BY <1>6, <1>7

\* Everybody knows of clock 0, now and then.
LEMMA NothingToKnow ==
  ASSUME NEW e, e.clock = 0
  PROVE  \A c \in Knowers : Knows(c, e) /\ Knows(c, e)'
  BY DEF Knows, KnowsOf

\* A thread's clock is not behind the epochs it is known to have had.
LEMMA OwnEpochs ==
  ASSUME IInv, NEW e \in Epoch, Valid(e), NEW h \in TS, e.tid = tid[h]
  PROVE  e.clock = 0 \/ (Settled(h) /\ e.clock <= Own(h))
  BY DEF Valid, Owner, IInv, ClockInv, Numbering

\* A step of t that touches no clock and is no lock, join or end of either.
LEMMA KnowledgeStays ==
  ASSUME NEW t \in Threads, UNCHANGED <<C, L>>,
         \A v \in Threads \ {t} : UNCHANGED <<pc[v], call[v]>>,
         \/ {pc[t], pc'[t]} \cap {"acquire", "join", "drop", "joined"} = {}
         \/ {pc[t], pc'[t]} \subseteq {"join", "drop", "joined"} /\ call'[t] = call[t]
  PROVE  \A e, c : c \in Knowers => (Knows(c, e)' <=> Knows(c, e))
  <1> SUFFICES ASSUME NEW e, NEW c \in Knowers
               PROVE  Knows(c, e)' <=> Knows(c, e)
    OBVIOUS
  <1>1. CASE c \in Locks
    BY <1>1 DEF Knows, KnowsOf
  <1>2. CASE c \in Threads \ {t}
    BY <1>2, KnowersAssumption DEF Knows, KnowsOf, Self, Child
  <1>3. CASE c = t
    BY <1>3, KnowersAssumption DEF Knows, KnowsOf, Self, Child
  <1> QED
    BY <1>1, <1>2, <1>3 DEF Knowers

LEMMA KnowledgeKept ==
  ASSUME NEW a \in Knowers, \A e, c : c \in Knowers => (Knows(c, e)' <=> Knows(c, e))
  PROVE  KnowledgePasses(a, a, TRUE)
  BY DEF KnowledgePasses

\* pthread_join: the thread is ordered after the one joined, and will know.
LEMMA JoinPasses ==
  ASSUME IInv, NEW t \in Threads, NEW u \in Threads, PthreadJoin(t, u)
  PROVE  KnowledgePasses(u, t, TRUE)
  <1> SUFFICES ASSUME NEW e \in Epoch, NEW c \in Knowers
               PROVE  Knows(c, e)' <=> IF c = t THEN Knows(u, e) \/ (TRUE /\ Knows(t, e))
                                                ELSE Knows(c, e)
    BY DEF KnowledgePasses
  <1>1. /\ pc[t] = "run" /\ pc[u] = "run"
        /\ pc' = [pc EXCEPT ![t] = "join"]
        /\ call' = [call EXCEPT ![t] = [do |-> "join", on |-> u]]
        /\ UNCHANGED <<C, L>>
    BY DEF PthreadJoin, Performs, Finished, Enter, threads, locks
  <1>2. t \notin Locks /\ u \notin Locks
    BY KnowersAssumption
  <1>3. pc'[t] = "join" /\ call'[t].on = u
    BY <1>1 DEF IInv, TypeOK
  <1>4. CASE c = t
    BY <1>1, <1>2, <1>3, <1>4 DEF Knows, KnowsOf, Self, Child
  <1>5. CASE c \in Threads \ {t}
    BY <1>1, <1>5, KnowersAssumption DEF Knows, KnowsOf, Self, Child
  <1>6. CASE c \in Locks
    BY <1>1, <1>2, <1>6 DEF Knows, KnowsOf
  <1> QED
    BY <1>4, <1>5, <1>6 DEF Knowers

\* pthread_mutex_lock: likewise for what the mutex was told.
LEMMA LockPasses ==
  ASSUME IInv, NEW t \in Threads, NEW m \in Locks, PthreadMutexLock(t, m)
  PROVE  KnowledgePasses(m, t, TRUE)
  <1> SUFFICES ASSUME NEW e \in Epoch, NEW c \in Knowers
               PROVE  Knows(c, e)' <=> IF c = t THEN Knows(m, e) \/ (TRUE /\ Knows(t, e))
                                                ELSE Knows(c, e)
    BY DEF KnowledgePasses
  <1>1. /\ pc[t] = "run"
        /\ pc' = [pc EXCEPT ![t] = "acquire"]
        /\ call' = [call EXCEPT ![t] = [do |-> "lock", on |-> m]]
        /\ UNCHANGED <<C, L>>
    BY DEF PthreadMutexLock, Performs, Enter, threads, locks
  <1>2. t \notin Locks
    BY KnowersAssumption
  <1>3. pc'[t] = "acquire" /\ call'[t].on = m
    BY <1>1 DEF IInv, TypeOK
  <1>4. CASE c = t
    BY <1>1, <1>2, <1>3, <1>4 DEF Knows, KnowsOf, Self, Child
  <1>5. CASE c \in Threads \ {t}
    BY <1>1, <1>5, KnowersAssumption DEF Knows, KnowsOf, Self, Child
  <1>6. CASE c \in Locks
    BY <1>1, <1>2, <1>6 DEF Knows, KnowsOf
  <1> QED
    BY <1>4, <1>5, <1>6 DEF Knowers

\* getLockState: a new mutex knows nothing, like one not yet in the map.
LEMMA LockStatePasses ==
  ASSUME IInv, Support, NEW t \in Threads, NEW m \in Locks, getLockState(t, m)
  PROVE  KnowledgePasses(t, t, TRUE)
  <1> SUFFICES ASSUME NEW e \in Epoch, NEW c \in Knowers
               PROVE  Knows(c, e)' <=> Knows(c, e)
    BY DEF KnowledgePasses
  <1>1. /\ L' = [L EXCEPT ![m] = newVectorClock(NumThreads)] /\ m \notin LS
        /\ UNCHANGED <<C, pc, call>>
    BY DEF getLockState, threads, control
  <1>2. L \in [Locks -> VectorClock] /\ NumThreads \in 0 .. MaxTid + 1 /\ 0 \in 0 .. MaxTid + 1
    BY MaxTidNat DEF IInv, TypeOK
  <1>3. L[m] = newVectorClock(0)
    BY <1>1 DEF Support
  <1>4. \A w \in Locks : KnowsOf(L'[w], e) <=> KnowsOf(L[w], e)
    BY <1>1, <1>2, <1>3, NewKnows
  <1>5. \A v \in Threads : pc[v] = "acquire" => call[v].on \in Locks
    BY DEF IInv, Callbacks
  <1> QED
    BY <1>1, <1>4, <1>5 DEF Knows, Knowers, Self, Child

\* No thread in a callback is being joined.
LEMMA NotJoined ==
  ASSUME IInv, Support, Distinct, NEW t \in Threads, pc[t] # "run",
         NEW v \in Threads, pc[v] \in {"join", "drop", "joined"}
  PROVE  call[v].on \in Threads /\ Child(v) # Self(t)
  <1>1. life[t] = "running" /\ life[call[v].on] = "joined" /\ call[v].on \in Threads
    BY DEF IInv, Callbacks, Support
  <1> QED
    BY <1>1 DEF Distinct, Self, Child

\* ft_acquire: the thread now knows what it was about to.
LEMMA AcquirePasses ==
  ASSUME IInv, Support, Distinct, NEW t \in Threads, ft_acquire(t)
  PROVE  KnowledgePasses(t, t, TRUE)
  <1> SUFFICES ASSUME NEW e \in Epoch, NEW c \in Knowers
               PROVE  Knows(c, e)' <=> Knows(c, e)
    BY DEF KnowledgePasses
  <1>1. PICK h \in Handles, m \in Locks : h = Self(t) /\ m = call[t].on
    BY Typed DEF ft_acquire, IInv, Callbacks
  <1>2. /\ C' = [C EXCEPT ![h] = JoinClock(C[h], L[m])]
        /\ L' = [L EXCEPT ![m] = ExtendToMatch(L[m], C[h])]
        /\ pc' = [pc EXCEPT ![t] = "adopt"] /\ call' = call
        /\ pc[t] = "acquire"
    BY <1>1 DEF ft_acquire, Goto
  <1>3. /\ C \in [Handles -> VectorClock] /\ L \in [Locks -> VectorClock]
        /\ pc'[t] = "adopt"
    BY <1>2 DEF IInv, TypeOK
  <1>4. /\ KnowsOf(C'[h], e) <=> KnowsOf(C[h], e) \/ KnowsOf(L[m], e)
        /\ \A g \in Handles : g # h => C'[g] = C[g]
    BY <1>2, <1>3, JoinKnows
  <1>5. \A w \in Locks : KnowsOf(L'[w], e) <=> KnowsOf(L[w], e)
    BY <1>2, <1>3, ExtendKnows
  <1>6. CASE c \in Locks
    BY <1>5, <1>6 DEF Knows
  <1>7. CASE c = t
    BY <1>1, <1>2, <1>3, <1>4, <1>7, KnowersAssumption DEF Knows, Self
  <1>8. CASE c \in Threads \ {t}
    <2>1. /\ c \notin Locks /\ Self(c) \in Handles /\ Self(c) # h
          /\ pc'[c] = pc[c] /\ call'[c] = call[c]
      BY <1>1, <1>2, <1>8, KnowersAssumption, Typed DEF Distinct
    <2>2. pc[c] = "acquire" => call[c].on \in Locks
      BY <1>8 DEF IInv, Callbacks
    <2>3. pc[c] \in {"join", "drop", "joined"} => Child(c) \in Handles /\ Child(c) # h
      BY <1>1, <1>2, <1>8, NotJoined, ProgramAssumption DEF Child
    <2> QED
      BY <1>4, <1>5, <2>1, <2>2, <2>3 DEF Knows, Self, Child
  <1> QED
    BY <1>6, <1>7, <1>8 DEF Knowers

\* ft_release: the mutex is told exactly what the thread knows.
LEMMA ReleasePasses ==
  ASSUME IInv, Support, Distinct, NEW t \in Threads, ft_release(t)
  PROVE  KnowledgePasses(t, call[t].on, FALSE)
  <1>1. PICK h \in Handles, m \in Locks : h = Self(t) /\ m = call[t].on
    BY Typed DEF ft_release, IInv, Callbacks
  <1> SUFFICES ASSUME NEW e \in Epoch, NEW c \in Knowers
               PROVE  Knows(c, e)' <=> IF c = m THEN Knows(t, e) ELSE Knows(c, e)
    BY <1>1 DEF KnowledgePasses
  <1>2. /\ C' = [C EXCEPT ![h] = ExtendToMatch(C[h], L[m])]
        /\ L' = [L EXCEPT ![m] = CopyClock(L[m], C[h])]
        /\ pc' = [pc EXCEPT ![t] = "tick"] /\ call' = call
        /\ pc[t] = "release"
    BY <1>1 DEF ft_release, Goto
  <1>3. /\ C \in [Handles -> VectorClock] /\ L \in [Locks -> VectorClock]
        /\ pc'[t] = "tick" /\ holder[m] = t
    BY <1>1, <1>2 DEF IInv, TypeOK, Callbacks
  <1>4. \A g \in Handles : KnowsOf(C'[g], e) <=> KnowsOf(C[g], e)
    BY <1>2, <1>3, ExtendKnows
  <1>5. /\ KnowsOf(L'[m], e) <=> KnowsOf(C[h], e)
        /\ \A w \in Locks : w # m => L'[w] = L[w]
    BY <1>2, <1>3, CopyKnows
  <1>6. Knows(t, e) <=> KnowsOf(C[h], e)
    BY <1>1, <1>2, KnowersAssumption DEF Knows, Self
  <1>7. CASE c \in Locks
    BY <1>5, <1>6, <1>7 DEF Knows
  <1>8. CASE c = t
    BY <1>1, <1>2, <1>3, <1>4, <1>6, <1>8, KnowersAssumption DEF Knows, Self
  <1>9. CASE c \in Threads \ {t}
    <2>1. /\ c \notin Locks /\ Self(c) \in Handles
          /\ pc'[c] = pc[c] /\ call'[c] = call[c]
      BY <1>2, <1>9, KnowersAssumption, Typed
    <2>2. pc[c] = "acquire" => call[c].on \in Locks /\ call[c].on # m
      BY <1>3, <1>9 DEF IInv, Callbacks
    <2>3. pc[c] \in {"join", "drop", "joined"} => Child(c) \in Handles
      BY <1>2, <1>9, NotJoined, ProgramAssumption DEF Child
    <2>4. c # m
      BY <2>1
    <2> QED
      BY <1>4, <1>5, <2>1, <2>2, <2>3, <2>4 DEF Knows, Self, Child
  <1> QED
    BY <1>7, <1>8, <1>9 DEF Knowers

\* ft_release_tick: a later clock of its own is nothing to know of old epochs.
LEMMA TickPasses ==
  ASSUME IInv, Support, Distinct, NEW t \in Threads, ft_release_tick(t)
  PROVE  KnowledgePasses(t, t, TRUE)
  <1> SUFFICES ASSUME NEW e \in Epoch, Valid(e), NEW c \in Knowers
               PROVE  Knows(c, e)' <=> Knows(c, e)
    BY DEF KnowledgePasses
  <1>1. PICK h \in TS : h = Self(t) /\ h \in Handles
    BY Typed DEF ft_release_tick, IInv, Callbacks
  <1>2. /\ C' = [C EXCEPT ![h].at[tid[h]] = C[h].at[tid[h]] + 1]
        /\ pc' = [pc EXCEPT ![t] = "run"] /\ pc[t] = "tick"
        /\ call' = [call EXCEPT ![t] = NoCall] /\ L' = L
    BY <1>1 DEF ft_release_tick, Return, locks
  <1>3. /\ C \in [Handles -> VectorClock] /\ tid[h] \in Slots /\ C[h].at[tid[h]] \in Nat
        /\ pc'[t] = "run"
    BY <1>1, <1>2 DEF IInv, TypeOK, VectorClock
  <1>4. CASE e.clock = 0
    BY <1>4, NothingToKnow
  <1>5. CASE e.clock # 0
    <2>1. KnowsOf(C'[h], e) <=> KnowsOf(C[h], e)
      <3> DEFINE now == C[h].at[tid[h]] + 1
      <3>1. now \in Nat /\ now >= C[h].at[tid[h]] /\ C[h] \in VectorClock
        BY <1>1, <1>3
      <3>2. e.tid = tid[h] => tid[h] < C[h].size /\ e.clock <= C[h].at[tid[h]]
        BY <1>1, <1>5, OwnEpochs DEF Settled, Own
      <3>3. C'[h] = [C[h] EXCEPT !.at[tid[h]] = now]
        BY <1>1, <1>2, <1>3
      <3> HIDE DEF now
      <3> QED
        BY <1>3, <3>1, <3>2, <3>3, StoreKnows
    <2>2. \A g \in Handles : KnowsOf(C'[g], e) <=> KnowsOf(C[g], e)
      BY <1>2, <1>3, <2>1
    <2>3. CASE c \in Locks
      BY <1>2, <2>3 DEF Knows
    <2>4. CASE c = t
      BY <1>1, <1>2, <1>3, <2>2, <2>4, KnowersAssumption DEF Knows, Self
    <2>5. CASE c \in Threads \ {t}
      <3>1. /\ c \notin Locks /\ Self(c) \in Handles
            /\ pc'[c] = pc[c] /\ call'[c] = call[c]
        BY <1>2, <2>5, KnowersAssumption, Typed
      <3>2. pc[c] \in {"join", "drop", "joined"} => Child(c) \in Handles
        BY <1>2, <2>5, NotJoined, ProgramAssumption DEF Child
      <3> QED
        BY <1>2, <2>2, <3>1, <3>2 DEF Knows, Self, Child
    <2> QED
      BY <2>3, <2>4, <2>5 DEF Knowers
  <1> QED
    BY <1>4, <1>5

\* ft_join: the thread now knows what it was about to; the clock of the one
\* joined moves on, which is nothing to know of old epochs.
LEMMA JoinedPasses ==
  ASSUME IInv, Support, Distinct, NEW t \in Threads, ft_join(t)
  PROVE  KnowledgePasses(t, t, TRUE)
  <1> SUFFICES ASSUME NEW e \in Epoch, Valid(e), NEW c \in Knowers
               PROVE  Knows(c, e)' <=> Knows(c, e)
    BY DEF KnowledgePasses
  <1>1. PICK p \in TS, u \in TS : /\ p = Self(t) /\ u = Child(t) /\ p # u
                                  /\ p \in Handles /\ u \in Handles
    BY DEF ft_join, IInv, Callbacks, TypeOK
  <1>2. /\ C' = [C EXCEPT ![p] = JoinClock(C[p], C[u]),
                          ![u] = increment(u, ExtendToMatch(C[u], C[p]))]
        /\ pc' = [pc EXCEPT ![t] = "run"] /\ pc[t] = "joined"
        /\ call' = [call EXCEPT ![t] = NoCall] /\ L' = L
    BY <1>1 DEF ft_join, Return, locks
  <1>3. /\ C \in [Handles -> VectorClock] /\ tid[u] \in Slots /\ epoch[u] \in Nat
        /\ C[u].at[tid[u]] \in Nat /\ C[u].at[tid[u]] <= epoch[u] /\ pc'[t] = "run"
    BY <1>1, <1>2 DEF IInv, TypeOK, VectorClock, ClockInv, OwnClocks, Own
  <1>4. CASE e.clock = 0
    BY <1>4, NothingToKnow
  <1>5. CASE e.clock # 0
    <2>1. KnowsOf(C'[u], e) <=> KnowsOf(C[u], e)
      <3> DEFINE now == epoch[u] + 1
                 ev == ExtendToMatch(C[u], C[p])
      <3>1. /\ ev \in VectorClock /\ ev.size = Larger(C[u].size, C[p].size)
            /\ ev.at[tid[u]] = IF C[u].size <= tid[u] /\ tid[u] < C[p].size
                               THEN 0 ELSE C[u].at[tid[u]]
        BY <1>1, <1>3, ExtendedClock
      <3>2. /\ C[u] \in VectorClock /\ C[p] \in VectorClock
            /\ C[u].size \in Nat /\ C[p].size \in Nat /\ tid[u] \in Nat
        BY <1>1, <1>3, MaxTidNat DEF VectorClock, Slots
      <3>3. e.tid = tid[u] => tid[u] < C[u].size /\ e.clock <= C[u].at[tid[u]]
        BY <1>1, <1>5, OwnEpochs DEF Settled, Own
      <3>4. C'[u] = [ev EXCEPT !.at[tid[u]] = now]
        BY <1>1, <1>2, <1>3 DEF increment
      <3>5. KnowsOf(ev, e) <=> KnowsOf(C[u], e)
        BY <3>2, ExtendKnows
      <3> HIDE DEF ev
      <3>6. now \in Nat /\ now >= ev.at[tid[u]]
        BY <1>3, <3>1
      <3>7. e.tid = tid[u] => tid[u] < ev.size /\ e.clock <= ev.at[tid[u]]
        BY <3>1, <3>2, <3>3 DEF Larger
      <3> HIDE DEF now
      <3>8. ev \in VectorClock /\ tid[u] \in Slots
        BY <1>3, <3>1
      <3>9. /\ KnowsOf(ev, e) => KnowsOf([ev EXCEPT !.at[tid[u]] = now], e)
            /\ KnowsOf([ev EXCEPT !.at[tid[u]] = now], e) => KnowsOf(ev, e)
        BY <3>6, <3>7, <3>8, StoreKnows
      <3> QED
        BY <3>4, <3>5, <3>9
    <2>2. /\ KnowsOf(C'[p], e) <=> KnowsOf(C[p], e) \/ KnowsOf(C[u], e)
          /\ \A g \in Handles : g # p => (KnowsOf(C'[g], e) <=> KnowsOf(C[g], e))
      <3>1. C'[p] = JoinClock(C[p], C[u]) /\ \A g \in Handles : g # p /\ g # u => C'[g] = C[g]
        BY <1>1, <1>2, <1>3
      <3>2. KnowsOf(JoinClock(C[p], C[u]), e) <=> KnowsOf(C[p], e) \/ KnowsOf(C[u], e)
        BY <1>1, <1>3, JoinKnows
      <3> QED
        BY <2>1, <3>1, <3>2
    <2>3. CASE c \in Locks
      BY <1>2, <2>3 DEF Knows
    <2>4. CASE c = t
      BY <1>1, <1>2, <1>3, <2>2, <2>4, KnowersAssumption DEF Knows, Self
    <2>5. CASE c \in Threads \ {t}
      <3>1. /\ c \notin Locks /\ Self(c) \in Handles /\ Self(c) # p
            /\ pc'[c] = pc[c] /\ call'[c] = call[c]
        BY <1>1, <1>2, <2>5, KnowersAssumption, Typed DEF Distinct
      <3>2. pc[c] \in {"join", "drop", "joined"} => Child(c) \in Handles /\ Child(c) # p
        BY <1>1, <1>2, <2>5, NotJoined, ProgramAssumption DEF Child
      <3> QED
        BY <1>2, <2>2, <3>1, <3>2 DEF Knows, Self, Child
    <2> QED
      BY <2>3, <2>4, <2>5 DEF Knowers
  <1> QED
    BY <1>4, <1>5

-----------------------------------------------------------------------------
(* Steps that hand on order and access nothing keep the verdicts.          *)

\* Knowledge and order that agree go on agreeing.
LEMMA Agreement ==
  ASSUME HBTypeOK, HBTypeOK', NEW a \in Knowers, NEW b \in Knowers, NEW keep \in BOOLEAN,
         KnowledgePasses(a, b, keep), OrderPasses(a, b, keep),
         NEW x \in Vars, NEW k \in Kinds, NEW u \in Threads, NEW e \in Epoch, Valid(e)
  PROVE  /\ Told(seen[x][k][u]) \subseteq Knowing(e) =>
              Told(seen[x][k][u])' \subseteq Knowing(e)'
         /\ Knowing(e) \subseteq Told(seen[x][k][u]) =>
              Knowing(e)' \subseteq Told(seen[x][k][u])'
  <1> DEFINE S == Told(seen[x][k][u])
             K == Knowing(e)
  <1>1. S \subseteq Knowers /\ S' \subseteq Knowers
    BY DEF HBTypeOK, Told, Knowers
  <1>2. K \subseteq Knowers /\ K' \subseteq Knowers
    BY DEF Knowing
  <1>3. \A c \in Knowers : c \in S' <=> IF c = b THEN a \in S \/ (keep /\ b \in S) ELSE c \in S
    BY DEF OrderPasses
  <1>4. \A c \in Knowers : c \in K' <=> IF c = b THEN a \in K \/ (keep /\ b \in K) ELSE c \in K
    BY DEF KnowledgePasses, Knowing
  <1> HIDE DEF S, K
  <1>5. S \subseteq K => S' \subseteq K'
    BY <1>1, <1>2, <1>3, <1>4
  <1>6. K \subseteq S => K' \subseteq S'
    BY <1>1, <1>2, <1>3, <1>4
  <1> QED
    BY <1>5, <1>6 DEF S, K

\* What a synchronization step does to the rest of the state.
Synchronizes ==
  /\ UNCHANGED <<TS, VS, W, R, Rvc, reported, racy>>
  /\ \A u \in Threads, e \in Epoch :
       /\ Owner(u, e) => Owner(u, e)'
       /\ KnowsOf(C[Self(u)], e) => KnowsOf(C[Self(u)], e)'
  /\ \A t \in Threads : pc'[t] = "access" <=> pc[t] = "access"
  /\ \A t \in Threads : pc[t] = "access" => call'[t] = call[t] /\ (Fit(Self(t)) => Fit(Self(t))')
  /\ \A x \in Vars, k \in Kinds, u \in Threads :
       /\ seen[x][k][u] \subseteq seen'[x][k][u]
       /\ \A t \in Threads : pc[t] = "access" =>
            /\ t \in seen'[x][k][u] => t \in seen[x][k][u]
            /\ seen[x][k][u] = {t} => seen'[x][k][u] = {t}
  /\ \E a, b \in Knowers : \E keep \in BOOLEAN :
       KnowledgePasses(a, b, keep) /\ OrderPasses(a, b, keep)

LEMMA SyncKeeps ==
  ASSUME TypeOK, HBTypeOK, HBTypeOK', Verdicts, Ordered', Synchronizes
  PROVE  Verdicts'
  <1>0. /\ TS' = TS /\ VS' = VS /\ W' = W /\ R' = R /\ Rvc' = Rvc
        /\ reported' = reported /\ racy' = racy
    BY DEF Synchronizes
  <1>1. PICK a \in Knowers, b \in Knowers, keep \in BOOLEAN :
          KnowledgePasses(a, b, keep) /\ OrderPasses(a, b, keep)
    BY DEF Synchronizes
  <1>2. ASSUME NEW x \in Vars, NEW k \in Kinds, NEW u \in Threads, NEW e \in Epoch, Valid(e)
        PROVE  /\ Told(seen[x][k][u]) \subseteq Knowing(e) =>
                    Told(seen[x][k][u])' \subseteq Knowing(e)'
               /\ Knowing(e) \subseteq Told(seen[x][k][u]) =>
                    Knowing(e)' \subseteq Told(seen[x][k][u])'
    BY <1>1, <1>2, Agreement
  <1>3. \A t \in Threads, x \in Vars, k \in Kinds : Accessing(t, x, k)' <=> Accessing(t, x, k)
    BY DEF Synchronizes, Accessing, Kind
  <1>4. ASSUME NEW x \in Vars, NEW k \in Kinds, NEW e \in Epoch, Backed(x, k, e)
        PROVE  Valid(e) /\ Backed(x, k, e)'
    <2>1. Valid(e)
      BY <1>4 DEF Backed, Valid
    <2>2. CASE e.clock = 0
      BY <2>1, <2>2 DEF Backed
    <2>3. ASSUME NEW u \in Threads, Owner(u, e), Told(seen[x][k][u]) \subseteq Knowing(e)
          PROVE  Backed(x, k, e)'
      <3>1. Owner(u, e)' /\ Told(seen[x][k][u])' \subseteq Knowing(e)'
        BY <1>2, <2>1, <2>3 DEF Synchronizes
      <3> QED
        BY <3>1 DEF Backed
    <2> QED
      BY <1>4, <2>1, <2>2, <2>3 DEF Backed
  <1>5. /\ W \in [Vars -> Epoch] /\ Rvc \in [Vars -> VectorClock]
        /\ \A x \in Vars : R[x] = READ_SHARED \/ R[x] \in Epoch
        /\ \A x \in Vars, i \in Slots : Slot(x, i) \in Epoch
    BY DEF TypeOK, Slot, Epoch, VectorClock
  <1>6. InCallback'
    <2> SUFFICES ASSUME NEW t \in Threads, NEW x \in Vars, NEW k \in Kinds, Accessing(t, x, k)
                 PROVE  /\ Fit(Self(t))' /\ call'[t].do # "vptr_read"
                        /\ seen'[x][k][t] = {t}
                        /\ x \in racy \/ \A j \in Rivals(k), u \in Threads : t \in seen'[x][j][u]
      BY <1>0, <1>3 DEF InCallback
    <2>1. /\ Fit(Self(t)) /\ call[t].do # "vptr_read" /\ seen[x][k][t] = {t}
          /\ x \in racy \/ \A j \in Rivals(k), u \in Threads : t \in seen[x][j][u]
      BY DEF Verdicts, InCallback
    <2>2. pc[t] = "access" /\ Rivals(k) \subseteq Kinds
      BY DEF Accessing, Rivals, Kinds
    <2>3. Fit(Self(t))' /\ call'[t] = call[t] /\ seen'[x][k][t] = {t}
      BY <2>1, <2>2 DEF Synchronizes
    <2>4. \A j \in Rivals(k), u \in Threads : t \in seen[x][j][u] => t \in seen'[x][j][u]
      BY <2>2 DEF Synchronizes
    <2> QED
      BY <2>1, <2>3, <2>4
  <1>7. Shadow'
    <2>1. \A x \in Vars : Backed(x, "write", W[x])'
      BY <1>0, <1>4, <1>5 DEF Verdicts, Shadow, Sound, Kinds
    <2>2. \A x \in Vars : R[x] = READ_SHARED \/ Backed(x, "read", R[x])'
      BY <1>0, <1>4, <1>5 DEF Verdicts, Shadow, Sound, Kinds
    <2>3. \A x \in Vars, i \in Slots : Backed(x, "read", Slot(x, i))'
      <3>1. \A x \in Vars, i \in Slots : Slot(x, i)' = Slot(x, i)
        BY <1>0 DEF Slot
      <3> QED
        BY <3>1, <1>4, <1>5 DEF Verdicts, Shadow, Sound, Kinds
    <2> QED
      BY <1>0, <2>1, <2>2, <2>3 DEF Verdicts, Shadow, Sound
  <1>8. Unrecorded'
    BY <1>0 DEF Verdicts, Unrecorded
  <1>9. ASSUME NEW x \in Vars \ reported
        PROVE  Represented(x)'
    <2>0. Represented(x) /\ Shadow
      BY <1>9 DEF Verdicts
    <2>1. W[x] \in Epoch /\ Valid(W[x])
      BY <1>4, <1>5, <2>0 DEF Shadow, Sound, Kinds
    <2>2. \A e \in Reads(x) : e \in Epoch /\ Valid(e)
      BY <1>4, <1>5, <2>0 DEF Shadow, Sound, Kinds, Reads
    <2>3. Reads(x)' = Reads(x)
      BY <1>0 DEF Reads, Slot
    <2>4. \A e \in Epoch, f \in Epoch : Met(e, f) => Met(e, f)'
      BY DEF Met, Synchronizes
    <2>5. R[x] = READ_SHARED \/ Met(W[x], R[x])'
      BY <1>0, <1>5, <2>0, <2>1, <2>4 DEF Represented
    <2>6. ASSUME NEW u \in Threads
          PROVE  Accessing(u, x, "write")' \/ Knowing(W[x])' \subseteq Told(seen[x]["write"][u])'
      BY <1>0, <1>2, <1>3, <2>0, <2>1 DEF Represented, Kinds
    <2>7. ASSUME NEW u \in Threads
          PROVE  \/ Accessing(u, x, "read")'
                 \/ Knowing(W[x])' \subseteq Told(seen[x]["read"][u])'
                 \/ \E e \in Reads(x)' : Met(W[x], e)' /\ Knowing(e)' \subseteq Told(seen[x]["read"][u])'
      <3>1. CASE Accessing(u, x, "read")
        BY <1>3, <3>1 DEF Kinds
      <3>2. CASE Knowing(W[x]) \subseteq Told(seen[x]["read"][u])
        BY <1>0, <1>2, <2>1, <3>2 DEF Kinds
      <3>3. ASSUME NEW e \in Reads(x), Met(W[x], e), Knowing(e) \subseteq Told(seen[x]["read"][u])
            PROVE  Met(W[x], e)' /\ Knowing(e)' \subseteq Told(seen[x]["read"][u])'
        BY <1>0, <1>2, <2>1, <2>2, <2>4, <3>3 DEF Kinds
      <3> QED
        BY <2>0, <2>3, <3>1, <3>2, <3>3 DEF Represented
    <2> QED
      BY <1>0, <2>5, <2>6, <2>7 DEF Represented
  <1>10. ASSUME NEW x \in Vars \ reported
         PROVE  Witnessed(x)'
    <2> SUFFICES ASSUME x \in racy
                 PROVE  \E t \in Threads, k \in Kinds : Accessing(t, x, k)' /\
                          \E j \in Rivals(k), u \in Threads : t \notin seen'[x][j][u]
      BY <1>0 DEF Witnessed
    <2>1. PICK t \in Threads, k \in Kinds : Accessing(t, x, k) /\
                 \E j \in Rivals(k), u \in Threads : t \notin seen[x][j][u]
      BY <1>10 DEF Verdicts, Witnessed
    <2>2. PICK j \in Rivals(k), u \in Threads : t \notin seen[x][j][u]
      BY <2>1
    <2>3. pc[t] = "access" /\ j \in Kinds
      BY <2>1, <2>2 DEF Accessing, Rivals, Kinds
    <2>4. t \notin seen'[x][j][u]
      BY <2>2, <2>3 DEF Synchronizes
    <2> QED
      BY <1>3, <2>1, <2>2, <2>4
  <1> QED
    BY <1>0, <1>6, <1>7, <1>8, <1>9, <1>10 DEF Verdicts

(***************************************************************************)
(* What every step leaves alone once all threads are registered.           *)
(***************************************************************************)
\* Nobody is created, forked or registered any more.
LEMMA StaysRegistered ==
  ASSUME IInv, AllRegistered, NEW t \in Threads, ThreadStep(t)
  PROVE  /\ TS' = TS /\ tid' = tid /\ AllRegistered'
         /\ \A u \in Threads : ~PthreadCreate(t, u)
         /\ \A h \in Handles : ~getState(t, h)
         /\ ~ft_fork_count(t) /\ ~ft_fork(t)
  <1>1. \A u \in Threads : ~PthreadCreate(t, u)
    BY DEF PthreadCreate, AllRegistered
  <1>2. \A h \in Handles : ~getState(t, h)
    <2>1. Wanted(t) \subseteq TS
      BY DEF Wanted, AllRegistered, Self, Child, IInv, Callbacks
    <2> QED
      BY <2>1 DEF getState
  <1>3. ~ft_fork_count(t) /\ ~ft_fork(t)
    BY DEF ft_fork_count, ft_fork, AllRegistered
  <1>4. TS' = TS /\ tid' = tid
    BY <1>1, <1>2, <1>3 DEF ThreadStep, PthreadJoin, PthreadMutexLock,
       PthreadMutexUnlock, Untracked, Access, getLockState, getVarState, ft_read, ft_write,
       ft_join_test, ft_join_drop, ft_join, ft_acquire,
       ft_acquire_adopt, ft_release, ft_release_tick, threads
  <1>5. \A u \in Threads : life'[u] # "unborn" /\ pc'[u] \notin {"create", "fork"}
    <2>1. TypeOK /\ \A u \in Threads : life[u] # "unborn" /\ pc[u] \notin {"create", "fork"}
      BY DEF IInv, AllRegistered
    <2>2. life' = life \/ \E u \in Threads : life' = [life EXCEPT ![u] = "joined"]
      BY <1>1 DEF ThreadStep, PthreadJoin, PthreadMutexLock, PthreadMutexUnlock, Untracked, Access,
         getState, getLockState, getVarState, ft_read, ft_write, ft_fork_count, ft_fork,
         ft_join_test, ft_join_drop, ft_join, ft_acquire, ft_acquire_adopt, ft_release,
         ft_release_tick, program
    <2>3. Apart(t) /\ pc'[t] \notin {"create", "fork"}
      BY <1>1, <1>3, <2>1, Moves DEF Arrives
    <2> QED
      BY <2>1, <2>2, <2>3 DEF Apart, TypeOK
  <1> QED
    BY <1>1, <1>2, <1>3, <1>4, <1>5 DEF AllRegistered, Self

\* An epoch of the past stays one.
LEMMA OwnerStays ==
  ASSUME IInv, AllRegistered, NEW t \in Threads, ThreadStep(t),
         NEW u \in Threads, NEW e \in Epoch, Owner(u, e)
  PROVE  Owner(u, e)'
  <1> DEFINE h == Self(u)
  <1>1. h \in TS /\ Settled(h) /\ TS' = TS /\ tid' = tid /\ h' = h
    BY StaysRegistered DEF Owner, Self
  <1>2. tid[h] < C'[h].size /\ C'[h].at[tid[h]] >= C[h].at[tid[h]]
    BY <1>1, AdvanceStep
  <1>3. C[h].at[tid[h]] \in Nat /\ h \in Handles /\ tid[h] \in Slots
    BY <1>1, Readings
  <1>4. C'[h].at[tid[h]] \in Nat
    BY <1>3, TypeStep DEF TypeOK, VectorClock
  <1>5. e.clock \in Nat /\ e.clock <= C[h].at[tid[h]] /\ C[h].at[tid[h]] >= 1
    BY <1>1 DEF Owner, Own, Settled, Epoch
  <1>6. e.clock <= C'[h].at[tid[h]] /\ C'[h].at[tid[h]] >= 1
    BY <1>2, <1>3, <1>4, <1>5
  <1> QED
    BY <1>1, <1>2, <1>6 DEF Owner, Own, Settled

\* No thread forgets what its vector knows of.
LEMMA NothingForgotten ==
  ASSUME IInv, AllRegistered, NEW t \in Threads, ThreadStep(t),
         NEW h \in TS, NEW e \in Epoch, KnowsOf(C[h], e)
  PROVE  KnowsOf(C'[h], e)
  <1>1. /\ h \in Handles /\ C \in [Handles -> VectorClock] /\ C[h] \in VectorClock
        /\ tid[h] \in Slots /\ epoch[h] \in Nat /\ C[h].at[tid[h]] \in Nat
        /\ C[h].at[tid[h]] <= epoch[h]
        /\ L \in [Locks -> VectorClock]
    BY DEF IInv, TypeOK, ClockInv, OwnClocks, Own, VectorClock
  <1>2. CASE ft_join(t)
    <2>1. PICK p \in TS, u \in TS : /\ p = Self(t) /\ u = Child(t) /\ p # u
                                    /\ p \in Handles /\ u \in Handles
      BY <1>2 DEF ft_join, IInv, Callbacks, TypeOK
    <2>2. C' = [C EXCEPT ![p] = JoinClock(C[p], C[u]),
                         ![u] = increment(u, ExtendToMatch(C[u], C[p]))]
      BY <1>2, <2>1 DEF ft_join
    <2>3. CASE h = p
      BY <1>1, <2>1, <2>2, <2>3, JoinKnows
    <2>4. CASE h = u
      <3> DEFINE now == epoch[h] + 1
                 ev == ExtendToMatch(C[h], C[p])
      <3>1. /\ ev \in VectorClock
            /\ ev.at[tid[h]] = IF C[h].size <= tid[h] /\ tid[h] < C[p].size
                               THEN 0 ELSE C[h].at[tid[h]]
        BY <1>1, <2>1, ExtendedClock
      <3>2. C'[h] = [ev EXCEPT !.at[tid[h]] = now]
        BY <1>1, <2>1, <2>2, <2>4 DEF increment
      <3>3. KnowsOf(ev, e)
        BY <1>1, <2>1, ExtendKnows
      <3> HIDE DEF ev
      <3>4. now \in Nat /\ now >= ev.at[tid[h]]
        BY <1>1, <3>1
      <3> HIDE DEF now
      <3>5. KnowsOf([ev EXCEPT !.at[tid[h]] = now], e)
        BY <1>1, <3>1, <3>3, <3>4, StoreKnows
      <3> QED
        BY <3>2, <3>5
    <2>5. CASE h # p /\ h # u
      BY <1>1, <2>1, <2>2, <2>5
    <2> QED
      BY <2>3, <2>4, <2>5
  <1>3. CASE ft_acquire(t) \/ ft_release(t)
    <2>1. call[t].on \in Locks
      BY <1>3 DEF ft_acquire, ft_release, IInv, Callbacks
    <2>2. PICK m \in Locks : \/ C'[h] = JoinClock(C[h], L[m])
                             \/ C'[h] = ExtendToMatch(C[h], L[m])
                             \/ C'[h] = C[h]
      BY <1>1, <1>3, <2>1 DEF ft_acquire, ft_release
    <2> QED
      BY <1>1, <2>2, JoinKnows, ExtendKnows
  <1>4. CASE ft_release_tick(t)
    <2> DEFINE now == C[h].at[tid[h]] + 1
    <2>1. C'[h] = C[h] \/ C'[h] = [C[h] EXCEPT !.at[tid[h]] = now]
      BY <1>1, <1>4 DEF ft_release_tick
    <2>2. now \in Nat /\ now >= C[h].at[tid[h]]
      BY <1>1
    <2> HIDE DEF now
    <2>3. KnowsOf([C[h] EXCEPT !.at[tid[h]] = now], e)
      BY <1>1, <2>2, StoreKnows
    <2> QED
      BY <2>1, <2>3
  <1>5. \/ UNCHANGED C \/ ft_join(t) \/ ft_acquire(t) \/ ft_release(t) \/ ft_release_tick(t)
    BY StaysRegistered DEF ThreadStep, PthreadJoin, PthreadMutexLock, PthreadMutexUnlock,
       Untracked, Access, getLockState, getVarState, ft_read, ft_write, ft_join_test,
       ft_join_drop, ft_acquire_adopt, threads
  <1> QED
    BY <1>2, <1>3, <1>4, <1>5

\* A step of a thread outside of the access callbacks leaves those that are
\* inside alone, and the shadow words.
LEMMA SyncFrame ==
  ASSUME IInv, Support, Distinct, AllRegistered, NEW t \in Threads, ThreadStep(t),
         pc[t] # "access", pc'[t] # "access"
  PROVE  /\ UNCHANGED <<TS, VS, W, R, Rvc, reported>>
         /\ \A u \in Threads, e \in Epoch :
              /\ Owner(u, e) => Owner(u, e)'
              /\ KnowsOf(C[Self(u)], e) => KnowsOf(C[Self(u)], e)'
         /\ \A v \in Threads : pc'[v] = "access" <=> pc[v] = "access"
         /\ \A v \in Threads : pc[v] = "access" =>
              call'[v] = call[v] /\ (Fit(Self(v)) => Fit(Self(v))')
  <1>1. UNCHANGED <<TS, VS, W, R, Rvc, reported>>
    BY StaysRegistered DEF ThreadStep, PthreadJoin, PthreadMutexLock, PthreadMutexUnlock,
       Untracked, Access, getLockState, getVarState, ft_read, ft_write, InAccess, ft_join_test,
       ft_join_drop, ft_join, ft_acquire, ft_acquire_adopt, ft_release, ft_release_tick, shadow
  <1>2. \A u \in Threads, e \in Epoch :
              /\ Owner(u, e) => Owner(u, e)'
              /\ KnowsOf(C[Self(u)], e) => KnowsOf(C[Self(u)], e)'
    <2>1. \A u \in Threads : Self(u) \in TS
      BY DEF AllRegistered
    <2> QED
      BY <2>1, OwnerStays, NothingForgotten DEF KnowsOf, Self
  <1>3. \A v \in Threads \ {t} : pc'[v] = pc[v] /\ call'[v] = call[v]
    BY StaysRegistered, Moves DEF IInv, Apart
  <1>4. ASSUME NEW v \in Threads, pc[v] = "access"
        PROVE  UNCHANGED <<C[Self(v)], epoch[Self(v)]>>
    <2>1. v # t /\ Self(v) # Self(t) /\ Self(v) \in Handles /\ Self(t) \in Handles
      BY <1>4, Typed DEF Distinct
    <2>2. pc[t] = "joined" => Child(t) # Self(v)
      BY <1>4, NotJoined
    <2>3. C \in [Handles -> VectorClock] /\ epoch \in [Handles -> Nat]
      BY DEF IInv, TypeOK
    <2>4. CASE ft_join(t)
      BY <2>1, <2>2, <2>3, <2>4 DEF ft_join, Self
    <2>5. CASE ft_acquire(t) \/ ft_release(t)
      BY <2>1, <2>3, <2>5 DEF ft_acquire, ft_release, Self
    <2>6. CASE ft_release_tick(t) \/ ft_acquire_adopt(t)
      BY <2>1, <2>3, <2>6 DEF ft_release_tick, ft_acquire_adopt, Self
    <2>7. CASE UNCHANGED <<C, epoch>>
      BY <2>7 DEF Self
    <2>8. \/ UNCHANGED <<C, epoch>> \/ ft_join(t) \/ ft_acquire(t) \/ ft_release(t)
          \/ ft_release_tick(t) \/ ft_acquire_adopt(t)
      BY StaysRegistered DEF ThreadStep, PthreadJoin, PthreadMutexLock, PthreadMutexUnlock,
         Untracked, Access, getLockState, getVarState, ft_read, ft_write, ft_join_test,
         ft_join_drop, threads
    <2> QED
      BY <2>4, <2>5, <2>6, <2>7, <2>8
  <1>5. TS' = TS /\ tid' = tid
    BY StaysRegistered
  <1>6. \A v \in Threads : pc[v] = "access" => (Fit(Self(v)) => Fit(Self(v))')
    BY <1>4, <1>5 DEF Fit, Settled, Own, Self
  <1> QED
    BY <1>1, <1>2, <1>3, <1>6

\* The history's type survives every step.
LEMMA HistoryStep ==
  ASSUME IInv, HBTypeOK, NEW t \in Threads, HBThreadStep(t)
  PROVE  HBTypeOK'
  <1>1. ASSUME NEW a \in Knowers, NEW b \in Knowers, Learn(a, b), UNCHANGED racy
        PROVE  HBTypeOK'
    <2> DEFINE next(x, k, u) == IF a \in seen[x][k][u] THEN seen[x][k][u] \cup {b} ELSE seen[x][k][u]
    <2>1. \A x \in Vars, k \in Kinds, u \in Threads : next(x, k, u) \in SUBSET Knowers
      BY DEF HBTypeOK
    <2>2. seen' = [x \in Vars |-> [k \in Kinds |-> [u \in Threads |-> next(x, k, u)]]]
      BY <1>1 DEF Learn, Kinds
    <2> HIDE DEF next
    <2>3. seen' \in [Vars -> [Kinds -> [Threads -> SUBSET Knowers]]]
      BY <2>1, <2>2
    <2> QED
      BY <1>1, <2>3 DEF HBTypeOK
  <1>2. ASSUME NEW x \in Vars, NEW do \in Accesses, RealAccess(t, x, do)
        PROVE  HBTypeOK'
    <2>1. Kind(do) \in Kinds /\ {t} \in SUBSET Knowers /\ Knowers \in SUBSET Knowers
      BY DEF Kind, Kinds, Knowers
    <2>2. PICK S \in SUBSET Knowers : seen' = [seen EXCEPT ![x][Kind(do)][t] = S]
      BY <1>2, <2>1 DEF RealAccess
    <2>3. seen' \in [Vars -> [Kinds -> [Threads -> SUBSET Knowers]]]
      BY <2>1, <2>2 DEF HBTypeOK
    <2> QED
      BY <1>2, <2>3 DEF RealAccess, HBTypeOK
  <1>3. CASE UNCHANGED <<seen, racy>>
    BY <1>3 DEF HBTypeOK
  <1>4. t \in Knowers /\ \A u \in Threads : u \in Knowers /\ \A m \in Locks : m \in Knowers
    BY DEF Knowers
  <1>5. ft_release_tick(t) => call[t].on \in Knowers
    BY DEF ft_release_tick, IInv, Callbacks, Knowers
  <1> QED
    BY <1>1, <1>2, <1>3, <1>4, <1>5 DEF HBThreadStep

(***************************************************************************)
(* The synchronization steps, one by one.                                  *)
(***************************************************************************)
\* A step hands on order and knowledge, to nobody in an access callback.
HandsOn ==
  /\ UNCHANGED racy /\ Ordered'
  /\ \A x \in Vars, k \in Kinds, u \in Threads :
       /\ seen[x][k][u] \subseteq seen'[x][k][u]
       /\ \A v \in Threads : pc[v] = "access" =>
            /\ v \in seen'[x][k][u] => v \in seen[x][k][u]
            /\ seen[x][k][u] = {v} => seen'[x][k][u] = {v}
  /\ \E a, b \in Knowers : \E keep \in BOOLEAN :
       KnowledgePasses(a, b, keep) /\ OrderPasses(a, b, keep)

\* Steps that order nobody.
LEMMA StaysHandsOn ==
  ASSUME UNCHANGED <<seen, racy, holder>>, Ordered,
         NEW a \in Knowers, NEW b \in Knowers, NEW keep \in BOOLEAN,
         KnowledgePasses(a, b, keep), OrderPasses(a, b, keep)
  PROVE  HandsOn
  <1>1. Ordered'
    BY DEF Ordered
  <1> QED
    BY <1>1 DEF HandsOn

LEMMA JoinHandsOn ==
  ASSUME IInv, Ordered, NEW t \in Threads, NEW u \in Threads,
         PthreadJoin(t, u), Learn(u, t), UNCHANGED racy
  PROVE  HandsOn
  <1>1. /\ pc[t] = "run" /\ pc[u] = "run" /\ pc' = [pc EXCEPT ![t] = "join"]
        /\ call' = [call EXCEPT ![t] = [do |-> "join", on |-> u]] /\ holder' = holder
    BY DEF PthreadJoin, Performs, Finished, Enter
  <1>2. t \in Knowers /\ u \in Knowers /\ u \notin Locks /\ t \notin Locks
    BY KnowersAssumption DEF Knowers
  <1>3. Learned(u, t)
    BY Learning
  <1>4. \A v \in Threads, m \in Locks : Publishing(v, m)' <=> Publishing(v, m)
    BY <1>1 DEF Publishing, IInv, TypeOK
  <1>5. OrderPasses(u, t, TRUE)
    BY <1>1, <1>2, <1>3, <1>4, OrderLearned DEF Publishing
  <1>6. KnowledgePasses(u, t, TRUE)
    BY JoinPasses
  <1>7. \A x \in Vars, k \in Kinds, w \in Threads :
          \/ seen'[x][k][w] = seen[x][k][w]
          \/ u \in seen[x][k][w] /\ seen'[x][k][w] = seen[x][k][w] \cup {t}
    BY <1>3 DEF Learned
  <1>8. Ordered'
    BY <1>1, <1>2, <1>7 DEF Ordered
  <1>9. ASSUME NEW x \in Vars, NEW k \in Kinds, NEW w \in Threads
        PROVE  /\ seen[x][k][w] \subseteq seen'[x][k][w]
               /\ \A v \in Threads : pc[v] = "access" =>
                    /\ v \in seen'[x][k][w] => v \in seen[x][k][w]
                    /\ seen[x][k][w] = {v} => seen'[x][k][w] = {v}
    BY <1>1, <1>7
  <1> QED
    BY <1>2, <1>5, <1>6, <1>8, <1>9 DEF HandsOn

LEMMA LockHandsOn ==
  ASSUME IInv, Ordered, NEW t \in Threads, NEW m \in Locks,
         PthreadMutexLock(t, m), Learn(m, t), UNCHANGED racy
  PROVE  HandsOn
  <1>1. /\ pc[t] = "run" /\ pc' = [pc EXCEPT ![t] = "acquire"]
        /\ call' = [call EXCEPT ![t] = [do |-> "lock", on |-> m]]
        /\ holder[m] = NoThread /\ holder' = [holder EXCEPT ![m] = t]
    BY DEF PthreadMutexLock, Performs, Enter
  <1>2. t \in Knowers /\ m \in Knowers /\ t \notin Locks /\ m \notin Threads
    BY KnowersAssumption DEF Knowers
  <1>3. Learned(m, t)
    BY Learning
  <1>4. \A v \in Threads, w \in Locks : Publishing(v, w)' <=> Publishing(v, w)
    BY <1>1 DEF Publishing, IInv, TypeOK
  <1>5. \A v \in Threads : ~Publishing(v, m)
    BY <1>1, ProgramAssumption DEF Publishing, IInv, Callbacks
  <1>6. OrderPasses(m, t, TRUE)
    BY <1>1, <1>2, <1>3, <1>4, <1>5, OrderLearned DEF Publishing
  <1>7. KnowledgePasses(m, t, TRUE)
    BY LockPasses
  <1>8. ASSUME NEW x \in Vars, NEW k \in Kinds, NEW u \in Threads
        PROVE  /\ m \notin seen[x][k][u] => seen'[x][k][u] = seen[x][k][u]
               /\ m \in seen[x][k][u] => seen'[x][k][u] = seen[x][k][u] \cup {t}
    BY <1>3 DEF Learned
  <1>9. Ordered'
    <2>1. holder'[m] = t /\ \A w \in Locks : w # m => holder'[w] = holder[w]
      BY <1>1 DEF IInv, TypeOK
    <2> QED
      BY <1>2, <1>8, <2>1 DEF Ordered
  <1>10. ASSUME NEW x \in Vars, NEW k \in Kinds, NEW u \in Threads
         PROVE  /\ seen[x][k][u] \subseteq seen'[x][k][u]
                /\ \A v \in Threads : pc[v] = "access" =>
                     /\ v \in seen'[x][k][u] => v \in seen[x][k][u]
                     /\ seen[x][k][u] = {v} => seen'[x][k][u] = {v}
    BY <1>1, <1>2, <1>8
  <1> QED
    BY <1>2, <1>6, <1>7, <1>9, <1>10 DEF HandsOn

\* The operations without a callback, as long as all is ordered anyway.
LEMMA UntrackedHandsOn ==
  ASSUME IInv, HBTypeOK, Gated, NEW t \in Threads, NEW m \in Locks, Untracked(t, m),
         IF holder[m] = t THEN Learn(t, m) ELSE Learn(m, t), UNCHANGED racy
  PROVE  HandsOn
  <1>1. AllOrdered
    <2>1. [do |-> "trylock", on |-> m] \in Op /\ [do |-> "cond_wait", on |-> m] \in Op
      BY DEF Op
    <2> QED
      BY <2>1 DEF Untracked, Gated
  <1>2. t \in Knowers /\ m \in Knowers
    BY DEF Knowers
  <1>3. \A x \in Vars, k \in Kinds, u \in Threads : seen[x][k][u] = Knowers
    BY <1>1 DEF AllOrdered, Kinds
  <1>4. ASSUME NEW x \in Vars, NEW k \in Kinds, NEW u \in Threads
        PROVE  seen'[x][k][u] = Knowers
    <2>1. PICK a \in Knowers, b \in Knowers : Learned(a, b)
      BY <1>2, Learning
    <2>2. seen'[x][k][u] = seen[x][k][u] \cup {b} /\ Knowers \cup {b} = Knowers
      BY <1>3, <2>1 DEF Learned
    <2> QED
      BY <1>3, <2>2
  <1>5. /\ {pc[t], pc'[t]} \subseteq {"run", "waiting"} /\ UNCHANGED <<C, L>>
        /\ \A v \in Threads \ {t} : UNCHANGED <<pc[v], call[v]>>
        /\ holder' \in [Locks -> Threads \cup {NoThread}]
    <2>1. TypeOK /\ UNCHANGED <<C, L>> /\ pc[t] \in {"run", "waiting"}
      BY DEF Untracked, Performs, threads, locks, IInv
    <2>2. \/ Return(t) /\ holder' = [holder EXCEPT ![m] = t]
          \/ /\ Enter(t, "waiting", [do |-> "cond_wait", on |-> m])
             /\ holder' = [holder EXCEPT ![m] = NoThread]
      BY DEF Untracked
    <2>3. holder' \in [Locks -> Threads \cup {NoThread}]
      BY <2>1, <2>2 DEF TypeOK
    <2>4. pc'[t] \in {"run", "waiting"}
      BY <2>1, <2>2 DEF Enter, Return, TypeOK
    <2> QED
      BY <2>1, <2>3, <2>4, Moves DEF Apart, ThreadStep
  <1>6. KnowledgePasses(t, t, TRUE)
    BY <1>2, <1>5, KnowledgeStays, KnowledgeKept
  <1>7. OrderPasses(t, t, TRUE)
    BY <1>3, <1>4 DEF OrderPasses, Told
  <1>8. Ordered'
    BY <1>4, <1>5 DEF Ordered, Knowers
  <1> QED
    BY <1>2, <1>3, <1>4, <1>6, <1>7, <1>8 DEF HandsOn

LEMMA ReleaseHandsOn ==
  ASSUME IInv, Support, Distinct, Ordered, NEW t \in Threads, ft_release(t),
         UNCHANGED <<seen, racy>>
  PROVE  HandsOn
  <1>1. PICK m \in Locks : m = call[t].on /\ holder[m] = t
    BY DEF ft_release, IInv, Callbacks
  <1>2. /\ pc[t] = "release" /\ pc' = [pc EXCEPT ![t] = "tick"] /\ call' = call
        /\ holder' = holder
    BY DEF ft_release, Goto, program
  <1>3. \A v \in Threads, w \in Locks : Publishing(v, w)' <=> Publishing(v, w) \/ (v = t /\ w = m)
    BY <1>1, <1>2 DEF Publishing, IInv, TypeOK
  <1>4. \A v \in Threads : ~Publishing(v, m)
    BY <1>1, <1>2 DEF Publishing, IInv, Callbacks
  <1>5. OrderPasses(t, m, FALSE)
    BY <1>1, <1>3, <1>4, ProgramAssumption, OrderReleased
  <1>6. KnowledgePasses(t, m, FALSE)
    BY <1>1, ReleasePasses
  <1>7. t \in Knowers /\ m \in Knowers
    BY DEF Knowers
  <1> QED
    BY <1>2, <1>5, <1>6, <1>7, StaysHandsOn

LEMMA TickHandsOn ==
  ASSUME IInv, Support, Distinct, Ordered, NEW t \in Threads, ft_release_tick(t),
         Learn(t, call[t].on), UNCHANGED racy
  PROVE  HandsOn
  <1>1. PICK m \in Locks : m = call[t].on /\ holder[m] = t
    BY DEF ft_release_tick, IInv, Callbacks
  <1>2. /\ pc[t] = "tick" /\ pc' = [pc EXCEPT ![t] = "run"]
        /\ call' = [call EXCEPT ![t] = NoCall]
        /\ holder' = [holder EXCEPT ![m] = NoThread]
    BY <1>1 DEF ft_release_tick, Return
  <1>3. Learned(t, m)
    BY <1>1, Learning
  <1>4. /\ \A v \in Threads, w \in Locks : Publishing(v, w)' <=> Publishing(v, w) /\ v # t
        /\ Publishing(t, m)
        /\ \A v \in Threads : Publishing(v, m) => v = t
    BY <1>1, <1>2 DEF Publishing, IInv, TypeOK, Callbacks
  <1>5. OrderPasses(t, t, TRUE)
    BY <1>3, <1>4, OrderTicked
  <1>6. KnowledgePasses(t, t, TRUE)
    BY TickPasses
  <1>7. t \in Knowers /\ m \notin Threads
    BY KnowersAssumption DEF Knowers
  <1>8. ASSUME NEW x \in Vars, NEW k \in Kinds, NEW u \in Threads
        PROVE  /\ t \notin seen[x][k][u] => seen'[x][k][u] = seen[x][k][u]
               /\ t \in seen[x][k][u] => seen'[x][k][u] = seen[x][k][u] \cup {m}
    BY <1>3 DEF Learned
  <1>9. Ordered'
    <2>1. holder'[m] = NoThread /\ \A w \in Locks : w # m => holder'[w] = holder[w]
      BY <1>2 DEF IInv, TypeOK
    <2> QED
      BY <1>7, <1>8, <2>1 DEF Ordered
  <1>10. ASSUME NEW x \in Vars, NEW k \in Kinds, NEW u \in Threads
         PROVE  /\ seen[x][k][u] \subseteq seen'[x][k][u]
                /\ \A v \in Threads : pc[v] = "access" =>
                     /\ v \in seen'[x][k][u] => v \in seen[x][k][u]
                     /\ seen[x][k][u] = {v} => seen'[x][k][u] = {v}
    BY <1>2, <1>7, <1>8
  <1> QED
    BY <1>5, <1>6, <1>7, <1>9, <1>10 DEF HandsOn

\* The other steps outside of the access callbacks.
LEMMA QuietHandsOn ==
  ASSUME IInv, Support, Distinct, Ordered, NEW t \in Threads, UNCHANGED <<seen, racy>>,
         \/ \E m \in Locks : PthreadMutexUnlock(t, m) \/ getLockState(t, m)
         \/ ft_join_test(t) \/ ft_join_drop(t) \/ ft_join(t)
         \/ ft_acquire(t) \/ ft_acquire_adopt(t)
  PROVE  HandsOn
  <1>1. UNCHANGED holder
    BY DEF PthreadMutexUnlock, getLockState, ft_join_test, ft_join_drop, ft_join, ft_acquire,
       ft_acquire_adopt, program
  <1>2. \A v \in Threads, m \in Locks : Publishing(v, m)' <=> Publishing(v, m)
    BY DEF PthreadMutexUnlock, Performs, Enter, getLockState, ft_join_test, ft_join_drop, ft_join,
       ft_acquire, ft_acquire_adopt, Goto, Return, control, Publishing, IInv, TypeOK
  <1>3. t \in Knowers
    BY DEF Knowers
  <1>4. OrderPasses(t, t, TRUE)
    BY <1>2, <1>3, OrderStays
  <1>5. KnowledgePasses(t, t, TRUE)
    <2>1. CASE \/ \E m \in Locks : PthreadMutexUnlock(t, m)
               \/ ft_join_test(t) \/ ft_join_drop(t) \/ ft_acquire_adopt(t)
      <3>1. /\ UNCHANGED <<C, L>>
            /\ \A v \in Threads \ {t} : UNCHANGED <<pc[v], call[v]>>
            /\ \/ {pc[t], pc'[t]} \cap {"acquire", "join", "drop", "joined"} = {}
               \/ {pc[t], pc'[t]} \subseteq {"join", "drop", "joined"} /\ call'[t] = call[t]
        BY <2>1 DEF PthreadMutexUnlock, Performs, Enter, ft_join_test, ft_join_drop,
           ft_acquire_adopt, Goto, Return, threads, locks, IInv, TypeOK
      <3> QED
        BY <1>3, <3>1, KnowledgeStays, KnowledgeKept
    <2>2. CASE \E m \in Locks : getLockState(t, m)
      BY <2>2, LockStatePasses
    <2>3. CASE ft_join(t)
      BY <2>3, JoinedPasses
    <2>4. CASE ft_acquire(t)
      BY <2>4, AcquirePasses
    <2> QED
      BY <2>1, <2>2, <2>3, <2>4
  <1> QED
    BY <1>1, <1>3, <1>4, <1>5, StaysHandsOn

\* The steps of the access callbacks, from entry to return.
AccessStep(t) ==
  \E x \in Vars : \/ \E do \in Accesses : Access(t, x, do) /\ RealAccess(t, x, do)
                  \/ (getVarState(t, x) \/ ft_read(t, x) \/ ft_write(t, x)) /\ UNCHANGED <<seen, racy>>

\* A synchronization step keeps the verdicts.
LEMMA SyncStep ==
  ASSUME IInv, HBInv, AllRegistered, Gated, NEW t \in Threads, HBThreadStep(t), ~AccessStep(t)
  PROVE  Verdicts'
  <1>1. ThreadStep(t)
    BY RuntimeStep
  <1>2. HBTypeOK /\ Support /\ Verdicts /\ Ordered /\ Distinct
    BY DEF HBInv, Verdicts, Gated, Distinct
  <1>3. HandsOn
    <2>1. /\ \A u \in Threads : ~PthreadCreate(t, u)
          /\ \A h \in Handles : ~getState(t, h)
          /\ ~ft_fork_count(t) /\ ~ft_fork(t)
      BY <1>1, StaysRegistered
    <2>2. CASE \E u \in Threads : PthreadJoin(t, u) /\ Learn(u, t) /\ UNCHANGED racy
      BY <1>2, <2>2, JoinHandsOn
    <2>3. CASE \E m \in Locks : PthreadMutexLock(t, m) /\ Learn(m, t) /\ UNCHANGED racy
      BY <1>2, <2>3, LockHandsOn
    <2>4. CASE \E m \in Locks : Untracked(t, m) /\ (IF holder[m] = t THEN Learn(t, m) ELSE Learn(m, t))
                                /\ UNCHANGED racy
      BY <1>2, <2>4, UntrackedHandsOn
    <2>5. CASE ft_release(t) /\ UNCHANGED <<seen, racy>>
      BY <1>2, <2>5, ReleaseHandsOn
    <2>6. CASE ft_release_tick(t) /\ Learn(t, call[t].on) /\ UNCHANGED racy
      BY <1>2, <2>6, TickHandsOn
    <2>7. CASE /\ UNCHANGED <<seen, racy>>
               /\ \/ \E m \in Locks : PthreadMutexUnlock(t, m) \/ getLockState(t, m)
                  \/ ft_join_test(t) \/ ft_join_drop(t) \/ ft_join(t)
                  \/ ft_acquire(t) \/ ft_acquire_adopt(t)
      BY <1>2, <2>7, QuietHandsOn
    <2> QED
      BY <2>1, <2>2, <2>3, <2>4, <2>5, <2>6, <2>7 DEF HBThreadStep, AccessStep
  <1>4. pc[t] # "access" /\ pc'[t] # "access"
    BY <1>1, StaysRegistered DEF HBThreadStep, AccessStep, IInv, TypeOK, PthreadJoin,
       PthreadMutexLock, PthreadMutexUnlock, Performs, Untracked, Enter, Return, Goto,
       getLockState, ft_join_test, ft_join_drop, ft_join, ft_acquire, ft_acquire_adopt,
       ft_release, ft_release_tick, control
  <1>5. Synchronizes
    BY <1>1, <1>2, <1>3, <1>4, SyncFrame DEF HandsOn, Synchronizes
  <1>6. HBTypeOK' /\ Ordered'
    BY <1>2, <1>3, HistoryStep DEF HandsOn
  <1> QED
    BY <1>2, <1>5, <1>6, SyncKeeps DEF IInv

-----------------------------------------------------------------------------
(* Inside an access callback: what the thread's clock tells apart.         *)

\* A thread in an access callback whose clock fits a shadow word.
Inside(t) == pc[t] = "access" /\ Self(t) \in TS /\ Fit(Self(t))

\* Its present epoch is known to nobody else.
LEMMA Alone ==
  ASSUME IInv, Support, Distinct, AllRegistered, NEW t \in Threads, Inside(t)
  PROVE  /\ EpochOf(Self(t)) \in Epoch /\ EpochOf(Self(t)).clock # 0
         /\ Owner(t, EpochOf(Self(t)))
         /\ \A u \in Threads : KnowsOf(C[Self(u)], EpochOf(Self(t))) <=> u = t
         /\ Knowing(EpochOf(Self(t))) = {t}
  <1> DEFINE h == Self(t)
             e == EpochOf(h)
  <1>1. /\ h \in TS /\ h \in Handles /\ e \in Epoch /\ e.tid = tid[h] /\ e.clock = Own(h)
        /\ tid[h] < C[h].size /\ tid[h] < Cardinality(TS) /\ Own(h) >= 1 /\ Own(h) \in Nat
        /\ tid[h] \in Slots /\ pc[t] = "access"
    BY Typed, Readings DEF Inside, Fit, Settled, Own, EpochOf
  <1>2. e.clock # 0 /\ Owner(t, e)
    BY <1>1 DEF Owner, Settled
  <1>3. ASSUME NEW g \in TS, g # h
        PROVE  ~KnowsOf(C[g], e)
    <2>1. C[g].at[tid[h]] < Own(h) /\ C[g].at[tid[h]] \in Nat
      BY <1>1, <1>3, Readings DEF IInv, ClockInv, HeardByThreads, Behind, Settled
    <2> QED
      BY <1>1, <1>2, <2>1 DEF KnowsOf
  <1>4. KnowsOf(C[h], e)
    BY <1>1 DEF KnowsOf, Own
  <1>5. ASSUME NEW m \in Locks
        PROVE  ~KnowsOf(L[m], e)
    <2>1. CASE m \in LS
      <3>1. \A v \in Threads : Self(v) = h => ~Publishing(v, m)
        BY <1>1 DEF Distinct, Publishing
      <3>2. L[m].at[tid[h]] < Own(h) /\ L[m].at[tid[h]] \in Nat
        BY <1>1, <2>1, <3>1, Readings DEF IInv, ClockInv, HeardByLocks, Behind, Settled
      <3> QED
        BY <1>1, <1>2, <3>2 DEF KnowsOf
    <2>2. CASE m \notin LS
      <3>1. L[m] = newVectorClock(0) /\ 0 \in 0 .. MaxTid + 1
        BY <2>2, MaxTidNat DEF Support
      <3> QED
        BY <1>1, <1>2, <3>1, NewKnows
    <2> QED
      BY <2>1, <2>2
  <1>6. \A u \in Threads : /\ Self(u) \in TS /\ (Self(u) = h <=> u = t)
                           /\ KnowsOf(C[Self(u)], e) <=> u = t
    <2>1. \A u \in Threads : Self(u) \in TS /\ (Self(u) = h <=> u = t)
      BY DEF AllRegistered, Distinct
    <2> HIDE DEF h, e
    <2> QED
      BY <1>3, <1>4, <2>1
  <1>7. ASSUME NEW c \in Knowers
        PROVE  Knows(c, e) <=> c = t
    <2>1. CASE c \in Locks
      BY <1>5, <2>1, KnowersAssumption DEF Knows
    <2>2. CASE c = t
      BY <1>1, <1>4, <2>2, KnowersAssumption DEF Knows
    <2>3. CASE c \in Threads \ {t}
      <3>1. c \notin Locks /\ ~KnowsOf(C[Self(c)], e)
        BY <1>6, <2>3, KnowersAssumption
      <3>2. pc[c] = "acquire" => ~KnowsOf(L[call[c].on], e)
        BY <1>5, <2>3 DEF IInv, Callbacks
      <3>3. pc[c] \in {"join", "drop", "joined"} => ~KnowsOf(C[Child(c)], e)
        <4>1. pc[t] # "run"
          BY <1>1
        <4>2. pc[c] \in {"join", "drop", "joined"} => call[c].on \in Threads /\ Child(c) # Self(t)
          BY <2>3, <4>1, NotJoined
        <4>3. pc[c] \in {"join", "drop", "joined"} => Child(c) \in TS
          BY <4>2 DEF AllRegistered, Self, Child
        <4> QED
          BY <1>3, <4>2, <4>3
      <3> QED
        BY <2>3, <3>1, <3>2, <3>3 DEF Knows
    <2> QED
      BY <2>1, <2>2, <2>3 DEF Knowers
  <1>8. t \in Knowers
    BY DEF Knowers
  <1> HIDE DEF e
  <1>9. Knowing(e) = {t}
    BY <1>7, <1>8 DEF Knowing
  <1> QED
    BY <1>1, <1>2, <1>6, <1>9 DEF e

\* Inside an access callback a thread is about to know nothing more.
LEMMA InsideKnows ==
  ASSUME NEW t \in Threads, Inside(t)
  PROVE  \A e : /\ Knows(t, e) <=> KnowsOf(C[Self(t)], e)
                /\ t \in Knowing(e) <=> KnowsOf(C[Self(t)], e)
  BY KnowersAssumption DEF Inside, Knows, Knowing, Knowers

\* ft_read's and ft_write's comparison reads no garbage and finds out whether
\* the thread knows of the epoch.
LEMMA Judged ==
  ASSUME IInv, NEW h \in TS, NEW e \in Epoch, Valid(e),
         e.tid = 0 \/ e.tid < Cardinality(TS), NEW g
  PROVE  /\ Unordered(e, h, g) <=> ~KnowsOf(C[h], e)
         /\ e.clock <= At(h, e.tid, g) <=> KnowsOf(C[h], e)
  <1>1. /\ h \in Handles /\ tid[h] \in Slots /\ tid[h] \in Nat /\ tid[h] >= 1
        /\ tid[h] <= Cardinality(TS) /\ Cardinality(TS) \in Nat
        /\ C[h].size \in Nat /\ Cardinality(TS) <= C[h].size
        /\ e.tid \in Slots /\ e.tid \in Nat /\ e.clock \in Nat
        /\ C[h].at[e.tid] \in Nat /\ C[h].at[tid[h]] \in Nat
    BY Readings, EpochNumbers DEF IInv, ClockInv, Numbering, Sizes
  <1>2. e.tid < C[h].size
    BY <1>1
  <1>3. At(h, e.tid, g) = C[h].at[e.tid]
    BY <1>2 DEF At
  <1>4. e.tid = tid[h] => e.clock <= C[h].at[e.tid]
    BY <1>1, OwnEpochs DEF Own
  <1> QED
    BY <1>1, <1>2, <1>3, <1>4 DEF Unordered, KnowsOf

\* ft_write's loop over the vector of reads leaves out none.
LEMMA JudgedReads ==
  ASSUME IInv, Shadow, NEW x \in Vars, R[x] = READ_SHARED, NEW h \in TS
  PROVE  UnorderedRead(x, h) <=> \E i \in Slots : ~KnowsOf(C[h], Slot(x, i))
  <1>1. /\ Cardinality(TS) \in Nat /\ C[h].size \in Nat /\ Cardinality(TS) <= C[h].size
        /\ Rvc[x].size \in Nat /\ Cardinality(TS) <= Rvc[x].size
        /\ \A i \in Slots : C[h].at[i] \in Nat /\ i \in Nat /\ Rvc[x].at[i] \in Nat
    BY Readings DEF IInv, TypeOK, VectorClock, ClockInv, Sizes, Shadow, Sound
  <1>2. ASSUME NEW i \in Slots
        PROVE  /\ Slot(x, i).tid = i /\ Slot(x, i).clock = Rvc[x].at[i]
               /\ Rvc[x].at[i] # 0 => i < Cardinality(TS)
    BY DEF Slot, Shadow, Sound, Backed, Owner
  <1> QED
    BY <1>1, <1>2 DEF UnorderedRead, KnowsOf

-----------------------------------------------------------------------------
(* The steps of the access callbacks.                                      *)

\* They move no clock and pass on no knowledge.
Unmoved(t) ==
  /\ UNCHANGED <<TS, tid, C, epoch, L, holder>>
  /\ \A v \in Threads \ {t} : UNCHANGED <<pc[v], call[v]>>
  /\ {pc[t], pc'[t]} \subseteq {"run", "access"}

LEMMA AccessUnmoved ==
  ASSUME IInv, NEW t \in Threads, NEW x \in Vars,
         \/ \E do \in Accesses : Access(t, x, do)
         \/ getVarState(t, x) \/ ft_read(t, x) \/ ft_write(t, x)
  PROVE  Unmoved(t)
  BY DEF Access, Performs, Enter, Return, getVarState, ft_read, ft_write, InAccess, Unmoved,
     threads, locks, control, program, IInv, TypeOK

LEMMA UnmovedKnows ==
  ASSUME NEW t \in Threads, Unmoved(t)
  PROVE  /\ \A e : Knowing(e)' = Knowing(e)
         /\ \A S : Told(S)' = Told(S)
         /\ \A e : \A u \in Threads : Owner(u, e)' <=> Owner(u, e)
         /\ \A e, f : Met(e, f)' <=> Met(e, f)
         /\ \A v \in Threads : Fit(Self(v))' <=> Fit(Self(v))
  <1>1. \A v \in Threads, m \in Locks : Publishing(v, m)' <=> Publishing(v, m)
    BY DEF Unmoved, Publishing
  <1>2. \A e, c : c \in Knowers => (Knows(c, e)' <=> Knows(c, e))
    BY KnowledgeStays DEF Unmoved
  <1>3. \A e : Knowing(e)' = Knowing(e)
    BY <1>2 DEF Knowing
  <1>4. \A S : Told(S)' = Told(S)
    BY <1>1 DEF Told
  <1>5. /\ \A e : \A u \in Threads : Owner(u, e)' <=> Owner(u, e)
        /\ \A e, f : Met(e, f)' <=> Met(e, f)
        /\ \A v \in Threads : Fit(Self(v))' <=> Fit(Self(v))
    BY DEF Unmoved, Owner, Met, KnowsOf, Fit, Settled, Own, Self
  <1> QED
    BY <1>3, <1>4, <1>5

\* The entry of an access callback: the access joins those its thread's word
\* will stand for, and races with whatever its thread is not ordered after.
LEMMA EntryStep ==
  ASSUME IInv, HBInv, Gated, NEW t \in Threads, NEW x \in Vars, NEW do \in Accesses,
         Access(t, x, do), RealAccess(t, x, do), ~Solitary(t)
  PROVE  Verdicts'
  <1> DEFINE k == Kind(do)
             h == Self(t)
  <1>0. HBTypeOK /\ InCallback /\ Ordered /\ Shadow /\ Unrecorded
    BY DEF HBInv, Verdicts
  <1>1. /\ do # "vptr_read" /\ isConcurrent # 0 /\ Fit(h)
        /\ k \in Kinds
    BY DEF Access, Gated, Op, Kind, Kinds
  <1>2. /\ pc[t] = "run" /\ pc' = [pc EXCEPT ![t] = "access"]
        /\ call' = [call EXCEPT ![t] = [do |-> do, on |-> x]]
        /\ UNCHANGED <<TS, C, tid, VS, W, R, Rvc, reported, holder>>
    BY <1>1 DEF Access, Performs, Enter, threads, shadow
  <1>3. Unmoved(t)
    BY AccessUnmoved
  <1>4. /\ pc'[t] = "access" /\ call'[t].do = do /\ call'[t].on = x
        /\ \A v \in Threads : v # t => pc'[v] = pc[v] /\ call'[v] = call[v]
    BY <1>2 DEF IInv, TypeOK
  <1>5. /\ \A y \in Vars, j \in Kinds : Accessing(t, y, j)' <=> y = x /\ j = k
        /\ \A y \in Vars, j \in Kinds : ~Accessing(t, y, j)
        /\ \A s \in Threads, y \in Vars, j \in Kinds :
             s # t => (Accessing(s, y, j)' <=> Accessing(s, y, j))
    BY <1>2, <1>4 DEF Accessing
  <1>6. \A y \in Vars, j \in Kinds, u \in Threads :
          /\ y = x /\ j = k /\ u = t => seen'[y][j][u] = {t}
          /\ ~(y = x /\ j = k /\ u = t) => seen'[y][j][u] = seen[y][j][u]
    BY <1>0, <1>1 DEF RealAccess, HBTypeOK
  <1>7. /\ racy \subseteq racy' /\ racy' \subseteq racy \cup {x}
        /\ x \in racy' <=> x \in racy \/ \E j \in Rivals(k), u \in Threads : t \notin seen[x][j][u]
    BY <1>1 DEF RealAccess, Rivals, Kinds
  <1> HIDE DEF k
  <1>8. Told({t})' = {t}
    BY <1>4 DEF Told, Publishing
  <1>9. \A y \in Vars, j \in Kinds, u \in Threads :
          /\ y = x /\ j = k /\ u = t => Told(seen[y][j][u])' = {t}
          /\ ~(y = x /\ j = k /\ u = t) => Told(seen[y][j][u])' = Told(seen[y][j][u])
    <2> SUFFICES ASSUME NEW y \in Vars, NEW j \in Kinds, NEW u \in Threads
                 PROVE  /\ y = x /\ j = k /\ u = t => Told(seen[y][j][u])' = {t}
                        /\ ~(y = x /\ j = k /\ u = t) => Told(seen[y][j][u])' = Told(seen[y][j][u])
      OBVIOUS
    <2>1. PICK S : S = seen'[y][j][u]
      OBVIOUS
    <2>2. Told(seen[y][j][u])' = Told(S)
      BY <1>3, <2>1, UnmovedKnows
    <2>3. Told({t}) = {t}
      BY <1>3, <1>8, UnmovedKnows
    <2> QED
      BY <1>6, <2>1, <2>2, <2>3
  <1>10. ASSUME NEW s \in Threads, NEW y \in Vars, NEW j \in Kinds, Accessing(s, y, j)'
         PROVE  /\ Fit(Self(s))' /\ call'[s].do # "vptr_read"
                /\ seen'[y][j][s] = {s}
                /\ y \in racy' \/ \A i \in Rivals(j), u \in Threads : s \in seen'[y][i][u]
    <2>1. CASE s = t
      <3>1. y = x /\ j = k /\ Rivals(k) \subseteq Kinds
        BY <1>1, <1>5, <1>10, <2>1 DEF Rivals, Kinds
      <3>2. x \in racy' \/ \A i \in Rivals(k), u \in Threads : t \in seen'[x][i][u]
        BY <1>6, <1>7, <3>1
      <3> QED
        BY <1>1, <1>3, <1>4, <1>6, <2>1, <3>1, <3>2, UnmovedKnows
    <2>2. CASE s # t
      <3>1. Accessing(s, y, j)
        BY <1>5, <1>10, <2>2
      <3>2. /\ Fit(Self(s)) /\ call[s].do # "vptr_read" /\ seen[y][j][s] = {s}
            /\ y \in racy \/ \A i \in Rivals(j), u \in Threads : s \in seen[y][i][u]
        BY <1>0, <3>1 DEF InCallback
      <3>3. ASSUME y \notin racy', NEW i \in Rivals(j), NEW u \in Threads
            PROVE  s \in seen'[y][i][u]
        <4>1. s \in seen[y][i][u] /\ i \in Kinds
          BY <1>7, <3>2, <3>3 DEF Rivals, Kinds
        <4>2. ~(y = x /\ i = k /\ u = t)
          <5> SUFFICES ASSUME y = x, i = k
                       PROVE  FALSE
            OBVIOUS
          <5>1. j \in Rivals(k)
            BY <1>1, <3>3 DEF Rivals, Kinds
          <5>2. t \notin seen[x][j][s]
            BY <2>2, <3>2
          <5> QED
            BY <1>7, <3>3, <5>1, <5>2
        <4> QED
          BY <1>6, <4>1, <4>2
      <3>4. Fit(Self(s))' /\ call'[s].do # "vptr_read"
        BY <1>3, <1>4, <2>2, <3>2, UnmovedKnows
      <3>5. seen'[y][j][s] = {s}
        BY <1>6, <2>2, <3>2
      <3> QED
        BY <3>3, <3>4, <3>5
    <2> QED
      BY <2>1, <2>2
  <1>11. InCallback'
    BY <1>10 DEF InCallback
  <1>12. Ordered'
    BY <1>0, <1>2, <1>6, KnowersAssumption DEF Ordered
  <1>13. ASSUME NEW y \in Vars, NEW j \in Kinds, NEW e \in Epoch, Backed(y, j, e)
         PROVE  Backed(y, j, e)'
    <2>1. CASE e.clock = 0
      BY <2>1 DEF Backed
    <2>2. ASSUME NEW u \in Threads, Owner(u, e), Told(seen[y][j][u]) \subseteq Knowing(e)
          PROVE  Backed(y, j, e)'
      <3>1. Owner(u, e)' /\ Knowing(e)' = Knowing(e)
        BY <1>3, <2>2, UnmovedKnows
      <3>2. Told(seen[y][j][u])' \subseteq Knowing(e)'
        <4>1. CASE y = x /\ j = k /\ u = t
          <5>1. t \in Knowing(e)
            BY <2>2, <4>1, KnowersAssumption DEF Owner, Settled, Own, Knowing, Knowers, Knows, KnowsOf
          <5> QED
            BY <1>9, <3>1, <4>1, <5>1
        <4>2. CASE ~(y = x /\ j = k /\ u = t)
          BY <1>9, <2>2, <3>1, <4>2
        <4> QED
          BY <4>1, <4>2
      <3> QED
        BY <3>1, <3>2 DEF Backed
    <2> QED
      BY <1>13, <2>1, <2>2 DEF Backed
  <1>14. /\ W \in [Vars -> Epoch] /\ Rvc \in [Vars -> VectorClock]
         /\ \A y \in Vars : R[y] = READ_SHARED \/ R[y] \in Epoch
         /\ \A y \in Vars, i \in Slots : Slot(y, i) \in Epoch /\ Slot(y, i)' = Slot(y, i)
    BY <1>2 DEF IInv, TypeOK, Slot, Epoch, VectorClock
  <1>15. Shadow'
    <2>1. \A y \in Vars : Backed(y, "write", W[y])'
      BY <1>0, <1>2, <1>13, <1>14 DEF Shadow, Sound, Kinds
    <2>2. \A y \in Vars : R[y] = READ_SHARED \/ Backed(y, "read", R[y])'
      BY <1>0, <1>2, <1>13, <1>14 DEF Shadow, Sound, Kinds
    <2>3. \A y \in Vars, i \in Slots : Backed(y, "read", Slot(y, i))'
      BY <1>0, <1>13, <1>14 DEF Shadow, Sound, Kinds
    <2> QED
      BY <1>0, <1>2, <2>1, <2>2, <2>3 DEF Shadow, Sound
  <1>16. Unrecorded'
    BY <1>0, <1>2 DEF Unrecorded
  <1>17. ASSUME NEW y \in Vars \ reported
         PROVE  Represented(y)'
    <2>1. Represented(y)
      BY <1>17 DEF HBInv, Verdicts
    <2>2. Reads(y)' = Reads(y)
      BY <1>2 DEF Reads, Slot
    <2>3. /\ \A e : Knowing(e)' = Knowing(e)
          /\ \A e, f : Met(e, f)' <=> Met(e, f)
      BY <1>3, UnmovedKnows
    <2>4. \A u \in Threads, j \in Kinds :
            \/ Accessing(u, y, j)'
            \/ /\ Told(seen[y][j][u])' = Told(seen[y][j][u])
               /\ ~Accessing(u, y, j)
      BY <1>1, <1>5, <1>9
    <2>5. R[y] = READ_SHARED \/ Met(W[y], R[y])'
      BY <1>2, <2>1, <2>3 DEF Represented
    <2>6. ASSUME NEW u \in Threads
          PROVE  Accessing(u, y, "write")' \/ Knowing(W[y])' \subseteq Told(seen[y]["write"][u])'
      BY <1>2, <2>1, <2>3, <2>4 DEF Represented, Kinds
    <2>7. ASSUME NEW u \in Threads
          PROVE  \/ Accessing(u, y, "read")'
                 \/ Knowing(W[y])' \subseteq Told(seen[y]["read"][u])'
                 \/ \E e \in Reads(y)' : Met(W[y], e)' /\ Knowing(e)' \subseteq Told(seen[y]["read"][u])'
      BY <1>2, <2>1, <2>2, <2>3, <2>4 DEF Represented, Kinds
    <2> QED
      BY <1>2, <2>5, <2>6, <2>7 DEF Represented
  <1>18. ASSUME NEW y \in Vars \ reported, y \in racy'
         PROVE  \E s \in Threads, j \in Kinds : Accessing(s, y, j)' /\
                  \E i \in Rivals(j), u \in Threads : s \notin seen'[y][i][u]
    <2>1. CASE y \in racy
      <3>1. PICK s \in Threads, j \in Kinds : Accessing(s, y, j) /\
                   \E i \in Rivals(j), u \in Threads : s \notin seen[y][i][u]
        BY <1>18, <2>1 DEF HBInv, Verdicts, Witnessed
      <3>2. s # t /\ Accessing(s, y, j)' /\ Rivals(j) \subseteq Kinds
        BY <1>5, <3>1 DEF Rivals, Kinds
      <3> QED
        BY <1>6, <3>1, <3>2
    <2>2. CASE y \notin racy
      <3>1. y = x
        BY <1>7, <1>18, <2>2
      <3>2. PICK i \in Rivals(k), u \in Threads : t \notin seen[x][i][u]
        BY <1>7, <1>18, <2>2, <3>1
      <3>3. i \in Kinds /\ t \in seen[x][i][t]
        BY <1>0, <3>2 DEF Rivals, Kinds, Ordered
      <3>4. t \notin seen'[x][i][u]
        BY <1>6, <3>2, <3>3
      <3> QED
        BY <1>1, <1>5, <3>1, <3>2, <3>4
    <2> QED
      BY <2>1, <2>2
  <1> QED
    BY <1>2, <1>11, <1>12, <1>15, <1>16, <1>17, <1>18 DEF Verdicts, Witnessed

\* What getVarState, ft_read and ft_write of x leave alone.
LEMMA CallbackStays ==
  ASSUME TypeOK, HBTypeOK, Verdicts, NEW t \in Threads, NEW x \in Vars, Unmoved(t),
         UNCHANGED <<seen, racy>>, pc[t] = "access", call[t].on = x,
         pc'[t] = "run" \/ UNCHANGED <<pc, call>>
  PROVE  /\ \A s \in Threads, y \in Vars, j \in Kinds :
              /\ Accessing(s, y, j)' => Accessing(s, y, j)
              /\ s # t \/ y # x => (Accessing(s, y, j)' <=> Accessing(s, y, j))
         /\ InCallback' /\ Ordered'
         /\ \A y \in Vars, j \in Kinds, u \in Threads :
              Told(seen[y][j][u])' = Told(seen[y][j][u])
         /\ \A y \in Vars, j \in Kinds : \A e : Backed(y, j, e) => Backed(y, j, e)'
         /\ \A y \in Vars \ {x} : UNCHANGED <<W[y], R[y], Rvc[y]>> =>
              /\ Sound(y)' /\ (Represented(y) => Represented(y)')
              /\ Witnessed(y) => Witnessed(y)'
  <1>1. ASSUME NEW s \in Threads, NEW y \in Vars, NEW j \in Kinds
        PROVE  /\ Accessing(s, y, j)' => Accessing(s, y, j)
               /\ s # t \/ y # x => (Accessing(s, y, j)' <=> Accessing(s, y, j))
    BY DEF Unmoved, Accessing
  <1>2. InCallback'
    <2> SUFFICES ASSUME NEW s \in Threads, NEW y \in Vars, NEW k \in Kinds, Accessing(s, y, k)'
                 PROVE  /\ Fit(Self(s))' /\ call'[s].do # "vptr_read"
                        /\ seen'[y][k][s] = {s}
                        /\ y \in racy' \/ \A j \in Rivals(k), u \in Threads : s \in seen'[y][j][u]
      BY DEF InCallback
    <2>1. Accessing(s, y, k) /\ call'[s] = call[s]
      BY <1>1 DEF Unmoved, Accessing
    <2> QED
      BY <2>1, UnmovedKnows DEF Verdicts, InCallback
  <1>3. Ordered'
    BY DEF Verdicts, Ordered, Unmoved
  <1>4. /\ \A e : Knowing(e)' = Knowing(e)
        /\ \A e : \A u \in Threads : Owner(u, e)' <=> Owner(u, e)
        /\ \A e, f : Met(e, f)' <=> Met(e, f)
    BY UnmovedKnows
  <1>5. ASSUME NEW y \in Vars, NEW j \in Kinds, NEW u \in Threads
        PROVE  Told(seen[y][j][u])' = Told(seen[y][j][u])
    BY UnmovedKnows
  <1>6. \A y \in Vars, j \in Kinds : \A e : Backed(y, j, e) => Backed(y, j, e)'
    BY <1>4, <1>5 DEF Backed
  <1>7. ASSUME NEW y \in Vars \ {x}, UNCHANGED <<W[y], R[y], Rvc[y]>>
        PROVE  /\ Sound(y)' /\ (Represented(y) => Represented(y)')
               /\ Witnessed(y) => Witnessed(y)'
    <2>1. \A i \in Slots : Slot(y, i)' = Slot(y, i)
      BY <1>7 DEF Slot
    <2>2. Reads(y)' = Reads(y)
      BY <1>7, <2>1 DEF Reads
    <2>3. Sound(y)'
      <3>1. Sound(y)
        BY DEF Verdicts, Shadow
      <3>2. Backed(y, "write", W[y])'
        BY <1>6, <1>7, <3>1 DEF Sound, Kinds
      <3>3. R[y] = READ_SHARED \/ Backed(y, "read", R[y])'
        BY <1>6, <1>7, <3>1 DEF Sound, Kinds
      <3>4. \A i \in Slots : Backed(y, "read", Slot(y, i))'
        BY <1>6, <2>1, <3>1 DEF Sound, Kinds
      <3> QED
        BY <1>7, <3>1, <3>2, <3>3, <3>4 DEF Sound, Unmoved
    <2>4. ASSUME Represented(y)
          PROVE  Represented(y)'
      <3>1. R[y] = READ_SHARED \/ Met(W[y], R[y])'
        BY <1>4, <1>7, <2>4 DEF Represented
      <3>2. ASSUME NEW u \in Threads
            PROVE  Accessing(u, y, "write")' \/ Knowing(W[y])' \subseteq Told(seen[y]["write"][u])'
        BY <1>1, <1>4, <1>5, <1>7, <2>4 DEF Represented, Kinds
      <3>3. ASSUME NEW u \in Threads
            PROVE  \/ Accessing(u, y, "read")'
                   \/ Knowing(W[y])' \subseteq Told(seen[y]["read"][u])'
                   \/ \E e \in Reads(y)' : Met(W[y], e)' /\ Knowing(e)' \subseteq Told(seen[y]["read"][u])'
        BY <1>1, <1>4, <1>5, <1>7, <2>2, <2>4 DEF Represented, Kinds
      <3> QED
        BY <1>7, <3>1, <3>2, <3>3 DEF Represented
    <2>5. Witnessed(y) => Witnessed(y)'
      BY <1>1 DEF Witnessed
    <2> QED
      BY <2>3, <2>4, <2>5
  <1> QED
    BY <1>1, <1>2, <1>3, <1>5, <1>6, <1>7

\* An access in its callback is what the present epoch stands for.
LEMMA InsideBacked ==
  ASSUME IInv, Support, Distinct, AllRegistered, Verdicts, NEW t \in Threads, NEW x \in Vars,
         NEW k \in Kinds, Accessing(t, x, k)
  PROVE  /\ Inside(t) /\ call[t].do # "vptr_read"
         /\ seen[x][k][t] = {t} /\ Told(seen[x][k][t]) = {t}
         /\ Backed(x, k, EpochOf(Self(t)))
  <1>1. /\ Inside(t) /\ call[t].do # "vptr_read" /\ seen[x][k][t] = {t}
    BY DEF Verdicts, InCallback, Accessing, AllRegistered, Inside
  <1>2. Told({t}) = {t}
    BY <1>1 DEF Told, Inside, Publishing
  <1>3. Owner(t, EpochOf(Self(t))) /\ Knowing(EpochOf(Self(t))) = {t}
    BY <1>1, Alone
  <1> QED
    BY <1>1, <1>2, <1>3 DEF Backed

\* getVarState: the word of a new variable stands for the accesses in their
\* callbacks; there are no others.
LEMMA NewWordStep ==
  ASSUME IInv, HBInv, AllRegistered, Distinct, NEW t \in Threads, NEW x \in Vars,
         getVarState(t, x), UNCHANGED <<seen, racy>>
  PROVE  Verdicts'
  <1> DEFINE h == Self(t)
             k == Kind(call[t].do)
             e == EpochOf(h)
             b == Bottom(h)
  <1>0. TypeOK /\ HBTypeOK /\ Support /\ Verdicts /\ Shadow /\ Unrecorded
    BY DEF IInv, HBInv, Verdicts
  <1>1. /\ k \in Kinds /\ Accessing(t, x, k) /\ pc[t] = "access" /\ call[t].on = x
        /\ x \notin VS
    BY DEF getVarState, Kind, Kinds, Accessing
  <1>2. /\ Inside(t) /\ call[t].do # "vptr_read" /\ Told(seen[x][k][t]) = {t}
        /\ Backed(x, k, e)
    BY <1>0, <1>1, InsideBacked
  <1>3. call[t].do \in {"write", "vptr_update"} <=> k = "write"
    BY <1>0, <1>1, <1>2 DEF Support, Accesses, Kind
  <1>4. /\ UNCHANGED <<pc, call, TS, Rvc, reported>> /\ VS' = VS \cup {x}
        /\ k = "write" => W' = [W EXCEPT ![x] = e] /\ R' = [R EXCEPT ![x] = b]
        /\ k # "write" => W' = [W EXCEPT ![x] = b] /\ R' = [R EXCEPT ![x] = e]
    BY <1>3 DEF getVarState, threads, control
  <1>5. /\ e \in Epoch /\ b \in Epoch /\ b.clock = 0 /\ h \in TS
        /\ e.tid = tid[h] /\ b.tid = tid[h] /\ tid[h] < Cardinality(TS)
        /\ Knowing(e) = {t} /\ KnowsOf(C[h], e) /\ KnowsOf(C[h], b)
    BY <1>0, <1>2, Alone, Typed DEF EpochOf, Bottom, Inside, Fit, KnowsOf
  <1>6. /\ W \in [Vars -> Epoch] /\ R \in [Vars -> Epoch \cup {READ_SHARED}]
    BY <1>0 DEF TypeOK
  <1> HIDE DEF e, b, h, k
  <1>7. /\ k = "write" => W'[x] = e /\ R'[x] = b
        /\ k = "read" => W'[x] = b /\ R'[x] = e
        /\ \A y \in Vars : y # x => W'[y] = W[y] /\ R'[y] = R[y]
        /\ R'[x] \in Epoch
    BY <1>1, <1>4, <1>5, <1>6 DEF Kinds
  <1>8. Unmoved(t)
    BY AccessUnmoved
  <1>9. /\ \A s \in Threads, y \in Vars, j \in Kinds : Accessing(s, y, j)' <=> Accessing(s, y, j)
        /\ InCallback' /\ Ordered'
        /\ \A y \in Vars, j \in Kinds, u \in Threads :
              Told(seen[y][j][u])' = Told(seen[y][j][u])
        /\ \A y \in Vars, j \in Kinds : \A f : Backed(y, j, f) => Backed(y, j, f)'
        /\ \A y \in Vars \ {x} : UNCHANGED <<W[y], R[y], Rvc[y]>> =>
              /\ Sound(y)' /\ (Represented(y) => Represented(y)')
              /\ Witnessed(y) => Witnessed(y)'
    <2>1. \A s \in Threads, y \in Vars, j \in Kinds : Accessing(s, y, j)' <=> Accessing(s, y, j)
      BY <1>4 DEF Accessing
    <2> QED
      BY <1>0, <1>1, <1>4, <1>8, <2>1, CallbackStays
  <1>10. Sound(x)'
    <2>1. Sound(x)
      BY <1>0 DEF Shadow
    <2>2. TS' = TS /\ Rvc'[x] = Rvc[x] /\ \A i \in Slots : Slot(x, i)' = Slot(x, i)
      BY <1>4 DEF Slot
    <2>3. \A j \in Kinds : Backed(x, j, b)
      BY <1>5 DEF Backed
    <2>4. /\ k = "write" => Backed(x, "write", e) /\ Backed(x, "read", b)
          /\ k = "read" => Backed(x, "write", b) /\ Backed(x, "read", e)
      BY <1>2, <2>3 DEF Kinds
    <2>5. Backed(x, "write", W[x])' /\ Backed(x, "read", R[x])'
      BY <1>1, <1>7, <1>9, <2>4 DEF Kinds
    <2>6. \A i \in Slots : Backed(x, "read", Slot(x, i))'
      BY <1>9, <2>1, <2>2 DEF Sound, Kinds
    <2>7. W'[x].tid < Cardinality(TS) /\ R'[x].tid < Cardinality(TS) /\ R'[x] # READ_SHARED
      BY <1>1, <1>5, <1>7, ReadSharedAssumption DEF Kinds
    <2> QED
      BY <2>1, <2>2, <2>5, <2>6, <2>7 DEF Sound
  <1>11. ASSUME x \notin reported
         PROVE  Represented(x)'
    <2>1. W[x].clock = 0 /\ R[x] # READ_SHARED /\ R[x].clock = 0 /\ Represented(x)
      BY <1>0, <1>1, <1>11 DEF Unrecorded, Verdicts
    <2>2. Knowing(W[x]) = Knowers /\ Knowing(R[x]) = Knowers /\ Reads(x) = {R[x]}
      BY <2>1 DEF Knowing, Knows, KnowsOf, Reads
    <2>3. \A u \in Threads, j \in Kinds :
            Accessing(u, x, j)' \/ Knowers \subseteq Told(seen[x][j][u])'
      BY <1>9, <2>1, <2>2 DEF Represented, Kinds
    <2>4. Knowing(W[x])' \subseteq Knowers
      BY DEF Knowing
    <2>5. Met(e, b) /\ Met(b, e)
      BY <1>5 DEF Met, h
    <2>6. Met(W[x], R[x])'
      BY <1>1, <1>7, <1>8, <2>5, UnmovedKnows DEF Kinds
    <2> QED
      BY <2>3, <2>4, <2>6 DEF Represented, Kinds
  <1>12. ASSUME x \notin reported
         PROVE  Witnessed(x)'
    <2>1. Witnessed(x)
      BY <1>0, <1>12 DEF Verdicts
    <2>2. \A s \in Threads, j \in Kinds : Accessing(s, x, j)' <=> Accessing(s, x, j)
      BY <1>9
    <2> QED
      BY <2>1, <2>2 DEF Witnessed
  <1>13. Unrecorded'
    BY <1>0, <1>4, <1>7 DEF Unrecorded
  <1>14. Shadow'
    BY <1>4, <1>7, <1>9, <1>10 DEF Shadow
  <1>15. \A y \in Vars \ reported' : Represented(y)' /\ Witnessed(y)'
    BY <1>0, <1>4, <1>7, <1>9, <1>11, <1>12 DEF Verdicts
  <1> QED
    BY <1>9, <1>13, <1>14, <1>15 DEF Verdicts

LEMMA BackedValid ==
  ASSUME NEW x, NEW k, NEW e, Backed(x, k, e)
  PROVE  Valid(e)
  BY DEF Backed, Valid

\* Whoever knows of the word of x is ordered after all accesses but those in
\* their callbacks.
LEMMA CaughtUp ==
  ASSUME NEW t \in Threads, NEW x \in Vars, Represented(x), t \in Knowing(W[x])
  PROVE  /\ \A u \in Threads : Accessing(u, x, "write") \/ t \in seen[x]["write"][u]
         /\ (\A e \in Reads(x) : Met(W[x], e) => t \in Knowing(e)) =>
              \A u \in Threads : Accessing(u, x, "read") \/ t \in seen[x]["read"][u]
  <1>1. \A S : t \in Told(S) => t \in S
    BY KnowersAssumption DEF Told
  <1> QED
    BY <1>1 DEF Represented

\* A thread that leaves its callback with a race not reported leaves the rival
\* in its callback.
LEMMA StaysWitnessed ==
  ASSUME Ordered, NEW t \in Threads, NEW x \in Vars, NEW k \in Kinds, Accessing(t, x, k),
         seen[x][k][t] = {t}, UNCHANGED <<seen, racy>>,
         \A j \in Rivals(k), u \in Threads : Accessing(u, x, j) \/ t \in seen[x][j][u],
         \A s \in Threads, j \in Kinds : s # t => (Accessing(s, x, j)' <=> Accessing(s, x, j)),
         Witnessed(x)
  PROVE  Witnessed(x)'
  <1> SUFFICES ASSUME x \in racy
               PROVE  \E s \in Threads, j \in Kinds : Accessing(s, x, j)' /\
                        \E i \in Rivals(j), u \in Threads : s \notin seen[x][i][u]
    BY DEF Witnessed
  <1>1. PICK s \in Threads, j \in Kinds : Accessing(s, x, j) /\
               \E i \in Rivals(j), u \in Threads : s \notin seen[x][i][u]
    BY DEF Witnessed
  <1>2. CASE s # t
    BY <1>1, <1>2
  <1>3. CASE s = t
    <2>1. j = k
      BY <1>1, <1>3 DEF Accessing
    <2>2. PICK i \in Rivals(k), u \in Threads : t \notin seen[x][i][u]
      BY <1>1, <1>3, <2>1
    <2>3. i \in Kinds /\ k \in Rivals(i)
      BY <2>2 DEF Rivals, Kinds
    <2>4. u # t
      BY <2>2, <2>3 DEF Ordered
    <2>5. Accessing(u, x, i)' /\ u \notin seen[x][k][t]
      BY <2>2, <2>3, <2>4
    <2> QED
      BY <2>3, <2>5
  <1> QED
    BY <1>2, <1>3

\* ft_write reports unless the thread knows of all the word remembers.
LEMMA WriteJudges ==
  ASSUME IInv, Shadow, NEW t \in Threads, NEW x \in Vars, ft_write(t, x),
         Self(t) \in TS, W[x] # EpochOf(Self(t)), x \notin reported'
  PROVE  /\ W'[x] = EpochOf(Self(t)) /\ KnowsOf(C[Self(t)], W[x])
         /\ \A f \in Reads(x) : KnowsOf(C[Self(t)], f)
  <1> DEFINE h == Self(t)
  <1>1. /\ W \in [Vars -> Epoch] /\ R \in [Vars -> Epoch \cup {READ_SHARED}]
    BY DEF IInv, TypeOK
  <1>2. PICK g \in Garbage :
          /\ Report(x, \/ Unordered(W[x], h, g)
                       \/ IF R[x] = READ_SHARED THEN UnorderedRead(x, h)
                                                ELSE Unordered(R[x], h, g))
          /\ W' = [W EXCEPT ![x] = EpochOf(h)]
    BY DEF ft_write
  <1>3. /\ ~Unordered(W[x], h, g)
        /\ R[x] = READ_SHARED => ~UnorderedRead(x, h)
        /\ R[x] # READ_SHARED => ~Unordered(R[x], h, g)
    BY <1>2 DEF Report
  <1>4. /\ Sound(x) /\ Valid(W[x])
        /\ R[x] = READ_SHARED \/ Valid(R[x])
    BY BackedValid DEF Shadow, Sound
  <1> HIDE DEF h
  <1>5. h \in TS
    BY DEF h
  <1>6. KnowsOf(C[h], W[x])
    BY <1>1, <1>3, <1>4, <1>5, Judged DEF Sound
  <1>7. CASE R[x] = READ_SHARED
    <2>1. \A i \in Slots : KnowsOf(C[h], Slot(x, i))
      BY <1>3, <1>5, <1>7, JudgedReads
    <2> QED
      BY <1>1, <1>2, <1>6, <1>7, <2>1 DEF Reads, h
  <1>8. CASE R[x] # READ_SHARED
    <2>1. KnowsOf(C[h], R[x])
      BY <1>1, <1>3, <1>4, <1>5, <1>8, Judged DEF Sound
    <2> QED
      BY <1>1, <1>2, <1>6, <1>8, <2>1 DEF Reads, h
  <1> QED
    BY <1>7, <1>8

\* ft_write: the word of x stands for the new write, and, if no race has been
\* found, for all that its thread is ordered after.
LEMMA WriteStep ==
  ASSUME IInv, HBInv, AllRegistered, Distinct, NEW t \in Threads, NEW x \in Vars,
         ft_write(t, x), UNCHANGED <<seen, racy>>
  PROVE  Verdicts'
  <1> DEFINE h == Self(t)
             e == EpochOf(h)
             b == Bottom(h)
  <1>0. TypeOK /\ HBTypeOK /\ Support /\ Verdicts /\ Shadow /\ Ordered
    BY DEF IInv, HBInv, Verdicts
  <1>1. pc[t] = "access" /\ call[t].on = x /\ call[t].do \in {"write", "vptr_read", "vptr_update"}
    BY DEF ft_write, InAccess
  <1>2. Accessing(t, x, "write")
    <2>1. Accessing(t, x, Kind(call[t].do)) /\ Kind(call[t].do) \in Kinds
      BY <1>1 DEF Accessing, Kind, Kinds
    <2>2. call[t].do # "vptr_read"
      BY <1>0, <2>1 DEF Verdicts, InCallback
    <2> QED
      BY <1>1, <2>1, <2>2 DEF Kind
  <1>3. /\ Inside(t) /\ seen[x]["write"][t] = {t} /\ Told(seen[x]["write"][t]) = {t}
        /\ Backed(x, "write", e)
    BY <1>0, <1>2, InsideBacked DEF Kinds
  <1>4. /\ e \in Epoch /\ b \in Epoch /\ b.clock = 0 /\ h \in TS
        /\ e.tid = tid[h] /\ b.tid = tid[h] /\ tid[h] < Cardinality(TS)
        /\ Knowing(e) = {t} /\ KnowsOf(C[h], e) /\ KnowsOf(C[h], b)
        /\ \A u \in Threads : KnowsOf(C[Self(u)], e) => u = t
    BY <1>0, <1>3, Alone, Typed DEF EpochOf, Bottom, Inside, Fit, KnowsOf
  <1>5. /\ W \in [Vars -> Epoch] /\ R \in [Vars -> Epoch \cup {READ_SHARED}]
        /\ reported \subseteq Vars /\ pc \in [Threads -> {"run", "waiting"} \cup CallbackPoints]
    BY <1>0 DEF TypeOK
  <1>6. /\ pc'[t] = "run" /\ UNCHANGED <<TS, VS, Rvc>>
        /\ \/ /\ W[x] = e /\ UNCHANGED <<W, R, reported>>
           \/ \E g \in Garbage :
                /\ Report(x, \/ Unordered(W[x], h, g)
                             \/ IF R[x] = READ_SHARED
                                THEN UnorderedRead(x, h)
                                ELSE Unordered(R[x], h, g))
                /\ R' = [R EXCEPT ![x] = IF @ = READ_SHARED THEN b ELSE @]
                /\ W' = [W EXCEPT ![x] = e]
    BY <1>5 DEF ft_write, Return, threads
  <1>7. /\ Sound(x) /\ Valid(W[x]) /\ (R[x] = READ_SHARED \/ Valid(R[x]))
        /\ x \notin reported => Represented(x) /\ Witnessed(x)
    BY <1>0, BackedValid DEF Shadow, Sound, Verdicts
  <1>8. \A f : t \in Knowing(f) <=> KnowsOf(C[h], f)
    BY <1>3, InsideKnows
  <1>9. \A f, g : KnowsOf(C[h], f) /\ KnowsOf(C[h], g) => Met(f, g)
    BY DEF Met
  <1>10. \A f : Met(e, f) => KnowsOf(C[h], f)
    BY <1>4 DEF Met
  <1> HIDE DEF e, b, h
  <1>11. /\ W'[x] = e /\ (R'[x] = R[x] \/ R'[x] = b)
         /\ \A y \in Vars : y # x => W'[y] = W[y] /\ R'[y] = R[y] /\ Rvc'[y] = Rvc[y]
         /\ reported \subseteq reported' /\ reported' \subseteq reported \cup {x}
    <2>1. CASE W[x] = e /\ UNCHANGED <<W, R, reported>>
      BY <1>6, <2>1
    <2>2. CASE W' = [W EXCEPT ![x] = e] /\ R' = [R EXCEPT ![x] = IF @ = READ_SHARED THEN b ELSE @]
               /\ \E race : Report(x, race)
      BY <1>5, <1>6, <2>2 DEF Report
    <2> QED
      BY <1>6, <2>1, <2>2
  <1>12. ASSUME x \notin reported'
         PROVE  /\ t \in Knowing(W[x]) /\ \A f \in Reads(x) : Met(W[x], f) => t \in Knowing(f)
                /\ R'[x] = READ_SHARED \/ Met(e, R'[x])
    <2>0. x \notin reported
      BY <1>11, <1>12
    <2>1. CASE W[x] = e
      <3>1. R'[x] = R[x] \/ R'[x] = b
        BY <1>11
      <3> QED
        BY <1>4, <1>7, <1>8, <1>9, <1>10, <2>0, <2>1, <3>1 DEF Represented
    <2>2. CASE W[x] # e
      <3>1. KnowsOf(C[h], W[x]) /\ \A f \in Reads(x) : KnowsOf(C[h], f)
        BY <1>0, <1>4, <1>12, <2>2, WriteJudges DEF e, h
      <3>2. R'[x] = b \/ (R[x] # READ_SHARED /\ R'[x] = R[x])
        BY <1>5, <1>6, <2>2
      <3>3. Met(e, R'[x])
        BY <1>4, <1>9, <3>1, <3>2 DEF Reads
      <3> QED
        BY <1>8, <3>1, <3>3
    <2> QED
      BY <2>1, <2>2
  <1>13. Unmoved(t)
    BY AccessUnmoved
  <1>14. /\ \A s \in Threads, y \in Vars, j \in Kinds :
              s # t \/ y # x => (Accessing(s, y, j)' <=> Accessing(s, y, j))
         /\ InCallback' /\ Ordered'
         /\ \A y \in Vars, j \in Kinds, u \in Threads :
               Told(seen[y][j][u])' = Told(seen[y][j][u])
         /\ \A y \in Vars, j \in Kinds : \A f : Backed(y, j, f) => Backed(y, j, f)'
         /\ \A y \in Vars \ {x} : UNCHANGED <<W[y], R[y], Rvc[y]>> =>
               /\ Sound(y)' /\ (Represented(y) => Represented(y)')
               /\ Witnessed(y) => Witnessed(y)'
    BY <1>0, <1>1, <1>6, <1>13, CallbackStays
  <1>15. Sound(x)'
    <2>1. \A i \in Slots : Slot(x, i)' = Slot(x, i)
      BY <1>6 DEF Slot
    <2>2. Backed(x, "read", b)
      BY <1>4 DEF Backed
    <2>3. R[x] = READ_SHARED \/ Backed(x, "read", R[x])
      BY <1>7 DEF Sound
    <2>4. Backed(x, "write", W[x])'
      BY <1>3, <1>11, <1>14 DEF Kinds, e, h
    <2>5. R'[x] = READ_SHARED \/ Backed(x, "read", R[x])'
      BY <1>11, <1>14, <2>2, <2>3 DEF Kinds
    <2>6. \A i \in Slots : Backed(x, "read", Slot(x, i))'
      BY <1>7, <1>14, <2>1 DEF Sound, Kinds
    <2>7. /\ W'[x].tid < Cardinality(TS)
          /\ R'[x] = READ_SHARED \/ R'[x].tid = 0 \/ R'[x].tid < Cardinality(TS)
          /\ R'[x] = READ_SHARED => R[x] = READ_SHARED
      BY <1>4, <1>7, <1>11, ReadSharedAssumption DEF Sound
    <2> QED
      BY <1>6, <1>7, <2>4, <2>5, <2>6, <2>7 DEF Sound
  <1>16. ASSUME x \notin reported'
         PROVE  Represented(x)' /\ Witnessed(x)'
    <2>1. Represented(x) /\ Witnessed(x)
      BY <1>7, <1>11, <1>16
    <2>2. \A u \in Threads, j \in Kinds : Accessing(u, x, j) \/ t \in seen[x][j][u]
      BY <1>12, <1>16, <2>1, CaughtUp DEF Kinds
    <2>3. ASSUME NEW u \in Threads, NEW j \in Kinds
          PROVE  Accessing(u, x, j)' \/ t \in seen[x][j][u]
      BY <1>0, <1>14, <2>2 DEF Ordered
    <2>4. Knowing(W[x])' = {t}
      BY <1>4, <1>11, <1>13, UnmovedKnows
    <2>5. \A u \in Threads, j \in Kinds :
            Accessing(u, x, j)' \/ Knowing(W[x])' \subseteq Told(seen[x][j][u])'
      BY <1>14, <2>3, <2>4 DEF Told
    <2>6. R'[x] = READ_SHARED \/ Met(W[x], R[x])'
      BY <1>11, <1>12, <1>13, <1>16, UnmovedKnows
    <2>7. Represented(x)'
      BY <2>5, <2>6 DEF Represented, Kinds
    <2>8. Witnessed(x)'
      <3>1. Rivals("write") \subseteq Kinds /\ "write" \in Kinds
        BY DEF Rivals, Kinds
      <3> QED
        BY <1>0, <1>2, <1>3, <1>14, <2>1, <2>2, <3>1, StaysWitnessed
    <2> QED
      BY <2>7, <2>8
  <1>17. Unrecorded'
    <2>1. x \in VS
      BY DEF ft_write, InAccess
    <2> QED
      BY <1>0, <1>6, <1>11, <2>1 DEF Verdicts, Unrecorded
  <1>18. Shadow'
    BY <1>11, <1>14, <1>15 DEF Shadow
  <1>19. ASSUME NEW y \in Vars \ reported'
         PROVE  Represented(y)' /\ Witnessed(y)'
    <2>1. CASE y = x
      BY <1>16, <1>19, <2>1
    <2>2. CASE y # x
      BY <1>0, <1>11, <1>14, <1>19, <2>2 DEF Verdicts
    <2> QED
      BY <2>1, <2>2
  <1> QED
    BY <1>14, <1>17, <1>18, <1>19 DEF Verdicts

\* What a read by t leaves in the word of x, whichever of its branches ft_read
\* takes: t's epoch, and of the older reads those t is not ordered after.
ReadKept(t, x) ==
  LET e == EpochOf(Self(t))
  IN  /\ R'[x] = READ_SHARED \/ R'[x] = e
      /\ R'[x] = READ_SHARED => Rvc'[x].size # 0
      /\ Rvc'[x].size = 0 \/ Rvc'[x].size >= Cardinality(TS)
      /\ \A i \in Slots : \/ Slot(x, i)' \in {Slot(x, i), e}
                          \/ R[x] # READ_SHARED /\ Slot(x, i)' = R[x]
                          \/ Slot(x, i)'.clock = 0
      /\ R'[x] = READ_SHARED =>
           \A i \in Slots : i = e.tid => Slot(x, i)' = e
      /\ \A f \in Reads(x) :
           \/ R'[x] = f
           \/ R'[x] = READ_SHARED /\ Slot(x, f.tid)' = f
           \/ KnowsOf(C[Self(t)], f) /\ (R'[x] = e \/ f.tid = e.tid)

LEMMA ReadingKeeps ==
  ASSUME IInv, Support, Shadow, Distinct, AllRegistered, NEW t \in Threads, NEW x \in Vars,
         Inside(t), ft_read(t, x)
  PROVE  ReadKept(t, x)
  <1> DEFINE h == Self(t)
             e == EpochOf(h)
  <1>0. PICK own \in Slots, now \in Nat : own = tid[h] /\ now = epoch[h]
    BY Typed DEF Inside
  <1>1. /\ h \in TS /\ h \in Handles /\ own = tid[h]
        /\ e \in Epoch /\ e = [tid |-> own, clock |-> now] /\ e.tid = own
    BY <1>0, Typed DEF Inside, EpochOf
  <1>2. /\ Rvc \in [Vars -> VectorClock] /\ R \in [Vars -> Epoch \cup {READ_SHARED}]
        /\ \A i \in Slots : Rvc[x].at[i] \in Nat
        /\ Rvc[x].size \in Nat /\ Rvc[x] \in VectorClock
    BY MaxTidNat DEF IInv, TypeOK, VectorClock
  <1>3. /\ Sound(x)
        /\ R[x] = READ_SHARED \/ Valid(R[x])
        /\ \A i \in Slots : Valid(Slot(x, i)) /\ Slot(x, i) = [tid |-> i, clock |-> Rvc[x].at[i]]
    BY BackedValid DEF Shadow, Sound, Slot
  <1>4. Cardinality(TS) \in Nat /\ Cardinality(TS) >= 1
    BY <1>1, Readings DEF IInv, ClockInv, Numbering
  <1>5. TS' = TS
    BY DEF ft_read, threads
  <1>6. \/ R[x] = e /\ UNCHANGED <<R, Rvc>>
        \/ \E gR \in Garbage : RecordRead(x, h, gR)
    BY DEF ft_read
  <1>7. \A i \in Slots : Slot(x, i)' = [tid |-> i, clock |-> Rvc'[x].at[i]]
    BY DEF Slot
  <1> HIDE DEF h, e
  <1>9. CASE R[x] = e /\ UNCHANGED <<R, Rvc>>
    <2>1. R[x] # READ_SHARED /\ Reads(x) = {e}
      BY <1>1, <1>9, ReadSharedAssumption DEF Reads
    <2> QED
      BY <1>3, <1>7, <1>9, <2>1 DEF ReadKept, Sound, h, e
  <1>10. ASSUME NEW gR \in Garbage, RecordRead(x, h, gR), R[x] = READ_SHARED
         PROVE  ReadKept(t, x)
    <2>1. Rvc'[x] = [Rvc[x] EXCEPT !.at[own] = now] /\ R' = R
      BY <1>0, <1>2, <1>10 DEF RecordRead
    <2>2. /\ Rvc'[x].size = Rvc[x].size /\ Rvc'[x].at[own] = now
          /\ \A j \in Slots : j # own => Rvc'[x].at[j] = Rvc[x].at[j]
      BY <1>1, <1>2, <2>1, StoredClock
    <2>3. /\ Slot(x, own)' = e
          /\ \A j \in Slots : j # own => Slot(x, j)' = Slot(x, j)
      BY <1>1, <1>3, <1>7, <2>2
    <2>4. ASSUME NEW f \in Reads(x)
          PROVE  (KnowsOf(C[h], f) /\ f.tid = own) \/ Slot(x, f.tid)' = f
      <3>1. PICK i \in Slots : f = Slot(x, i)
        BY <1>10, <2>4 DEF Reads
      <3>2. f.tid = i /\ f \in Epoch /\ Valid(f)
        BY <1>2, <1>3, <3>1 DEF Epoch
      <3>3. i = own => KnowsOf(C[h], f)
        BY <1>1, <3>2, OwnEpochs DEF KnowsOf, Settled, Own
      <3> QED
        BY <2>3, <3>1, <3>2, <3>3
    <2> QED
      BY <1>1, <1>3, <1>10, <2>1, <2>2, <2>3, <2>4 DEF ReadKept, Sound, h, e
  <1>11. ASSUME NEW gR \in Garbage, RecordRead(x, h, gR), R[x] # READ_SHARED
         PROVE  ReadKept(t, x)
    <2>1. PICK r \in Epoch : r = R[x] /\ Valid(r) /\ Reads(x) = {r}
      BY <1>2, <1>3, <1>11 DEF Reads
    <2>2. r.clock <= At(h, r.tid, gR) <=> KnowsOf(C[h], r)
      BY <1>1, <1>3, <1>11, <2>1, Judged DEF Sound
    <2>3. CASE KnowsOf(C[h], r)
      <3>1. R'[x] = e /\ Rvc' = Rvc
        BY <1>2, <1>11, <2>1, <2>2, <2>3 DEF RecordRead, e
      <3>2. \A j \in Slots : Slot(x, j)' = Slot(x, j)
        BY <1>3, <1>7, <3>1
      <3>3. e # READ_SHARED
        BY <1>1, ReadSharedAssumption
      <3> QED
        BY <1>3, <2>1, <2>3, <3>1, <3>2, <3>3 DEF ReadKept, Sound, h, e
    <2>4. CASE ~KnowsOf(C[h], r)
      <3> DEFINE old == IF Rvc[x].size = 0 THEN newVectorClock(NumThreads) ELSE Rvc[x]
                 mid == [old EXCEPT !.at[r.tid] = r.clock]
                 new == [mid EXCEPT !.at[own] = now]
      <3>1. Rvc'[x] = new /\ R'[x] = READ_SHARED
        BY <1>0, <1>2, <1>11, <2>1, <2>2, <2>4 DEF RecordRead
      <3>2. /\ old \in VectorClock /\ old.size >= Cardinality(TS) /\ old.size \in Nat
            /\ \A j \in Slots : old.at[j] = Rvc[x].at[j] \/ old.at[j] = 0
        <4>1. NumThreads \in 0 .. MaxTid + 1 /\ NumThreads >= Cardinality(TS)
          BY DEF IInv, TypeOK, Support
        <4> QED
          <5>1. CASE Rvc[x].size = 0
            <6>1. old = newVectorClock(NumThreads)
              BY <5>1
            <6>2. /\ old \in VectorClock /\ old.size = NumThreads
                  /\ \A i \in Slots : old.at[i] = 0
              BY <4>1, <6>1, NewClock
            <6> QED
              BY <4>1, <6>2, MaxTidNat
          <5>2. CASE Rvc[x].size # 0
            BY <1>2, <1>3, <5>2 DEF Sound
          <5> QED
            BY <5>1, <5>2
      <3> HIDE DEF old
      <3>3. r.tid \in Slots /\ r.clock \in Nat /\ r = [tid |-> r.tid, clock |-> r.clock]
        BY <2>1 DEF Epoch
      <3>4. r.tid # own
        BY <1>1, <2>1, <2>4, OwnEpochs DEF KnowsOf, Settled, Own
      <3>5. /\ mid \in VectorClock /\ mid.size = old.size /\ mid.at[r.tid] = r.clock
            /\ \A j \in Slots : j # r.tid => mid.at[j] = old.at[j]
        BY <3>2, <3>3, StoredClock
      <3> HIDE DEF mid
      <3>6. /\ new.size = mid.size /\ new.at[own] = now
            /\ \A j \in Slots : j # own => new.at[j] = mid.at[j]
        <4>1. ASSUME NEW v \in VectorClock
              PROVE  /\ [v EXCEPT !.at[own] = now].size = v.size
                     /\ [v EXCEPT !.at[own] = now].at[own] = now
                     /\ \A j \in Slots : j # own => [v EXCEPT !.at[own] = now].at[j] = v.at[j]
          BY <1>1 DEF VectorClock
        <4> QED
          BY <3>5, <4>1
      <3> HIDE DEF new
      <3>7. /\ Slot(x, own)' = e
            /\ Slot(x, r.tid)' = r
            /\ Rvc'[x].size # 0 /\ Rvc'[x].size >= Cardinality(TS)
        BY <1>1, <1>4, <1>7, <3>1, <3>2, <3>3, <3>4, <3>5, <3>6
      <3>8. ASSUME NEW j \in Slots
            PROVE  Slot(x, j)' \in {Slot(x, j), e, r} \/ Slot(x, j)'.clock = 0
        BY <1>3, <1>7, <3>1, <3>2, <3>5, <3>6, <3>7
      <3> QED
        BY <1>1, <1>11, <2>1, <3>1, <3>7, <3>8 DEF ReadKept, h, e
    <2> QED
      BY <2>3, <2>4
  <1> QED
    BY <1>6, <1>9, <1>10, <1>11

\* ft_read: the reads in the word of x, with the new one, stand for all reads.
LEMMA ReadStep ==
  ASSUME IInv, HBInv, AllRegistered, Distinct, NEW t \in Threads, NEW x \in Vars,
         ft_read(t, x), UNCHANGED <<seen, racy>>
  PROVE  Verdicts'
  <1> DEFINE h == Self(t)
             e == EpochOf(h)
  <1>0. TypeOK /\ HBTypeOK /\ Support /\ Verdicts /\ Shadow /\ Ordered
    BY DEF IInv, HBInv, Verdicts
  <1>1. pc[t] = "access" /\ call[t].on = x /\ Accessing(t, x, "read")
    BY DEF ft_read, InAccess, Accessing, Kind
  <1>2. /\ Inside(t) /\ seen[x]["read"][t] = {t} /\ Told(seen[x]["read"][t]) = {t}
        /\ Backed(x, "read", e)
    BY <1>0, <1>1, InsideBacked DEF Kinds
  <1>3. /\ e \in Epoch /\ h \in TS /\ e.tid = tid[h] /\ tid[h] < Cardinality(TS)
        /\ Knowing(e) = {t} /\ KnowsOf(C[h], e) /\ e.tid \in Slots
        /\ \A u \in Threads : KnowsOf(C[Self(u)], e) => u = t
    BY <1>0, <1>2, Alone, Typed DEF EpochOf, Inside, Fit
  <1>4. /\ W \in [Vars -> Epoch] /\ R \in [Vars -> Epoch \cup {READ_SHARED}]
        /\ Rvc \in [Vars -> VectorClock]
        /\ pc \in [Threads -> {"run", "waiting"} \cup CallbackPoints]
        /\ \A i \in Slots : Slot(x, i) \in Epoch
    BY <1>0 DEF TypeOK, Slot, Epoch, VectorClock
  <1>5. /\ pc'[t] = "run" /\ UNCHANGED <<TS, VS, W>>
        /\ \/ R[x] = e /\ UNCHANGED <<R, Rvc, reported>>
           \/ \E gW, gR \in Garbage : Report(x, Unordered(W[x], h, gW)) /\ RecordRead(x, h, gR)
    BY <1>4 DEF ft_read, Return, threads
  <1>6. /\ Sound(x) /\ Valid(W[x])
        /\ x \notin reported => Represented(x) /\ Witnessed(x)
    BY <1>0, BackedValid DEF Shadow, Sound, Verdicts
  <1>7. \A f : t \in Knowing(f) <=> KnowsOf(C[h], f)
    BY <1>2, InsideKnows
  <1>8. /\ \A f : KnowsOf(C[h], f) => Met(f, e)
        /\ \A f : Met(f, e) => KnowsOf(C[h], f)
    BY <1>3 DEF Met
  <1>9. ReadKept(t, x)
    BY <1>0, <1>2, ReadingKeeps
  <1>10. /\ R'[x] = READ_SHARED \/ R'[x] = e
         /\ R'[x] = READ_SHARED => Rvc'[x].size # 0
         /\ Rvc'[x].size = 0 \/ Rvc'[x].size >= Cardinality(TS)
         /\ \A i \in Slots : \/ Slot(x, i)' \in {Slot(x, i), e}
                             \/ R[x] # READ_SHARED /\ Slot(x, i)' = R[x]
                             \/ Slot(x, i)'.clock = 0
         /\ R'[x] = READ_SHARED =>
              \A i \in Slots : i = e.tid => Slot(x, i)' = e
         /\ \A f \in Reads(x) :
              \/ R'[x] = f
              \/ R'[x] = READ_SHARED /\ Slot(x, f.tid)' = f
              \/ KnowsOf(C[h], f)
    BY <1>9 DEF ReadKept
  <1> HIDE DEF e, h
  <1>11. /\ \A y \in Vars : y # x => R'[y] = R[y] /\ Rvc'[y] = Rvc[y]
         /\ reported \subseteq reported' /\ reported' \subseteq reported \cup {x}
    <2>1. CASE UNCHANGED <<R, Rvc, reported>>
      BY <2>1
    <2>2. ASSUME NEW gW, NEW gR, Report(x, Unordered(W[x], h, gW)), RecordRead(x, h, gR)
          PROVE  /\ \A y \in Vars : y # x => R'[y] = R[y] /\ Rvc'[y] = Rvc[y]
                 /\ reported \subseteq reported' /\ reported' \subseteq reported \cup {x}
      BY <1>4, <2>2 DEF Report, RecordRead
    <2> QED
      BY <1>5, <2>1, <2>2
  <1>12. ASSUME x \notin reported'
         PROVE  t \in Knowing(W[x])
    <2>0. x \notin reported
      BY <1>11, <1>12
    <2>1. CASE R[x] = e
      BY <1>3, <1>6, <1>7, <1>8, <2>0, <2>1, ReadSharedAssumption DEF Represented
    <2>2. ASSUME NEW gW, Report(x, Unordered(W[x], h, gW))
          PROVE  t \in Knowing(W[x])
      BY <1>3, <1>4, <1>6, <1>7, <1>12, <2>2, Judged DEF Report, Sound
    <2> QED
      BY <1>5, <2>1, <2>2
  <1>13. Unmoved(t)
    BY AccessUnmoved
  <1>14. /\ \A s \in Threads, y \in Vars, j \in Kinds :
              /\ Accessing(s, y, j)' => Accessing(s, y, j)
              /\ s # t \/ y # x => (Accessing(s, y, j)' <=> Accessing(s, y, j))
         /\ InCallback' /\ Ordered'
         /\ \A y \in Vars, j \in Kinds, u \in Threads :
               Told(seen[y][j][u])' = Told(seen[y][j][u])
         /\ \A y \in Vars, j \in Kinds : \A f : Backed(y, j, f) => Backed(y, j, f)'
         /\ \A y \in Vars \ {x} : UNCHANGED <<W[y], R[y], Rvc[y]>> =>
               /\ Sound(y)' /\ (Represented(y) => Represented(y)')
               /\ Witnessed(y) => Witnessed(y)'
    BY <1>0, <1>1, <1>5, <1>13, CallbackStays
  <1>15. Sound(x)'
    <2>1. ASSUME NEW i \in Slots
          PROVE  Backed(x, "read", Slot(x, i))'
      <3>1. PICK f : f = Slot(x, i)'
        OBVIOUS
      <3>2. Backed(x, "read", f)
        BY <1>2, <1>6, <1>10, <3>1 DEF Sound, Backed, e, h
      <3> QED
        BY <1>14, <3>1, <3>2 DEF Kinds
    <2>2. Backed(x, "write", W[x])'
      BY <1>5, <1>6, <1>14 DEF Sound, Kinds
    <2>3. R'[x] = READ_SHARED \/ Backed(x, "read", R[x])'
      BY <1>2, <1>10, <1>14 DEF Kinds, e, h
    <2>4. /\ W'[x].tid = 0 \/ W'[x].tid < Cardinality(TS)
          /\ R'[x] = READ_SHARED \/ R'[x].tid < Cardinality(TS)
      BY <1>3, <1>5, <1>6, <1>10 DEF Sound
    <2> QED
      BY <1>5, <1>10, <2>1, <2>2, <2>3, <2>4 DEF Sound
  <1>16. ASSUME x \notin reported'
         PROVE  Represented(x)' /\ Witnessed(x)'
    <2>1. /\ Represented(x) /\ Witnessed(x) /\ t \in Knowing(W[x]) /\ Met(W[x], e)
      BY <1>6, <1>7, <1>8, <1>11, <1>12, <1>16
    <2>2. \A f : f = e => f \in Reads(x)'
      BY <1>3, <1>10, ReadSharedAssumption DEF Reads
    <2>3. R'[x] = READ_SHARED \/ Met(W[x], R[x])'
      BY <1>5, <1>10, <1>13, <2>1, UnmovedKnows
    <2>4. PICK r : /\ r \in Reads(x)' /\ Met(W[x], r)' /\ Knowing(r)' = {t}
                   /\ Knowing(W[x])' = Knowing(W[x])
      <3>1. PICK r : r = e
        OBVIOUS
      <3>2. r \in Reads(x)'
        BY <2>2, <3>1
      <3>3. Met(W[x], r)' /\ Knowing(r)' = {t} /\ Knowing(W[x])' = Knowing(W[x])
        BY <1>3, <1>5, <1>13, <2>1, <3>1, UnmovedKnows
      <3> QED
        BY <3>2, <3>3
    <2>5. ASSUME NEW u \in Threads
          PROVE  Accessing(u, x, "write")' \/ Knowing(W[x])' \subseteq Told(seen[x]["write"][u])'
      <3>1. Accessing(u, x, "write")' <=> Accessing(u, x, "write")
        <4>1. ~Accessing(t, x, "write")
          BY <1>1 DEF Accessing
        <4> QED
          BY <1>14, <4>1 DEF Kinds
      <3> QED
        BY <1>14, <2>1, <2>4, <3>1 DEF Represented, Kinds
    <2>6. ASSUME NEW u \in Threads
          PROVE  \/ Accessing(u, x, "read")'
                 \/ Knowing(W[x])' \subseteq Told(seen[x]["read"][u])'
                 \/ \E f \in Reads(x)' : Met(W[x], f)' /\ Knowing(f)' \subseteq Told(seen[x]["read"][u])'
      <3>1. CASE t \in seen[x]["read"][u]
        <4>1. Knowing(r)' \subseteq Told(seen[x]["read"][u])'
          BY <2>4, <3>1 DEF Told
        <4> QED
          BY <2>4, <4>1
      <3>2. CASE t \notin seen[x]["read"][u]
        <4>1. u # t
          BY <1>2, <3>2
        <4>2. CASE Accessing(u, x, "read") \/ Knowing(W[x]) \subseteq Told(seen[x]["read"][u])
          BY <1>14, <2>4, <4>1, <4>2 DEF Kinds
        <4>3. ASSUME NEW f \in Reads(x), Met(W[x], f), Knowing(f) \subseteq Told(seen[x]["read"][u])
              PROVE  f \in Reads(x)' /\ Met(W[x], f)' /\ Knowing(f)' \subseteq Told(seen[x]["read"][u])'
          <5>1. ~KnowsOf(C[h], f)
            BY <1>7, <3>2, <4>3, KnowersAssumption DEF Told
          <5>2. f.tid \in Slots /\ f # READ_SHARED
            BY <1>4, <4>3, ReadSharedAssumption DEF Reads, Epoch
          <5>3. f \in Reads(x)'
            BY <1>10, <4>3, <5>1, <5>2 DEF Reads
          <5>4. Met(W[x], f)' /\ Knowing(f)' \subseteq Told(seen[x]["read"][u])'
            BY <1>5, <1>13, <1>14, <4>3, UnmovedKnows DEF Kinds
          <5> QED
            BY <5>3, <5>4
        <4> QED
          BY <2>1, <4>2, <4>3 DEF Represented
      <3> QED
        BY <3>1, <3>2
    <2>7. Represented(x)'
      BY <2>3, <2>5, <2>6 DEF Represented
    <2>8. Witnessed(x)'
      <3>1. Rivals("read") = {"write"} /\ "read" \in Kinds
        BY DEF Rivals, Kinds
      <3>2. \A u \in Threads : Accessing(u, x, "write") \/ t \in seen[x]["write"][u]
        BY <2>1, CaughtUp
      <3> QED
        BY <1>0, <1>1, <1>2, <1>14, <2>1, <3>1, <3>2, StaysWitnessed
    <2> QED
      BY <2>7, <2>8
  <1>17. Unrecorded'
    <2>1. x \in VS
      BY DEF ft_read, InAccess
    <2> QED
      BY <1>0, <1>5, <1>11, <2>1 DEF Verdicts, Unrecorded
  <1>18. Shadow'
    BY <1>5, <1>11, <1>14, <1>15 DEF Shadow
  <1>19. ASSUME NEW y \in Vars \ reported'
         PROVE  Represented(y)' /\ Witnessed(y)'
    <2>1. CASE y = x
      BY <1>16, <1>19, <2>1
    <2>2. CASE y # x
      BY <1>0, <1>5, <1>11, <1>14, <1>19, <2>2 DEF Verdicts
    <2> QED
      BY <2>1, <2>2
  <1> QED
    BY <1>14, <1>17, <1>18, <1>19 DEF Verdicts

-----------------------------------------------------------------------------
(* Before all threads are registered, nothing has been accessed.           *)

\* Nothing accessed, nothing to get wrong.
LEMMA FreshVerdicts ==
  ASSUME TypeOK, HBTypeOK, Fresh
  PROVE  Verdicts
  <1>1. \A x \in Vars, k \in Kinds, u \in Threads : seen[x][k][u] = Knowers
    BY DEF Fresh, AllOrdered, Kinds
  <1>2. /\ 0 \in Slots /\ 0 \in 0 .. MaxTid + 1
        /\ [tid |-> 0, clock |-> 0] \in Epoch
    BY MaxTidNat DEF Slots, Epoch
  <1>3. \A x \in Vars : /\ W[x].tid = 0 /\ W[x].clock = 0
                        /\ R[x].tid = 0 /\ R[x].clock = 0 /\ R[x] # READ_SHARED
                        /\ Rvc[x].size = 0 /\ \A i \in Slots : Rvc[x].at[i] = 0
    BY <1>2, NewClock, ReadSharedAssumption DEF Fresh
  <1>4. InCallback
    BY DEF Fresh, InCallback, Accessing
  <1>5. Ordered
    BY <1>1 DEF Ordered, TypeOK, Knowers
  <1>6. Shadow
    BY <1>3 DEF Shadow, Sound, Backed, Slot
  <1>7. Unrecorded
    BY <1>3 DEF Unrecorded
  <1>8. ASSUME NEW x \in Vars
        PROVE  Represented(x) /\ Witnessed(x)
    <2>1. Met(W[x], R[x])
      BY <1>3, ProgramAssumption DEF Met, KnowsOf
    <2>2. \A k \in Kinds, u \in Threads : Knowing(W[x]) \subseteq Told(seen[x][k][u])
      BY <1>1 DEF Knowing, Told
    <2>3. Represented(x)
      BY <2>1, <2>2 DEF Represented, Kinds
    <2> QED
      BY <2>3 DEF Fresh, Witnessed
  <1> QED
    BY <1>4, <1>5, <1>6, <1>7, <1>8 DEF Verdicts

\* Until all threads are registered, a gated program's only accesses are those
\* of a thread that is alone.
LEMMA FreshStep ==
  ASSUME IInv, Fresh, Gated, ~AllRegistered, NEW t \in Threads, HBThreadStep(t),
         ~SolitaryAccess(t)
  PROVE  Fresh'
  <1>1. ~AccessStep(t)
    <2>1. ASSUME NEW x \in Vars, NEW do \in Accesses, Access(t, x, do), RealAccess(t, x, do)
          PROVE  FALSE
      <3>1. [do |-> do, on |-> x] \in Op
        BY DEF Op
      <3> QED
        BY <2>1, <3>1 DEF Access, Gated, SolitaryAccess
    <2> QED
      BY <2>1 DEF AccessStep, Fresh, getVarState, ft_read, ft_write, InAccess
  <1>2. /\ UNCHANGED <<VS, W, R, Rvc>> /\ UNCHANGED racy
        /\ \A v \in Threads : pc'[v] # "access"
    <2>1. TypeOK /\ ThreadStep(t) /\ \A v \in Threads : pc[v] # "access"
      BY RuntimeStep DEF IInv, Fresh
    <2>2. UNCHANGED <<VS, W, R, Rvc>> /\ UNCHANGED racy
      BY <1>1 DEF HBThreadStep, AccessStep, PthreadCreate, PthreadJoin,
         PthreadMutexLock, PthreadMutexUnlock, Untracked, getState, getLockState, ft_fork_count,
         ft_fork, ft_join_test, ft_join_drop, ft_join, ft_acquire, ft_acquire_adopt, ft_release,
         ft_release_tick, shadow
    <2>3. ASSUME NEW x \in Vars, NEW do \in Accesses, Access(t, x, do)
          PROVE  pc'[t] # "access"
      <3>1. [do |-> do, on |-> x] \in Op
        BY DEF Op
      <3>2. isConcurrent = 0
        BY <2>3, <3>1 DEF Access, Gated
      <3> QED
        BY <2>1, <2>3, <3>2 DEF Access, Return, TypeOK
    <2> QED
      BY <2>1, <2>2, <2>3, Moves DEF Apart, Arrives
  <1>3. \A x \in Vars, k \in Kinds, u \in Threads : seen[x][k][u] = Knowers
    BY DEF Fresh, AllOrdered, Kinds
  <1>4. \A x \in Vars, k \in Kinds, u \in Threads : seen'[x][k][u] = Knowers
    <2>1. ASSUME NEW a \in Knowers, NEW b \in Knowers, Learn(a, b),
                 NEW x \in Vars, NEW k \in Kinds, NEW u \in Threads
          PROVE  seen'[x][k][u] = Knowers
      <3>1. seen'[x][k][u] = seen[x][k][u] \cup {b}
        BY <1>3, <2>1, Learning DEF Learned
      <3> QED
        BY <1>3, <3>1
    <2>2. t \in Knowers /\ (\A u \in Threads : u \in Knowers) /\ (\A m \in Locks : m \in Knowers)
      BY DEF Knowers
    <2>3. ft_release_tick(t) => call[t].on \in Knowers
      BY DEF ft_release_tick, IInv, Callbacks, Knowers
    <2>4. UNCHANGED seen \/ \E a, b \in Knowers : Learn(a, b)
      BY <1>1, <2>2, <2>3 DEF HBThreadStep, AccessStep
    <2> QED
      BY <1>3, <2>1, <2>4
  <1>5. AllOrdered'
    BY <1>4 DEF AllOrdered, Kinds
  <1> QED
    BY <1>2, <1>5 DEF Fresh

-----------------------------------------------------------------------------
(* The thread that is alone, and after whom nobody is.                     *)

\* The last thread is ordered after all accesses, and no race is unreported.
LEMMA SolitaryStep ==
  ASSUME IInv, HBTypeOK, Heirs, Gated, Fresh \/ (AllRegistered /\ Verdicts), NEW t \in Threads,
         SolitaryAccess(t)
  PROVE  Fresh' \/ Last'
  <1>1. PICK x \in Vars, do \in Accesses : Access(t, x, do) /\ RealAccess(t, x, do)
    BY DEF SolitaryAccess
  <1>2. Solitary(t) /\ isConcurrent = 0 /\ life[t] = "running" /\ pc[t] = "run"
    BY <1>1 DEF SolitaryAccess, Access, Gated, Op, Performs
  <1>3. /\ pc' = [pc EXCEPT ![t] = "run"]
        /\ UNCHANGED <<life, isConcurrent, VS, W, R, Rvc, reported>>
    BY <1>1, <1>2 DEF Access, Return, shadow
  <1>4. \A y \in Vars, j \in Kinds, u \in Threads : t \in seen[y][j][u]
    BY <1>2 DEF Heirs, Solitary
  <1>5. UNCHANGED racy
    BY <1>1, <1>4 DEF RealAccess, Kinds
  <1>6. /\ Kind(do) \in Kinds /\ t \in Knowers
        /\ seen' = [seen EXCEPT ![x][Kind(do)][t] = Knowers]
    BY <1>1, <1>2 DEF RealAccess, Kind, Kinds, Knowers
  <1>7. \A y \in Vars, j \in Kinds, u \in Threads :
          seen'[y][j][u] = seen[y][j][u] \/ seen'[y][j][u] = Knowers
    BY <1>6 DEF HBTypeOK
  <1>8. \A u \in Threads : pc[u] = "run" /\ pc'[u] = "run"
    BY <1>2, <1>3 DEF IInv, Callbacks, TypeOK, Solitary
  <1>9. CASE Fresh
    <2>1. AllOrdered'
      BY <1>7, <1>9 DEF Fresh, AllOrdered, Kinds
    <2> QED
      BY <1>3, <1>5, <1>8, <1>9, <2>1 DEF Fresh
  <1>10. CASE AllRegistered /\ Verdicts
    <2>1. racy \subseteq reported
      BY <1>8, <1>10 DEF Verdicts, Witnessed, Accessing, HBTypeOK
    <2>2. \A u \in Threads \ {t} : life[u] = "joined"
      BY <1>2, <1>10 DEF AllRegistered, Solitary, IInv, TypeOK
    <2>3. \A y \in Vars, j \in Kinds, u \in Threads : t \in seen'[y][j][u]
      BY <1>4, <1>6, <1>7
    <2> QED
      BY <1>2, <1>3, <1>5, <1>8, <2>1, <2>2, <2>3 DEF Last, Locking
  <1> QED
    BY <1>9, <1>10

\* Nobody joins itself.
LEMMA OtherJoined ==
  ASSUME TypeOK, NEW t \in Threads, NEW u \in Threads, PthreadJoin(t, u)
  PROVE  u # t /\ life[u] = "running"
  <1>1. Len(Program[t]) \in Nat /\ step[t] \in Nat
    BY ProgramAssumption DEF TypeOK
  <1> QED
    BY <1>1 DEF PthreadJoin, Finished, Performs

\* Somebody who runs is always ordered after an access: whoever joins a thread
\* learns what it knows.
LEMMA HeirsStep ==
  ASSUME IInv, HBTypeOK, Heirs, NEW t \in Threads, HBThreadStep(t)
  PROVE  Heirs'
  <1>1. t \in Knowers /\ (\A u \in Threads : u \in Knowers) /\ (\A m \in Locks : m \in Knowers)
    BY DEF Knowers
  <1>2. ASSUME NEW a, NEW b, Learn(a, b), NEW x \in Vars, NEW k \in Kinds, NEW u \in Threads
        PROVE  /\ seen[x][k][u] \subseteq seen'[x][k][u]
               /\ a \in seen[x][k][u] => b \in seen'[x][k][u]
    BY <1>2 DEF Learn, Kinds
  <1>3. ASSUME \A r \in Threads : life[r] = "running" => life'[r] = "running",
               UNCHANGED seen \/ \E a, b : Learn(a, b)
        PROVE  Heirs'
    BY <1>2, <1>3 DEF Heirs
  <1>4. ASSUME NEW v \in Threads, PthreadCreate(t, v), Learn(t, v)
        PROVE  Heirs'
    <2>1. life' = [life EXCEPT ![v] = "running"]
      BY <1>4 DEF PthreadCreate
    <2> QED
      BY <1>3, <1>4, <2>1 DEF IInv, TypeOK
  <1>5. ASSUME NEW v \in Threads, PthreadJoin(t, v), Learn(v, t)
        PROVE  Heirs'
    <2>1. /\ life[t] = "running" /\ v # t
          /\ life' = [life EXCEPT ![v] = "joined"]
      BY <1>5, OtherJoined DEF PthreadJoin, Performs, IInv
    <2>2. life'[t] = "running" /\ \A r \in Threads : r # v => life'[r] = life[r]
      BY <2>1 DEF IInv, TypeOK
    <2> QED
      BY <1>2, <1>5, <2>2 DEF Heirs
  <1>6. ASSUME NEW x \in Vars, NEW do \in Accesses, Access(t, x, do), RealAccess(t, x, do)
        PROVE  Heirs'
    <2>1. life[t] = "running" /\ UNCHANGED life
      BY <1>6 DEF Access, Performs
    <2>2. \A y \in Vars, k \in Kinds, u \in Threads :
            seen'[y][k][u] = seen[y][k][u] \/ t \in seen'[y][k][u]
      BY <1>1, <1>6 DEF RealAccess, HBTypeOK, Kind, Kinds
    <2> QED
      BY <2>1, <2>2 DEF Heirs
  <1>7. \/ /\ UNCHANGED life
           /\ UNCHANGED seen \/ \E a, b : Learn(a, b)
        \/ \E v \in Threads : PthreadCreate(t, v) /\ Learn(t, v)
        \/ \E v \in Threads : PthreadJoin(t, v) /\ Learn(v, t)
        \/ \E x \in Vars, do \in Accesses : Access(t, x, do) /\ RealAccess(t, x, do)
    BY DEF HBThreadStep, PthreadMutexLock, PthreadMutexUnlock, Untracked, getState, getVarState,
       getLockState, ft_read, ft_write, ft_fork_count, ft_fork, ft_join_test, ft_join_drop,
       ft_join, ft_acquire, ft_acquire_adopt, ft_release, ft_release_tick, program
  <1> QED
    BY <1>3, <1>4, <1>5, <1>6, <1>7

\* Alone for good, a thread accesses memory without being judged.
LEMMA LastStep ==
  ASSUME IInv, HBTypeOK, Last, Gated, NEW s \in Threads, HBThreadStep(s)
  PROVE  Last' /\ UNCHANGED <<racy, reported>>
  <1>1. PICK t \in Threads :
          /\ life[t] = "running" /\ \A u \in Threads \ {t} : life[u] = "joined"
          /\ pc[t] \in Locking
          /\ \A x \in Vars, k \in Kinds, u \in Threads : t \in seen[x][k][u]
    BY DEF Last
  <1>2. \A u \in Threads \ {t} : pc[u] = "run"
    BY <1>1 DEF IInv, Callbacks
  <1>3. isConcurrent = 0 /\ racy \subseteq reported
    BY DEF Last
  <1>4. s = t
    BY <1>1, <1>2 DEF HBThreadStep, PthreadCreate, PthreadJoin, PthreadMutexLock,
       PthreadMutexUnlock, Untracked, Access, Performs, getState, Wanted, getVarState,
       getLockState, ft_read, ft_write, InAccess, ft_fork_count, ft_fork, ft_join_test,
       ft_join_drop, ft_join, ft_acquire, ft_acquire_adopt, ft_release, ft_release_tick
  <1>5. /\ UNCHANGED <<life, isConcurrent, reported>> /\ pc'[t] \in Locking
        /\ \/ UNCHANGED <<seen, racy>>
           \/ UNCHANGED racy /\ \E a, b : Learn(a, b)
           \/ \E x \in Vars, do \in Accesses : RealAccess(t, x, do)
    <2>1. \A u \in Threads : ~PthreadCreate(t, u) /\ ~PthreadJoin(t, u)
      BY <1>1, OtherJoined DEF PthreadCreate, IInv
    <2>2. pc \in [Threads -> {"run", "waiting"} \cup CallbackPoints]
      BY DEF IInv, TypeOK
    <2> QED
      BY <1>1, <1>3, <1>4, <2>1, <2>2 DEF HBThreadStep, PthreadMutexLock,
         PthreadMutexUnlock, Untracked, Access, getState, getVarState, getLockState, ft_read,
         ft_write, InAccess, ft_fork_count, ft_fork, ft_join_test, ft_join_drop, ft_join,
         ft_acquire, ft_acquire_adopt, ft_release, ft_release_tick, Enter, Return, Goto,
         program, control, Locking
  <1>6. /\ UNCHANGED racy
        /\ \A x \in Vars, k \in Kinds, u \in Threads : t \in seen'[x][k][u]
    <2>1. CASE UNCHANGED <<seen, racy>>
      BY <1>1, <2>1
    <2>2. ASSUME NEW a, NEW b, Learn(a, b), UNCHANGED racy
          PROVE  \A x \in Vars, k \in Kinds, u \in Threads : t \in seen'[x][k][u]
      BY <1>1, <2>2 DEF Learn, Kinds
    <2>3. ASSUME NEW x \in Vars, NEW do \in Accesses, RealAccess(t, x, do)
          PROVE  /\ UNCHANGED racy
                 /\ \A y \in Vars, k \in Kinds, u \in Threads : t \in seen'[y][k][u]
      BY <1>1, <2>3 DEF RealAccess, HBTypeOK, Kind, Kinds, Knowers
    <2> QED
      BY <1>5, <2>1, <2>2, <2>3
  <1> QED
    BY <1>1, <1>3, <1>5, <1>6 DEF Last

-----------------------------------------------------------------------------
(* The verdicts, in every reachable state.                                 *)

\* The inductive invariant.
VerdictInv ==
  /\ IInv /\ HBTypeOK /\ Support /\ Heirs /\ NoFalseAlarm
  /\ Fresh \/ (AllRegistered /\ Verdicts) \/ Last

LEMMA VerdictInvHB == VerdictInv => IInv /\ NoFalseAlarm /\ (HBInv \/ Last)
  BY FreshVerdicts DEF VerdictInv, HBInv, IInv

\* What the runtime takes for unordered, the program has left unordered.
LEMMA Alarm ==
  ASSUME IInv, HBInv, NEW t \in Threads, NEW x \in Vars, NEW k \in Kinds, Accessing(t, x, k),
         Inside(t), NEW j \in Rivals(k), NEW e, Backed(x, j, e), ~KnowsOf(C[Self(t)], e)
  PROVE  x \in racy
  <1>1. t \notin Knowing(e) /\ e.clock # 0
    BY InsideKnows DEF KnowsOf
  <1>2. PICK u \in Threads : Told(seen[x][j][u]) \subseteq Knowing(e)
    BY <1>1 DEF Backed
  <1>3. t \notin seen[x][j][u]
    BY <1>1, <1>2 DEF Told
  <1> QED
    BY <1>3 DEF HBInv, Verdicts, InCallback

\* Every report is of a race.
LEMMA AlarmStep ==
  ASSUME IInv, HBInv, NoFalseAlarm, Gated, NEW t \in Threads, HBThreadStep(t)
  PROVE  reported' \subseteq racy'
  <1>1. ASSUME NEW x \in Vars, ft_read(t, x), UNCHANGED <<seen, racy>>
        PROVE  reported' \subseteq racy'
    <2>1. pc[t] = "access" /\ Accessing(t, x, "read") /\ "read" \in Kinds /\ "write" \in Rivals("read")
      BY <1>1 DEF ft_read, InAccess, Accessing, Kind, Kinds, Rivals
    <2>2. AllRegistered /\ Support /\ Verdicts /\ Shadow /\ Distinct
      BY <2>1 DEF HBInv, Fresh, Verdicts, Gated, Distinct
    <2>3. Inside(t) /\ Self(t) \in TS
      BY <2>1, <2>2, InsideBacked DEF Inside
    <2>4. W[x] \in Epoch /\ Sound(x) /\ Valid(W[x])
      BY <2>2, BackedValid DEF IInv, TypeOK, Shadow, Sound
    <2>5. ASSUME NEW g, Unordered(W[x], Self(t), g)
          PROVE  x \in racy
      <3>1. ~KnowsOf(C[Self(t)], W[x])
        BY <2>3, <2>4, <2>5, Judged DEF Sound
      <3> QED
        BY <2>1, <2>3, <2>4, <3>1, Alarm DEF Sound
    <2> QED
      BY <1>1, <2>5 DEF ft_read, Report, NoFalseAlarm
  <1>2. ASSUME NEW x \in Vars, ft_write(t, x), UNCHANGED <<seen, racy>>
        PROVE  reported' \subseteq racy'
    <2>1. /\ pc[t] = "access" /\ call[t].on = x
          /\ call[t].do \in {"write", "vptr_read", "vptr_update"}
      BY <1>2 DEF ft_write, InAccess
    <2>2. AllRegistered /\ Support /\ Verdicts /\ Shadow /\ Distinct
      BY <2>1 DEF HBInv, Fresh, Verdicts, Gated, Distinct
    <2>3. Accessing(t, x, "write") /\ "write" \in Kinds /\ Rivals("write") = {"read", "write"}
      <3>1. Accessing(t, x, Kind(call[t].do)) /\ Kind(call[t].do) \in Kinds
        BY <2>1 DEF Accessing, Kind, Kinds
      <3>2. call[t].do # "vptr_read"
        BY <2>2, <3>1 DEF Verdicts, InCallback
      <3> QED
        BY <2>1, <3>1, <3>2 DEF Kind, Kinds, Rivals
    <2>4. Inside(t) /\ Self(t) \in TS
      BY <2>2, <2>3, InsideBacked DEF Inside
    <2>5. /\ W[x] \in Epoch /\ Sound(x) /\ Valid(W[x])
          /\ R[x] # READ_SHARED => R[x] \in Epoch /\ Valid(R[x])
      BY <2>2, BackedValid DEF IInv, TypeOK, Shadow, Sound
    <2>6. ASSUME NEW g, \/ Unordered(W[x], Self(t), g)
                        \/ IF R[x] = READ_SHARED THEN UnorderedRead(x, Self(t))
                                                 ELSE Unordered(R[x], Self(t), g)
          PROVE  x \in racy
      <3>1. CASE Unordered(W[x], Self(t), g)
        <4>1. ~KnowsOf(C[Self(t)], W[x])
          BY <2>4, <2>5, <3>1, Judged DEF Sound
        <4> QED
          BY <2>3, <2>4, <2>5, <4>1, Alarm DEF Sound
      <3>2. CASE R[x] # READ_SHARED /\ Unordered(R[x], Self(t), g)
        <4>1. ~KnowsOf(C[Self(t)], R[x])
          BY <2>4, <2>5, <3>2, Judged DEF Sound
        <4> QED
          BY <2>3, <2>4, <2>5, <3>2, <4>1, Alarm DEF Sound
      <3>3. CASE R[x] = READ_SHARED /\ UnorderedRead(x, Self(t))
        <4>1. PICK i \in Slots : ~KnowsOf(C[Self(t)], Slot(x, i))
          BY <2>2, <2>4, <3>3, JudgedReads
        <4> QED
          BY <2>3, <2>4, <2>5, <4>1, Alarm DEF Sound
      <3> QED
        BY <2>6, <3>1, <3>2, <3>3
    <2> QED
      BY <1>2, <2>6 DEF ft_write, Report, NoFalseAlarm
  <1>3. CASE UNCHANGED reported /\ racy \subseteq racy'
    BY <1>3 DEF NoFalseAlarm
  <1>4. \/ \E x \in Vars : (ft_read(t, x) \/ ft_write(t, x)) /\ UNCHANGED <<seen, racy>>
        \/ UNCHANGED reported /\ racy \subseteq racy'
    BY DEF HBThreadStep, RealAccess, PthreadCreate, PthreadJoin,
       PthreadMutexLock, PthreadMutexUnlock, Untracked, Access, getState, getVarState,
       getLockState, ft_fork_count, ft_fork, ft_join_test, ft_join_drop, ft_join, ft_acquire,
       ft_acquire_adopt, ft_release, ft_release_tick
  <1> QED
    BY <1>1, <1>2, <1>3, <1>4

LEMMA InitVerdictInv == HBInit => VerdictInv
  <1> SUFFICES ASSUME HBInit PROVE VerdictInv
    OBVIOUS
  <1>1. IInv
    BY InitIInv DEF HBInit
  <1>2. HBTypeOK
    BY DEF HBInit, HBTypeOK, Kinds
  <1>3. Support
    BY FS_EmptySet DEF HBInit, Init, Support
  <1>4. Fresh
    BY DEF HBInit, Init, Fresh, AllOrdered
  <1>5. NoFalseAlarm
    BY DEF HBInit, Init, NoFalseAlarm
  <1>6. Heirs
    BY ProgramAssumption DEF HBInit, Init, Heirs, Kinds, Knowers
  <1> QED
    BY <1>1, <1>2, <1>3, <1>4, <1>5, <1>6 DEF VerdictInv

\* Every step of a gated program's thread keeps the invariant.
LEMMA VerdictInvStep ==
  ASSUME VerdictInv, Gated, NEW t \in Threads, HBThreadStep(t)
  PROVE  VerdictInv'
  <1>1. IInv /\ NoFalseAlarm /\ (HBInv \/ Last) /\ ThreadStep(t) /\ HBTypeOK /\ Support /\ Heirs
    BY VerdictInvHB, RuntimeStep DEF VerdictInv
  <1>2. IInv'
    BY <1>1, NextIInv DEF Next
  <1>3. HBTypeOK' /\ Support' /\ Heirs'
    BY <1>1, HistoryStep, SupportStep, HeirsStep
  <1>4. NoFalseAlarm'
    BY <1>1, AlarmStep, LastStep DEF NoFalseAlarm
  <1>5. CASE Last
    <2>1. Last'
      BY <1>1, <1>5, LastStep
    <2> QED
      BY <1>2, <1>3, <1>4, <2>1 DEF VerdictInv
  <1>6. CASE ~Last /\ SolitaryAccess(t)
    <2>1. Fresh' \/ Last'
      BY <1>1, <1>6, SolitaryStep DEF VerdictInv
    <2> QED
      BY <1>2, <1>3, <1>4, <2>1 DEF VerdictInv
  <1>7. CASE ~Last /\ ~SolitaryAccess(t) /\ AllRegistered
    <2>0. HBInv
      BY <1>1, <1>7
    <2>1. AllRegistered'
      BY <1>1, <1>7, StaysRegistered
    <2>2. ASSUME ~AccessStep(t)
          PROVE  Verdicts'
      BY <1>1, <1>7, <2>0, <2>2, SyncStep
    <2>3. ASSUME NEW x \in Vars, NEW do \in Accesses, Access(t, x, do), RealAccess(t, x, do)
          PROVE  Verdicts'
      BY <1>1, <1>7, <2>0, <2>3, EntryStep DEF SolitaryAccess
    <2>4. ASSUME NEW x \in Vars, getVarState(t, x) \/ ft_read(t, x) \/ ft_write(t, x),
                 UNCHANGED <<seen, racy>>
          PROVE  Verdicts'
      <3>1. Distinct
        BY DEF Gated, Distinct
      <3> QED
        BY <1>1, <1>7, <2>0, <2>4, <3>1, NewWordStep, ReadStep, WriteStep
    <2>5. Verdicts'
      BY <2>2, <2>3, <2>4 DEF AccessStep
    <2> QED
      BY <1>2, <1>3, <1>4, <2>1, <2>5 DEF VerdictInv
  <1>8. CASE ~Last /\ ~SolitaryAccess(t) /\ ~AllRegistered
    <2>1. Fresh'
      BY <1>1, <1>8, FreshStep DEF VerdictInv
    <2> QED
      BY <1>2, <1>3, <1>4, <2>1 DEF VerdictInv
  <1> QED
    BY <1>5, <1>6, <1>7, <1>8

\* Steps that change nothing keep it too.
LEMMA VerdictInvIdle ==
  ASSUME VerdictInv, UNCHANGED hbvars
  PROVE  VerdictInv'
  <1>0. /\ UNCHANGED vars /\ UNCHANGED <<seen, racy>>
        /\ UNCHANGED <<life, step, holder, pc, call, TS, tid, C, epoch, NumThreads,
                       isConcurrent, LS, L, VS, W, R, Rvc, reported>>
    BY DEF hbvars, vars
  <1>1. IInv' /\ IInv /\ HBTypeOK /\ Support
    BY <1>0, NextIInv DEF VerdictInv
  <1>2. /\ HBTypeOK' /\ Support' /\ Heirs' /\ NoFalseAlarm'
        /\ Last => Last'
    BY <1>0 DEF VerdictInv, HBTypeOK, Support, Heirs, NoFalseAlarm, Last
  <1>3. Fresh => Fresh'
    BY <1>0 DEF Fresh, AllOrdered
  <1>4. ASSUME AllRegistered, Verdicts
        PROVE  AllRegistered' /\ Verdicts'
    <2>1. AllRegistered'
      BY <1>0, <1>4 DEF AllRegistered, Self
    <2>2. Main \in Threads /\ Main \in Knowers
      BY ProgramAssumption DEF Knowers
    <2>3. \A e, c : c \in Knowers => (Knows(c, e)' <=> Knows(c, e))
      BY <1>0 DEF Knows, KnowsOf, Self, Child
    <2>4. KnowledgePasses(Main, Main, TRUE)
      BY <2>2, <2>3, KnowledgeKept
    <2>5. OrderPasses(Main, Main, TRUE)
      BY <1>0, <2>2, OrderStays DEF Publishing
    <2>6. HandsOn
      BY <1>0, <1>4, <2>2, <2>4, <2>5, StaysHandsOn DEF Verdicts
    <2>7. Synchronizes
      BY <1>0, <2>6 DEF HandsOn, Synchronizes, Owner, KnowsOf, Fit, Settled, Own, Self
    <2>8. HBInv
      BY <1>1, <1>4 DEF HBInv
    <2>9. Verdicts'
      BY <1>1, <1>2, <1>4, <2>6, <2>7, <2>8, SyncKeeps DEF HandsOn, IInv, HBInv
    <2> QED
      BY <2>1, <2>9
  <1> QED
    BY <1>1, <1>2, <1>3, <1>4 DEF VerdictInv

LEMMA NextVerdictInv == VerdictInv /\ Gated /\ [HBNext]_hbvars => VerdictInv'
  <1> SUFFICES ASSUME VerdictInv, Gated, [HBNext]_hbvars
               PROVE  VerdictInv'
    OBVIOUS
  <1>1. ASSUME NEW t \in Threads, HBThreadStep(t)
        PROVE  VerdictInv'
    BY <1>1, VerdictInvStep
  <1>2. (Terminated /\ UNCHANGED <<seen, racy>>) => UNCHANGED hbvars
    BY DEF Terminated, hbvars
  <1> QED
    BY <1>1, <1>2, VerdictInvIdle DEF HBNext

\* In every reachable state of a gated program, clocks and shadow words agree
\* with what really happens before what.
THEOREM VerdictInvariance == HBSpec /\ []Gated => []VerdictInv
  BY InitVerdictInv, NextVerdictInv, PTL DEF HBSpec

\* README.md:9: ft_read and ft_write report only variables that have been
\* raced on, in any gated program under any schedule.
THEOREM Precise == HBSpec /\ []Gated => []NoFalseAlarm
  <1>1. VerdictInv => NoFalseAlarm
    BY DEF VerdictInv
  <1> QED
    BY <1>1, VerdictInvariance, PTL

\* README.md:32: when the callbacks of two racing accesses have returned, one
\* of them, or an earlier one, has reported the variable.
THEOREM Complete == HBSpec /\ []Gated => []NoMissedRace
  <1>0. Last => NoMissedRace
    BY DEF Last, NoMissedRace
  <1>1. HBInv => NoMissedRace
    <2> SUFFICES ASSUME HBInv, NEW x \in racy, x \notin reported
                 PROVE  \E t \in Threads : pc[t] = "access" /\ call[t].on = x
      BY DEF NoMissedRace
    <2>1. x \in Vars
      BY DEF HBInv, HBTypeOK
    <2> QED
      BY <2>1 DEF HBInv, Verdicts, Witnessed, Accessing
  <1> QED
    BY <1>0, <1>1, VerdictInvHB, VerdictInvariance, PTL

-----------------------------------------------------------------------------
(* What the shadow words forget, and what that shows.                      *)

\* A step that overwrites the write of a variable is an ft_write of it.
LEMMA Overwriting ==
  ASSUME IInv, NEW t \in Threads, HBThreadStep(t), NEW x \in VS, W'[x] # W[x]
  PROVE  x \in Vars /\ ft_write(t, x) /\ UNCHANGED <<seen, racy>>
  <1>1. x \in Vars /\ W \in [Vars -> Epoch]
    BY DEF IInv, TypeOK
  <1>2. PICK y \in Vars : /\ getVarState(t, y) \/ ft_write(t, y)
                          /\ UNCHANGED <<seen, racy>>
    BY DEF HBThreadStep, PthreadCreate, PthreadJoin, PthreadMutexLock, PthreadMutexUnlock,
       Untracked, Access, getState, getLockState, ft_read, ft_fork_count, ft_fork, ft_join_test,
       ft_join_drop, ft_join, ft_acquire, ft_acquire_adopt, ft_release, ft_release_tick, shadow
  <1>3. y = x
    BY <1>1, <1>2 DEF getVarState, ft_write
  <1> QED
    BY <1>1, <1>2, <1>3 DEF getVarState

\* A step that changes what is remembered of the reads, and not the write, is
\* an ft_read.
LEMMA Rereading ==
  ASSUME IInv, NEW t \in Threads, HBThreadStep(t), NEW x \in VS, W'[x] = W[x]
  PROVE  UNCHANGED <<R[x], Rvc[x]>> \/ ft_read(t, x)
  <1>1. /\ x \in Vars /\ W \in [Vars -> Epoch] /\ R \in [Vars -> Epoch \cup {READ_SHARED}]
        /\ Rvc \in [Vars -> VectorClock]
    BY DEF IInv, TypeOK
  <1>2. ASSUME NEW y \in Vars, getVarState(t, y)
        PROVE  UNCHANGED <<R[x], Rvc[x]>>
    BY <1>1, <1>2 DEF getVarState
  <1>3. ASSUME NEW y \in Vars, ft_write(t, y)
        PROVE  UNCHANGED <<R[x], Rvc[x]>>
    <2>1. CASE W[y] = EpochOf(Self(t))
      BY <1>3, <2>1 DEF ft_write
    <2>2. CASE W[y] # EpochOf(Self(t))
      BY <1>1, <1>3, <2>2 DEF ft_write
    <2> QED
      BY <2>1, <2>2
  <1>4. ASSUME NEW y \in Vars, ft_read(t, y), y # x
        PROVE  UNCHANGED <<R[x], Rvc[x]>>
    <2>1. CASE UNCHANGED <<R, Rvc>>
      BY <2>1
    <2>2. ASSUME NEW gR \in Garbage, RecordRead(y, Self(t), gR)
          PROVE  UNCHANGED <<R[x], Rvc[x]>>
      BY <1>1, <1>4, <2>2 DEF RecordRead
    <2> QED
      BY <1>4, <2>1, <2>2 DEF ft_read
  <1>5. \/ UNCHANGED <<R, Rvc>>
        \/ \E y \in Vars : getVarState(t, y) \/ ft_read(t, y) \/ ft_write(t, y)
    BY DEF HBThreadStep, PthreadCreate, PthreadJoin, PthreadMutexLock, PthreadMutexUnlock,
       Untracked, Access, getState, getLockState, ft_fork_count, ft_fork, ft_join_test,
       ft_join_drop, ft_join, ft_acquire, ft_acquire_adopt, ft_release, ft_release_tick, shadow
  <1> QED
    BY <1>2, <1>3, <1>4, <1>5

\* The words stand still while one thread is alone for good.
LEMMA LastWords ==
  ASSUME IInv, HBTypeOK, Last, NEW t \in Threads, HBThreadStep(t)
  PROVE  UNCHANGED <<W, R, Rvc>>
  <1>1. pc[t] # "access"
    BY DEF Last, Locking, IInv, Callbacks
  <1> QED
    BY <1>1 DEF HBThreadStep, PthreadCreate, PthreadJoin, PthreadMutexLock, PthreadMutexUnlock,
       Untracked, Access, getState, getVarState, getLockState, ft_read, ft_write, InAccess,
       ft_fork_count, ft_fork, ft_join_test, ft_join_drop, ft_join, ft_acquire,
       ft_acquire_adopt, ft_release, ft_release_tick, shadow

\* In an access callback all threads are registered, and the word is sound.
LEMMA InAccessKnown ==
  ASSUME IInv, HBInv, Gated, NEW t \in Threads, NEW x \in Vars, pc[t] = "access", call[t].on = x
  PROVE  /\ AllRegistered /\ Support /\ Distinct /\ Shadow /\ Inside(t)
         /\ Self(t) \in TS /\ EpochOf(Self(t)) \in Epoch /\ EpochOf(Self(t)).tid = tid[Self(t)]
         /\ EpochOf(Self(t)).clock = Own(Self(t))
  <1>1. AllRegistered /\ Support /\ Distinct /\ Verdicts
    BY DEF HBInv, Fresh, Gated, Distinct
  <1>2. Accessing(t, x, Kind(call[t].do)) /\ Kind(call[t].do) \in Kinds
    BY DEF Accessing, Kind, Kinds
  <1>3. Inside(t)
    BY <1>1, <1>2, InsideBacked
  <1> QED
    BY <1>1, <1>3, Alone DEF Verdicts, Inside, Fit, EpochOf

\* ft_write puts its epoch in the place of accesses its thread is ordered
\* after, or reports.
THEOREM WritesJudged == HBSpec /\ []Gated => OverwritesJudged
  <1> DEFINE Judge == \A x \in VS : W'[x] # W[x] =>
       \/ x \in reported'
       \/ \E h \in TS : /\ W'[x] = EpochOf(h)
                        /\ W[x].clock <= C[h].at[W[x].tid]
                        /\ \A i \in Slots : ReadAt(x, i) <= C[h].at[i]
  <1>1. ASSUME IInv, HBInv, Gated, NEW t \in Threads, HBThreadStep(t),
               NEW x \in VS, W'[x] # W[x], x \notin reported'
        PROVE  \E h \in TS : /\ W'[x] = EpochOf(h)
                             /\ W[x].clock <= C[h].at[W[x].tid]
                             /\ \A i \in Slots : ReadAt(x, i) <= C[h].at[i]
    <2> DEFINE h == Self(t)
    <2>1. x \in Vars /\ ft_write(t, x) /\ pc[t] = "access" /\ call[t].on = x
      BY <1>1, Overwriting DEF ft_write, InAccess
    <2>2. h \in TS /\ Shadow
      BY <1>1, <2>1, InAccessKnown
    <2>3. W[x] # EpochOf(h)
      BY <1>1, <2>1 DEF ft_write
    <2>4. /\ W'[x] = EpochOf(h) /\ KnowsOf(C[h], W[x])
          /\ \A f \in Reads(x) : KnowsOf(C[h], f)
      BY <1>1, <2>1, <2>2, <2>3, WriteJudges
    <2>5. /\ W[x] \in Epoch /\ R[x] \in Epoch \cup {READ_SHARED} /\ C[h] \in VectorClock
          /\ \A i \in Slots : C[h].at[i] \in Nat
      BY <1>1, <2>1, <2>2, Readings DEF IInv, TypeOK
    <2> HIDE DEF h
    <2>6. W[x].clock <= C[h].at[W[x].tid]
      BY <2>4, <2>5, EpochNumbers DEF KnowsOf
    <2>7. ASSUME NEW i \in Slots
          PROVE  ReadAt(x, i) <= C[h].at[i]
      <3>1. CASE R[x] = READ_SHARED
        <4>1. KnowsOf(C[h], Slot(x, i)) /\ ReadAt(x, i) = Slot(x, i).clock /\ Slot(x, i).tid = i
          BY <2>4, <3>1 DEF Reads, ReadAt, Slot
        <4> QED
          BY <2>5, <4>1 DEF KnowsOf
      <3>2. CASE R[x] # READ_SHARED
        <4>1. KnowsOf(C[h], R[x])
          BY <2>4, <3>2 DEF Reads
        <4> QED
          BY <2>5, <3>2, <4>1 DEF KnowsOf, ReadAt
      <3> QED
        BY <3>1, <3>2
    <2> QED
      BY <2>2, <2>4, <2>6, <2>7 DEF h
  <1>2. VerdictInv /\ Gated /\ [HBNext]_hbvars => [Judge]_vars
    <2> SUFFICES ASSUME VerdictInv, Gated, HBNext
                 PROVE  Judge \/ UNCHANGED vars
      BY DEF hbvars
    <2>1. CASE Terminated
      BY <2>1 DEF Terminated
    <2>2. ASSUME NEW t \in Threads, HBThreadStep(t)
          PROVE  Judge
      <3>1. IInv /\ HBTypeOK /\ (HBInv \/ Last)
        BY VerdictInvHB DEF VerdictInv
      <3>2. CASE HBInv
        BY <1>1, <2>2, <3>1, <3>2
      <3>3. CASE Last
        BY <2>2, <3>1, <3>3, LastWords
      <3> QED
        BY <3>1, <3>2, <3>3
    <2> QED
      BY <2>1, <2>2 DEF HBNext
  <1> QED
    BY <1>2, VerdictInvariance, PTL DEF HBSpec, OverwritesJudged

\* ft_read drops no read but those its thread is ordered after.
THEOREM ReadsKept == HBSpec /\ []Gated => ReadsRemembered
  <1> DEFINE Keep == \A x \in VS : W'[x] = W[x] =>
       \A i \in Slots :
         \/ ReadAt(x, i)' >= ReadAt(x, i)
         \/ \E h \in TS : R'[x] = EpochOf(h) /\ C[h].at[i] >= ReadAt(x, i)
  <1>1. ASSUME IInv, HBInv, Gated, NEW t \in Threads, HBThreadStep(t),
               NEW x \in VS, W'[x] = W[x], NEW i \in Slots
        PROVE  \/ ReadAt(x, i)' >= ReadAt(x, i)
               \/ \E h \in TS : R'[x] = EpochOf(h) /\ C[h].at[i] >= ReadAt(x, i)
    <2> DEFINE h == Self(t)
               e == EpochOf(h)
    <2>0. TypeOK' /\ TypeOK /\ x \in Vars
      BY <1>1, TypeStep, RuntimeStep DEF IInv, TypeOK
    <2>1. /\ R[x] \in Epoch \cup {READ_SHARED} /\ R'[x] \in Epoch \cup {READ_SHARED}
          /\ \A j \in Slots : Rvc[x].at[j] \in Nat /\ Rvc'[x].at[j] \in Nat
      BY <2>0 DEF TypeOK, VectorClock
    <2>2. ReadAt(x, i) \in Nat /\ ReadAt(x, i)' \in Nat
      BY <2>1 DEF ReadAt, Epoch
    <2>3. CASE UNCHANGED <<R[x], Rvc[x]>>
      BY <2>2, <2>3 DEF ReadAt
    <2>4. CASE ft_read(t, x)
      <3>1. pc[t] = "access" /\ call[t].on = x
        BY <2>4 DEF ft_read, InAccess
      <3>2. /\ AllRegistered /\ Support /\ Distinct /\ Shadow /\ Inside(t)
            /\ h \in TS /\ e \in Epoch /\ e.tid = tid[h] /\ e.clock = Own(h)
        BY <1>1, <2>0, <3>1, InAccessKnown
      <3>3. ReadKept(t, x)
        BY <1>1, <2>0, <2>4, <3>2, ReadingKeeps
      <3>4. /\ R'[x] = READ_SHARED \/ R'[x] = e
            /\ R'[x] = READ_SHARED => \A j \in Slots : j = e.tid => Slot(x, j)' = e
            /\ \A f \in Reads(x) :
                 \/ R'[x] = f
                 \/ R'[x] = READ_SHARED /\ Slot(x, f.tid)' = f
                 \/ KnowsOf(C[h], f) /\ (R'[x] = e \/ f.tid = e.tid)
        BY <3>3 DEF ReadKept
      <3>5. \A j \in Slots : C[h].at[j] \in Nat
        BY <1>1, <3>2, Readings
      <3> HIDE DEF e, h
      <3>6. CASE ReadAt(x, i) = 0
        BY <2>2, <3>6
      <3>7. CASE ReadAt(x, i) # 0
        <4>1. PICK f \in Reads(x) : f.tid = i /\ f.clock = ReadAt(x, i) /\ f \in Epoch
          <5>1. CASE R[x] = READ_SHARED
            <6>1. Slot(x, i) \in Epoch /\ Slot(x, i).tid = i /\ Slot(x, i).clock = ReadAt(x, i)
              BY <2>1, <5>1 DEF Slot, Epoch, ReadAt
            <6> QED
              BY <5>1, <6>1 DEF Reads
          <5>2. CASE R[x] # READ_SHARED
            BY <2>1, <3>7, <5>2 DEF Reads, ReadAt
          <5> QED
            BY <5>1, <5>2
        <4>2. CASE R'[x] = f
          BY <2>2, <4>1, <4>2, ReadSharedAssumption DEF ReadAt
        <4>3. CASE R'[x] = READ_SHARED /\ Slot(x, f.tid)' = f
          <5>1. ReadAt(x, i)' = f.clock
            BY <4>1, <4>3 DEF ReadAt, Slot
          <5> QED
            BY <2>2, <4>1, <5>1
        <4>4. CASE KnowsOf(C[h], f) /\ R'[x] = e
          <5>1. f.clock <= C[h].at[i]
            BY <3>7, <4>1, <4>4 DEF KnowsOf
          <5> QED
            BY <2>2, <3>2, <3>5, <4>1, <4>4, <5>1 DEF e
        <4>5. CASE KnowsOf(C[h], f) /\ R'[x] = READ_SHARED /\ f.tid = e.tid
          <5>1. f.clock <= C[h].at[i] /\ C[h].at[i] = e.clock
            BY <3>2, <3>7, <4>1, <4>5 DEF KnowsOf, Own
          <5>2. ReadAt(x, i)' = e.clock
            BY <3>4, <4>1, <4>5 DEF ReadAt, Slot
          <5> QED
            BY <2>2, <4>1, <5>1, <5>2
        <4> QED
          BY <3>4, <4>1, <4>2, <4>3, <4>4, <4>5
      <3> QED
        BY <3>6, <3>7
    <2> QED
      BY <1>1, <2>3, <2>4, Rereading
  <1>2. VerdictInv /\ Gated /\ [HBNext]_hbvars => [Keep]_vars
    <2> SUFFICES ASSUME VerdictInv, Gated, HBNext
                 PROVE  Keep \/ UNCHANGED vars
      BY DEF hbvars
    <2>1. CASE Terminated
      BY <2>1 DEF Terminated
    <2>2. ASSUME NEW t \in Threads, HBThreadStep(t)
          PROVE  Keep
      <3>1. IInv /\ HBTypeOK /\ (HBInv \/ Last)
        BY VerdictInvHB DEF VerdictInv
      <3>2. CASE HBInv
        BY <1>1, <2>2, <3>1, <3>2
      <3>3. CASE Last
        <4>1. \A x \in VS, i \in Slots : ReadAt(x, i) \in Nat
          BY <3>1 DEF IInv, TypeOK, ReadAt, Epoch, VectorClock
        <4>2. UNCHANGED <<R, Rvc>>
          BY <2>2, <3>1, <3>3, LastWords
        <4> QED
          BY <4>1, <4>2 DEF ReadAt
      <3> QED
        BY <3>1, <3>2, <3>3
    <2> QED
      BY <2>1, <2>2 DEF HBNext
  <1> QED
    BY <1>2, VerdictInvariance, PTL DEF HBSpec, ReadsRemembered

-----------------------------------------------------------------------------
(* RaceDetector, step by step.                                             *)

\* A step of a thread that changes what has raced is an access, one that
\* changes what is reported is ft_read or ft_write: no step does both.
LEMMA DetectorMove ==
  ASSUME NEW t \in Threads, HBThreadStep(t)
  PROVE  \/ UNCHANGED <<racy, reported>>
         \/ UNCHANGED reported /\ \E x \in Vars : racy' = racy \cup {x}
         \/ UNCHANGED racy /\ \E x \in Vars : reported' = reported \cup {x}
  <1>1. ASSUME NEW x \in Vars, ft_read(t, x) \/ ft_write(t, x), UNCHANGED racy
        PROVE  UNCHANGED <<racy, reported>> \/ reported' = reported \cup {x}
    <2>1. ASSUME NEW b, Report(x, b)
          PROVE  UNCHANGED reported \/ reported' = reported \cup {x}
      BY <2>1 DEF Report
    <2> QED
      BY <1>1, <2>1 DEF ft_read, ft_write
  <1>2. ASSUME NEW x \in Vars, NEW do \in Accesses, Access(t, x, do), RealAccess(t, x, do)
        PROVE  UNCHANGED reported /\ (UNCHANGED racy \/ racy' = racy \cup {x})
    BY <1>2 DEF Access, RealAccess
  <1>3. \/ UNCHANGED <<racy, reported>>
        \/ \E x \in Vars : (ft_read(t, x) \/ ft_write(t, x)) /\ UNCHANGED racy
        \/ \E x \in Vars, do \in Accesses : Access(t, x, do) /\ RealAccess(t, x, do)
    BY DEF HBThreadStep, PthreadCreate, PthreadJoin, PthreadMutexLock, PthreadMutexUnlock,
       Untracked, getState, getVarState, getLockState, ft_fork_count, ft_fork, ft_join_test,
       ft_join_drop, ft_join, ft_acquire, ft_acquire_adopt, ft_release, ft_release_tick
  <1> QED
    BY <1>1, <1>2, <1>3

\* The runtime takes the steps of RaceDetector and none else: the safety half
\* of IsDetector (README.md:32), the other half being that it gets there.
THEOREM DetectorSteps ==
  HBSpec /\ []Gated => Detector!Init /\ [][Detector!Next]_(Detector!vars)
  <1>1. HBInit => Detector!Init
    BY DEF HBInit, Init, Detector!Init
  <1>2. NoFalseAlarm /\ NoFalseAlarm' /\ [HBNext]_hbvars => [Detector!Next]_(Detector!vars)
    <2> SUFFICES ASSUME NoFalseAlarm, NoFalseAlarm', [HBNext]_hbvars
                 PROVE  Detector!Next \/ UNCHANGED <<racy, reported>>
      BY DEF Detector!vars
    <2>1. CASE UNCHANGED hbvars \/ (Terminated /\ UNCHANGED <<seen, racy>>)
      BY <2>1 DEF hbvars, vars, Terminated
    <2>2. ASSUME NEW t \in Threads, HBThreadStep(t)
          PROVE  Detector!Next \/ UNCHANGED <<racy, reported>>
      <3>1. ASSUME NEW x \in Vars, UNCHANGED racy, reported' = reported \cup {x}
            PROVE  Detector!Report(x)
        BY <3>1 DEF NoFalseAlarm, Detector!Report
      <3> QED
        BY <2>2, <3>1, DetectorMove DEF Detector!Next, Detector!Access
    <2> QED
      BY <2>1, <2>2 DEF HBNext
  <1> QED
    BY <1>1, <1>2, Precise, PTL DEF HBSpec

(***************************************************************************)
(* Programs that register their threads first are gated, proved for any    *)
(* number of threads, mutexes and variables and any schedule: what the     *)
(* verdicts take for granted follows from the program's text.              *)
(***************************************************************************)
\* The mutex, the step of the first create and the step after the last that
\* RegistersFirst speaks of.
Choice == CHOOSE c \in Locks \X Nat \X Nat :
            CreatesHolding(c[1], c[2], c[3]) /\ PassThrough(c[1], c[3])

Gate  == Choice[1]
First == Choice[2]
Opens == Choice[3]

(***************************************************************************)
(* The inductive invariant, of a program that registers its threads first. *)
(***************************************************************************)
\* The callback a thread is in is for its present step.
InCall(t) ==
  pc[t] # "run" =>
    /\ step[t] \in DOMAIN Program[t] /\ call[t] \in Program[t][step[t]]
    /\ pc[t] \in {"create", "fork"} => call[t].do = "create" /\ life[call[t].on] # "unborn"
    /\ pc[t] \in {"join", "drop", "joined"} => call[t].do = "join"
    /\ pc[t] \in {"acquire", "adopt"} => call[t].do = "lock"
    /\ pc[t] \in {"release", "tick"} => call[t].do = "unlock"
    /\ pc[t] = "access" => call[t].do \in Accesses
    /\ pc[t] = "waiting" => call[t].do = "cond_wait"

\* Main is still creating, and nobody else has got past Gate.
Waiting ==
  /\ step[Main] < Opens => \A u \in Threads \ {Main} : pc[u] = "run" /\ step[u] = 1
  /\ First <= step[Main] /\ step[Main] < Opens => holder[Gate] = Main

\* How far the creation of thread u, which is step i, has got.
Creation(i, u) ==
  /\ step[Main] > i => life[u] # "unborn" /\ Self(u) \in TS /\ Self(Main) \in TS
  /\ life[u] # "unborn" => \/ step[Main] > i
                           \/ step[Main] = i /\ pc[Main] \in {"create", "fork"}

Births ==
  /\ life[Main] = "running"
  /\ \A i \in First .. Opens - 1, u \in Threads : Creates(i, u) => Creation(i, u)
  /\ \A h \in TS : \E u \in Threads : h = Self(u) /\ life[u] # "unborn"

ControlInv ==
  (\A t \in Threads : InCall(t)) /\ Waiting /\ Births

\* While Main creates, every vector reaches all threads and no further, and
\* nobody else's clock has moved.
FirstClocks ==
  /\ \A h \in TS : \/ C[h].size = Cardinality(TS)
                   \/ TS = {Self(Main)} /\ C[h].size <= 2
  /\ \A m \in LS : L[m].size <= 2
  /\ \A u \in Threads \ {Main} : Self(u) \in TS => epoch[Self(u)] = 1 /\ Own(Self(u)) = 1

\* defs.h:71 "invariant: epoch == C[tid]" holds between callbacks.
InStep(t) ==
  Self(t) \in TS => \/ epoch[Self(t)] = Own(Self(t))
                    \/ pc[t] \in {"create", "fork", "adopt", "tick"}

\* The last thread created has the highest index, all others have clocks
\* within every vector.
Ages ==
  /\ First < step[Main] /\ step[Main] < Opens => Own(Self(Main)) >= 1
  /\ \A u \in Threads :
       IF Creates(Opens - 1, u)
       THEN Self(u) \in TS => tid[Self(u)] = Cardinality(TS)
       ELSE step[Main] >= Opens => Settled(Self(u)) /\ tid[Self(u)] < Cardinality(TS)

GateInv ==
  /\ ControlInv
  /\ (step[Main] < Opens => FirstClocks) /\ (\A t \in Threads : InStep(t)) /\ Ages
  /\ step[Main] <= First => AllOrdered

-----------------------------------------------------------------------------
(* What the program's text says of a step.                                 *)

LEMMA Chosen ==
  ASSUME RegistersFirst
  PROVE  /\ Gate \in Locks /\ First \in Nat /\ Opens \in Nat /\ Distinct
         /\ CreatesHolding(Gate, First, Opens) /\ PassThrough(Gate, Opens)
  <1>1. Len(Program[Main]) \in Nat
    BY ProgramAssumption
  <1>2. PICK g \in Locks, f, q \in 1 .. Len(Program[Main]) + 1 :
          CreatesHolding(g, f, q) /\ PassThrough(g, q)
    BY DEF RegistersFirst
  <1>3. <<g, f, q>> \in Locks \X Nat \X Nat
    BY <1>1, <1>2
  <1>4. \E c \in Locks \X Nat \X Nat : CreatesHolding(c[1], c[2], c[3]) /\ PassThrough(c[1], c[3])
    BY <1>2, <1>3
  <1>5. Choice \in Locks \X Nat \X Nat /\ CreatesHolding(Gate, First, Opens) /\ PassThrough(Gate, Opens)
    BY <1>4 DEF Choice, Gate, First, Opens
  <1> QED
    BY <1>5 DEF Gate, First, Opens, RegistersFirst, Distinct

\* What Main may do at step i.
LEMMA MainOps ==
  ASSUME RegistersFirst,
         NEW i \in DOMAIN Program[Main], NEW op \in Program[Main][i]
  PROVE  /\ op.do \in {"create", "lock", "unlock", "trylock", "join", "read", "write", "vptr_update"}
         /\ op.do = "create" <=> First <= i /\ i < Opens
         /\ op.do = "create" => Creates(i, op.on) /\ op.on \in Threads \ {Main}
         /\ op.do = "join" => i >= Opens /\ op.on \in Threads \ {Main}
         /\ op.do = "trylock" => i < First
         /\ i = First - 1 => op.do \in {"lock", "trylock"} /\ op.on = Gate
  <1>1. i \in Nat /\ i >= 1 /\ i <= Len(Program[Main]) /\ Len(Program[Main]) \in Nat
    BY ProgramAssumption
  <1>2. CASE i < First
    <2>1. op \in MutexOps \cup MemoryOps \cup [do : {"trylock"}, on : Locks]
      <3>1. i \in 1 .. First - 1
        BY <1>1, <1>2, Chosen
      <3> QED
        BY <3>1, Chosen DEF CreatesHolding
    <2>2. i = First - 1 => op \in [do : {"lock", "trylock"}, on : {Gate}]
      BY Chosen DEF CreatesHolding
    <2> QED
      BY <1>1, <1>2, <2>1, <2>2, Chosen DEF MutexOps, MemoryOps, CreatesHolding
  <1>3. CASE First <= i /\ i < Opens
    <2>1. PICK u \in Threads \ {Main} : Creates(i, u)
      BY <1>1, <1>3, Chosen DEF CreatesHolding
    <2>2. op = [do |-> "create", on |-> u]
      BY <2>1 DEF Creates
    <2> QED
      BY <1>1, <1>3, <2>1, <2>2, Chosen
  <1>4. CASE i >= Opens
    <2>1. op \in MutexOps \cup MemoryOps \cup [do : {"join"}, on : Threads \ {Main}]
      BY <1>1, <1>4, Chosen DEF CreatesHolding
    <2>2. First < Opens /\ i # First - 1
      BY <1>1, <1>4, Chosen DEF CreatesHolding
    <2> QED
      BY <1>1, <1>4, <2>1, <2>2, Chosen DEF MutexOps, MemoryOps
  <1> QED
    BY <1>1, <1>2, <1>3, <1>4, Chosen

\* What any other thread may do.
LEMMA WorkerOps ==
  ASSUME RegistersFirst, NEW u \in Threads \ {Main},
         NEW i \in DOMAIN Program[u], NEW op \in Program[u][i]
  PROVE  /\ op.do \in {"lock", "unlock", "read", "write", "vptr_update"}
         /\ i = 1 => op.do = "lock" /\ op.on = Gate
         /\ op.do \in Accesses => ~Creates(Opens - 1, u)
  <1>1. op \in MutexOps \cup (IF Creates(Opens - 1, u) THEN {} ELSE MemoryOps)
    BY Chosen DEF PassThrough
  <1>2. i = 1 => op \in [do : {"lock"}, on : {Gate}]
    BY Chosen DEF PassThrough
  <1> QED
    BY <1>1, <1>2 DEF MutexOps, MemoryOps, Accesses

\* Every other thread is created at one step of Main, no two at the same.
LEMMA CreateSteps ==
  ASSUME RegistersFirst
  PROVE  /\ 1 < First /\ First + 1 < Opens
         /\ \A u \in Threads \ {Main} : \E i \in First .. Opens - 1 : Creates(i, u)
         /\ \A i, j \in First .. Opens - 1, u \in Threads : Creates(i, u) /\ Creates(j, u) => i = j
         /\ \A i \in First .. Opens - 1, u, v \in Threads : Creates(i, u) /\ Creates(i, v) => u = v
         /\ \A i \in First .. Opens - 1, u \in Threads : Creates(i, u) => u # Main
  <1>1. ASSUME NEW i, NEW u, NEW v, Creates(i, u), Creates(i, v)
        PROVE  u = v
    <2>1. [do |-> "create", on |-> u] = [do |-> "create", on |-> v]
      BY <1>1 DEF Creates
    <2> QED
      BY <2>1
  <1>2. \A i \in First .. Opens - 1 : \E u \in Threads \ {Main} : Creates(i, u)
    BY Chosen DEF CreatesHolding
  <1>3. \A i, j \in First .. Opens - 1, u \in Threads : Creates(i, u) /\ Creates(j, u) => i = j
    BY Chosen DEF CreatesHolding, Creates
  <1>4. /\ 1 < First /\ First + 1 < Opens
        /\ \A u \in Threads \ {Main} : \E i \in First .. Opens - 1 : Creates(i, u)
    BY Chosen DEF CreatesHolding
  <1> QED
    BY <1>1, <1>2, <1>3, <1>4

\* A thread about to perform an operation performs one of its present step.
LEMMA AboutTo ==
  ASSUME TypeOK, NEW t \in Threads, NEW op, Performs(t, op)
  PROVE  /\ life[t] = "running" /\ pc[t] = "run"
         /\ step[t] \in DOMAIN Program[t] /\ op \in Program[t][step[t]]
  <1>1. step[t] \in Nat \ {0} /\ Program[t] \in Seq(SUBSET Op)
    BY ProgramAssumption DEF TypeOK
  <1> QED
    BY <1>1 DEF Performs

-----------------------------------------------------------------------------
(* Control.                                                                *)

\* Who can be where.
LEMMA Whereabouts ==
  ASSUME TypeOK, RegistersFirst, ControlInv,
         NEW t \in Threads
  PROVE  /\ pc[t] \in {"create", "fork"} =>
              /\ t = Main /\ step[Main] \in First .. Opens - 1
              /\ call[t].on \in Threads \ {Main} /\ Creates(step[Main], call[t].on)
         /\ pc[t] \in {"join", "drop", "joined"} =>
              t = Main /\ step[Main] >= Opens /\ call[t].on \in Threads \ {Main}
         /\ pc[t] # "waiting"
         /\ t # Main => pc[t] \in {"run", "acquire", "adopt", "release", "tick", "access"}
         /\ step[Main] < Opens => t = Main \/ (pc[t] = "run" /\ step[t] = 1)
  <1>1. InCall(t) /\ step[Main] \in Nat /\ step[t] \in Nat /\ First \in Nat /\ Opens \in Nat
    BY Chosen, ProgramAssumption DEF ControlInv, TypeOK
  <1>2. pc[t] \in {"run", "waiting"} \cup CallbackPoints
    BY DEF TypeOK
  <1>3. step[Main] < Opens => t = Main \/ (pc[t] = "run" /\ step[t] = 1)
    BY DEF ControlInv, Waiting
  <1>4. CASE pc[t] = "run"
    BY <1>3, <1>4
  <1>5. CASE pc[t] # "run" /\ t = Main
    <2>1. PICK i \in DOMAIN Program[Main] : i = step[Main] /\ call[t] \in Program[Main][i]
      BY <1>1, <1>5 DEF InCall
    <2>2. /\ call[t].do # "cond_wait"
          /\ call[t].do = "create" <=> First <= step[Main] /\ step[Main] < Opens
          /\ call[t].do = "create" => Creates(step[Main], call[t].on) /\ call[t].on \in Threads \ {Main}
          /\ call[t].do = "join" => step[Main] >= Opens /\ call[t].on \in Threads \ {Main}
      BY <2>1, MainOps
    <2>3. step[Main] \in First .. Opens - 1 <=> First <= step[Main] /\ step[Main] < Opens
      BY <1>1
    <2> QED
      BY <1>1, <1>5, <2>2, <2>3 DEF InCall
  <1>6. CASE pc[t] # "run" /\ t # Main
    <2>1. PICK i \in DOMAIN Program[t] : call[t] \in Program[t][i]
      BY <1>1, <1>6 DEF InCall
    <2>2. call[t].do \in {"lock", "unlock", "read", "write", "vptr_update"}
      BY <1>6, <2>1, WorkerOps
    <2> QED
      BY <1>1, <1>2, <1>3, <1>6, <2>2 DEF InCall, CallbackPoints
  <1> QED
    BY <1>4, <1>5, <1>6

\* While Main creates, nobody else takes a step: it would have to lock Gate.
LEMMA MainAlone ==
  ASSUME TypeOK, RegistersFirst,
         ControlInv, step[Main] < Opens, NEW t \in Threads, ThreadStep(t)
  PROVE  t = Main
  <1> SUFFICES ASSUME t # Main PROVE FALSE
    OBVIOUS
  <1>1. pc[t] = "run" /\ step[t] = 1
    BY Whereabouts
  <1>2. ASSUME NEW op, Performs(t, op)
        PROVE  op.do = "lock" /\ op.on = Gate /\ holder[Gate] = Main
    <2>1. life[t] = "running"
      BY <1>2, AboutTo
    <2>2. PICK i \in DOMAIN Program[t] : i = 1 /\ op \in Program[t][i]
      BY <1>1, <1>2, AboutTo
    <2>3. op.do = "lock" /\ op.on = Gate
      BY <2>2, WorkerOps
    <2>4. PICK k \in First .. Opens - 1 : Creates(k, t)
      BY CreateSteps
    <2>5. Creation(k, t) /\ step[Main] \in Nat
      BY <2>4, ProgramAssumption DEF ControlInv, Births, TypeOK
    <2>6. step[Main] >= k /\ k >= First
      BY <2>1, <2>5, Chosen DEF Creation
    <2> QED
      BY <2>5, <2>3, <2>6, Chosen DEF ControlInv, Waiting
  <1>3. \A u \in Threads : ~PthreadCreate(t, u) /\ ~PthreadJoin(t, u)
    BY <1>2 DEF PthreadCreate, PthreadJoin
  <1>4. \A m \in Locks : /\ ~PthreadMutexLock(t, m) /\ ~PthreadMutexUnlock(t, m)
                         /\ ~Untracked(t, m) /\ ~getLockState(t, m)
    BY <1>1, <1>2, ProgramAssumption
    DEF PthreadMutexLock, PthreadMutexUnlock, Untracked, getLockState
  <1>5. \A x \in Vars : /\ \A do \in Accesses : ~Access(t, x, do)
                        /\ ~getVarState(t, x) /\ ~ft_read(t, x) /\ ~ft_write(t, x)
    BY <1>1, <1>2 DEF Access, Accesses, getVarState, ft_read, ft_write, InAccess
  <1>6. \A h \in Handles : ~getState(t, h)
    BY <1>1 DEF getState, Wanted
  <1> QED
    BY <1>1, <1>3, <1>4, <1>5, <1>6 DEF ThreadStep, ft_fork_count, ft_fork, ft_join_test,
       ft_join_drop, ft_join, ft_acquire, ft_acquire_adopt, ft_release, ft_release_tick

\* How a callback is entered, for which operation, and how it goes on.
Entries == {<<"create", "create">>, <<"join", "join">>, <<"lock", "acquire">>,
            <<"unlock", "release">>, <<"cond_wait", "waiting">>}
             \cup (Accesses \X {"access"})

Passages == {<<"create", "fork">>, <<"join", "drop">>, <<"join", "joined">>,
             <<"drop", "joined">>, <<"acquire", "adopt">>, <<"release", "tick">>}

\* A step moves its own thread alone: nowhere, into a callback, on in it, or
\* to the program's next step.
LEMMA Strides ==
  ASSUME TypeOK, NEW t \in Threads, ThreadStep(t)
  PROVE  /\ \A v \in Threads \ {t} : UNCHANGED <<pc[v], call[v], step[v]>>
         /\ \/ UNCHANGED <<pc[t], call[t], step[t]>>
            \/ pc'[t] = "run" /\ step'[t] = step[t] + 1
            \/ /\ UNCHANGED step[t] /\ Performs(t, call'[t])
               /\ <<call'[t].do, pc'[t]>> \in Entries
            \/ UNCHANGED <<call[t], step[t]>> /\ <<pc[t], pc'[t]>> \in Passages
  <1> DEFINE Stride == \/ UNCHANGED <<pc[t], call[t], step[t]>>
                       \/ pc'[t] = "run" /\ step'[t] = step[t] + 1
                       \/ /\ UNCHANGED step[t] /\ Performs(t, call'[t])
                          /\ <<call'[t].do, pc'[t]>> \in Entries
                       \/ UNCHANGED <<call[t], step[t]>> /\ <<pc[t], pc'[t]>> \in Passages
             Others == \A v \in Threads \ {t} : UNCHANGED <<pc[v], call[v], step[v]>>
  <1> SUFFICES Stride /\ Others
    OBVIOUS
  <1>1. CASE UNCHANGED <<pc, call, step>>
    BY <1>1
  <1>2. CASE Return(t)
    BY <1>2 DEF Return, TypeOK
  <1>3. ASSUME NEW op, NEW point, Performs(t, op), Enter(t, point, op), UNCHANGED step,
               <<op.do, point>> \in Entries
        PROVE  Stride /\ Others
    <2>1. /\ pc'[t] = point /\ call'[t] = op
          /\ \A v \in Threads \ {t} : UNCHANGED <<pc[v], call[v]>>
      BY <1>3 DEF Enter, TypeOK
    <2> QED
      BY <1>3, <2>1
  <1>4. ASSUME NEW point, Goto(t, point), UNCHANGED step, <<pc[t], point>> \in Passages
        PROVE  Stride /\ Others
    BY <1>4 DEF Goto, TypeOK
  <1>5. ASSUME NEW u \in Threads, PthreadCreate(t, u) \/ PthreadJoin(t, u)
        PROVE  Stride /\ Others
    <2>1. PICK do \in {"create", "join"} :
            /\ Performs(t, [do |-> do, on |-> u]) /\ Enter(t, do, [do |-> do, on |-> u])
            /\ UNCHANGED step
      BY <1>5 DEF PthreadCreate, PthreadJoin
    <2>2. <<[do |-> do, on |-> u].do, do>> \in Entries
      BY DEF Entries
    <2> QED
      BY <1>3, <2>1, <2>2
  <1>6. ASSUME NEW m \in Locks, PthreadMutexLock(t, m) \/ PthreadMutexUnlock(t, m)
        PROVE  Stride /\ Others
    <2>1. PICK e \in {<<"lock", "acquire">>, <<"unlock", "release">>} :
            /\ Performs(t, [do |-> e[1], on |-> m]) /\ Enter(t, e[2], [do |-> e[1], on |-> m])
            /\ UNCHANGED step
      BY <1>6 DEF PthreadMutexLock, PthreadMutexUnlock
    <2>2. <<[do |-> e[1], on |-> m].do, e[2]>> \in Entries
      BY DEF Entries
    <2> QED
      BY <1>3, <2>1, <2>2
  <1>7. ASSUME NEW m \in Locks, Untracked(t, m)
        PROVE  Stride /\ Others
    <2> DEFINE op == [do |-> "cond_wait", on |-> m]
    <2>1. Return(t) \/ (Performs(t, op) /\ Enter(t, "waiting", op) /\ UNCHANGED step)
      BY <1>7 DEF Untracked
    <2>2. <<op.do, "waiting">> \in Entries
      BY DEF Entries
    <2> QED
      BY <1>2, <1>3, <2>1, <2>2
  <1>8. ASSUME NEW x \in Vars, NEW do \in Accesses, Access(t, x, do)
        PROVE  Stride /\ Others
    <2> DEFINE op == [do |-> do, on |-> x]
    <2>1. Return(t) \/ (Performs(t, op) /\ Enter(t, "access", op) /\ UNCHANGED step)
      BY <1>8 DEF Access
    <2>2. <<op.do, "access">> \in Entries
      BY DEF Entries
    <2> QED
      BY <1>2, <1>3, <2>1, <2>2
  <1>9. CASE ft_fork_count(t) \/ ft_join_test(t) \/ ft_join_drop(t) \/ ft_acquire(t) \/ ft_release(t)
    <2>1. PICK p \in {"fork", "drop", "joined", "adopt", "tick"} :
            Goto(t, p) /\ UNCHANGED step /\ <<pc[t], p>> \in Passages
      BY <1>9 DEF ft_fork_count, ft_join_test, ft_join_drop, ft_acquire, ft_release,
         program, Passages
    <2> QED
      BY <1>4, <2>1
  <1>10. /\ \A h \in Handles : getState(t, h) => UNCHANGED <<pc, call, step>>
         /\ \A m \in Locks : getLockState(t, m) => UNCHANGED <<pc, call, step>>
         /\ \A x \in Vars : /\ getVarState(t, x) => UNCHANGED <<pc, call, step>>
                            /\ ft_read(t, x) \/ ft_write(t, x) => Return(t)
         /\ ft_fork(t) \/ ft_join(t) \/ ft_acquire_adopt(t) \/ ft_release_tick(t) => Return(t)
    BY DEF getState, getLockState, getVarState, control, program, ft_read, ft_write, ft_fork,
       ft_join, ft_acquire_adopt, ft_release_tick
  <1> HIDE DEF Stride, Others
  <1> QED
    BY <1>1, <1>2, <1>5, <1>6, <1>7, <1>8, <1>9, <1>10 DEF ThreadStep

\* A thread's life changes by its creation and when it is joined.
LEMMA Lives ==
  ASSUME TypeOK, NEW t \in Threads, ThreadStep(t)
  PROVE  \/ UNCHANGED life
         \/ \E u \in Threads : PthreadCreate(t, u) /\ life' = [life EXCEPT ![u] = "running"]
         \/ \E u \in Threads : PthreadJoin(t, u) /\ life' = [life EXCEPT ![u] = "joined"]
  BY DEF ThreadStep, PthreadCreate, PthreadJoin, PthreadMutexLock, PthreadMutexUnlock,
     Untracked, Access, getState, getLockState, getVarState, ft_read, ft_write, ft_fork_count,
     ft_fork, ft_join_test, ft_join_drop, ft_join, ft_acquire, ft_acquire_adopt, ft_release,
     ft_release_tick, program

\* InCall survives every step of every thread.
LEMMA InCallStep ==
  ASSUME IInv, \A u \in Threads : InCall(u), NEW t \in Threads, ThreadStep(t),
         NEW s \in Threads
  PROVE  InCall(s)'
  <1>0. TypeOK /\ Callbacks
    BY DEF IInv
  <1>1. ASSUME NEW u \in Threads, life[u] # "unborn"
        PROVE  life'[u] # "unborn"
    <2>1. CASE UNCHANGED life
      BY <1>1, <2>1
    <2>2. ASSUME NEW v \in Threads, NEW l \in {"running", "joined"}, life' = [life EXCEPT ![v] = l]
          PROVE  life'[u] # "unborn"
      BY <1>0, <1>1, <2>2 DEF TypeOK
    <2> QED
      BY <1>0, <2>1, <2>2, Lives
  <1>2. CASE UNCHANGED <<pc[s], call[s], step[s]>>
    BY <1>0, <1>1, <1>2 DEF InCall, Callbacks
  <1>3. CASE s = t /\ pc'[t] = "run"
    BY <1>3 DEF InCall
  <1>4. CASE /\ s = t /\ UNCHANGED step[t] /\ Performs(t, call'[t])
             /\ <<call'[t].do, pc'[t]>> \in Entries
    <2>1. step[t] \in DOMAIN Program[t] /\ call'[t] \in Program[t][step[t]] /\ pc[t] = "run"
      BY <1>0, <1>4, AboutTo
    <2>2. pc'[t] = "create" => life'[call'[t].on] # "unborn"
      <3>1. SUFFICES ASSUME pc'[t] = "create"
                     PROVE  life'[call'[t].on] # "unborn"
        OBVIOUS
      <3>2. PICK u \in Threads : PthreadCreate(t, u)
        BY <1>0, <2>1, <3>1, Moves DEF Arrives
      <3> QED
        BY <1>0, <3>2 DEF PthreadCreate, Enter, TypeOK
    <2> QED
      BY <1>4, <2>1, <2>2 DEF InCall, Entries
  <1>5. CASE s = t /\ UNCHANGED <<call[t], step[t]>> /\ <<pc[t], pc'[t]>> \in Passages
    <2>1. pc[t] = "create" => life'[call[t].on] # "unborn"
      BY <1>0, <1>1 DEF InCall, Callbacks
    <2> QED
      BY <1>5, <2>1 DEF InCall, Passages
  <1> QED
    BY <1>0, <1>2, <1>3, <1>4, <1>5, Strides

\* Where Main is before it has created all threads: its calls are those of
\* the prelude, or creates.
LEMMA Prelude ==
  ASSUME TypeOK, RegistersFirst, ControlInv, step[Main] < Opens
  PROVE  /\ pc[Main] \in {"run", "create", "fork", "acquire", "adopt", "release", "tick", "access"}
         /\ step[Main] < First => pc[Main] \notin {"create", "fork"}
         /\ First <= step[Main] => pc[Main] \in {"run", "create", "fork"}
         /\ pc[Main] \in {"acquire", "adopt"} /\ step[Main] = First - 1 => call[Main].on = Gate
         /\ pc[Main] \in {"release", "tick"} => step[Main] # First - 1
         /\ \A op : Performs(Main, op) =>
              /\ op.do \in {"create", "lock", "unlock", "trylock", "read", "write", "vptr_update"}
              /\ op.do = "create" <=> First <= step[Main]
              /\ step[Main] = First - 1 => op.do \in {"lock", "trylock"} /\ op.on = Gate
  <1>1. InCall(Main) /\ step[Main] \in Nat /\ First \in Nat /\ Opens \in Nat
    BY Chosen, ProgramAssumption DEF ControlInv, TypeOK
  <1>2. pc[Main] \in {"run", "waiting"} \cup CallbackPoints
    BY ProgramAssumption DEF TypeOK
  <1>3. ASSUME step[Main] \in DOMAIN Program[Main], NEW op \in Program[Main][step[Main]]
        PROVE  /\ op.do \in {"create", "lock", "unlock", "trylock", "read", "write", "vptr_update"}
               /\ op.do = "create" <=> First <= step[Main]
               /\ step[Main] = First - 1 => op.do \in {"lock", "trylock"} /\ op.on = Gate
    <2>1. PICK i \in DOMAIN Program[Main] : i = step[Main] /\ op \in Program[Main][i]
      BY <1>3
    <2>2. /\ op.do \in {"create", "lock", "unlock", "trylock", "join", "read", "write", "vptr_update"}
          /\ op.do = "create" <=> First <= step[Main] /\ step[Main] < Opens
          /\ op.do = "join" => step[Main] >= Opens
          /\ step[Main] = First - 1 => op.do \in {"lock", "trylock"} /\ op.on = Gate
      BY <2>1, MainOps
    <2> QED
      BY <1>1, <2>2
  <1>4. ASSUME NEW op, Performs(Main, op)
        PROVE  /\ op.do \in {"create", "lock", "unlock", "trylock", "read", "write", "vptr_update"}
               /\ op.do = "create" <=> First <= step[Main]
               /\ step[Main] = First - 1 => op.do \in {"lock", "trylock"} /\ op.on = Gate
    BY <1>3, <1>4, AboutTo, ProgramAssumption
  <1>5. pc[Main] # "run" => /\ call[Main].do \in {"create", "lock", "unlock", "trylock", "read", "write", "vptr_update"}
                            /\ call[Main].do = "create" <=> First <= step[Main]
                            /\ step[Main] = First - 1 => call[Main].do \in {"lock", "trylock"} /\ call[Main].on = Gate
    BY <1>1, <1>3 DEF InCall
  <1>6. CASE pc[Main] = "run"
    BY <1>1, <1>4, <1>6
  <1>7. CASE pc[Main] # "run"
    BY <1>1, <1>2, <1>4, <1>5, <1>7 DEF InCall, CallbackPoints, Accesses
  <1> QED
    BY <1>6, <1>7

\* Main gets on from one create to the next by ft_fork.
LEMMA Forks ==
  ASSUME TypeOK, RegistersFirst, ControlInv, First <= step[Main], step[Main] < Opens,
         ThreadStep(Main), step'[Main] # step[Main]
  PROVE  ft_fork(Main)
  <1>1. pc[Main] \in {"run", "create", "fork"} /\ \A op : Performs(Main, op) => op.do = "create"
    BY Prelude
  <1>2. \A m \in Locks : ~Untracked(Main, m)
    BY <1>1 DEF Untracked
  <1>3. \A x \in Vars, do \in Accesses : ~Access(Main, x, do)
    BY <1>1 DEF Access, Accesses
  <1> QED
    BY <1>1, <1>2, <1>3 DEF ThreadStep, PthreadCreate, PthreadJoin, PthreadMutexLock,
       PthreadMutexUnlock, getState, getLockState, getVarState, ft_read, ft_write, InAccess,
       ft_fork_count, ft_join_test, ft_join_drop, ft_join, ft_acquire, ft_acquire_adopt,
       ft_release, ft_release_tick, program, Enter, Goto

\* Main keeps Gate until it has created all threads.
LEMMA WaitingStep ==
  ASSUME IInv, RegistersFirst, ControlInv, NEW t \in Threads, ThreadStep(t)
  PROVE  Waiting'
  <1>0. TypeOK /\ Callbacks /\ Main \in Threads
    BY ProgramAssumption DEF IInv
  <1>1. /\ First \in Nat /\ Opens \in Nat /\ Gate \in Locks /\ First < Opens /\ step[Main] \in Nat
        /\ step'[Main] \in {step[Main], step[Main] + 1}
    <2>1. UNCHANGED step[Main] \/ (t = Main /\ step'[Main] = step[Main] + 1)
      BY <1>0, Strides
    <2> QED
      BY <1>0, <2>1, Chosen, CreateSteps DEF TypeOK
  <1>2. SUFFICES ASSUME step'[Main] < Opens
                 PROVE  /\ \A u \in Threads \ {Main} : pc'[u] = "run" /\ step'[u] = 1
                        /\ First <= step'[Main] => holder'[Gate] = Main
    BY DEF Waiting
  <1>3. step[Main] < Opens /\ t = Main
    BY <1>0, <1>1, <1>2, MainAlone
  <1>4. \A u \in Threads \ {Main} : pc'[u] = "run" /\ step'[u] = 1
    BY <1>0, <1>3, Strides DEF ControlInv, Waiting
  <1>5. CASE First <= step[Main]
    <2>1. holder[Gate] = Main /\ Main # NoThread
      BY <1>0, <1>3, <1>5, ProgramAssumption DEF ControlInv, Waiting
    <2>2. pc[Main] \in {"run", "create", "fork"} /\ \A op : Performs(Main, op) => op.do = "create"
      BY <1>0, <1>3, <1>5, Prelude
    <2>3. \A m \in Locks : ~PthreadMutexLock(t, m) /\ ~Untracked(t, m)
      BY <1>3, <2>2 DEF PthreadMutexLock, Untracked
    <2>4. UNCHANGED holder
      BY <1>3, <2>2, <2>3 DEF ThreadStep, PthreadCreate, PthreadJoin, PthreadMutexUnlock, Access,
         getState, getLockState, getVarState, ft_read, ft_write, ft_fork_count, ft_fork,
         ft_join_test, ft_join_drop, ft_join, ft_acquire, ft_acquire_adopt, ft_release,
         ft_release_tick, program
    <2> QED
      BY <1>4, <2>1, <2>4
  <1>6. CASE step[Main] < First
    <2>1. SUFFICES ASSUME First <= step'[Main]
                   PROVE  holder'[Gate] = Main
      BY <1>4
    <2>2. step[Main] = First - 1 /\ step'[Main] = step[Main] + 1
      BY <1>1, <1>6, <2>1
    <2>3. /\ pc[Main] \in {"run", "acquire", "adopt", "access"}
          /\ pc[Main] \in {"acquire", "adopt"} => call[Main].on = Gate
          /\ \A op : Performs(Main, op) => op.do \in {"lock", "trylock"} /\ op.on = Gate
      BY <1>0, <1>3, <1>6, <2>2, Prelude
    <2>4. pc[Main] # "access"
      <3>1. pc[Main] # "run" => \E i \in DOMAIN Program[Main] : i = First - 1 /\ call[Main] \in Program[Main][i]
        BY <1>0, <2>2 DEF ControlInv, InCall
      <3>2. pc[Main] # "run" => call[Main].do \in {"lock", "trylock"}
        BY <3>1, MainOps
      <3> QED
        BY <1>0, <3>2 DEF ControlInv, InCall, Accesses
    <2>5. ASSUME NEW m \in Locks, Untracked(t, m)
          PROVE  holder'[Gate] = Main
      <3>1. /\ Performs(t, [do |-> "trylock", on |-> m])
            /\ holder' = [holder EXCEPT ![m] = t]
        BY <1>3, <2>3, <2>5 DEF Untracked
      <3> QED
        BY <1>0, <1>3, <2>3, <3>1 DEF TypeOK
    <2>6. CASE ft_acquire_adopt(t)
      BY <1>0, <1>3, <2>3, <2>6 DEF Callbacks, ft_acquire_adopt
    <2>7. CASE UNCHANGED step[Main]
      BY <1>1, <2>2, <2>7
    <2>8. \A x \in Vars, do \in Accesses : ~Access(t, x, do)
      BY <1>3, <2>3 DEF Access, Accesses
    <2> QED
      BY <1>3, <2>3, <2>4, <2>5, <2>6, <2>7, <2>8 DEF ThreadStep, PthreadCreate, PthreadJoin,
         PthreadMutexLock, PthreadMutexUnlock, getState, getLockState, getVarState, ft_read,
         ft_write, InAccess, ft_fork_count, ft_fork, ft_join_test, ft_join_drop, ft_join,
         ft_acquire, ft_release, ft_release_tick, program
  <1> QED
    BY <1>1, <1>5, <1>6

\* Main is never joined, and only Main creates and joins.
LEMMA OnlyMain ==
  ASSUME TypeOK, RegistersFirst, NEW t \in Threads, NEW u \in Threads
  PROVE  /\ PthreadCreate(t, u) => t = Main /\ step[Main] \in First .. Opens - 1 /\ Creates(step[Main], u)
         /\ PthreadJoin(t, u) => t = Main /\ step[Main] >= Opens /\ u # Main
  <1>1. ASSUME NEW do \in {"create", "join"}, Performs(t, [do |-> do, on |-> u])
        PROVE  /\ t = Main
               /\ do = "create" => step[Main] \in First .. Opens - 1 /\ Creates(step[Main], u)
               /\ do = "join" => step[Main] >= Opens /\ u # Main
    <2> DEFINE op == [do |-> do, on |-> u]
    <2>1. PICK i \in DOMAIN Program[t] : i = step[t] /\ op \in Program[t][i]
      BY <1>1, AboutTo
    <2>2. op.do = do /\ op.on = u
      OBVIOUS
    <2> HIDE DEF op
    <2>3. t = Main
      BY <1>1, <2>1, <2>2, WorkerOps
    <2>4. /\ op.do = "create" => First <= i /\ i < Opens /\ Creates(i, op.on)
          /\ op.do = "join" => i >= Opens /\ op.on \in Threads \ {Main}
      BY <2>1, <2>3, MainOps
    <2>5. step[Main] \in Nat /\ First \in Nat /\ Opens \in Nat
      BY Chosen, ProgramAssumption DEF TypeOK
    <2> QED
      BY <2>1, <2>2, <2>3, <2>4, <2>5
  <1> QED
    BY <1>1 DEF PthreadCreate, PthreadJoin

\* The threads born are those whose create has begun, and the threads in the
\* map those that are born.
LEMMA BirthsStep ==
  ASSUME IInv, RegistersFirst, ControlInv, NEW t \in Threads, ThreadStep(t)
  PROVE  Births'
  <1>0. TypeOK /\ Callbacks /\ Main \in Threads /\ Births /\ Distinct
    BY ProgramAssumption, Chosen DEF IInv, ControlInv
  <1>1. /\ \A u \in Threads : life[u] # "unborn" => life'[u] # "unborn"
        /\ \A u \in Threads : life'[u] = "running" => life[u] = "running" \/ PthreadCreate(t, u)
        /\ \A u \in Threads : life[u] = "unborn" => life'[u] = "unborn" \/ PthreadCreate(t, u)
        /\ life'[Main] = "running"
    <2>1. CASE UNCHANGED life
      BY <1>0, <2>1 DEF Births
    <2>2. ASSUME NEW v \in Threads, PthreadCreate(t, v), life' = [life EXCEPT ![v] = "running"]
          PROVE  <1>1!:
      BY <1>0, <2>2 DEF TypeOK, Births
    <2>3. ASSUME NEW v \in Threads, PthreadJoin(t, v), life' = [life EXCEPT ![v] = "joined"]
          PROVE  <1>1!:
      <3>1. v # Main /\ life[v] = "running"
        BY <1>0, <2>3, OnlyMain DEF PthreadJoin, Finished
      <3> QED
        BY <1>0, <2>3, <3>1 DEF TypeOK, Births
    <2> QED
      BY <1>0, <2>1, <2>2, <2>3, Lives
  <1>2. TS \subseteq TS'
    BY DEF ThreadStep, PthreadCreate, PthreadJoin, PthreadMutexLock, PthreadMutexUnlock, Untracked,
       Access, getState, getLockState, getVarState, ft_read, ft_write, ft_fork_count, ft_fork,
       ft_join_test, ft_join_drop, ft_join, ft_acquire, ft_acquire_adopt, ft_release,
       ft_release_tick, threads
  <1>3. \A h \in TS' : \E u \in Threads : h = Self(u) /\ life'[u] # "unborn"
    <2>1. CASE UNCHANGED TS
      BY <1>0, <1>1, <2>1 DEF Births
    <2>2. ASSUME NEW h \in Handles, getState(t, h)
          PROVE  \E u \in Threads : h = Self(u) /\ life[u] # "unborn"
      <3>1. h \in Wanted(t) /\ h \notin TS
        BY <2>2 DEF getState
      <3>2. pc[t] # "run" /\ life[t] = "running"
        BY <1>0, <3>1 DEF Wanted, Callbacks
      <3>3. CASE h = Self(t)
        BY <3>2, <3>3
      <3>4. CASE h = Child(t) /\ pc[t] = "create"
        BY <1>0, <3>4 DEF ControlInv, InCall, Child, Self, Callbacks
      <3>5. CASE h = Child(t) /\ pc[t] = "join"
        <4>1. t = Main /\ step[Main] >= Opens /\ call[t].on \in Threads \ {Main}
          BY <1>0, <3>5, Whereabouts
        <4>2. PICK i \in First .. Opens - 1 : Creates(i, call[t].on)
          BY <4>1, CreateSteps
        <4>3. step[Main] \in Nat /\ First \in Nat /\ Opens \in Nat
          BY <1>0, Chosen DEF TypeOK
        <4> QED
          BY <1>0, <3>5, <4>1, <4>2, <4>3 DEF Births, Creation, Child, Self
      <3> QED
        BY <3>1, <3>3, <3>4, <3>5 DEF Wanted
    <2>3. \A h \in Handles : getState(t, h) => TS' = TS \cup {h}
      BY DEF getState
    <2>4. UNCHANGED TS \/ \E h \in Handles : getState(t, h)
      BY DEF ThreadStep, PthreadCreate, PthreadJoin, PthreadMutexLock, PthreadMutexUnlock,
         Untracked, Access, getLockState, getVarState, ft_read, ft_write, ft_fork_count, ft_fork,
         ft_join_test, ft_join_drop, ft_join, ft_acquire, ft_acquire_adopt, ft_release,
         ft_release_tick, threads
    <2> QED
      BY <1>0, <1>1, <2>1, <2>2, <2>3, <2>4 DEF Births
  <1>4. ASSUME NEW i \in First .. Opens - 1, NEW u \in Threads, Creates(i, u)
        PROVE  Creation(i, u)'
    <2>1. Creation(i, u)
      BY <1>0, <1>4 DEF Births
    <2>2. /\ step[Main] \in Nat /\ i \in Nat /\ First \in Nat /\ Opens \in Nat /\ i < Opens /\ First <= i
          /\ UNCHANGED step[Main] \/ (t = Main /\ pc'[Main] = "run" /\ step'[Main] = step[Main] + 1)
      <3>1. UNCHANGED step[Main] \/ (t = Main /\ pc'[Main] = "run" /\ step'[Main] = step[Main] + 1)
        BY <1>0, Strides
      <3>2. step[Main] \in Nat
        BY <1>0 DEF TypeOK
      <3> QED
        BY <3>1, <3>2, Chosen
    <2>3. step'[Main] > i => life'[u] # "unborn" /\ Self(u) \in TS' /\ Self(Main) \in TS'
      <3>1. CASE step[Main] > i
        BY <1>1, <1>2, <2>1, <3>1 DEF Creation, Self
      <3>2. CASE step[Main] = i /\ t = Main /\ step'[Main] = step[Main] + 1
        <4>5. ft_fork(t)
          BY <1>0, <2>2, <3>2, Forks
        <4>6. pc[Main] = "fork" /\ Self(Main) \in TS /\ Child(Main) \in TS
          BY <1>0, <3>2, <4>5 DEF ft_fork, Callbacks
        <4>7. Creates(i, call[Main].on) /\ call[Main].on \in Threads
          BY <1>0, <3>2, <4>6, Whereabouts
        <4>8. call[Main].on = u
          BY <1>4, <4>7, CreateSteps
        <4>9. Self(u) \in TS /\ life[u] # "unborn"
          BY <1>0, <4>6, <4>8 DEF Child, Self, ControlInv, InCall
        <4> QED
          BY <1>1, <1>2, <4>6, <4>9 DEF Self
      <3> QED
        BY <2>2, <3>1, <3>2
    <2>4. ASSUME life'[u] # "unborn"
          PROVE  \/ step'[Main] > i
                 \/ step'[Main] = i /\ pc'[Main] \in {"create", "fork"}
      <3>1. CASE step[Main] > i
        BY <2>2, <3>1
      <3>2. CASE step[Main] = i /\ pc[Main] \in {"create", "fork"}
        <4>1. \A op : ~Performs(Main, op)
          BY <3>2 DEF Performs
        <4>2. \/ UNCHANGED <<pc[Main], step[Main]>>
              \/ step'[Main] = step[Main] + 1
              \/ UNCHANGED step[Main] /\ <<pc[Main], pc'[Main]>> \in Passages
          BY <1>0, <4>1, Strides
        <4> QED
          BY <2>2, <3>2, <4>2 DEF Passages
      <3>3. CASE life[u] = "unborn"
        <4>1. PthreadCreate(t, u)
          BY <1>1, <2>4, <3>3
        <4>2. t = Main /\ step[Main] \in First .. Opens - 1 /\ Creates(step[Main], u)
          BY <1>0, <4>1, OnlyMain
        <4>3. step[Main] = i
          BY <1>4, <4>2, CreateSteps
        <4>4. pc'[Main] = "create" /\ step'[Main] = step[Main]
          BY <1>0, <4>1, <4>2 DEF PthreadCreate, Enter, TypeOK
        <4> QED
          BY <4>3, <4>4
      <3> QED
        BY <2>1, <3>1, <3>2, <3>3 DEF Creation
    <2> QED
      BY <2>3, <2>4 DEF Creation, Self
  <1> QED
    BY <1>1, <1>3, <1>4 DEF Births, Self

\* ControlInv survives every step of every thread.
LEMMA ControlInvStep ==
  ASSUME IInv, RegistersFirst, ControlInv, NEW t \in Threads, ThreadStep(t)
  PROVE  ControlInv'
  <1>1. \A s \in Threads : InCall(s)'
    BY InCallStep DEF ControlInv
  <1> QED
    BY <1>1, WaitingStep, BirthsStep DEF ControlInv

-----------------------------------------------------------------------------
(* Clocks.                                                                 *)

\* Before the first create, Main is alone.
LEMMA Unshared ==
  ASSUME TypeOK, RegistersFirst, ControlInv, step[Main] < First
  PROVE  TS \subseteq {Self(Main)} /\ \A u \in Threads \ {Main} : life[u] = "unborn"
  <1>1. step[Main] \in Nat /\ First \in Nat /\ Opens \in Nat
    BY Chosen, ProgramAssumption DEF TypeOK
  <1>2. ASSUME NEW u \in Threads \ {Main}
        PROVE  life[u] = "unborn"
    <2>1. PICK i \in First .. Opens - 1 : Creates(i, u)
      BY CreateSteps
    <2> QED
      BY <1>1, <2>1 DEF ControlInv, Births, Creation
  <1> QED
    BY <1>2 DEF ControlInv, Births

\* Few steps touch a thread's state, and few a mutex's.
LEMMA Disturbers ==
  ASSUME NEW t \in Threads, ThreadStep(t)
  PROVE  \/ UNCHANGED <<TS, tid, C, epoch, NumThreads, LS, L>>
         \/ \E h \in Handles : getState(t, h)
         \/ \E m \in Locks : getLockState(t, m)
         \/ ft_fork(t) \/ ft_join(t) \/ ft_acquire(t) \/ ft_acquire_adopt(t)
         \/ ft_release(t) \/ ft_release_tick(t)
  BY DEF ThreadStep, PthreadCreate, PthreadJoin, PthreadMutexLock, PthreadMutexUnlock, Untracked,
     Access, getVarState, ft_read, ft_write, ft_fork_count, ft_join_test, ft_join_drop,
     threads, locks

\* ft_fork and ft_join bring the epochs of both threads in step with their
\* clocks: a ticks, and b adopts its own, which is the one it had when the
\* two vectors were as long as each other.
LEMMA HandedOver ==
  ASSUME IInv, NEW t \in Threads, NEW a, NEW b,
         \/ ft_fork(t) /\ a = Self(t) /\ b = Child(t)
         \/ ft_join(t) /\ a = Child(t) /\ b = Self(t)
  PROVE  /\ a \in TS /\ b \in TS /\ a # b /\ UNCHANGED <<TS, tid, LS, L>>
         /\ \A k \in TS : k # a /\ k # b => C'[k] = C[k] /\ epoch'[k] = epoch[k]
         /\ epoch'[a] = epoch[a] + 1 /\ C'[a].at[tid[a]] = epoch[a] + 1
         /\ epoch'[b] = C'[b].at[tid[b]]
         /\ C[a].size = C[b].size => /\ C'[a].size = C[a].size /\ C'[b].size = C[b].size
                                     /\ C'[b].at[tid[b]] = C[b].at[tid[b]]
  <1>1. a \in TS /\ b \in TS /\ a # b
    BY DEF ft_fork, ft_join, IInv, Callbacks
  <1>2. TS \subseteq Handles /\ C \in [Handles -> VectorClock] /\ epoch \in [Handles -> Nat]
    BY DEF IInv, TypeOK
  <1>3. /\ C'[a] = increment(a, ExtendToMatch(C[a], C[b]))
        /\ C'[b] = JoinClock(C[b], C[a])
        /\ \A k \in TS : k # a /\ k # b => C'[k] = C[k] /\ epoch'[k] = epoch[k]
        /\ epoch'[a] = epoch[a] + 1 /\ epoch'[b] = C'[b].at[tid[b]]
        /\ UNCHANGED <<TS, tid, LS, L>>
    <2>1. CASE ft_fork(t) /\ a = Self(t) /\ b = Child(t)
      BY <1>1, <1>2, <2>1 DEF ft_fork, locks
    <2>2. CASE ft_join(t) /\ a = Child(t) /\ b = Self(t)
      BY <1>1, <1>2, <2>2 DEF ft_join, locks
    <2> QED
      BY <2>1, <2>2
  <1>4. /\ C[a] \in VectorClock /\ C[b] \in VectorClock /\ C[a].size \in Nat /\ C[b].size \in Nat
        /\ tid[a] \in Slots /\ tid[b] \in Slots /\ tid[b] \in Nat /\ epoch[a] \in Nat
        /\ C[a].at[tid[b]] \in Nat /\ C[b].at[tid[b]] \in Nat
    BY <1>1, Readings
  <1>5. C'[a].size = Larger(C[a].size, C[b].size) /\ C'[a].at[tid[a]] = epoch[a] + 1
    <2> DEFINE ev == ExtendToMatch(C[a], C[b])
               now == epoch[a] + 1
    <2>1. ev \in VectorClock /\ ev.size = Larger(C[a].size, C[b].size)
      BY <1>4, ExtendedClock
    <2>2. now \in Nat
      BY <1>4
    <2>3. C'[a] = [ev EXCEPT !.at[tid[a]] = now]
      BY <1>3 DEF increment
    <2> HIDE DEF ev, now
    <2>4. C'[a].size = ev.size /\ C'[a].at[tid[a]] = now
      BY <1>4, <2>1, <2>2, <2>3, StoredClock
    <2> QED
      BY <2>1, <2>4 DEF now
  <1>6. /\ C'[b].size = Larger(C[b].size, C[a].size)
        /\ C'[b].at[tid[b]] = IF tid[b] < Larger(C[b].size, C[a].size)
                              THEN Larger(Known(C[b], tid[b]), Known(C[a], tid[b]))
                              ELSE C[b].at[tid[b]]
    BY <1>3, <1>4, JoinedClock
  <1>7. C[a].at[tid[b]] <= C[b].at[tid[b]]
    BY <1>1 DEF IInv, ClockInv, HeardByThreads, Hearsay, Own
  <1>8. ASSUME C[a].size = C[b].size
        PROVE  /\ C'[a].size = C[a].size /\ C'[b].size = C[b].size
               /\ C'[b].at[tid[b]] = C[b].at[tid[b]]
    BY <1>4, <1>5, <1>6, <1>7, <1>8 DEF Larger, Known
  <1> QED
    BY <1>1, <1>3, <1>5, <1>8

\* What an acquire, a release and their second halves leave alone.
LEMMA LockSteps ==
  ASSUME IInv, NEW t \in Threads,
         ft_acquire(t) \/ ft_acquire_adopt(t) \/ ft_release(t) \/ ft_release_tick(t)
  PROVE  /\ pc[t] \in {"acquire", "adopt", "release", "tick"} /\ Self(t) \in TS
         /\ UNCHANGED <<TS, tid, LS>>
         /\ \A k \in TS : k # Self(t) => C'[k] = C[k] /\ epoch'[k] = epoch[k]
         /\ \A n \in Nat : (\A h \in TS : C[h].size <= n) /\ (\A m \in LS : L[m].size <= n)
                             => (\A h \in TS : C'[h].size <= n) /\ (\A m \in LS : L'[m].size <= n)
         /\ pc[t] \in {"adopt", "tick"} =>
              epoch'[Self(t)] = C'[Self(t)].at[tid[Self(t)]]
  <1> DEFINE h == Self(t)
             m == call[t].on
  <1>0. /\ TS \subseteq Handles /\ C \in [Handles -> VectorClock] /\ epoch \in [Handles -> Nat]
        /\ L \in [Locks -> VectorClock] /\ LS \subseteq Locks
        /\ \A k \in TS : C[k].size \in Nat
        /\ \A w \in LS : L[w].size \in Nat
    BY Readings DEF IInv, TypeOK
  <1>1. h \in TS
    BY DEF ft_acquire, ft_acquire_adopt, ft_release, ft_release_tick, IInv, Callbacks, Ready, Wanted
  <1>2. CASE ft_acquire(t) \/ ft_release(t)
    <2>1. /\ pc[t] \in {"acquire", "release"} /\ UNCHANGED <<TS, tid, LS, epoch>>
          /\ m \in LS /\ \E v, w : C' = [C EXCEPT ![h] = v] /\ L' = [L EXCEPT ![m] = w]
                                   /\ v.size = Larger(C[h].size, L[m].size)
                                   /\ w.size = Larger(L[m].size, C[h].size)
      <3>1. m \in LS /\ C[h] \in VectorClock /\ L[m] \in VectorClock
        BY <1>0, <1>1, <1>2 DEF ft_acquire, ft_release
      <3>2. /\ JoinClock(C[h], L[m]).size = Larger(C[h].size, L[m].size)
            /\ ExtendToMatch(L[m], C[h]).size = Larger(L[m].size, C[h].size)
            /\ CopyClock(L[m], C[h]).size = Larger(L[m].size, C[h].size)
            /\ ExtendToMatch(C[h], L[m]).size = Larger(C[h].size, L[m].size)
        BY <3>1, JoinedClock, ExtendedClock, CopiedClock
      <3> QED
        BY <1>2, <3>1, <3>2 DEF ft_acquire, ft_release
    <2>2. \A k \in TS : k # h => C'[k] = C[k]
      BY <1>0, <1>1, <2>1
    <2>3. /\ C'[h].size = Larger(C[h].size, L[m].size)
          /\ L'[m].size = Larger(L[m].size, C[h].size)
          /\ \A w \in LS : w # m => L'[w] = L[w]
      BY <1>0, <1>1, <2>1
    <2>4. ASSUME NEW n \in Nat, \A k \in TS : C[k].size <= n, \A w \in LS : L[w].size <= n
          PROVE  (\A k \in TS : C'[k].size <= n) /\ (\A w \in LS : L'[w].size <= n)
      <3>1. C[h].size <= n /\ L[m].size <= n
        BY <1>1, <2>1, <2>4
      <3>2. C'[h].size <= n /\ L'[m].size <= n
        BY <2>3, <3>1 DEF Larger
      <3> QED
        BY <2>2, <2>3, <2>4, <3>2
    <2> QED
      BY <1>1, <2>1, <2>2, <2>4
  <1>3. CASE ft_acquire_adopt(t)
    BY <1>0, <1>1, <1>3 DEF ft_acquire_adopt, locks
  <1>4. CASE ft_release_tick(t)
    <2> DEFINE now == C[h].at[tid[h]] + 1
    <2>1. tid[h] \in Slots /\ C[h] \in VectorClock /\ now \in Nat
      BY <1>1, Readings
    <2>2. /\ C' = [C EXCEPT ![h] = [C[h] EXCEPT !.at[tid[h]] = now]]
          /\ epoch' = [epoch EXCEPT ![h] = now]
          /\ pc[t] = "tick" /\ UNCHANGED <<TS, tid, LS, L>>
      BY <1>4 DEF ft_release_tick, locks
    <2> HIDE DEF now
    <2>3. C'[h] = [C[h] EXCEPT !.at[tid[h]] = now] /\ epoch'[h] = now
      BY <1>0, <1>1, <2>2
    <2>4. C'[h].size = C[h].size /\ C'[h].at[tid[h]] = now
      BY <2>1, <2>3, StoredClock
    <2>5. \A k \in TS : k # h => C'[k] = C[k] /\ epoch'[k] = epoch[k]
      BY <1>0, <1>1, <2>2
    <2>6. \A k \in TS : C'[k].size = C[k].size
      BY <2>4, <2>5
    <2> QED
      BY <1>1, <2>2, <2>3, <2>4, <2>5, <2>6
  <1> QED
    BY <1>2, <1>3, <1>4

\* What a registration does to the threads registered before.
LEMMA Newcomer ==
  ASSUME IInv, NEW t \in Threads, NEW h \in Handles, getState(t, h)
  PROVE  /\ h \in Wanted(t) /\ h \notin TS /\ TS' = TS \cup {h} /\ UNCHANGED <<pc, call, step, LS, L>>
         /\ Cardinality(TS') = Cardinality(TS) + 1
         /\ \A g \in TS' : C'[g].size = Cardinality(TS')
         /\ tid'[h] = Cardinality(TS') /\ epoch'[h] = 1 /\ C'[h].at[tid'[h]] = 1
         /\ \A g \in TS : /\ tid'[g] = tid[g] /\ epoch'[g] = epoch[g]
                          /\ C'[g].at[tid[g]] = 1 \/ C'[g].at[tid[g]] = C[g].at[tid[g]]
  <1>1. /\ h \notin TS /\ TS' = TS \cup {h} /\ Cardinality(TS') = Cardinality(TS) + 1
        /\ tid'[h] = Cardinality(TS) + 1 /\ \A g \in TS : tid'[g] = tid[g]
        /\ epoch'[h] = 1 /\ \A g \in TS : epoch'[g] = epoch[g]
        /\ \A g \in TS' : C'[g].size = Cardinality(TS) + 1
        /\ C'[h].at[Cardinality(TS) + 1] = 1
        /\ \A g \in TS, i \in Slots :
             C'[g].at[i] = IF C[g].size <= i /\ i < Cardinality(TS) + 1
                           THEN FirstClock(tid[g], i) ELSE C[g].at[i]
        /\ UNCHANGED <<LS, L, pc, call>>
    BY Registered
  <1>2. \A g \in TS : tid[g] \in Slots
    BY Readings
  <1>3. h \in Wanted(t) /\ UNCHANGED step
    BY DEF getState, program
  <1> QED
    BY <1>1, <1>2, <1>3 DEF FirstClock

\* While Main creates threads, every step keeps FirstClocks.
LEMMA FirstClocksStep ==
  ASSUME IInv, RegistersFirst, ControlInv, step[Main] < Opens, FirstClocks,
         NEW t \in Threads, ThreadStep(t)
  PROVE  FirstClocks'
  <1>0. TypeOK /\ t = Main /\ Main \in Threads /\ Distinct /\ Cardinality(TS) \in Nat
    BY MainAlone, ProgramAssumption, Chosen, Readings DEF IInv
  <1>1. CASE UNCHANGED <<TS, tid, C, epoch, NumThreads, LS, L>>
    BY <1>1 DEF FirstClocks, Own
  <1>2. ASSUME NEW h \in Handles, getState(t, h)
        PROVE  FirstClocks'
    <2>1. ASSUME NEW u \in Threads \ {Main}, Self(u) \in TS'
          PROVE  epoch'[Self(u)] = 1 /\ Own(Self(u))' = 1
      <3>1. CASE Self(u) = h
        BY <1>2, <3>1, Newcomer DEF Own
      <3>2. CASE Self(u) \in TS
        <4>1. epoch[Self(u)] = 1 /\ C[Self(u)].at[tid[Self(u)]] = 1
          BY <3>2 DEF FirstClocks, Own
        <4> QED
          BY <1>2, <3>2, <4>1, Newcomer DEF Own
      <3> QED
        BY <1>2, <2>1, <3>1, <3>2, Newcomer
    <2>2. (\A g \in TS' : C'[g].size = Cardinality(TS')) /\ LS' = LS /\ L' = L
      BY <1>2, Newcomer
    <2> QED
      BY <2>1, <2>2 DEF FirstClocks, Self
  <1>3. ASSUME NEW m \in Locks, getLockState(t, m)
        PROVE  FirstClocks'
    <2>1. /\ pc[Main] \in {"acquire", "release"} /\ LS' = LS \cup {m}
          /\ L' = [L EXCEPT ![m] = newVectorClock(NumThreads)]
          /\ UNCHANGED <<TS, tid, C, epoch>>
      BY <1>0, <1>3 DEF getLockState, threads
    <2>2. step[Main] < First
      BY <1>0, <2>1, Prelude, Chosen DEF TypeOK
    <2>3. TS \subseteq {Self(Main)}
      BY <1>0, <2>2, Unshared
    <2>4. Cardinality(TS) <= 1
      <3>1. CASE TS = {}
        <4>1. Cardinality(TS) = 0
          BY <3>1, FS_EmptySet
        <4> QED
          BY <4>1
      <3>2. CASE TS = {Self(Main)}
        <4>1. Cardinality(TS) = 1
          BY <3>2, FS_Singleton
        <4> QED
          BY <4>1
      <3> QED
        BY <2>3, <3>1, <3>2
    <2>5. NumThreads <= 2
      BY <1>0, <2>4 DEF IInv, TypeOK, ClockInv, Numbering
    <2>6. \A w \in LS' : L'[w].size <= 2
      BY <1>0, <2>1, <2>5 DEF TypeOK, FirstClocks, newVectorClock
    <2> QED
      BY <2>1, <2>6 DEF FirstClocks, Own
  <1>4. CASE ft_fork(t)
    <2> DEFINE p == Self(t)
               u == Child(t)
    <2>1. /\ p \in TS /\ u \in TS /\ p # u /\ UNCHANGED <<TS, tid, LS, L>>
          /\ \A k \in TS : k # p /\ k # u => C'[k] = C[k] /\ epoch'[k] = epoch[k]
          /\ epoch'[u] = C'[u].at[tid[u]]
          /\ C[p].size = C[u].size => /\ C'[p].size = C[p].size /\ C'[u].size = C[u].size
                                      /\ C'[u].at[tid[u]] = C[u].at[tid[u]]
      BY <1>4, HandedOver
    <2>2. \A h \in TS : C[h].size = Cardinality(TS)
      BY <1>0, <2>1 DEF FirstClocks
    <2>3. \A h \in TS' : C'[h].size = Cardinality(TS')
      BY <2>1, <2>2
    <2>4. ASSUME NEW v \in Threads \ {Main}, Self(v) \in TS
          PROVE  epoch'[Self(v)] = 1 /\ C'[Self(v)].at[tid[Self(v)]] = 1
      <3>1. epoch[Self(v)] = 1 /\ C[Self(v)].at[tid[Self(v)]] = 1
        BY <2>4 DEF FirstClocks, Own
      <3>2. Self(v) # p
        BY <1>0 DEF Distinct
      <3> QED
        BY <2>1, <2>2, <2>4, <3>1, <3>2
    <2> QED
      BY <2>1, <2>3, <2>4 DEF FirstClocks, Own, Self
  <1>5. CASE ft_acquire(t) \/ ft_acquire_adopt(t) \/ ft_release(t) \/ ft_release_tick(t)
    <2>1. /\ pc[t] \in {"acquire", "adopt", "release", "tick"} /\ Self(t) \in TS
          /\ UNCHANGED <<TS, tid, LS>>
          /\ (\A h \in TS : C[h].size <= 2) /\ (\A m \in LS : L[m].size <= 2)
                => (\A h \in TS : C'[h].size <= 2) /\ (\A m \in LS : L'[m].size <= 2)
      BY <1>5, LockSteps
    <2>2. step[Main] < First
      BY <1>0, <2>1, Prelude, Chosen DEF TypeOK
    <2>3. TS = {Self(Main)}
      BY <1>0, <2>1, <2>2, Unshared
    <2>4. Cardinality(TS) = 1
      BY <2>3, FS_Singleton
    <2>5. \A h \in TS : C[h].size <= 2
      BY <2>4 DEF FirstClocks
    <2>6. (\A h \in TS : C'[h].size <= 2) /\ (\A m \in LS : L'[m].size <= 2)
      BY <2>1, <2>5 DEF FirstClocks
    <2>7. \A v \in Threads \ {Main} : Self(v) \notin TS
      BY <1>0, <2>3 DEF Distinct
    <2> QED
      BY <2>1, <2>3, <2>6, <2>7 DEF FirstClocks, Self
  <1>6. ~ft_join(t)
    BY <1>0, Prelude DEF ft_join
  <1> QED
    BY <1>1, <1>2, <1>3, <1>4, <1>5, <1>6, Disturbers

\* Once the last thread is in the map, all are.
LEMMA AllIn ==
  ASSUME TypeOK, RegistersFirst, ControlInv,
         step[Main] >= Opens \/ \E u \in Threads : Creates(Opens - 1, u) /\ Self(u) \in TS
  PROVE  \A t \in Threads : Self(t) \in TS
  <1>0. /\ step[Main] \in Nat /\ First \in Nat /\ Opens \in Nat /\ 1 < First /\ First + 1 < Opens
        /\ Distinct /\ Main \in Threads
    BY Chosen, CreateSteps, ProgramAssumption DEF TypeOK
  <1>1. step[Main] >= Opens - 1
    <2>1. ASSUME NEW u \in Threads, Creates(Opens - 1, u), Self(u) \in TS
          PROVE  step[Main] >= Opens - 1
      <3>1. life[u] # "unborn"
        BY <1>0, <2>1 DEF ControlInv, Births, Distinct
      <3>2. Opens - 1 \in First .. Opens - 1
        BY <1>0
      <3>3. Creation(Opens - 1, u)
        BY <2>1, <3>2 DEF ControlInv, Births
      <3> QED
        BY <1>0, <3>1, <3>3 DEF Creation
    <2> QED
      BY <1>0, <2>1
  <1>2. ASSUME NEW i \in First .. Opens - 1, NEW u \in Threads, Creates(i, u), step[Main] > i
        PROVE  Self(u) \in TS /\ Self(Main) \in TS
    BY <1>2 DEF ControlInv, Births, Creation
  <1>3. Self(Main) \in TS
    <2>1. First \in First .. Opens - 1 /\ step[Main] > First
      BY <1>0, <1>1
    <2>2. PICK u \in Threads \ {Main} : Creates(First, u)
      BY <1>0, <2>1, Chosen DEF CreatesHolding
    <2> QED
      BY <1>2, <2>1, <2>2
  <1>4. ASSUME NEW t \in Threads \ {Main}
        PROVE  Self(t) \in TS
    <2>1. PICK i \in First .. Opens - 1 : Creates(i, t)
      BY CreateSteps
    <2>2. CASE step[Main] > i
      BY <1>2, <2>1, <2>2
    <2>3. CASE step[Main] <= i
      <3>1. i = Opens - 1 /\ ~(step[Main] >= Opens)
        BY <1>0, <1>1, <2>3
      <3>2. PICK u \in Threads : Creates(Opens - 1, u) /\ Self(u) \in TS
        BY <3>1
      <3>3. u = t
        BY <2>1, <3>1, <3>2, CreateSteps
      <3> QED
        BY <3>2, <3>3
    <2> QED
      BY <1>0, <2>2, <2>3
  <1> QED
    BY <1>3, <1>4

\* Nobody registers any more.
LEMMA NoNewcomer ==
  ASSUME IInv, RegistersFirst, ControlInv, \A t \in Threads : Self(t) \in TS,
         NEW t \in Threads, NEW h \in Handles
  PROVE  ~getState(t, h)
  BY DEF getState, Wanted, Child, Self, IInv, Callbacks

\* How a thread leaves the points where its epoch may be out of step.
LEMMA Departures ==
  ASSUME TypeOK, NEW t \in Threads, ThreadStep(t)
  PROVE  /\ pc[t] \in {"fork", "adopt", "tick"} =>
              ft_fork(t) \/ ft_acquire_adopt(t) \/ ft_release_tick(t)
         /\ pc[t] = "create" => pc'[t] \in {"create", "fork"}
         /\ ft_acquire(t) => pc'[t] = "adopt"
         /\ ft_release(t) => pc'[t] = "tick"
  BY DEF TypeOK, ThreadStep, PthreadCreate, PthreadJoin, PthreadMutexLock, PthreadMutexUnlock,
     Untracked, Access, Performs, getState, getLockState, getVarState, ft_read, ft_write, InAccess,
     ft_fork_count, ft_fork, ft_join_test, ft_join_drop, ft_join, ft_acquire, ft_acquire_adopt,
     ft_release, ft_release_tick, Goto, Wanted, control

\* defs.h:71, between callbacks, survives every step of every thread.
LEMMA InStepStep ==
  ASSUME IInv, RegistersFirst, ControlInv, step[Main] < Opens => FirstClocks,
         \A u \in Threads : InStep(u), NEW t \in Threads, ThreadStep(t), NEW s \in Threads
  PROVE  InStep(s)'
  <1> DEFINE Midway == {"create", "fork", "adopt", "tick"}
  <1>0. TypeOK /\ Distinct
    BY Chosen DEF IInv
  <1>1. s # t => UNCHANGED pc[s]
    BY <1>0, Strides
  <1>2. SUFFICES ASSUME Self(s) \in TS', pc'[s] \notin Midway
                 PROVE  epoch'[Self(s)] = C'[Self(s)].at[tid'[Self(s)]]
    BY DEF InStep, Own, Self
  <1>3. Self(s) \in TS /\ pc[s] \notin Midway => epoch[Self(s)] = C[Self(s)].at[tid[Self(s)]]
    BY DEF InStep, Own
  <1>4. CASE ft_fork(t) \/ ft_join(t)
    <2>1. PICK a, b : \/ ft_fork(t) /\ a = Self(t) /\ b = Child(t)
                      \/ ft_join(t) /\ a = Child(t) /\ b = Self(t)
      BY <1>4
    <2>2. /\ UNCHANGED <<TS, tid>>
          /\ \A k \in TS : k # a /\ k # b => C'[k] = C[k] /\ epoch'[k] = epoch[k]
          /\ epoch'[a] = epoch[a] + 1 /\ C'[a].at[tid[a]] = epoch[a] + 1
          /\ epoch'[b] = C'[b].at[tid[b]]
      BY <2>1, HandedOver
    <2>3. CASE Self(s) \in {a, b}
      BY <2>2, <2>3
    <2>4. CASE Self(s) \notin {a, b}
      <3>1. s # t
        BY <2>1, <2>4
      <3> QED
        BY <1>1, <1>2, <1>3, <2>2, <2>4, <3>1
    <2> QED
      BY <2>3, <2>4
  <1>5. CASE ft_acquire(t) \/ ft_acquire_adopt(t) \/ ft_release(t) \/ ft_release_tick(t)
    <2>1. /\ pc[t] \in {"acquire", "adopt", "release", "tick"} /\ UNCHANGED <<TS, tid>>
          /\ \A k \in TS : k # Self(t) => C'[k] = C[k] /\ epoch'[k] = epoch[k]
          /\ pc[t] \in {"adopt", "tick"} => epoch'[Self(t)] = C'[Self(t)].at[tid[Self(t)]]
      BY <1>5, LockSteps
    <2>2. CASE s = t
      <3>1. ~ft_acquire(t) /\ ~ft_release(t)
        BY <1>0, <1>2, <2>2, Departures
      <3>2. pc[t] \in {"adopt", "tick"}
        BY <1>5, <3>1 DEF ft_acquire_adopt, ft_release_tick
      <3> QED
        BY <2>1, <2>2, <3>2
    <2>3. CASE s # t
      BY <1>0, <1>1, <1>2, <1>3, <2>1, <2>3 DEF Distinct
    <2> QED
      BY <2>2, <2>3
  <1>6. ASSUME NEW h \in Handles, getState(t, h)
        PROVE  epoch'[Self(s)] = C'[Self(s)].at[tid'[Self(s)]]
    <2>1. /\ h \in Wanted(t) /\ h \notin TS /\ TS' = TS \cup {h} /\ UNCHANGED pc
          /\ epoch'[h] = 1 /\ C'[h].at[tid'[h]] = 1
      BY <1>6, Newcomer
    <2>2. step[Main] < Opens
      <3>1. step[Main] \in Nat /\ Opens \in Nat
        BY <1>0, Chosen, ProgramAssumption DEF TypeOK
      <3>2. ~(step[Main] >= Opens)
        BY <1>0, <1>6, AllIn, NoNewcomer
      <3> QED
        BY <3>1, <3>2
    <2>3. t = Main /\ FirstClocks'
      BY <1>0, <2>2, MainAlone, FirstClocksStep
    <2>4. CASE Self(s) = h
      BY <2>1, <2>4
    <2>5. CASE Self(s) # h /\ s # Main
      BY <1>2, <2>3, <2>5 DEF FirstClocks, Own, Self
    <2>6. CASE Self(s) # h /\ s = Main
      <3>1. pc[Main] = "create"
        BY <1>0, <2>1, <2>2, <2>3, <2>6, Prelude DEF Wanted
      <3> QED
        BY <1>2, <2>1, <2>6, <3>1
    <2> QED
      BY <2>4, <2>5, <2>6
  <1>7. CASE /\ UNCHANGED <<TS, tid, C, epoch>>
             /\ ~ft_fork(t) /\ ~ft_acquire_adopt(t) /\ ~ft_release_tick(t)
    <2>1. s = t => pc[s] \notin Midway
      BY <1>0, <1>2, <1>7, Departures
    <2> QED
      BY <1>1, <1>2, <1>3, <1>7, <2>1
  <1>8. ASSUME NEW m \in Locks, getLockState(t, m)
        PROVE  UNCHANGED <<TS, tid, C, epoch>>
    BY <1>8 DEF getLockState, threads
  <1> QED
    BY <1>4, <1>5, <1>6, <1>7, <1>8, Disturbers

\* Ages survives every step of every thread.
LEMMA AgesStep ==
  ASSUME IInv, RegistersFirst, ControlInv, step[Main] < Opens => FirstClocks, Ages,
         NEW t \in Threads, ThreadStep(t)
  PROVE  Ages'
  <1>0. /\ TypeOK /\ Distinct /\ Main \in Threads /\ step[Main] \in Nat /\ First \in Nat /\ Opens \in Nat
        /\ First + 1 < Opens /\ step'[Main] \in {step[Main], step[Main] + 1}
    <2>1. TypeOK /\ Main \in Threads
      BY ProgramAssumption DEF IInv
    <2>2. UNCHANGED step[Main] \/ step'[Main] = step[Main] + 1
      BY <2>1, Strides
    <2> QED
      BY <2>1, <2>2, Chosen, CreateSteps DEF TypeOK
  <1>1. step[Main] < Opens => t = Main /\ FirstClocks'
    BY <1>0, MainAlone, FirstClocksStep
  <1>2. ft_fork(t) => Self(t) \in TS /\ epoch[Self(t)] \in Nat /\ UNCHANGED <<TS, tid>>
                      /\ C'[Self(t)].at[tid[Self(t)]] = epoch[Self(t)] + 1
    <2>1. SUFFICES ASSUME ft_fork(t)
                   PROVE  Self(t) \in TS /\ epoch[Self(t)] \in Nat /\ UNCHANGED <<TS, tid>>
                          /\ C'[Self(t)].at[tid[Self(t)]] = epoch[Self(t)] + 1
      OBVIOUS
    <2>2. Self(t) \in TS /\ UNCHANGED <<TS, tid>>
          /\ C'[Self(t)].at[tid[Self(t)]] = epoch[Self(t)] + 1
      BY <2>1, HandedOver
    <2> QED
      BY <2>2, Readings
  <1>3. First < step'[Main] /\ step'[Main] < Opens => Own(Self(Main))' >= 1
    <2>1. SUFFICES ASSUME First < step'[Main], step'[Main] < Opens
                   PROVE  C'[Self(Main)].at[tid'[Self(Main)]] >= 1
      BY DEF Own, Self
    <2>2. t = Main /\ First <= step[Main] /\ step[Main] < Opens
      BY <1>0, <1>1, <2>1
    <2>3. CASE ft_fork(t)
      BY <1>2, <2>2, <2>3
    <2>4. CASE ~ft_fork(t)
      <3>1. step'[Main] = step[Main]
        BY <1>0, <2>2, <2>4, Forks
      <3>2. C[Self(Main)].at[tid[Self(Main)]] >= 1 /\ Self(Main) \in TS
        <4>1. First < step[Main]
          BY <2>1, <3>1
        <4>2. PICK u \in Threads \ {Main} : Creates(First, u)
          BY <1>0, Chosen DEF CreatesHolding
        <4>3. First \in First .. Opens - 1
          BY <1>0
        <4>4. Creation(First, u)
          BY <4>2, <4>3 DEF ControlInv, Births
        <4> QED
          BY <2>2, <4>1, <4>4 DEF Ages, Own, Creation
      <3>3. pc[Main] \in {"run", "create", "fork"}
        BY <1>0, <2>2, Prelude
      <3>4. CASE UNCHANGED <<tid, C>>
        BY <3>2, <3>4
      <3>5. ASSUME NEW h \in Handles, getState(t, h)
            PROVE  C'[Self(Main)].at[tid'[Self(Main)]] >= 1
        <4>1. /\ tid'[Self(Main)] = tid[Self(Main)]
              /\ \/ C'[Self(Main)].at[tid[Self(Main)]] = 1
                 \/ C'[Self(Main)].at[tid[Self(Main)]] = C[Self(Main)].at[tid[Self(Main)]]
          BY <3>2, <3>5, Newcomer
        <4> QED
          BY <3>2, <4>1
      <3> QED
        BY <2>2, <2>4, <3>3, <3>4, <3>5, Disturbers DEF getLockState, ft_join, ft_acquire,
           ft_acquire_adopt, ft_release, ft_release_tick
    <2> QED
      BY <2>3, <2>4
  <1>4. (\A h \in Handles : ~getState(t, h)) => UNCHANGED <<TS, tid>>
    <2>1. ASSUME \A h \in Handles : ~getState(t, h)
          PROVE  UNCHANGED <<TS, tid>>
      <3>1. CASE ft_fork(t) \/ ft_join(t)
        BY <3>1 DEF ft_fork, ft_join
      <3>2. CASE ft_acquire(t) \/ ft_acquire_adopt(t) \/ ft_release(t) \/ ft_release_tick(t)
        BY <3>2, LockSteps
      <3>3. \A m \in Locks : getLockState(t, m) => UNCHANGED <<TS, tid>>
        BY DEF getLockState, threads
      <3> QED
        BY <2>1, <3>1, <3>2, <3>3, Disturbers
    <2> QED
      BY <2>1
  <1>5. ASSUME NEW u \in Threads, Creates(Opens - 1, u), Self(u) \in TS'
        PROVE  tid'[Self(u)] = Cardinality(TS')
    <2>1. CASE Self(u) \in TS
      <3>1. UNCHANGED <<TS, tid>>
        BY <1>0, <1>4, <1>5, <2>1, AllIn, NoNewcomer
      <3> QED
        BY <1>5, <2>1, <3>1 DEF Ages
    <2>2. CASE Self(u) \notin TS
      <3>1. PICK h \in Handles : getState(t, h)
        BY <1>4, <1>5, <2>2
      <3>2. TS' = TS \cup {h} /\ tid'[h] = Cardinality(TS')
        BY <3>1, Newcomer
      <3> QED
        BY <1>5, <2>2, <3>2
    <2> QED
      BY <2>1, <2>2
  <1>6. ASSUME NEW u \in Threads, ~Creates(Opens - 1, u), step'[Main] >= Opens
        PROVE  /\ tid'[Self(u)] < C'[Self(u)].size /\ C'[Self(u)].at[tid'[Self(u)]] >= 1
               /\ tid'[Self(u)] < Cardinality(TS')
    <2>1. CASE step[Main] >= Opens
      <3>1. (\A v \in Threads : Self(v) \in TS) /\ UNCHANGED <<TS, tid>>
        BY <1>0, <1>4, <2>1, AllIn, NoNewcomer
      <3>2. Settled(Self(u)) /\ tid[Self(u)] < Cardinality(TS)
        BY <1>6, <2>1 DEF Ages
      <3>3. /\ tid[Self(u)] < C'[Self(u)].size
            /\ C'[Self(u)].at[tid[Self(u)]] >= C[Self(u)].at[tid[Self(u)]]
        BY <3>1, <3>2, AdvanceStep
      <3>4. C[Self(u)].at[tid[Self(u)]] >= 1 /\ C[Self(u)].at[tid[Self(u)]] \in Nat
        BY <3>1, <3>2, Readings DEF Settled, Own
      <3>5. C'[Self(u)].at[tid[Self(u)]] \in Nat
        <4>1. TypeOK'
          BY TypeStep DEF IInv
        <4> QED
          BY <3>1, <4>1, Readings DEF TypeOK, VectorClock
      <3> QED
        BY <3>1, <3>2, <3>3, <3>4, <3>5
    <2>2. CASE step[Main] < Opens
      <3>1. t = Main /\ FirstClocks' /\ step[Main] = Opens - 1 /\ ft_fork(Main)
        BY <1>0, <1>1, <1>6, <2>2, Forks
      <3>2. /\ Self(Main) \in TS /\ Child(Main) \in TS /\ Self(Main) # Child(Main)
            /\ UNCHANGED <<TS, tid>>
        BY <3>1, HandedOver
      <3>3. Creates(Opens - 1, call[Main].on) /\ call[Main].on \in Threads
        BY <1>0, <3>1, Whereabouts DEF ft_fork
      <3>4. \A v \in Threads : Self(v) \in TS
        BY <1>0, <3>2, <3>3, AllIn DEF Child, Self
      <3>5. C'[Self(u)].size = Cardinality(TS')
        BY <3>1, <3>2, <3>4 DEF FirstClocks, Self
      <3>6. tid[Self(call[Main].on)] = Cardinality(TS) /\ u # call[Main].on
        BY <1>6, <3>3, <3>4 DEF Ages
      <3>7. tid[Self(u)] \in 1 .. Cardinality(TS) /\ tid[Self(u)] # tid[Self(call[Main].on)]
        BY <1>0, <3>3, <3>4, <3>6 DEF IInv, ClockInv, Numbering, Distinct
      <3>8. tid[Self(u)] < Cardinality(TS)
        BY <3>6, <3>7, Readings
      <3>9. C'[Self(u)].at[tid[Self(u)]] >= 1
        <4>1. CASE u = Main
          BY <1>2, <3>1, <4>1
        <4>2. CASE u # Main
          BY <3>1, <3>2, <3>4, <4>2 DEF FirstClocks, Own, Self
        <4> QED
          BY <4>1, <4>2
      <3> QED
        BY <3>2, <3>5, <3>8, <3>9
    <2> QED
      BY <1>0, <2>1, <2>2
  <1> QED
    BY <1>3, <1>5, <1>6 DEF Ages, Settled, Own, Creates, Self

\* Before the first create every access is one by the only thread.
LEMMA AllOrderedStep ==
  ASSUME IInv, RegistersFirst, ControlInv, AllOrdered, step[Main] <= First,
         NEW t \in Threads, HBThreadStep(t)
  PROVE  AllOrdered'
  <1>0. TypeOK /\ ThreadStep(t) /\ t = Main /\ step[Main] \in Nat /\ First \in Nat
        /\ step[Main] < Opens
    <2>1. TypeOK /\ ThreadStep(t) /\ step[Main] \in Nat /\ First \in Nat /\ step[Main] < Opens
      BY RuntimeStep, Chosen, CreateSteps, ProgramAssumption DEF IInv, TypeOK
    <2> QED
      BY <2>1, MainAlone
  <1>1. \A x \in Vars, k \in Kinds, u \in Threads : seen[x][k][u] = Knowers
    BY DEF AllOrdered, Kinds
  <1>2. SUFFICES \A x \in Vars, k \in Kinds, u \in Threads : seen'[x][k][u] = Knowers
    BY DEF AllOrdered, Kinds
  <1>3. CASE UNCHANGED seen
    BY <1>1, <1>3
  <1>4. ASSUME NEW a \in Knowers, NEW b \in Knowers, Learn(a, b)
        PROVE  \A x \in Vars, k \in Kinds, u \in Threads : seen'[x][k][u] = Knowers
    <2>1. ASSUME NEW x \in Vars, NEW k \in Kinds, NEW u \in Threads
          PROVE  seen'[x][k][u] = Knowers
      <3>1. seen'[x][k][u] = seen[x][k][u] \cup {b}
        BY <1>1, <1>4, <2>1, Learning DEF Learned
      <3> QED
        BY <1>1, <3>1
    <2> QED
      BY <2>1
  <1>5. ASSUME NEW x \in Vars, NEW do \in Accesses, Access(t, x, do), RealAccess(t, x, do)
        PROVE  \A y \in Vars, k \in Kinds, u \in Threads : seen'[y][k][u] = Knowers
    <2>1. step[Main] < First
      <3>1. Performs(Main, [do |-> do, on |-> x])
        BY <1>0, <1>5 DEF Access
      <3>2. [do |-> do, on |-> x].do = do /\ do # "create"
        BY DEF Accesses
      <3>3. ~(First <= step[Main])
        BY <1>0, <3>1, <3>2, Prelude
      <3> QED
        BY <1>0, <3>3
    <2>2. Solitary(t)
      BY <1>0, <2>1, Unshared DEF Solitary
    <2>3. seen' = [seen EXCEPT ![x][Kind(do)][t] = Knowers]
      BY <1>5, <2>2 DEF RealAccess
    <2>4. ASSUME NEW y \in Vars, NEW k \in Kinds, NEW u \in Threads
          PROVE  seen'[y][k][u] = seen[y][k][u] \/ seen'[y][k][u] = Knowers
      BY <2>3
    <2> QED
      BY <1>1, <2>4
  <1>6. t \in Knowers /\ (\A u \in Threads : u \in Knowers) /\ (\A m \in Locks : m \in Knowers)
    BY DEF Knowers
  <1>7. ft_release_tick(t) => call[t].on \in Knowers
    BY DEF ft_release_tick, IInv, Callbacks, Knowers
  <1>8. \/ UNCHANGED seen \/ \E a, b \in Knowers : Learn(a, b)
        \/ \E x \in Vars, do \in Accesses : Access(t, x, do) /\ RealAccess(t, x, do)
    BY <1>6, <1>7 DEF HBThreadStep
  <1> QED
    BY <1>3, <1>4, <1>5, <1>8

-----------------------------------------------------------------------------
(* The invariant, and what it gives.                                       *)

LEMMA InitGateInv ==
  ASSUME RegistersFirst, HBInit
  PROVE  GateInv
  <1>1. /\ step[Main] = 1 /\ life[Main] = "running" /\ TS = {} /\ LS = {}
        /\ \A t \in Threads : pc[t] = "run" /\ step[t] = 1 /\ (t # Main => life[t] = "unborn")
        /\ 1 < First /\ First + 1 < Opens /\ First \in Nat /\ Opens \in Nat
        /\ Main \in Threads
    BY Chosen, CreateSteps, ProgramAssumption DEF HBInit, Init
  <1>2. Births
    <2>1. ASSUME NEW i \in First .. Opens - 1, NEW u \in Threads, Creates(i, u)
          PROVE  Creation(i, u)
      BY <1>1, <2>1, CreateSteps DEF Creation
    <2> QED
      BY <1>1, <2>1 DEF Births
  <1>3. ControlInv
    BY <1>1, <1>2 DEF ControlInv, InCall, Waiting
  <1>4. FirstClocks /\ (\A t \in Threads : InStep(t)) /\ Ages
    BY <1>1 DEF FirstClocks, InStep, Ages
  <1>5. AllOrdered
    BY DEF HBInit, AllOrdered
  <1> QED
    BY <1>3, <1>4, <1>5 DEF GateInv

\* GateInv survives every step of every thread.
LEMMA GateInvStep ==
  ASSUME IInv, RegistersFirst, GateInv, NEW t \in Threads, HBThreadStep(t)
  PROVE  GateInv'
  <1>0. /\ ThreadStep(t) /\ ControlInv /\ (\A u \in Threads : InStep(u)) /\ Ages
        /\ step[Main] < Opens => FirstClocks
        /\ step[Main] <= First => AllOrdered
    BY RuntimeStep DEF GateInv
  <1>1. step[Main] \in Nat /\ First \in Nat /\ Opens \in Nat
        /\ step'[Main] \in {step[Main], step[Main] + 1}
    <2>1. TypeOK /\ Main \in Threads
      BY ProgramAssumption DEF IInv
    <2>2. UNCHANGED step[Main] \/ step'[Main] = step[Main] + 1
      BY <1>0, <2>1, Strides
    <2> QED
      BY <2>1, <2>2, Chosen DEF TypeOK
  <1>2. ControlInv'
    BY <1>0, ControlInvStep
  <1>3. step'[Main] < Opens => FirstClocks'
    <2>1. step'[Main] < Opens => step[Main] < Opens
      BY <1>1
    <2> QED
      BY <1>0, <2>1, FirstClocksStep
  <1>4. \A u \in Threads : InStep(u)'
    BY <1>0, InStepStep
  <1>5. Ages'
    BY <1>0, AgesStep
  <1>6. step'[Main] <= First => AllOrdered'
    <2>1. step'[Main] <= First => step[Main] <= First
      BY <1>1
    <2> QED
      BY <1>0, <2>1, AllOrderedStep
  <1> QED
    BY <1>2, <1>3, <1>4, <1>5, <1>6 DEF GateInv

\* GateInv, with the counter exact, makes every step to come a gated one.
LEMMA GateInvGated ==
  ASSUME IInv, RegistersFirst, GateInv, LiveCount, IsFiniteSet(Threads)
  PROVE  Gated
  <1>0. /\ TypeOK /\ Callbacks /\ ControlInv /\ Distinct /\ Main \in Threads /\ step[Main] \in Nat
        /\ First \in Nat /\ Opens \in Nat /\ 1 < First /\ First + 1 < Opens
    BY Chosen, CreateSteps, ProgramAssumption DEF IInv, GateInv, TypeOK
  <1>1. \A t \in Threads : pc[t] # "waiting"
    BY <1>0, Whereabouts
  <1>2. ASSUME NEW t \in Threads, NEW op \in Op, Performs(t, op)
        PROVE  /\ op.do \notin {"vptr_read", "cond_wait"}
               /\ op.do = "trylock" => AllOrdered
               /\ op.do \in Accesses =>
                    /\ (t = Main /\ step[Main] < First) \/ step[Main] >= Opens
                    /\ ~Creates(Opens - 1, t)
    <2>1. PICK i \in DOMAIN Program[t] : i = step[t] /\ op \in Program[t][i]
      BY <1>0, <1>2, AboutTo
    <2>2. CASE t = Main
      <3>1. /\ op.do \in {"create", "lock", "unlock", "trylock", "join", "read", "write", "vptr_update"}
            /\ op.do = "create" <=> First <= i /\ i < Opens
            /\ op.do = "trylock" => i < First
        BY <2>1, <2>2, MainOps
      <3>2. ~Creates(Opens - 1, Main)
        <4>1. Opens - 1 \in First .. Opens - 1
          BY <1>0
        <4> QED
          BY <1>0, <4>1, CreateSteps
      <3> QED
        BY <1>0, <2>1, <2>2, <3>1, <3>2 DEF GateInv, Accesses
    <2>3. CASE t # Main
      <3>1. /\ op.do \in {"lock", "unlock", "read", "write", "vptr_update"}
            /\ i = 1 => op.do = "lock"
            /\ op.do \in Accesses => ~Creates(Opens - 1, t)
        BY <2>1, <2>3, WorkerOps
      <3>2. step[Main] < Opens => i = 1
        BY <1>0, <2>1, <2>3, Whereabouts
      <3> QED
        BY <1>0, <3>1, <3>2 DEF Accesses
    <2> QED
      BY <2>2, <2>3
  <1>3. ASSUME NEW t \in Threads, pc[t] = "run", life[t] = "running", ~Creates(Opens - 1, t),
               step[Main] >= Opens
        PROVE  /\ AllRegistered /\ Fit(Self(t))
               /\ IF Solitary(t) THEN isConcurrent = 0 ELSE isConcurrent # 0
    <2>1. \A u \in Threads : Self(u) \in TS /\ life[u] # "unborn"
      BY <1>0, <1>3, AllIn DEF ControlInv, Births, Distinct
    <2>2. \A u \in Threads : pc[u] \notin {"create", "fork"}
      <3>1. ASSUME NEW u \in Threads, pc[u] \in {"create", "fork"}
            PROVE  FALSE
        <4>1. step[Main] \in First .. Opens - 1
          BY <1>0, <3>1, Whereabouts
        <4> QED
          BY <1>0, <1>3, <4>1
      <3> QED
        BY <3>1
    <2>3. AllRegistered
      BY <2>1, <2>2 DEF AllRegistered
    <2>4. Fit(Self(t))
      <3>1. Settled(Self(t)) /\ tid[Self(t)] < Cardinality(TS)
        BY <1>3 DEF GateInv, Ages
      <3>2. epoch[Self(t)] = Own(Self(t))
        BY <1>3, <2>1 DEF GateInv, InStep
      <3> QED
        BY <3>1, <3>2 DEF Fit
    <2>5. Born = Threads \ {Main} /\ Creating = {} /\ Joined \subseteq Born
          /\ \A u \in Leaving : u = Main
      <3>1. \A u \in Threads : pc[u] \in {"join", "drop"} => u = Main
        BY <1>0, Whereabouts
      <3> QED
        BY <2>1, <2>2, <3>1 DEF Born, Creating, Joined, Leaving, ControlInv, Births, GateInv
    <2>6. /\ Cardinality(Creating) = 0 /\ Cardinality(Born) \in Nat /\ Cardinality(Joined) \in Nat
          /\ Cardinality(Leaving) \in Nat /\ IsFiniteSet(Born)
          /\ isConcurrent = Cardinality(Born) - Cardinality(Joined) + Cardinality(Leaving)
      <3>1. Cardinality(Creating) = 0
        BY <2>5, FS_EmptySet
      <3> QED
        BY <3>1, Counted
    <2>7. CASE Solitary(t)
      <3>1. t = Main /\ \A u \in Threads \ {Main} : life[u] = "joined"
        BY <1>0, <2>1, <2>7 DEF Solitary, ControlInv, Births, TypeOK
      <3>2. Joined = Born /\ Leaving = {}
        BY <1>3, <2>5, <3>1 DEF Joined, Leaving
      <3>3. Cardinality(Leaving) = 0
        BY <3>2, FS_EmptySet
      <3> QED
        BY <2>3, <2>4, <2>6, <2>7, <3>2, <3>3
    <2>8. CASE ~Solitary(t)
      <3>1. PICK w \in Threads \ {Main} : life[w] = "running"
        BY <1>3, <2>8 DEF Solitary
      <3>2. w \in Born /\ w \notin Joined
        BY <2>5, <3>1 DEF Joined
      <3>3. Cardinality(Joined) <= Cardinality(Born) /\ Cardinality(Joined) # Cardinality(Born)
        BY <2>5, <2>6, <3>2, FS_Subset
      <3>4. isConcurrent # 0
        <4>1. \A b, j, l \in Nat : j <= b /\ j # b => b - j + l # 0
          OBVIOUS
        <4> QED
          BY <2>6, <3>3, <4>1
      <3> QED
        BY <2>3, <2>4, <2>8, <3>4
    <2> QED
      BY <2>7, <2>8
  <1>4. ASSUME step[Main] < First, pc[Main] = "run"
        PROVE  Solitary(Main) /\ isConcurrent = 0
    <2>1. \A u \in Threads \ {Main} : life[u] = "unborn"
      BY <1>0, <1>4, Unshared
    <2>2. \A u \in Threads : pc[u] = "run"
      BY <1>0, <1>4, <2>1 DEF Callbacks
    <2>3. Born = {} /\ Creating = {} /\ Joined = {} /\ Leaving = {}
      BY <1>0, <2>1, <2>2 DEF Born, Creating, Joined, Leaving, ControlInv, Births
    <2>4. isConcurrent = 0 - 0 - 0 + 0
      BY <2>3, Counted, FS_EmptySet
    <2> QED
      BY <2>1, <2>4 DEF Solitary
  <1>5. ASSUME NEW t \in Threads, NEW op \in Op, Performs(t, op), op.do \in Accesses
        PROVE  IF Solitary(t) THEN isConcurrent = 0
               ELSE isConcurrent # 0 /\ AllRegistered /\ Fit(Self(t))
    <2>1. pc[t] = "run" /\ life[t] = "running"
      BY <1>5 DEF Performs
    <2>2. /\ (t = Main /\ step[Main] < First) \/ step[Main] >= Opens
          /\ ~Creates(Opens - 1, t)
      BY <1>2, <1>5
    <2> QED
      BY <1>3, <1>4, <2>1, <2>2
  <1> QED
    BY <1>0, <1>1, <1>2, <1>5 DEF Gated, Distinct

\* There are no more threads than pthread_t's, and Main joins those it created.
LEMMA OneCreator ==
  ASSUME RegistersFirst
  PROVE  IsFiniteSet(Threads) /\ CreatorsJoin
  <1>1. IsFiniteSet(Threads)
    <2>1. Handle \in Injection(Threads, Handles)
      BY ProgramAssumption DEF RegistersFirst, Self, Injection, IsInjective
    <2> QED
      BY <2>1, HandlesAssumption, FS_Injection
  <1>2. ASSUME NEW v \in Threads, NEW k \in DOMAIN Program[v], NEW join \in Program[v][k],
               join.do = "join"
        PROVE  v = Main /\ join.on # Main
    <2>1. v = Main
      BY <1>2, WorkerOps
    <2> QED
      BY <1>2, <2>1, MainOps
  <1>3. ASSUME NEW t \in Threads, NEW i \in DOMAIN Program[t], NEW u,
               [do |-> "create", on |-> u] \in Program[t][i]
        PROVE  t = Main
    <2> DEFINE op == [do |-> "create", on |-> u]
    <2>1. op \in Program[t][i] /\ op.do = "create"
      BY <1>3
    <2> HIDE DEF op
    <2> QED
      BY <2>1, WorkerOps
  <1> QED
    BY <1>1, <1>2, <1>3 DEF CreatorsJoin

\* No step of such a program breaks GateInv.
LEMMA NextGateInv ==
  ASSUME RegistersFirst
  PROVE  IInv /\ GateInv /\ [HBNext]_hbvars => GateInv'
  <1> SUFFICES ASSUME IInv, GateInv, [HBNext]_hbvars
               PROVE  GateInv'
    OBVIOUS
  <1>1. ASSUME NEW t \in Threads, HBThreadStep(t)
        PROVE  GateInv'
    BY <1>1, GateInvStep
  <1>2. CASE UNCHANGED hbvars
    <2>1. UNCHANGED <<life, step, holder, pc, call, TS, tid, C, epoch, LS, L, seen>>
      BY <1>2 DEF hbvars, vars
    <2> QED
      BY <2>1 DEF GateInv, ControlInv, InCall, Waiting, Births, Creation, Creates, FirstClocks,
         InStep, Ages, Settled, Own, AllOrdered, Self
  <1>3. CASE Terminated /\ UNCHANGED <<seen, racy>>
    BY <1>2, <1>3 DEF Terminated, hbvars
  <1> QED
    BY <1>1, <1>2, <1>3 DEF HBNext

\* A program that registers its threads first (getState, ft_fork), as its text
\* shows, is gated in whatever order its threads run.
THEOREM Gates ==
  ASSUME RegistersFirst
  PROVE  HBSpec => []Gated
  <1>1. HBInit => GateInv
    BY InitGateInv
  <1>2. IInv /\ GateInv /\ [HBNext]_hbvars => GateInv'
    BY NextGateInv
  <1>3. Spec => []LiveCount
    BY OneCreator, CountsLive
  <1>4. IInv /\ GateInv /\ LiveCount => Gated
    BY OneCreator, GateInvGated
  <1> QED
    BY <1>1, <1>2, <1>3, <1>4, Runtime, Invariance, PTL DEF HBSpec

\* Of such a program the runtime reports the variables that race, and no
\* other (ft_read, ft_write): nothing is assumed of its schedule.
THEOREM Exact ==
  ASSUME RegistersFirst
  PROVE  HBSpec => [](NoFalseAlarm /\ NoMissedRace)
  <1>1. HBSpec => []Gated
    BY Gates
  <1> QED
    BY <1>1, Precise, Complete, PTL
=============================================================================
