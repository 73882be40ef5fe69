---------------------------- MODULE EtsanProofs ----------------------------
(***************************************************************************)
(* Etsan's vector clocks, proved for any program: any number of threads,   *)
(* mutexes and variables, any schedule.                                    *)
(***************************************************************************)
EXTENDS Etsan, FiniteSetTheorems, TLAPS

(***************************************************************************)
(* The clock operators.                                                    *)
(***************************************************************************)

\* What a vector says of index i to code that stays within its size.
Known(v, i) == IF i < v.size THEN v.at[i] ELSE 0

\* The number of threads is a natural number (getState's TS.C.size()).
LEMMA MaxTidNat == MaxTid \in Nat
  BY HandlesAssumption, FS_CardinalityType DEF MaxTid

\* newVectorClock yields a vector of the given size, zero at every index.
LEMMA NewClock ==
  ASSUME NEW n \in 0 .. MaxTid + 1
  PROVE  /\ newVectorClock(n) \in VectorClock
         /\ newVectorClock(n).size = n
         /\ \A i \in Slots : newVectorClock(n).at[i] = 0
  BY MaxTidNat DEF newVectorClock, VectorClock

\* push_back up to n entries: the size reached and each word of the result.
LEMMA PushedClock ==
  ASSUME NEW v \in VectorClock, NEW n \in 0 .. MaxTid + 1,
         NEW fresh \in [Slots -> Nat]
  PROVE  /\ PushUpTo(v, n, fresh) \in VectorClock
         /\ PushUpTo(v, n, fresh).size = Larger(v.size, n)
         /\ \A i \in Slots :
              PushUpTo(v, n, fresh).at[i] =
                IF v.size <= i /\ i < n THEN fresh[i] ELSE v.at[i]
  BY MaxTidNat DEF PushUpTo, VectorClock, Larger, Slots

\* ExtendVectorClocks appends zeros and touches nothing else.
LEMMA ExtendedClock ==
  ASSUME NEW v \in VectorClock, NEW w \in VectorClock
  PROVE  /\ ExtendToMatch(v, w) \in VectorClock
         /\ ExtendToMatch(v, w).size = Larger(v.size, w.size)
         /\ \A i \in Slots :
              ExtendToMatch(v, w).at[i] =
                IF v.size <= i /\ i < w.size THEN 0 ELSE v.at[i]
  <1> DEFINE n == Larger(v.size, w.size)
             fresh == [i \in Slots |-> 0]
  <1>1. n \in 0 .. MaxTid + 1 /\ v.size \in Nat /\ w.size \in Nat
    BY MaxTidNat DEF VectorClock, Larger
  <1>2. fresh \in [Slots -> Nat]
    OBVIOUS
  <1>3. ExtendToMatch(v, w) = PushUpTo(v, n, fresh)
    BY DEF ExtendToMatch, ExtendVectorClock
  <1> HIDE DEF n, fresh
  <1>4. /\ PushUpTo(v, n, fresh) \in VectorClock
        /\ PushUpTo(v, n, fresh).size = Larger(v.size, n)
        /\ \A i \in Slots : PushUpTo(v, n, fresh).at[i] =
                              IF v.size <= i /\ i < n THEN fresh[i] ELSE v.at[i]
    BY <1>1, <1>2, PushedClock
  <1>5. Larger(v.size, n) = n
    BY <1>1 DEF n, Larger
  <1>6. \A i \in Slots : (v.size <= i /\ i < n) <=> (v.size <= i /\ i < w.size)
    BY <1>1, MaxTidNat DEF n, Larger, Slots
  <1>7. \A i \in Slots : fresh[i] = 0
    BY DEF fresh
  <1> QED
    BY <1>3, <1>4, <1>5, <1>6, <1>7 DEF n

\* The maximum of two vectors, taken word by word within the longer size.
LEMMA JoinedClock ==
  ASSUME NEW v \in VectorClock, NEW w \in VectorClock
  PROVE  /\ JoinClock(v, w) \in VectorClock
         /\ JoinClock(v, w).size = Larger(v.size, w.size)
         /\ \A i \in Slots :
              JoinClock(v, w).at[i] =
                IF i < Larger(v.size, w.size)
                THEN Larger(Known(v, i), Known(w, i)) ELSE v.at[i]
  <1> DEFINE ev == ExtendToMatch(v, w)
             ew == ExtendToMatch(w, v)
  <1>1. /\ ev \in VectorClock /\ ev.size = Larger(v.size, w.size)
        /\ \A i \in Slots : ev.at[i] = IF v.size <= i /\ i < w.size THEN 0 ELSE v.at[i]
    BY ExtendedClock
  <1>2. /\ ew \in VectorClock
        /\ \A i \in Slots : ew.at[i] = IF w.size <= i /\ i < v.size THEN 0 ELSE w.at[i]
    BY ExtendedClock
  <1>3. JoinClock(v, w) = [ev EXCEPT !.at = [i \in Slots |->
                             IF i < ev.size THEN Larger(ev.at[i], ew.at[i]) ELSE ev.at[i]]]
    BY DEF JoinClock
  <1> HIDE DEF ev, ew
  <1>4. v.size \in Nat /\ w.size \in Nat /\ \A i \in Slots : i \in Nat
    BY MaxTidNat DEF VectorClock, Slots
  <1>5. [i \in Slots |-> IF i < ev.size THEN Larger(ev.at[i], ew.at[i]) ELSE ev.at[i]]
          \in [Slots -> Nat]
    BY <1>1, <1>2 DEF VectorClock, Larger
  <1>6. ASSUME NEW i \in Slots
        PROVE  (IF i < ev.size THEN Larger(ev.at[i], ew.at[i]) ELSE ev.at[i])
                 = IF i < Larger(v.size, w.size)
                   THEN Larger(Known(v, i), Known(w, i)) ELSE v.at[i]
    BY <1>1, <1>2, <1>4 DEF Known, Larger
  <1>7. JoinClock(v, w) \in VectorClock /\ JoinClock(v, w).size = ev.size
    BY <1>1, <1>3, <1>5 DEF VectorClock
  <1>8. \A i \in Slots : JoinClock(v, w).at[i] =
                           IF i < ev.size THEN Larger(ev.at[i], ew.at[i]) ELSE ev.at[i]
    BY <1>1, <1>3 DEF VectorClock
  <1> QED
    BY <1>1, <1>6, <1>7, <1>8

\* A copy of the second vector, word by word within the longer size.
LEMMA CopiedClock ==
  ASSUME NEW v \in VectorClock, NEW w \in VectorClock
  PROVE  /\ CopyClock(v, w) \in VectorClock
         /\ CopyClock(v, w).size = Larger(v.size, w.size)
         /\ \A i \in Slots :
              CopyClock(v, w).at[i] =
                IF i < Larger(v.size, w.size) THEN Known(w, i) ELSE v.at[i]
  <1> DEFINE ev == ExtendToMatch(v, w)
             ew == ExtendToMatch(w, v)
  <1>1. /\ ev \in VectorClock /\ ev.size = Larger(v.size, w.size)
        /\ \A i \in Slots : ev.at[i] = IF v.size <= i /\ i < w.size THEN 0 ELSE v.at[i]
    BY ExtendedClock
  <1>2. /\ ew \in VectorClock
        /\ \A i \in Slots : ew.at[i] = IF w.size <= i /\ i < v.size THEN 0 ELSE w.at[i]
    BY ExtendedClock
  <1>3. CopyClock(v, w) = [ev EXCEPT !.at = [i \in Slots |->
                             IF i < ev.size THEN ew.at[i] ELSE ev.at[i]]]
    BY DEF CopyClock
  <1> HIDE DEF ev, ew
  <1>4. v.size \in Nat /\ w.size \in Nat /\ \A i \in Slots : i \in Nat
    BY MaxTidNat DEF VectorClock, Slots
  <1>5. [i \in Slots |-> IF i < ev.size THEN ew.at[i] ELSE ev.at[i]] \in [Slots -> Nat]
    BY <1>1, <1>2 DEF VectorClock
  <1>6. ASSUME NEW i \in Slots
        PROVE  (IF i < ev.size THEN ew.at[i] ELSE ev.at[i])
                 = IF i < Larger(v.size, w.size) THEN Known(w, i) ELSE v.at[i]
    BY <1>1, <1>2, <1>4 DEF Known, Larger
  <1>7. CopyClock(v, w) \in VectorClock /\ CopyClock(v, w).size = ev.size
    BY <1>1, <1>3, <1>5 DEF VectorClock
  <1>8. \A i \in Slots : CopyClock(v, w).at[i] = IF i < ev.size THEN ew.at[i] ELSE ev.at[i]
    BY <1>1, <1>3 DEF VectorClock
  <1> QED
    BY <1>1, <1>6, <1>7, <1>8

\* Storing one word leaves the size and the other words alone.
LEMMA StoredClock ==
  ASSUME NEW v \in VectorClock, NEW i \in Slots, NEW n \in Nat
  PROVE  /\ [v EXCEPT !.at[i] = n] \in VectorClock
         /\ [v EXCEPT !.at[i] = n].size = v.size
         /\ [v EXCEPT !.at[i] = n].at[i] = n
         /\ \A j \in Slots : j # i => [v EXCEPT !.at[i] = n].at[j] = v.at[j]
  BY DEF VectorClock

(***************************************************************************)
(* The inductive invariant.  Each runtime vector clock is private, except  *)
(* for what forks, joins, acquires and releases pass on; the invariant     *)
(* says what a vector may hold at another thread's index.                  *)
(***************************************************************************)
\* The code's own index space: unique, dense, NumThreads at most one ahead.
Numbering ==
  /\ NumThreads <= Cardinality(TS) + 1
  /\ \A h \in TS : tid[h] \in 1 .. Cardinality(TS)
  /\ \A g, h \in TS : tid[g] = tid[h] => g = h

\* A vector reaches all registered threads but possibly the last one.
Sizes ==
  /\ \A h \in TS : C[h].size \in Cardinality(TS) .. Cardinality(TS) + 1
  /\ \A m \in LS : L[m].size <= Cardinality(TS) + 1

\* Nothing is known at an index no thread has.
Unheard ==
  \A i \in Slots : (\A h \in TS : tid[h] # i) =>
    /\ \A k \in TS : C[k].at[i] = 0
    /\ \A m \in LS : L[m].at[i] = 0

InReach(h) == tid[h] < C[h].size

OwnClocks ==
  \A h \in TS : Own(h) <= epoch[h] /\ (~InReach(h) => Own(h) >= 1)

\* The vector v of someone else knows nothing of h that h has not reached,
\* and nothing at all while h's clock lies past the end of h's vector.
Hearsay(h, v) == v.at[tid[h]] <= Own(h) /\ (~InReach(h) => v.at[tid[h]] = 0)

Behind(h, v) == Settled(h) => v.at[tid[h]] < Own(h)

HeardByThreads ==
  \A h \in TS : \A k \in TS \ {h} : Hearsay(h, C[k]) /\ Behind(h, C[k])

HeardByLocks ==
  \A h \in TS : \A m \in LS :
    /\ Hearsay(h, L[m])
    /\ Behind(h, L[m]) \/ \E t \in Threads : Self(t) = h /\ Publishing(t, m)

ClockInv ==
  Numbering /\ Sizes /\ Unheard /\ OwnClocks /\ HeardByThreads /\ HeardByLocks

\* A callback works on states that exist, for two different threads, and on
\* a mutex its thread holds.
Callbacks ==
  \A t \in Threads :
    /\ pc[t] # "run" => life[t] = "running"
    /\ pc[t] \in {"create", "fork", "join", "drop", "joined"} =>
         call[t].on \in Threads /\ Child(t) # Self(t)
    /\ pc[t] \in {"fork", "drop", "joined"} => Self(t) \in TS /\ Child(t) \in TS
    /\ pc[t] \in {"acquire", "adopt", "release", "tick"} =>
         call[t].on \in Locks /\ holder[call[t].on] = t
    /\ pc[t] \in {"adopt", "tick"} => Self(t) \in TS

\* Two threads alive at once have different pthread_t's.
Alive ==
  \A t, u \in Threads :
    (life[t] = "running" /\ life[u] = "running" /\ t # u) => Handle[t] # Handle[u]

IInv == TypeOK /\ ClockInv /\ Callbacks /\ Alive

(***************************************************************************)
(* The program's and the callbacks' control.                               *)
(***************************************************************************)
\* Callbacks and Alive survive every step of every thread.
LEMMA ControlStep ==
  ASSUME IInv, NEW t \in Threads, ThreadStep(t)
  PROVE  Callbacks' /\ Alive'
  <1> USE ProgramAssumption DEF IInv, TypeOK, CallbackPoints
  <1>1. ASSUME NEW u \in Threads, PthreadCreate(t, u)
        PROVE  Callbacks' /\ Alive'
    <2>1. /\ pc' = [pc EXCEPT ![t] = "create"]
          /\ call' = [call EXCEPT ![t] = [do |-> "create", on |-> u]]
          /\ life' = [life EXCEPT ![u] = "running"]
          /\ life[t] = "running" /\ life[u] = "unborn"
          /\ \A v \in Threads : life[v] = "running" => Handle[v] # Handle[u]
          /\ UNCHANGED <<holder, TS>>
      BY <1>1 DEF PthreadCreate, Performs, Enter, threads
    <2>2. Callbacks'
      BY <2>1 DEF Callbacks, Self, Child
    <2>3. Alive'
      BY <2>1 DEF Alive
    <2> QED
      BY <2>2, <2>3
  <1>2. ASSUME NEW u \in Threads, PthreadJoin(t, u)
        PROVE  Callbacks' /\ Alive'
    <2>1. /\ pc' = [pc EXCEPT ![t] = "join"]
          /\ call' = [call EXCEPT ![t] = [do |-> "join", on |-> u]]
          /\ life' = [life EXCEPT ![u] = "joined"]
          /\ pc[t] = "run" /\ pc[u] = "run"
          /\ life[t] = "running" /\ life[u] = "running"
          /\ UNCHANGED <<holder, TS>>
      BY <1>2 DEF PthreadJoin, Performs, Finished, Enter, threads
    <2>2. u # t
      <3>1. Len(Program[t]) \in Nat /\ step[t] \in Nat
        OBVIOUS
      <3> QED
        BY <1>2, <3>1 DEF PthreadJoin, Performs, Finished
    <2>3. Callbacks'
      BY <2>1, <2>2 DEF Callbacks, Alive, Self, Child
    <2>4. Alive'
      BY <2>1 DEF Alive
    <2> QED
      BY <2>3, <2>4
  <1>3. ASSUME NEW m \in Locks, PthreadMutexLock(t, m)
        PROVE  Callbacks' /\ Alive'
    <2>1. /\ pc' = [pc EXCEPT ![t] = "acquire"]
          /\ call' = [call EXCEPT ![t] = [do |-> "lock", on |-> m]]
          /\ holder[m] = NoThread /\ holder' = [holder EXCEPT ![m] = t]
          /\ life[t] = "running"
          /\ UNCHANGED <<life, TS>>
      BY <1>3 DEF PthreadMutexLock, Performs, Enter, threads
    <2>2. Callbacks'
      BY <2>1 DEF Callbacks, Self, Child
    <2>3. Alive'
      BY <2>1 DEF Alive
    <2> QED
      BY <2>2, <2>3
  <1>4. ASSUME NEW m \in Locks, PthreadMutexUnlock(t, m)
        PROVE  Callbacks' /\ Alive'
    <2>1. /\ pc' = [pc EXCEPT ![t] = "release"]
          /\ call' = [call EXCEPT ![t] = [do |-> "unlock", on |-> m]]
          /\ holder[m] = t /\ life[t] = "running"
          /\ UNCHANGED <<life, holder, TS>>
      BY <1>4 DEF PthreadMutexUnlock, Performs, Enter, threads
    <2> QED
      BY <2>1 DEF Callbacks, Alive, Self, Child
  <1>5. ASSUME NEW x \in Vars, NEW do \in Accesses, Access(t, x, do)
        PROVE  Callbacks' /\ Alive'
    <2>1. /\ \E p \in {"run", "access"} : pc' = [pc EXCEPT ![t] = p]
          /\ \A u \in Threads \ {t} : call'[u] = call[u]
          /\ life[t] = "running" /\ UNCHANGED <<life, holder, TS>>
      BY <1>5 DEF Access, Performs, Enter, Return, threads
    <2>2. pc'[t] \in {"run", "access"} /\ \A u \in Threads \ {t} : pc'[u] = pc[u]
      BY <2>1
    <2>3. Callbacks'
      BY <2>1, <2>2 DEF Callbacks, Self, Child
    <2>4. Alive'
      BY <2>1 DEF Alive
    <2> QED
      BY <2>3, <2>4
  <1>6. ASSUME NEW h \in Handles, getState(t, h)
        PROVE  Callbacks' /\ Alive'
    <2>1. /\ UNCHANGED <<life, holder, pc, call>>
          /\ TS' = TS \cup {h}
      BY <1>6 DEF getState, program, control
    <2> QED
      BY <2>1 DEF Callbacks, Alive, Self, Child
  <1>7. ASSUME NEW m \in Locks, getLockState(t, m)
        PROVE  Callbacks' /\ Alive'
    <2>1. UNCHANGED <<life, holder, pc, call, TS>>
      BY <1>7 DEF getLockState, program, control, threads
    <2> QED
      BY <2>1 DEF Callbacks, Alive, Self, Child
  <1>8. ASSUME NEW x \in Vars, getVarState(t, x)
        PROVE  Callbacks' /\ Alive'
    <2>1. UNCHANGED <<life, holder, pc, call, TS>>
      BY <1>8 DEF getVarState, program, control, threads
    <2> QED
      BY <2>1 DEF Callbacks, Alive, Self, Child
  <1>9. ASSUME NEW x \in Vars, ft_read(t, x) \/ ft_write(t, x)
        PROVE  Callbacks' /\ Alive'
    <2>1. /\ pc' = [pc EXCEPT ![t] = "run"] /\ call' = [call EXCEPT ![t] = NoCall]
          /\ UNCHANGED <<life, holder, TS>>
          /\ pc[t] = "access"
      BY <1>9 DEF ft_read, ft_write, InAccess, Return, threads
    <2> QED
      BY <2>1 DEF Callbacks, Alive, Self, Child
  <1>10. ASSUME ft_fork_count(t)
         PROVE  Callbacks' /\ Alive'
    <2>1. /\ pc[t] = "create" /\ pc' = [pc EXCEPT ![t] = "fork"]
          /\ {Self(t), Child(t)} \subseteq TS
          /\ UNCHANGED <<life, holder, TS, call>>
      BY <1>10 DEF ft_fork_count, Ready, Wanted, Goto, program, threads
    <2>2. /\ pc'[t] \in {"fork"}
          /\ \A u \in Threads \ {t} : pc'[u] = pc[u]
      BY <2>1
    <2>3. Callbacks'
      BY <2>1, <2>2 DEF Callbacks, Self, Child
    <2>4. Alive'
      BY <2>1 DEF Alive
    <2> QED
      BY <2>3, <2>4
  <1>11. ASSUME ft_join_test(t)
         PROVE  Callbacks' /\ Alive'
    <2>1. /\ pc[t] = "join" /\ \E p \in {"drop", "joined"} : pc' = [pc EXCEPT ![t] = p]
          /\ {Self(t), Child(t)} \subseteq TS
          /\ UNCHANGED <<life, holder, TS, call>>
      BY <1>11 DEF ft_join_test, Ready, Wanted, Goto, program, threads
    <2>2. /\ pc'[t] \in {"drop", "joined"}
          /\ \A u \in Threads \ {t} : pc'[u] = pc[u]
      BY <2>1
    <2>3. Callbacks'
      BY <2>1, <2>2 DEF Callbacks, Self, Child
    <2>4. Alive'
      BY <2>1 DEF Alive
    <2> QED
      BY <2>3, <2>4
  <1>12. ASSUME ft_join_drop(t)
         PROVE  Callbacks' /\ Alive'
    <2>1. /\ pc[t] = "drop" /\ pc' = [pc EXCEPT ![t] = "joined"]
          /\ UNCHANGED <<life, holder, TS, call>>
      BY <1>12 DEF ft_join_drop, Goto, program, threads
    <2> QED
      BY <2>1 DEF Callbacks, Alive, Self, Child
  <1>13. ASSUME ft_fork(t) \/ ft_join(t)
         PROVE  Callbacks' /\ Alive'
    <2>1. /\ pc' = [pc EXCEPT ![t] = "run"] /\ call' = [call EXCEPT ![t] = NoCall]
          /\ UNCHANGED <<life, holder, TS>>
          /\ pc[t] \in {"fork", "joined"}
      BY <1>13 DEF ft_fork, ft_join, Return
    <2> QED
      BY <2>1 DEF Callbacks, Alive, Self, Child
  <1>14. ASSUME ft_acquire(t) \/ ft_release(t)
         PROVE  Callbacks' /\ Alive'
    <2>1. /\ \/ pc[t] = "acquire" /\ pc' = [pc EXCEPT ![t] = "adopt"]
             \/ pc[t] = "release" /\ pc' = [pc EXCEPT ![t] = "tick"]
          /\ Self(t) \in TS
          /\ UNCHANGED <<life, holder, TS, call>>
      BY <1>14 DEF ft_acquire, ft_release, Ready, Wanted, Goto, program
    <2> QED
      BY <2>1 DEF Callbacks, Alive, Self, Child
  <1>15. ASSUME ft_acquire_adopt(t)
         PROVE  Callbacks' /\ Alive'
    <2>1. /\ pc' = [pc EXCEPT ![t] = "run"] /\ call' = [call EXCEPT ![t] = NoCall]
          /\ holder' = holder
          /\ UNCHANGED <<life, TS>>
      BY <1>15 DEF ft_acquire_adopt, Return
    <2> QED
      BY <2>1 DEF Callbacks, Alive, Self, Child
  <1>16. ASSUME ft_release_tick(t)
         PROVE  Callbacks' /\ Alive'
    <2>1. /\ pc[t] = "tick" /\ pc' = [pc EXCEPT ![t] = "run"] /\ call' = [call EXCEPT ![t] = NoCall]
          /\ holder' = [holder EXCEPT ![call[t].on] = NoThread]
          /\ UNCHANGED <<life, TS>>
      BY <1>16 DEF ft_release_tick, Return
    <2> QED
      BY <2>1 DEF Callbacks, Alive, Self, Child
  <1>17. ASSUME NEW m \in Locks, Untracked(t, m)
         PROVE  Callbacks' /\ Alive'
    <2>1. /\ \E point \in {"run", "waiting"} : pc' = [pc EXCEPT ![t] = point]
          /\ \A u \in Threads \ {t} : call'[u] = call[u]
          /\ \/ holder[m] = NoThread /\ holder' = [holder EXCEPT ![m] = t]
             \/ holder[m] = t /\ pc[t] = "run" /\ holder' = [holder EXCEPT ![m] = NoThread]
          /\ UNCHANGED <<life, TS>>
      BY <1>17 DEF Untracked, Performs, Enter, Return, threads
    <2>2. life[t] = "running"
      BY <1>17 DEF Untracked, Performs, Callbacks
    <2>3. Callbacks'
      BY <2>1, <2>2 DEF Callbacks, Self, Child
    <2>4. Alive'
      BY <2>1 DEF Alive
    <2> QED
      BY <2>3, <2>4
  <1> QED
    BY <1>1, <1>2, <1>3, <1>4, <1>5, <1>6, <1>7, <1>8, <1>9, <1>10, <1>11, <1>12,
       <1>13, <1>14, <1>15, <1>16, <1>17 DEF ThreadStep

(***************************************************************************)
(* Types.                                                                  *)
(***************************************************************************)
\* The arithmetic of registration: one more thread, and room for its index.
LEMMA Counting ==
  ASSUME TypeOK
  PROVE  /\ Cardinality(TS) \in 0 .. MaxTid
         /\ \A h \in Handles \ TS :
              /\ Cardinality(TS \cup {h}) = Cardinality(TS) + 1
              /\ Cardinality(TS) + 1 <= MaxTid
  <1>1. TS \subseteq Handles /\ IsFiniteSet(TS)
    BY HandlesAssumption, FS_Subset DEF TypeOK
  <1>2. Cardinality(TS) \in Nat /\ Cardinality(TS) <= MaxTid
    BY <1>1, HandlesAssumption, FS_Subset, FS_CardinalityType DEF MaxTid
  <1>3. ASSUME NEW h \in Handles \ TS
        PROVE  /\ Cardinality(TS \cup {h}) = Cardinality(TS) + 1
               /\ Cardinality(TS) + 1 <= MaxTid
    <2>1. Cardinality(TS \cup {h}) = Cardinality(TS) + 1
      BY <1>1, FS_AddElement
    <2>2. TS \cup {h} \subseteq Handles
      BY <1>1
    <2>3. Cardinality(TS \cup {h}) <= MaxTid
      BY <2>2, HandlesAssumption, FS_Subset DEF MaxTid
    <2> QED
      BY <2>1, <2>3
  <1> QED
    BY <1>2, <1>3, MaxTidNat

\* The states and mutexes a program step or a callback's step works on.
LEMMA Typed ==
  ASSUME IInv, NEW t \in Threads
  PROVE  /\ Self(t) \in Handles
         /\ Main \in Threads /\ NoThread \notin Threads
         /\ \A h \in Handles : C[h] \in VectorClock /\ tid[h] \in Slots /\ epoch[h] \in Nat
         /\ \A m \in Locks : L[m] \in VectorClock
         /\ \A h \in Handles : EpochOf(h) \in Epoch /\ Bottom(h) \in Epoch
  BY ProgramAssumption DEF IInv, TypeOK, Self, EpochOf, Bottom, Epoch

\* TypeOK survives every step of every thread.
LEMMA TypeStep ==
  ASSUME IInv, NEW t \in Threads, ThreadStep(t)
  PROVE  TypeOK'
  <1> USE DEF TypeOK
  <1>a. TypeOK /\ Callbacks
    BY DEF IInv
  <1>b. /\ Self(t) \in Handles /\ MaxTid \in Nat
        /\ \A h \in Handles : C[h] \in VectorClock /\ tid[h] \in Slots /\ epoch[h] \in Nat
        /\ \A m \in Locks : L[m] \in VectorClock
        /\ \A h \in Handles : EpochOf(h) \in Epoch /\ Bottom(h) \in Epoch
    BY Typed, MaxTidNat
  <1>1. ASSUME NEW u \in Threads, PthreadCreate(t, u) \/ PthreadJoin(t, u)
        PROVE  TypeOK'
    BY <1>1, <1>a DEF PthreadCreate, PthreadJoin, Enter, threads, locks, shadow,
       Op, CallbackPoints
  <1>2. ASSUME NEW m \in Locks,
               PthreadMutexLock(t, m) \/ PthreadMutexUnlock(t, m) \/ Untracked(t, m)
        PROVE  TypeOK'
    BY <1>2, <1>a DEF PthreadMutexLock, PthreadMutexUnlock, Untracked, Enter, Return, threads,
       locks, shadow, Op, CallbackPoints
  <1>3. ASSUME NEW x \in Vars, NEW do \in Accesses, Access(t, x, do)
        PROVE  TypeOK'
    BY <1>3, <1>a DEF Access, Enter, Return, threads, locks, shadow, Op, CallbackPoints
  <1>4. ASSUME NEW h \in Handles, getState(t, h)
        PROVE  TypeOK'
    <2> DEFINE n == Cardinality(TS) + 1
               tids == [tid EXCEPT ![h] = n]
               known == [C EXCEPT ![h] = newVectorClock(0)]
               grown(g) == PushUpTo(known[g], n, [i \in Slots |-> FirstClock(tids[g], i)])
    <2>1. n \in Slots /\ n \in 0 .. MaxTid + 1 /\ n + 1 \in 0 .. MaxTid + 1
      <3>1. h \in Handles \ TS
        BY <1>4 DEF getState
      <3>2. Cardinality(TS) \in 0 .. MaxTid /\ Cardinality(TS) + 1 <= MaxTid
        BY <1>a, <3>1, Counting
      <3> QED
        BY <3>2, <1>b DEF Slots
    <2>2. \A g \in Handles : known[g] \in VectorClock
      BY <1>a, <1>b, NewClock
    <2>3. \A g \in Handles : [i \in Slots |-> FirstClock(tids[g], i)] \in [Slots -> Nat]
      BY DEF FirstClock
    <2>4. \A g \in Handles : grown(g) \in VectorClock
      BY <2>1, <2>2, <2>3, PushedClock
    <2> HIDE DEF grown
    <2>5. [grown(h) EXCEPT !.at[n] = 1] \in VectorClock
      BY <2>1, <2>4, StoredClock
    <2>6. C' = [g \in Handles |-> IF g = h THEN [grown(h) EXCEPT !.at[n] = 1]
                                  ELSE IF g \in TS THEN grown(g) ELSE C[g]]
      BY <1>4 DEF getState, grown
    <2>7. C' \in [Handles -> VectorClock]
      BY <2>4, <2>5, <2>6, <1>b
    <2> HIDE DEF n
    <2>8. /\ TS' = TS \cup {h} /\ tid' = [tid EXCEPT ![h] = n]
          /\ epoch' = [epoch EXCEPT ![h] = 1] /\ NumThreads' = n + 1
          /\ UNCHANGED <<program, control, isConcurrent, locks, shadow, reported>>
      BY <1>4 DEF getState, n
    <2> QED
      BY <1>a, <2>1, <2>7, <2>8 DEF program, control, locks, shadow
  <1>5. ASSUME NEW m \in Locks, getLockState(t, m)
        PROVE  TypeOK'
    <2>1. newVectorClock(NumThreads) \in VectorClock
      BY <1>a, NewClock
    <2> QED
      BY <1>5, <1>a, <2>1 DEF getLockState, program, control, threads, shadow
  <1>6. ASSUME NEW x \in Vars, getVarState(t, x)
        PROVE  TypeOK'
    BY <1>6, <1>a, <1>b DEF getVarState, program, control, threads, locks
  <1>7. ASSUME NEW x \in Vars, ft_read(t, x)
        PROVE  TypeOK'
    <2> DEFINE h == Self(t)
    <2>1. R' \in [Vars -> Epoch \cup {READ_SHARED}] /\ Rvc' \in [Vars -> VectorClock]
      <3>1. CASE UNCHANGED <<R, Rvc>>
        BY <3>1, <1>a
      <3>2. ASSUME NEW gR \in Garbage, RecordRead(x, h, gR)
            PROVE  R' \in [Vars -> Epoch \cup {READ_SHARED}] /\ Rvc' \in [Vars -> VectorClock]
        <4>1. CASE R[x] = READ_SHARED
          <5>1. [Rvc[x] EXCEPT !.at[tid[h]] = epoch[h]] \in VectorClock
            BY <1>a, <1>b, StoredClock
          <5> QED
            BY <3>2, <4>1, <5>1, <1>a DEF RecordRead
        <4>2. CASE R[x] # READ_SHARED /\ R[x].clock <= At(h, R[x].tid, gR)
          BY <3>2, <4>2, <1>a, <1>b DEF RecordRead
        <4>3. CASE R[x] # READ_SHARED /\ ~(R[x].clock <= At(h, R[x].tid, gR))
          <5> DEFINE old == IF Rvc[x].size = 0 THEN newVectorClock(NumThreads) ELSE Rvc[x]
                     both == [old EXCEPT !.at[R[x].tid] = R[x].clock, !.at[tid[h]] = epoch[h]]
                     first == [old EXCEPT !.at[R[x].tid] = R[x].clock]
          <5>1. old \in VectorClock
            BY <1>a, NewClock
          <5>2. R[x] \in Epoch
            BY <4>3, <1>a
          <5>3. R[x].tid \in Slots /\ R[x].clock \in Nat
            BY <5>2 DEF Epoch
          <5> HIDE DEF old
          <5>4. first \in VectorClock
            BY <5>1, <5>3, StoredClock
          <5>5. both = [first EXCEPT !.at[tid[h]] = epoch[h]]
            BY <5>1, <5>3, <1>b DEF VectorClock
          <5>6. both \in VectorClock
            BY <5>4, <5>5, <1>b, StoredClock
          <5>7. Rvc' = [Rvc EXCEPT ![x] = both] /\ R' = [R EXCEPT ![x] = READ_SHARED]
            BY <3>2, <4>3 DEF RecordRead, old
          <5> QED
            BY <5>6, <5>7, <1>a
        <4> QED
          BY <4>1, <4>2, <4>3
      <3> QED
        BY <1>7, <3>1, <3>2 DEF ft_read
    <2>2. reported' \subseteq Vars
      BY <1>7, <1>a DEF ft_read, Report
    <2>3. Return(t) /\ UNCHANGED <<life, holder, threads, isConcurrent, locks, VS, W>>
      BY <1>7 DEF ft_read
    <2> QED
      BY <1>a, <2>1, <2>2, <2>3 DEF Return, threads, locks
  <1>8. ASSUME NEW x \in Vars, ft_write(t, x)
        PROVE  TypeOK'
    <2>1. R' \in [Vars -> Epoch \cup {READ_SHARED}] /\ W' \in [Vars -> Epoch]
      BY <1>8, <1>a, <1>b DEF ft_write
    <2>2. reported' \subseteq Vars
      BY <1>8, <1>a DEF ft_write, Report
    <2>3. Return(t) /\ UNCHANGED <<life, holder, threads, isConcurrent, locks, VS, Rvc>>
      BY <1>8 DEF ft_write
    <2> QED
      BY <1>a, <2>1, <2>2, <2>3 DEF Return, threads, locks
  <1>9. ASSUME ft_fork_count(t) \/ ft_join_test(t) \/ ft_join_drop(t)
        PROVE  TypeOK'
    BY <1>9, <1>a DEF ft_fork_count, ft_join_test, ft_join_drop, Goto, program, threads,
       locks, shadow, CallbackPoints
  <1>10. ASSUME ft_fork(t)
         PROVE  TypeOK'
    <2> DEFINE p == Self(t)
               u == Child(t)
               old == ExtendToMatch(C[p], C[u])
               new == JoinClock(C[u], C[p])
    <2>1. p \in Handles /\ u \in Handles
      BY <1>10, <1>a, <1>b DEF ft_fork, Callbacks
    <2>2. old \in VectorClock /\ new \in VectorClock
      BY <2>1, <1>b, ExtendedClock, JoinedClock
    <2>3. increment(p, old) \in VectorClock
      <3>1. tid[p] \in Slots /\ epoch[p] + 1 \in Nat
        BY <2>1, <1>b
      <3> HIDE DEF p, u, old
      <3> QED
        BY <2>2, <3>1, StoredClock DEF increment
    <2>4. /\ C' = [C EXCEPT ![p] = increment(p, old), ![u] = new]
          /\ epoch' = [epoch EXCEPT ![p] = @ + 1, ![u] = C'[u].at[tid[u]]]
          /\ Return(t)
          /\ UNCHANGED <<life, holder, TS, tid, NumThreads, isConcurrent, locks, shadow, reported>>
      BY <1>10 DEF ft_fork
    <2> HIDE DEF p, u, old, new
    <2>5. C' \in [Handles -> VectorClock]
      BY <2>1, <2>2, <2>3, <2>4, <1>a
    <2>6. epoch' \in [Handles -> Nat]
      BY <2>1, <2>4, <2>5, <1>a, <1>b DEF VectorClock
    <2> QED
      BY <2>4, <2>5, <2>6, <1>a DEF Return, locks, shadow
  <1>11. ASSUME ft_join(t)
         PROVE  TypeOK'
    <2> DEFINE p == Self(t)
               u == Child(t)
               new == JoinClock(C[p], C[u])
               old == ExtendToMatch(C[u], C[p])
    <2>1. p \in Handles /\ u \in Handles
      BY <1>11, <1>a, <1>b DEF ft_join, Callbacks
    <2>2. old \in VectorClock /\ new \in VectorClock
      BY <2>1, <1>b, ExtendedClock, JoinedClock
    <2>3. increment(u, old) \in VectorClock
      <3>1. tid[u] \in Slots /\ epoch[u] + 1 \in Nat
        BY <2>1, <1>b
      <3> HIDE DEF p, u, old
      <3> QED
        BY <2>2, <3>1, StoredClock DEF increment
    <2>4. /\ C' = [C EXCEPT ![p] = new, ![u] = increment(u, old)]
          /\ epoch' = [epoch EXCEPT ![p] = C'[p].at[tid[p]], ![u] = @ + 1]
          /\ Return(t)
          /\ UNCHANGED <<life, holder, TS, tid, NumThreads, isConcurrent, locks, shadow, reported>>
      BY <1>11 DEF ft_join
    <2> HIDE DEF p, u, old, new
    <2>5. C' \in [Handles -> VectorClock]
      BY <2>1, <2>2, <2>3, <2>4, <1>a
    <2>6. epoch' \in [Handles -> Nat]
      <3>1. C'[p].at[tid[p]] \in Nat /\ epoch[u] + 1 \in Nat
        BY <2>1, <2>5, <1>b DEF VectorClock
      <3> QED
        BY <3>1, <2>1, <2>4, <1>a
    <2> QED
      BY <2>4, <2>5, <2>6, <1>a DEF Return, locks, shadow
  <1>12. ASSUME ft_acquire(t)
         PROVE  TypeOK'
    <2>1. call[t].on \in Locks
      BY <1>12, <1>a DEF ft_acquire, Callbacks
    <2>2. /\ JoinClock(C[Self(t)], L[call[t].on]) \in VectorClock
          /\ ExtendToMatch(L[call[t].on], C[Self(t)]) \in VectorClock
      BY <2>1, <1>b, JoinedClock, ExtendedClock
    <2> QED
      BY <1>12, <2>2, <1>a DEF ft_acquire, Goto, program, shadow, CallbackPoints
  <1>13. ASSUME ft_acquire_adopt(t)
         PROVE  TypeOK'
    BY <1>13, <1>a, <1>b DEF ft_acquire_adopt, Return, locks, shadow, VectorClock
  <1>14. ASSUME ft_release(t)
         PROVE  TypeOK'
    <2>1. call[t].on \in Locks
      BY <1>14, <1>a DEF ft_release, Callbacks
    <2>2. /\ CopyClock(L[call[t].on], C[Self(t)]) \in VectorClock
          /\ ExtendToMatch(C[Self(t)], L[call[t].on]) \in VectorClock
      BY <2>1, <1>b, CopiedClock, ExtendedClock
    <2> QED
      BY <1>14, <2>2, <1>a DEF ft_release, Goto, program, shadow, CallbackPoints
  <1>15. ASSUME ft_release_tick(t)
         PROVE  TypeOK'
    <2> DEFINE h == Self(t)
               now == C[h].at[tid[h]] + 1
    <2>1. now \in Nat
      BY <1>b DEF VectorClock
    <2>2. [C[h] EXCEPT !.at[tid[h]] = now] \in VectorClock
      BY <2>1, <1>b, StoredClock
    <2>3. C' \in [Handles -> VectorClock] /\ epoch' \in [Handles -> Nat]
      BY <1>15, <2>1, <2>2, <1>a DEF ft_release_tick
    <2>4. /\ holder' = [holder EXCEPT ![call[t].on] = NoThread] /\ Return(t)
          /\ UNCHANGED <<life, TS, tid, NumThreads, isConcurrent, locks, shadow, reported>>
      BY <1>15 DEF ft_release_tick
    <2>5. holder' \in [Locks -> Threads \cup {NoThread}]
      BY <2>4, <1>a
    <2>6. /\ pc' \in [Threads -> {"run", "waiting"} \cup CallbackPoints]
          /\ call' \in [Threads -> Op \cup {NoCall}]
          /\ step' \in [Threads -> Nat \ {0}]
      BY <2>4, <1>a DEF Return
    <2> QED
      BY <2>3, <2>4, <2>5, <2>6, <1>a DEF locks, shadow
  <1> QED
    BY <1>1, <1>2, <1>3, <1>4, <1>5, <1>6, <1>7, <1>8, <1>9, <1>10, <1>11, <1>12,
       <1>13, <1>14, <1>15 DEF ThreadStep

(***************************************************************************)
(* The clocks.                                                             *)
(***************************************************************************)
\* Every number the clock invariants compare is a natural.
LEMMA Readings ==
  ASSUME IInv
  PROVE  /\ Cardinality(TS) \in Nat /\ Cardinality(TS) <= MaxTid /\ MaxTid \in Nat
         /\ \A h \in TS : /\ h \in Handles /\ tid[h] \in Slots /\ tid[h] \in Nat
                          /\ C[h] \in VectorClock /\ C[h].size \in Nat
                          /\ epoch[h] \in Nat
                          /\ \A i \in Slots : C[h].at[i] \in Nat /\ i \in Nat
         /\ \A m \in LS : /\ m \in Locks /\ L[m] \in VectorClock /\ L[m].size \in Nat
                          /\ \A i \in Slots : L[m].at[i] \in Nat
  <1>1. TypeOK /\ MaxTid \in Nat /\ Cardinality(TS) \in 0 .. MaxTid
    BY MaxTidNat, Counting DEF IInv
  <1> QED
    BY <1>1 DEF TypeOK, VectorClock, Slots

\* A step that touches no clock and stops no release keeps the invariant.
LEMMA Undisturbed ==
  ASSUME ClockInv, UNCHANGED <<threads, locks>>,
         \A t \in Threads : pc[t] = "tick" => pc'[t] = "tick" /\ call'[t] = call[t]
  PROVE  ClockInv'
  <1>1. UNCHANGED <<TS, tid, C, epoch, NumThreads, LS, L>>
    BY DEF threads, locks
  <1>2. (Numbering /\ Sizes /\ Unheard /\ OwnClocks /\ HeardByThreads)'
    BY <1>1 DEF ClockInv, Numbering, Sizes, Unheard, OwnClocks, HeardByThreads,
       Hearsay, Behind, InReach, Settled, Own
  <1>3. HeardByLocks'
    BY <1>1 DEF ClockInv, HeardByLocks, Hearsay, Behind, InReach, Settled, Own, Publishing
  <1> QED
    BY <1>2, <1>3 DEF ClockInv

\* ft_acquire: Ct := Ct U Lm.
LEMMA AcquireStep ==
  ASSUME IInv, NEW t \in Threads, ft_acquire(t)
  PROVE  ClockInv'
  <1>0. PICK h \in Handles, m \in Locks : h = Self(t) /\ m = call[t].on
    BY Typed DEF ft_acquire, IInv, Callbacks
  <1>1. h \in TS /\ m \in LS /\ pc[t] = "acquire"
    BY <1>0 DEF ft_acquire, Ready, Wanted
  <1>2. /\ C' = [C EXCEPT ![h] = JoinClock(C[h], L[m])]
        /\ L' = [L EXCEPT ![m] = ExtendToMatch(L[m], C[h])]
        /\ pc' = [pc EXCEPT ![t] = "adopt"]
        /\ UNCHANGED <<TS, tid, epoch, NumThreads, LS, call>>
    BY <1>0 DEF ft_acquire, Goto
  <1>3. \A u \in Threads : ~Publishing(u, m)
    BY <1>0, <1>1 DEF Publishing, IInv, Callbacks
  <1>4. \A u \in Threads, w \in Locks : Publishing(u, w) => Publishing(u, w)'
    BY <1>1, <1>2 DEF Publishing, IInv, TypeOK
  <1>r. /\ Cardinality(TS) \in Nat
        /\ \A k \in TS : /\ k \in Handles /\ tid[k] \in Slots /\ tid[k] \in Nat
                         /\ C[k] \in VectorClock /\ C[k].size \in Nat /\ epoch[k] \in Nat
                         /\ \A i \in Slots : C[k].at[i] \in Nat /\ i \in Nat
        /\ \A w \in LS : /\ w \in Locks /\ L[w] \in VectorClock /\ L[w].size \in Nat
                         /\ \A i \in Slots : L[w].at[i] \in Nat
    BY Readings
  <1>5. /\ C'[h].size = Larger(C[h].size, L[m].size)
        /\ \A i \in Slots : C'[h].at[i] = IF i < Larger(C[h].size, L[m].size)
                                          THEN Larger(Known(C[h], i), Known(L[m], i))
                                          ELSE C[h].at[i]
        /\ \A k \in TS : k # h => C'[k] = C[k]
    BY <1>1, <1>2, <1>r, JoinedClock DEF IInv, TypeOK
  <1>6. /\ L'[m].size = Larger(L[m].size, C[h].size)
        /\ \A i \in Slots : L'[m].at[i] = IF L[m].size <= i /\ i < C[h].size
                                          THEN 0 ELSE L[m].at[i]
        /\ \A w \in LS : w # m => L'[w] = L[w]
    BY <1>1, <1>2, <1>r, ExtendedClock DEF IInv, TypeOK
  <1>7. Numbering'
    BY <1>2 DEF IInv, ClockInv, Numbering
  <1>8. Sizes'
    BY <1>1, <1>2, <1>5, <1>6, <1>r DEF IInv, ClockInv, Sizes, Larger
  <1>9. Unheard'
    <2>1. ASSUME NEW i \in Slots, \A g \in TS : tid[g] # i
          PROVE  C'[h].at[i] = 0 /\ L'[m].at[i] = 0
      <3>1. C[h].at[i] = 0 /\ L[m].at[i] = 0
        BY <1>1, <2>1 DEF IInv, ClockInv, Unheard
      <3> QED
        BY <1>1, <1>5, <1>6, <3>1 DEF Larger, Known
    <2> QED
      BY <1>2, <1>5, <1>6, <2>1 DEF IInv, ClockInv, Unheard
  <1>10. /\ Own(h)' <= epoch[h]
         /\ ~InReach(h)' => Own(h)' >= 1
         /\ Own(h)' = Own(h) \/ (InReach(h)' /\ Own(h)' = 0 /\ ~InReach(h))
         /\ Settled(h)' => Settled(h) /\ Own(h)' = Own(h)
         /\ InReach(h) => InReach(h)'
         /\ Hearsay(h, L[m])' /\ Behind(h, L[m])'
    <2>1. /\ L[m].at[tid[h]] <= Own(h) /\ (~InReach(h) => L[m].at[tid[h]] = 0)
          /\ Settled(h) => L[m].at[tid[h]] < Own(h)
          /\ Own(h) <= epoch[h] /\ (~InReach(h) => Own(h) >= 1)
      BY <1>1, <1>3 DEF IInv, ClockInv, HeardByLocks, OwnClocks, Hearsay, Behind
    <2> DEFINE o == C[h].at[tid[h]]
               l == L[m].at[tid[h]]
    <2>2. /\ tid[h] \in Slots /\ tid[h] \in Nat /\ o \in Nat /\ l \in Nat /\ epoch[h] \in Nat
          /\ C[h].size \in Nat /\ L[m].size \in Nat
      BY <1>1, <1>r
    <2>3. /\ C'[h].at[tid[h]] = IF tid[h] < C'[h].size
                                THEN Larger(Known(C[h], tid[h]), Known(L[m], tid[h])) ELSE o
          /\ L'[m].at[tid[h]] = IF L[m].size <= tid[h] /\ tid[h] < C[h].size THEN 0 ELSE l
      BY <1>5, <1>6, <2>2
    <2> DEFINE oo == C'[h].at[tid[h]]
               ll == L'[m].at[tid[h]]
               size == C'[h].size
    <2>4. /\ size \in Nat /\ size >= C[h].size
          /\ tid[h] < C[h].size => oo = o /\ ll <= l
          /\ ~(tid[h] < C[h].size) => ll = 0
          /\ ~(tid[h] < C[h].size) /\ tid[h] < size => oo = 0
          /\ ~(tid[h] < size) => oo = o
      BY <1>5, <2>1, <2>2, <2>3 DEF Own, InReach, Larger, Known
    <2>5. ll \in Nat /\ oo \in Nat
      BY <2>2, <2>3 DEF Larger, Known
    <2>6. Own(h)' = oo /\ Own(h) = o /\ tid' = tid
      BY <1>2 DEF Own
    <2>7. /\ Own(h)' <= epoch[h]
          /\ ~InReach(h)' => Own(h)' >= 1
          /\ Own(h)' = Own(h) \/ (InReach(h)' /\ Own(h)' = 0 /\ ~InReach(h))
          /\ Settled(h)' => Settled(h) /\ Own(h)' = Own(h)
          /\ InReach(h) => InReach(h)'
      BY <2>1, <2>2, <2>4, <2>5, <2>6 DEF InReach, Settled
    <2>8. Hearsay(h, L[m])' /\ Behind(h, L[m])'
      BY <2>1, <2>2, <2>4, <2>5, <2>6 DEF InReach, Settled, Hearsay, Behind
    <2> QED
      BY <2>7, <2>8
  <1>11. OwnClocks'
    BY <1>2, <1>5, <1>10 DEF IInv, ClockInv, OwnClocks, Own, InReach
  <1>12. ASSUME NEW g \in TS, g # h
         PROVE  /\ Own(g)' = Own(g) /\ InReach(g)' = InReach(g) /\ Settled(g)' = Settled(g)
                /\ Hearsay(g, C[h])' /\ Behind(g, C[h])'
                /\ Hearsay(g, L[m])' /\ Behind(g, L[m])'
    <2>1. Own(g)' = Own(g) /\ InReach(g)' = InReach(g) /\ Settled(g)' = Settled(g)
      BY <1>2, <1>5, <1>12 DEF Own, InReach, Settled
    <2>2. Hearsay(g, C[h]) /\ Hearsay(g, L[m]) /\ Behind(g, C[h]) /\ Behind(g, L[m])
      BY <1>1, <1>3, <1>12 DEF IInv, ClockInv, HeardByThreads, HeardByLocks
    <2>3. Own(g) \in Nat /\ (Settled(g) => Own(g) >= 1)
      BY <1>r DEF Own, Settled
    <2>4. /\ C'[h].at[tid[g]] = C[h].at[tid[g]] \/ C'[h].at[tid[g]] = L[m].at[tid[g]]
             \/ C'[h].at[tid[g]] = 0
          /\ L'[m].at[tid[g]] = L[m].at[tid[g]] \/ L'[m].at[tid[g]] = 0
      BY <1>1, <1>5, <1>6, <1>r DEF Larger, Known
    <2> QED
      BY <1>2, <2>1, <2>2, <2>3, <2>4 DEF Hearsay, Behind
  <1>13. HeardByThreads'
    <2>1. ASSUME NEW k \in TS, k # h
          PROVE  Hearsay(h, C[k])' /\ Behind(h, C[k])'
      <3>1. Hearsay(h, C[k]) /\ Behind(h, C[k])
        BY <1>1, <2>1 DEF IInv, ClockInv, HeardByThreads
      <3>2. C'[k] = C[k] /\ tid' = tid
        BY <1>2, <1>5, <2>1
      <3> QED
        BY <1>10, <3>1, <3>2 DEF Hearsay, Behind
    <2>2. ASSUME NEW g \in TS, g # h, NEW k \in TS, k # g, k # h
          PROVE  Hearsay(g, C[k])' /\ Behind(g, C[k])'
      BY <1>2, <1>5, <1>12, <2>2 DEF IInv, ClockInv, HeardByThreads, Hearsay, Behind
    <2> QED
      BY <1>2, <1>12, <2>1, <2>2 DEF HeardByThreads
  <1>14. HeardByLocks'
    <2>1. ASSUME NEW w \in LS, w # m, NEW g \in TS
          PROVE  /\ Hearsay(g, L[w])'
                 /\ \/ Behind(g, L[w])'
                    \/ \E u \in Threads : Self(u) = g /\ Publishing(u, w)'
      <3>1. /\ Hearsay(g, L[w])
            /\ Behind(g, L[w]) \/ \E u \in Threads : Self(u) = g /\ Publishing(u, w)
        BY DEF IInv, ClockInv, HeardByLocks
      <3>2. L'[w] = L[w] /\ w \in Locks /\ tid' = tid
        BY <1>2, <1>6, <1>r, <2>1
      <3>3. /\ InReach(g) => InReach(g)'
            /\ Own(g)' = Own(g) \/ (InReach(g)' /\ Own(g)' = 0 /\ ~InReach(g))
            /\ Settled(g)' => Settled(g) /\ Own(g)' = Own(g)
        BY <1>10, <1>12
      <3>4. Hearsay(g, L[w])'
        BY <3>1, <3>2, <3>3 DEF Hearsay
      <3>5. Behind(g, L[w]) => Behind(g, L[w])'
        BY <3>2, <3>3 DEF Behind
      <3> QED
        BY <1>4, <3>1, <3>2, <3>4, <3>5
    <2> QED
      BY <1>2, <1>10, <1>12, <2>1 DEF HeardByLocks, Self
  <1> QED
    BY <1>7, <1>8, <1>9, <1>11, <1>13, <1>14 DEF ClockInv

\* ft_release, under the mutex's metadata: Lm := Ct.
LEMMA ReleaseStep ==
  ASSUME IInv, NEW t \in Threads, ft_release(t)
  PROVE  ClockInv'
  <1>0. PICK h \in Handles, m \in Locks : h = Self(t) /\ m = call[t].on
    BY Typed DEF ft_release, IInv, Callbacks
  <1>1. h \in TS /\ m \in LS /\ pc[t] = "release"
    BY <1>0 DEF ft_release, Ready, Wanted
  <1>2. /\ C' = [C EXCEPT ![h] = ExtendToMatch(C[h], L[m])]
        /\ L' = [L EXCEPT ![m] = CopyClock(L[m], C[h])]
        /\ pc' = [pc EXCEPT ![t] = "tick"]
        /\ UNCHANGED <<TS, tid, epoch, NumThreads, LS, call>>
    BY <1>0 DEF ft_release, Goto
  <1>3. \A u \in Threads : ~Publishing(u, m)
    BY <1>0, <1>1 DEF Publishing, IInv, Callbacks
  <1>4. /\ \A u \in Threads, w \in Locks : Publishing(u, w) => Publishing(u, w)'
        /\ Publishing(t, m)'
    BY <1>0, <1>1, <1>2 DEF Publishing, IInv, TypeOK
  <1>r. /\ Cardinality(TS) \in Nat
        /\ \A k \in TS : /\ k \in Handles /\ tid[k] \in Slots /\ tid[k] \in Nat
                         /\ C[k] \in VectorClock /\ C[k].size \in Nat /\ epoch[k] \in Nat
                         /\ \A i \in Slots : C[k].at[i] \in Nat /\ i \in Nat
        /\ \A w \in LS : /\ w \in Locks /\ L[w] \in VectorClock /\ L[w].size \in Nat
                         /\ \A i \in Slots : L[w].at[i] \in Nat
    BY Readings
  <1>5. /\ C'[h].size = Larger(C[h].size, L[m].size)
        /\ \A i \in Slots : C'[h].at[i] = IF C[h].size <= i /\ i < L[m].size
                                          THEN 0 ELSE C[h].at[i]
        /\ \A k \in TS : k # h => C'[k] = C[k]
    BY <1>1, <1>2, <1>r, ExtendedClock DEF IInv, TypeOK
  <1>6. /\ L'[m].size = Larger(L[m].size, C[h].size)
        /\ \A i \in Slots : L'[m].at[i] = IF i < Larger(L[m].size, C[h].size)
                                          THEN Known(C[h], i) ELSE L[m].at[i]
        /\ \A w \in LS : w # m => L'[w] = L[w]
    BY <1>1, <1>2, <1>r, CopiedClock DEF IInv, TypeOK
  <1>7. Numbering'
    BY <1>2 DEF IInv, ClockInv, Numbering
  <1>8. Sizes'
    BY <1>1, <1>2, <1>5, <1>6, <1>r DEF IInv, ClockInv, Sizes, Larger
  <1>9. Unheard'
    <2>1. ASSUME NEW i \in Slots, \A g \in TS : tid[g] # i
          PROVE  C'[h].at[i] = 0 /\ L'[m].at[i] = 0
      <3>1. C[h].at[i] = 0 /\ L[m].at[i] = 0
        BY <1>1, <2>1 DEF IInv, ClockInv, Unheard
      <3> QED
        BY <1>1, <1>5, <1>6, <3>1 DEF Larger, Known
    <2> QED
      BY <1>2, <1>5, <1>6, <2>1 DEF IInv, ClockInv, Unheard
  <1>10. /\ Own(h)' <= epoch[h]
         /\ ~InReach(h)' => Own(h)' >= 1
         /\ Own(h)' = Own(h) \/ (InReach(h)' /\ Own(h)' = 0 /\ ~InReach(h))
         /\ Settled(h)' => Settled(h) /\ Own(h)' = Own(h)
         /\ InReach(h) => InReach(h)'
         /\ Hearsay(h, L[m])'
    <2>1. /\ L[m].at[tid[h]] <= Own(h) /\ (~InReach(h) => L[m].at[tid[h]] = 0)
          /\ Settled(h) => L[m].at[tid[h]] < Own(h)
          /\ Own(h) <= epoch[h] /\ (~InReach(h) => Own(h) >= 1)
      BY <1>1, <1>3 DEF IInv, ClockInv, HeardByLocks, OwnClocks, Hearsay, Behind
    <2> DEFINE o == C[h].at[tid[h]]
               l == L[m].at[tid[h]]
    <2>2. /\ tid[h] \in Slots /\ tid[h] \in Nat /\ o \in Nat /\ l \in Nat /\ epoch[h] \in Nat
          /\ C[h].size \in Nat /\ L[m].size \in Nat
      BY <1>1, <1>r
    <2>3. /\ C'[h].at[tid[h]] = IF tid[h] < C'[h].size
                                THEN Known(C[h], tid[h]) ELSE o
          /\ L'[m].at[tid[h]] = IF tid[h] < C'[h].size THEN Known(C[h], tid[h]) ELSE l
      BY <1>5, <1>6, <2>2 DEF Larger, Known
    <2> DEFINE oo == C'[h].at[tid[h]]
               ll == L'[m].at[tid[h]]
               size == C'[h].size
    <2>4. /\ size \in Nat /\ size >= C[h].size
          /\ tid[h] < C[h].size => oo = o /\ ll = o
          /\ ~(tid[h] < C[h].size) => ll = 0
          /\ ~(tid[h] < C[h].size) /\ tid[h] < size => oo = 0
          /\ ~(tid[h] < size) => oo = o
      BY <1>5, <2>1, <2>2, <2>3 DEF Own, InReach, Larger, Known
    <2>5. ll \in Nat /\ oo \in Nat
      BY <2>2, <2>3 DEF Larger, Known
    <2>6. Own(h)' = oo /\ Own(h) = o /\ tid' = tid
      BY <1>2 DEF Own
    <2>7. /\ Own(h)' <= epoch[h]
          /\ ~InReach(h)' => Own(h)' >= 1
          /\ Own(h)' = Own(h) \/ (InReach(h)' /\ Own(h)' = 0 /\ ~InReach(h))
          /\ Settled(h)' => Settled(h) /\ Own(h)' = Own(h)
          /\ InReach(h) => InReach(h)'
      BY <2>1, <2>2, <2>4, <2>5, <2>6 DEF InReach, Settled
    <2>8. Hearsay(h, L[m])'
      BY <2>1, <2>2, <2>4, <2>5, <2>6 DEF InReach, Hearsay
    <2> QED
      BY <2>7, <2>8
  <1>11. OwnClocks'
    BY <1>2, <1>5, <1>10 DEF IInv, ClockInv, OwnClocks, Own, InReach
  <1>12. ASSUME NEW g \in TS, g # h
         PROVE  /\ Own(g)' = Own(g) /\ InReach(g)' = InReach(g) /\ Settled(g)' = Settled(g)
                /\ Hearsay(g, C[h])' /\ Behind(g, C[h])'
                /\ Hearsay(g, L[m])' /\ Behind(g, L[m])'
    <2>1. Own(g)' = Own(g) /\ InReach(g)' = InReach(g) /\ Settled(g)' = Settled(g)
      BY <1>2, <1>5, <1>12 DEF Own, InReach, Settled
    <2>2. Hearsay(g, C[h]) /\ Hearsay(g, L[m]) /\ Behind(g, C[h]) /\ Behind(g, L[m])
      BY <1>1, <1>3, <1>12 DEF IInv, ClockInv, HeardByThreads, HeardByLocks
    <2>3. Own(g) \in Nat /\ (Settled(g) => Own(g) >= 1)
      BY <1>r DEF Own, Settled
    <2>4. /\ C'[h].at[tid[g]] = C[h].at[tid[g]] \/ C'[h].at[tid[g]] = L[m].at[tid[g]]
             \/ C'[h].at[tid[g]] = 0
          /\ L'[m].at[tid[g]] = L[m].at[tid[g]] \/ L'[m].at[tid[g]] = C[h].at[tid[g]]
             \/ L'[m].at[tid[g]] = 0
      BY <1>1, <1>5, <1>6, <1>r DEF Larger, Known
    <2> QED
      BY <1>2, <2>1, <2>2, <2>3, <2>4 DEF Hearsay, Behind
  <1>13. HeardByThreads'
    <2>1. ASSUME NEW k \in TS, k # h
          PROVE  Hearsay(h, C[k])' /\ Behind(h, C[k])'
      <3>1. Hearsay(h, C[k]) /\ Behind(h, C[k])
        BY <1>1, <2>1 DEF IInv, ClockInv, HeardByThreads
      <3>2. C'[k] = C[k] /\ tid' = tid
        BY <1>2, <1>5, <2>1
      <3> QED
        BY <1>10, <3>1, <3>2 DEF Hearsay, Behind
    <2>2. ASSUME NEW g \in TS, g # h, NEW k \in TS, k # g, k # h
          PROVE  Hearsay(g, C[k])' /\ Behind(g, C[k])'
      BY <1>2, <1>5, <1>12, <2>2 DEF IInv, ClockInv, HeardByThreads, Hearsay, Behind
    <2> QED
      BY <1>2, <1>12, <2>1, <2>2 DEF HeardByThreads
  <1>14. HeardByLocks'
    <2>1. ASSUME NEW w \in LS, w # m, NEW g \in TS
          PROVE  /\ Hearsay(g, L[w])'
                 /\ \/ Behind(g, L[w])'
                    \/ \E u \in Threads : Self(u) = g /\ Publishing(u, w)'
      <3>1. /\ Hearsay(g, L[w])
            /\ Behind(g, L[w]) \/ \E u \in Threads : Self(u) = g /\ Publishing(u, w)
        BY DEF IInv, ClockInv, HeardByLocks
      <3>2. L'[w] = L[w] /\ w \in Locks /\ tid' = tid
        BY <1>2, <1>6, <1>r, <2>1
      <3>3. /\ InReach(g) => InReach(g)'
            /\ Own(g)' = Own(g) \/ (InReach(g)' /\ Own(g)' = 0 /\ ~InReach(g))
            /\ Settled(g)' => Settled(g) /\ Own(g)' = Own(g)
        BY <1>10, <1>12
      <3>4. Hearsay(g, L[w])'
        BY <3>1, <3>2, <3>3 DEF Hearsay
      <3>5. Behind(g, L[w]) => Behind(g, L[w])'
        BY <3>2, <3>3 DEF Behind
      <3> QED
        BY <1>4, <3>1, <3>2, <3>4, <3>5
    <2> QED
      BY <1>0, <1>2, <1>4, <1>10, <1>12, <2>1 DEF HeardByLocks, Self
  <1> QED
    BY <1>7, <1>8, <1>9, <1>11, <1>13, <1>14 DEF ClockInv

\* ft_release, after the section: the thread moves on to its next clock.
LEMMA TickStep ==
  ASSUME IInv, NEW t \in Threads, ft_release_tick(t)
  PROVE  ClockInv'
  <1>0. PICK h \in Handles, m \in Locks : h = Self(t) /\ m = call[t].on /\ h \in TS
    BY Typed DEF ft_release_tick, IInv, Callbacks
  <1>1. /\ epoch' = [epoch EXCEPT ![h] = Own(h) + 1]
        /\ C' = [C EXCEPT ![h].at[tid[h]] = Own(h) + 1]
        /\ pc' = [pc EXCEPT ![t] = "run"] /\ call' = [call EXCEPT ![t] = NoCall]
        /\ UNCHANGED <<TS, tid, NumThreads, LS, L>>
    BY <1>0 DEF ft_release_tick, Return, locks, Own
  <1>2. \A u \in Threads, w \in Locks : u # t /\ Publishing(u, w) => Publishing(u, w)'
    BY <1>1 DEF Publishing, IInv, TypeOK
  <1>r. /\ Cardinality(TS) \in Nat
        /\ \A k \in TS : /\ k \in Handles /\ tid[k] \in Slots /\ tid[k] \in Nat
                         /\ C[k] \in VectorClock /\ C[k].size \in Nat /\ epoch[k] \in Nat
                         /\ \A i \in Slots : C[k].at[i] \in Nat /\ i \in Nat
        /\ \A w \in LS : /\ w \in Locks /\ L[w] \in VectorClock /\ L[w].size \in Nat
                         /\ \A i \in Slots : L[w].at[i] \in Nat
    BY Readings
  <1>3. Own(h) \in Nat
    BY <1>0, <1>r DEF Own
  <1>4. /\ C'[h].size = C[h].size
        /\ C'[h].at[tid[h]] = Own(h) + 1
        /\ \A i \in Slots : i # tid[h] => C'[h].at[i] = C[h].at[i]
        /\ \A k \in TS : k # h => C'[k] = C[k]
    <2>1. C'[h] = [C[h] EXCEPT !.at[tid[h]] = Own(h) + 1] /\ \A k \in TS : k # h => C'[k] = C[k]
      BY <1>0, <1>1, <1>r DEF IInv, TypeOK
    <2> DEFINE now == Own(h) + 1
    <2>2. now \in Nat /\ tid[h] \in Slots /\ C[h] \in VectorClock
      BY <1>0, <1>3, <1>r
    <2>3. C'[h] = [C[h] EXCEPT !.at[tid[h]] = now]
      BY <2>1
    <2> HIDE DEF now
    <2>4. /\ C'[h].size = C[h].size /\ C'[h].at[tid[h]] = now
          /\ \A i \in Slots : i # tid[h] => C'[h].at[i] = C[h].at[i]
      BY <2>2, <2>3, StoredClock
    <2> QED
      BY <2>1, <2>4 DEF now
  <1>5. \A g \in TS : g # h => tid[g] # tid[h]
    BY <1>0 DEF IInv, ClockInv, Numbering
  <1>6. Numbering' /\ Sizes'
    BY <1>0, <1>1, <1>4 DEF IInv, ClockInv, Numbering, Sizes
  <1>7. Unheard'
    BY <1>0, <1>1, <1>4 DEF IInv, ClockInv, Unheard
  <1>8. /\ Own(h)' = Own(h) + 1 /\ InReach(h)' = InReach(h)
        /\ \A g \in TS : g # h => /\ Own(g)' = Own(g) /\ InReach(g)' = InReach(g)
                                  /\ Settled(g)' = Settled(g)
    BY <1>0, <1>1, <1>4, <1>5 DEF Own, InReach, Settled
  <1>9. OwnClocks'
    BY <1>0, <1>1, <1>3, <1>8, <1>r DEF IInv, ClockInv, OwnClocks, TypeOK
  <1>10. HeardByThreads'
    <2>1. ASSUME NEW k \in TS, k # h
          PROVE  Hearsay(h, C[k])' /\ Behind(h, C[k])'
      <3>1. Hearsay(h, C[k]) /\ C[k].at[tid[h]] \in Nat
        BY <1>0, <1>r, <2>1 DEF IInv, ClockInv, HeardByThreads
      <3> QED
        BY <1>1, <1>3, <1>4, <1>8, <2>1, <3>1 DEF Hearsay, Behind
    <2>2. ASSUME NEW g \in TS, g # h, NEW k \in TS, k # g
          PROVE  Hearsay(g, C[k])' /\ Behind(g, C[k])'
      <3>1. Hearsay(g, C[k]) /\ Behind(g, C[k])
        BY <2>2 DEF IInv, ClockInv, HeardByThreads
      <3>2. C'[k].at[tid[g]] = C[k].at[tid[g]] /\ tid' = tid
        BY <1>1, <1>4, <1>5, <1>r, <2>2
      <3> QED
        BY <1>8, <2>2, <3>1, <3>2 DEF Hearsay, Behind
    <2> QED
      BY <1>1, <2>1, <2>2 DEF HeardByThreads
  <1>11. HeardByLocks'
    <2>1. ASSUME NEW w \in LS
          PROVE  Hearsay(h, L[w])' /\ Behind(h, L[w])'
      <3>1. Hearsay(h, L[w]) /\ L[w].at[tid[h]] \in Nat
        BY <1>0, <1>r DEF IInv, ClockInv, HeardByLocks
      <3> QED
        BY <1>1, <1>3, <1>8, <3>1 DEF Hearsay, Behind
    <2>2. ASSUME NEW g \in TS, g # h, NEW w \in LS
          PROVE  /\ Hearsay(g, L[w])'
                 /\ \/ Behind(g, L[w])'
                    \/ \E u \in Threads : Self(u) = g /\ Publishing(u, w)'
      <3>1. /\ Hearsay(g, L[w])
            /\ Behind(g, L[w]) \/ \E u \in Threads : Self(u) = g /\ Publishing(u, w)
        BY DEF IInv, ClockInv, HeardByLocks
      <3>2. Hearsay(g, L[w])' /\ (Behind(g, L[w]) => Behind(g, L[w])')
        BY <1>1, <1>8, <2>2, <3>1 DEF Hearsay, Behind
      <3>3. w \in Locks
        BY <1>r
      <3> QED
        BY <1>0, <1>2, <2>2, <3>1, <3>2, <3>3
    <2> QED
      BY <1>1, <2>1, <2>2 DEF HeardByLocks, Self
  <1> QED
    BY <1>6, <1>7, <1>9, <1>10, <1>11 DEF ClockInv

\* ft_acquire, after the section: the epoch follows the joined clock.
LEMMA AdoptStep ==
  ASSUME IInv, NEW t \in Threads, ft_acquire_adopt(t)
  PROVE  ClockInv'
  <1>1. /\ epoch' = [epoch EXCEPT ![Self(t)] = Own(Self(t))]
        /\ pc' = [pc EXCEPT ![t] = "run"] /\ call' = [call EXCEPT ![t] = NoCall]
        /\ pc[t] = "adopt"
        /\ UNCHANGED <<TS, tid, C, NumThreads, LS, L>>
    BY DEF ft_acquire_adopt, Return, locks, Own
  <1>2. \A u \in Threads, w \in LS : Publishing(u, w) => Publishing(u, w)'
    BY <1>1 DEF Publishing, IInv, TypeOK
  <1>3. (Numbering /\ Sizes /\ Unheard /\ HeardByThreads)'
    BY <1>1 DEF IInv, ClockInv, Numbering, Sizes, Unheard, HeardByThreads,
       Hearsay, Behind, InReach, Settled, Own
  <1>4. OwnClocks'
    <2>1. \A g \in TS : Own(g)' = Own(g) /\ InReach(g)' = InReach(g) /\ Own(g) \in Nat
      BY <1>1, Readings DEF Own, InReach
    <2> QED
      BY <1>1, <2>1 DEF IInv, TypeOK, ClockInv, OwnClocks
  <1>5. HeardByLocks'
    BY <1>1, <1>2 DEF IInv, ClockInv, HeardByLocks, Hearsay, Behind, InReach, Settled,
       Own, Self
  <1> QED
    BY <1>3, <1>4, <1>5 DEF ClockInv

\* ft_fork and ft_join: one thread gives its clock to the other and ticks,
\* the giver a being the parent of a fork and the child of a join.
LEMMA HandOver ==
  ASSUME IInv, NEW a \in TS, NEW b \in TS, a # b,
         C'[a] = increment(a, ExtendToMatch(C[a], C[b])),
         C'[b] = JoinClock(C[b], C[a]),
         \A k \in TS : k # a /\ k # b => C'[k] = C[k] /\ epoch'[k] = epoch[k],
         epoch'[a] = epoch[a] + 1, epoch'[b] = C'[b].at[tid[b]],
         UNCHANGED <<TS, tid, NumThreads, LS, L>>,
         \A u \in Threads, w \in LS : Publishing(u, w) => Publishing(u, w)'
  PROVE  ClockInv'
  <1>r. /\ Cardinality(TS) \in Nat
        /\ \A k \in TS : /\ k \in Handles /\ tid[k] \in Slots /\ tid[k] \in Nat
                         /\ C[k] \in VectorClock /\ C[k].size \in Nat /\ epoch[k] \in Nat
                         /\ \A i \in Slots : C[k].at[i] \in Nat /\ i \in Nat
        /\ \A w \in LS : /\ w \in Locks /\ L[w] \in VectorClock /\ L[w].size \in Nat
                         /\ \A i \in Slots : L[w].at[i] \in Nat
    BY Readings
  <1>1. /\ C'[a].size = Larger(C[a].size, C[b].size)
        /\ C'[a].at[tid[a]] = epoch[a] + 1
        /\ \A i \in Slots : i # tid[a] =>
             C'[a].at[i] = IF C[a].size <= i /\ i < C[b].size THEN 0 ELSE C[a].at[i]
    <2> DEFINE ev == ExtendToMatch(C[a], C[b])
               now == epoch[a] + 1
    <2>1. /\ ev \in VectorClock /\ ev.size = Larger(C[a].size, C[b].size)
          /\ \A i \in Slots : ev.at[i] = IF C[a].size <= i /\ i < C[b].size
                                         THEN 0 ELSE C[a].at[i]
      BY <1>r, ExtendedClock
    <2>2. now \in Nat /\ tid[a] \in Slots
      BY <1>r
    <2>3. C'[a] = [ev EXCEPT !.at[tid[a]] = now]
      BY DEF increment
    <2> HIDE DEF ev, now
    <2>4. /\ C'[a].size = ev.size /\ C'[a].at[tid[a]] = now
          /\ \A i \in Slots : i # tid[a] => C'[a].at[i] = ev.at[i]
      BY <2>1, <2>2, <2>3, StoredClock
    <2> QED
      BY <2>1, <2>4 DEF now
  <1>2. /\ C'[b].size = Larger(C[a].size, C[b].size)
        /\ \A i \in Slots : C'[b].at[i] = IF i < Larger(C[a].size, C[b].size)
                                          THEN Larger(Known(C[b], i), Known(C[a], i))
                                          ELSE C[b].at[i]
    <2>1. Larger(C[a].size, C[b].size) = Larger(C[b].size, C[a].size)
      BY <1>r DEF Larger
    <2> QED
      BY <1>r, <2>1, JoinedClock
  <1>3. /\ \A g \in TS \ {a} : tid[g] # tid[a]
        /\ \A g \in TS \ {b} : tid[g] # tid[b]
    BY DEF IInv, ClockInv, Numbering
  <1>4. Numbering' /\ Sizes'
    <2>1. \A k \in TS : C'[k].size \in Cardinality(TS) .. Cardinality(TS) + 1
      BY <1>1, <1>2, <1>r DEF IInv, ClockInv, Sizes, Larger
    <2> QED
      BY <2>1 DEF IInv, ClockInv, Numbering, Sizes
  <1>5. Unheard'
    <2>1. ASSUME NEW i \in Slots, \A g \in TS : tid[g] # i
          PROVE  C'[a].at[i] = 0 /\ C'[b].at[i] = 0
      <3>1. C[a].at[i] = 0 /\ C[b].at[i] = 0
        BY <2>1 DEF IInv, ClockInv, Unheard
      <3> QED
        BY <1>1, <1>2, <2>1, <3>1 DEF Larger, Known
    <2> QED
      BY <2>1 DEF IInv, ClockInv, Unheard
  <1>6. /\ Own(a) <= epoch[a] /\ Own(a) \in Nat /\ Own(a)' = epoch[a] + 1
        /\ InReach(a) => InReach(a)'
        /\ C'[b].at[tid[a]] \in Nat /\ C'[b].at[tid[a]] <= Own(a)
        /\ ~InReach(a)' => C'[b].at[tid[a]] = 0
    <2>1. /\ Own(a) <= epoch[a]
          /\ C[b].at[tid[a]] <= Own(a) /\ (~InReach(a) => C[b].at[tid[a]] = 0)
      BY DEF IInv, ClockInv, OwnClocks, HeardByThreads, Hearsay
    <2> DEFINE o == C[a].at[tid[a]]
               v == C[b].at[tid[a]]
               vv == C'[b].at[tid[a]]
    <2>2. /\ tid[a] \in Slots /\ tid[a] \in Nat /\ o \in Nat /\ v \in Nat
          /\ C[a].size \in Nat /\ C[b].size \in Nat
      BY <1>r
    <2>3. vv = IF tid[a] < C'[a].size THEN Larger(Known(C[b], tid[a]), Known(C[a], tid[a]))
               ELSE v
      BY <1>1, <1>2, <2>2
    <2>4. /\ vv \in Nat /\ vv <= o /\ C[a].size <= C'[a].size /\ C'[a].size \in Nat
          /\ ~(tid[a] < C'[a].size) => vv = 0
      BY <1>1, <2>1, <2>2, <2>3 DEF Own, InReach, Larger, Known
    <2> QED
      BY <1>1, <2>1, <2>2, <2>4 DEF Own, InReach
  <1>7. /\ Own(b)' \in Nat
        /\ ~InReach(b)' => Own(b)' >= 1
        /\ Own(b)' = Own(b) \/ (InReach(b)' /\ Own(b)' = 0 /\ ~InReach(b))
        /\ Settled(b)' => Settled(b) /\ Own(b)' = Own(b)
        /\ InReach(b) => InReach(b)'
    <2>1. /\ C[a].at[tid[b]] <= Own(b) /\ (~InReach(b) => C[a].at[tid[b]] = 0)
          /\ ~InReach(b) => Own(b) >= 1
      BY DEF IInv, ClockInv, OwnClocks, HeardByThreads, Hearsay
    <2> DEFINE o == C[b].at[tid[b]]
               v == C[a].at[tid[b]]
               oo == C'[b].at[tid[b]]
               size == C'[b].size
    <2>2. /\ tid[b] \in Slots /\ tid[b] \in Nat /\ o \in Nat /\ v \in Nat
          /\ C[a].size \in Nat /\ C[b].size \in Nat
      BY <1>r
    <2>3. oo = IF tid[b] < size THEN Larger(Known(C[b], tid[b]), Known(C[a], tid[b])) ELSE o
      BY <1>2, <2>2
    <2>4. /\ size \in Nat /\ size >= C[b].size /\ oo \in Nat
          /\ tid[b] < C[b].size => oo = o
          /\ ~(tid[b] < C[b].size) /\ tid[b] < size => oo = 0
          /\ ~(tid[b] < size) => oo = o
      BY <1>2, <2>1, <2>2, <2>3 DEF Own, InReach, Larger, Known
    <2>5. Own(b)' = oo /\ Own(b) = o /\ tid' = tid
      BY DEF Own
    <2> QED
      BY <2>1, <2>2, <2>4, <2>5 DEF InReach, Settled
  <1>8. \A g \in TS : g # a /\ g # b =>
          Own(g)' = Own(g) /\ InReach(g)' = InReach(g) /\ Settled(g)' = Settled(g)
    BY DEF Own, InReach, Settled
  <1>9. OwnClocks'
    <2>1. ASSUME NEW g \in TS
          PROVE  Own(g)' <= epoch'[g] /\ (~InReach(g)' => Own(g)' >= 1)
      <3>1. CASE g = a
        BY <1>6, <1>r, <3>1
      <3>2. CASE g = b
        BY <1>7, <3>2 DEF Own
      <3>3. CASE g # a /\ g # b
        BY <1>8, <3>3 DEF IInv, ClockInv, OwnClocks
      <3> QED
        BY <3>1, <3>2, <3>3
    <2> QED
      BY <2>1 DEF OwnClocks
  <1>10. \A g \in TS : g # a =>
           /\ InReach(g) => InReach(g)'
           /\ Own(g)' = Own(g) \/ (InReach(g)' /\ Own(g)' = 0 /\ ~InReach(g))
           /\ Settled(g)' => Settled(g) /\ Own(g)' = Own(g)
           /\ Own(g)' \in Nat /\ Own(g) \in Nat
    BY <1>7, <1>8, <1>r DEF Own
  <1>11. HeardByThreads'
    <2>1. ASSUME NEW k \in TS, k # a
          PROVE  Hearsay(a, C[k])' /\ Behind(a, C[k])'
      <3>1. C[k].at[tid[a]] <= Own(a) /\ (~InReach(a) => C[k].at[tid[a]] = 0)
            /\ C[k].at[tid[a]] \in Nat
        BY <1>r, <2>1 DEF IInv, ClockInv, HeardByThreads, Hearsay
      <3>2. /\ C'[k].at[tid[a]] \in Nat /\ C'[k].at[tid[a]] <= Own(a)
            /\ ~InReach(a)' => C'[k].at[tid[a]] = 0
        BY <1>6, <2>1, <3>1
      <3>3. epoch[a] \in Nat /\ tid' = tid
        BY <1>r
      <3> QED
        BY <1>6, <3>2, <3>3 DEF Hearsay, Behind
    <2>2. ASSUME NEW g \in TS, g # a, NEW k \in TS, k # g
          PROVE  Hearsay(g, C[k])' /\ Behind(g, C[k])'
      <3>1. /\ Hearsay(g, C[k]) /\ Behind(g, C[k])
            /\ g # b => Hearsay(g, C[b]) /\ Behind(g, C[b])
            /\ Hearsay(g, C[a]) /\ Behind(g, C[a])
        BY <2>2 DEF IInv, ClockInv, HeardByThreads
      <3>2. \/ C'[k].at[tid[g]] = C[k].at[tid[g]]
            \/ C'[k].at[tid[g]] = C[a].at[tid[g]]
            \/ C'[k].at[tid[g]] = 0
        BY <1>1, <1>2, <1>3, <1>r, <2>2 DEF Larger, Known
      <3>3. C[k].at[tid[g]] \in Nat /\ C[a].at[tid[g]] \in Nat /\ tid' = tid
        BY <1>r
      <3>4. Settled(g)' => Own(g)' >= 1
        BY DEF Settled
      <3> QED
        BY <1>10, <2>2, <3>1, <3>2, <3>3, <3>4 DEF Hearsay, Behind
    <2> QED
      BY <2>1, <2>2 DEF HeardByThreads
  <1>12. HeardByLocks'
    <2>1. ASSUME NEW w \in LS
          PROVE  Hearsay(a, L[w])' /\ Behind(a, L[w])'
      <3>1. /\ Hearsay(a, L[w]) /\ L[w].at[tid[a]] \in Nat /\ L' = L /\ tid' = tid
            /\ epoch[a] \in Nat
        BY <1>r DEF IInv, ClockInv, HeardByLocks
      <3> QED
        BY <1>6, <3>1 DEF Hearsay, Behind
    <2>2. ASSUME NEW g \in TS, g # a, NEW w \in LS
          PROVE  /\ Hearsay(g, L[w])'
                 /\ \/ Behind(g, L[w])'
                    \/ \E u \in Threads : Self(u) = g /\ Publishing(u, w)'
      <3>1. /\ Hearsay(g, L[w])
            /\ Behind(g, L[w]) \/ \E u \in Threads : Self(u) = g /\ Publishing(u, w)
        BY DEF IInv, ClockInv, HeardByLocks
      <3>2. L'= L /\ tid' = tid /\ L[w].at[tid[g]] \in Nat
        BY <1>r
      <3>3. Hearsay(g, L[w])'
        BY <1>10, <2>2, <3>1, <3>2 DEF Hearsay
      <3>4. Behind(g, L[w]) => Behind(g, L[w])'
        BY <1>10, <2>2, <3>2 DEF Behind
      <3> QED
        BY <3>1, <3>3, <3>4
    <2> QED
      BY <2>1, <2>2 DEF HeardByLocks, Self
  <1> QED
    BY <1>4, <1>5, <1>9, <1>11, <1>12 DEF ClockInv

\* ft_fork hands the parent's clock to the child, ft_join the child's to the
\* parent; both are registered and different, because the callback looked
\* them up before.
LEMMA ForkJoinStep ==
  ASSUME IInv, NEW t \in Threads, ft_fork(t) \/ ft_join(t)
  PROVE  ClockInv'
  <1>1. /\ Self(t) \in TS /\ Child(t) \in TS /\ Self(t) # Child(t)
        /\ pc[t] # "tick" /\ pc' = [pc EXCEPT ![t] = "run"]
        /\ call' = [call EXCEPT ![t] = NoCall]
        /\ UNCHANGED <<TS, tid, NumThreads, LS, L>>
    BY DEF ft_fork, ft_join, Return, locks, IInv, Callbacks
  <1>2. TS \subseteq Handles /\ C \in [Handles -> VectorClock] /\ epoch \in [Handles -> Nat]
    BY DEF IInv, TypeOK
  <1>3. \A u \in Threads, w \in LS : Publishing(u, w) => Publishing(u, w)'
    BY <1>1 DEF Publishing, IInv, TypeOK
  <1>4. PICK p \in TS, u \in TS : p = Self(t) /\ u = Child(t)
    BY <1>1
  <1>5. CASE ft_fork(t)
    <2>1. /\ C'[p] = increment(p, ExtendToMatch(C[p], C[u]))
          /\ C'[u] = JoinClock(C[u], C[p])
          /\ \A k \in TS : k # p /\ k # u => C'[k] = C[k] /\ epoch'[k] = epoch[k]
          /\ epoch'[p] = epoch[p] + 1 /\ epoch'[u] = C'[u].at[tid[u]]
      BY <1>1, <1>2, <1>4, <1>5 DEF ft_fork
    <2> QED
      BY <1>1, <1>3, <1>4, <2>1, HandOver
  <1>6. CASE ft_join(t)
    <2>1. /\ C'[u] = increment(u, ExtendToMatch(C[u], C[p]))
          /\ C'[p] = JoinClock(C[p], C[u])
          /\ \A k \in TS : k # u /\ k # p => C'[k] = C[k] /\ epoch'[k] = epoch[k]
          /\ epoch'[u] = epoch[u] + 1 /\ epoch'[p] = C'[p].at[tid[p]]
      BY <1>1, <1>2, <1>4, <1>6 DEF ft_join
    <2> QED
      BY <1>1, <1>3, <1>4, <2>1, HandOver
  <1> QED
    BY <1>5, <1>6

\* getState: the new vector is zero but for the word past its end, and every
\* other vector grows by at most one word, the one its owner may be waiting
\* for.
LEMMA Registered ==
  ASSUME IInv, NEW t \in Threads, NEW h \in Handles, getState(t, h)
  PROVE  LET n == Cardinality(TS) + 1
         IN  /\ h \notin TS /\ TS' = TS \cup {h} /\ Cardinality(TS') = n
             /\ n \in Slots /\ NumThreads' = n + 1
             /\ tid'[h] = n /\ \A g \in TS : tid'[g] = tid[g]
             /\ epoch'[h] = 1 /\ \A g \in TS : epoch'[g] = epoch[g]
             /\ \A g \in TS' : C'[g].size = n
             /\ C'[h].at[n] = 1
             /\ \A i \in Slots : i # n => C'[h].at[i] = 0
             /\ \A g \in TS, i \in Slots :
                  C'[g].at[i] = IF C[g].size <= i /\ i < n
                                THEN FirstClock(tid[g], i) ELSE C[g].at[i]
             /\ UNCHANGED <<LS, L, pc, call>>
  <1> DEFINE n == Cardinality(TS) + 1
             tids == [tid EXCEPT ![h] = n]
             known == [C EXCEPT ![h] = newVectorClock(0)]
             fresh(g) == [i \in Slots |-> FirstClock(tids[g], i)]
             grown(g) == PushUpTo(known[g], n, fresh(g))
  <1>1. /\ h \notin TS /\ TS' = TS \cup {h} /\ tid' = tids
        /\ epoch' = [epoch EXCEPT ![h] = 1] /\ NumThreads' = n + 1
        /\ C' = [g \in Handles |-> IF g = h THEN [grown(h) EXCEPT !.at[n] = 1]
                                   ELSE IF g \in TS THEN grown(g) ELSE C[g]]
        /\ UNCHANGED <<LS, L, pc, call>>
    BY DEF getState, control, locks
  <1>2. /\ TypeOK /\ MaxTid \in Nat
        /\ TS \subseteq Handles /\ tid \in [Handles -> Slots]
        /\ C \in [Handles -> VectorClock] /\ epoch \in [Handles -> Nat]
    BY MaxTidNat DEF IInv, TypeOK
  <1>3. Cardinality(TS) \in 0 .. MaxTid /\ Cardinality(TS \cup {h}) = n /\ n <= MaxTid
    BY <1>1, <1>2, Counting
  <1>4. n \in Slots /\ n \in 0 .. MaxTid + 1 /\ \A i \in Slots : i \in Nat
    BY <1>2, <1>3 DEF Slots
  <1>5. tids \in [Handles -> Slots] /\ tids[h] = n /\ \A g \in TS : tids[g] = tid[g]
    BY <1>1, <1>2, <1>4
  <1>6. /\ known[h] \in VectorClock /\ known[h].size = 0
        /\ \A i \in Slots : known[h].at[i] = 0
        /\ \A g \in TS : known[g] = C[g] /\ C[g] \in VectorClock
    <2>1. 0 \in 0 .. MaxTid + 1
      BY <1>2
    <2> QED
      BY <1>1, <1>2, <2>1, NewClock
  <1> HIDE DEF n, tids, known
  <1>7. ASSUME NEW g \in TS'
        PROVE  /\ grown(g) \in VectorClock /\ grown(g).size = Larger(known[g].size, n)
               /\ \A i \in Slots : grown(g).at[i] = IF known[g].size <= i /\ i < n
                                                    THEN fresh(g)[i] ELSE known[g].at[i]
    <2>1. fresh(g) \in [Slots -> Nat] /\ known[g] \in VectorClock
      BY <1>1, <1>6 DEF FirstClock
    <2> HIDE DEF fresh
    <2> QED
      BY <1>4, <2>1, PushedClock
  <1>8. \A g \in TS : C[g].size \in Cardinality(TS) .. n
    BY DEF IInv, ClockInv, Sizes, n
  <1>9. \A g \in TS' : grown(g).size = n
    <2>1. Cardinality(TS) \in Nat /\ n \in Nat
      BY <1>3 DEF n
    <2>2. \A g \in TS' : known[g].size \in Nat /\ known[g].size <= n
      BY <1>1, <1>6, <1>8, <2>1
    <2> HIDE DEF grown
    <2> QED
      BY <1>7, <2>1, <2>2 DEF Larger
  <1>10. ASSUME NEW g \in TS
         PROVE  /\ C'[g].size = n
                /\ \A i \in Slots : C'[g].at[i] = IF C[g].size <= i /\ i < n
                                                  THEN FirstClock(tid[g], i) ELSE C[g].at[i]
    <2>1. C'[g] = grown(g) /\ known[g] = C[g] /\ g \in TS'
      BY <1>1, <1>2, <1>6
    <2>2. \A i \in Slots : fresh(g)[i] = FirstClock(tid[g], i)
      BY <1>5
    <2> HIDE DEF grown, fresh
    <2> QED
      BY <1>7, <1>9, <2>1, <2>2
  <1>11. /\ C'[h].size = n /\ C'[h].at[n] = 1
         /\ \A i \in Slots : i # n => C'[h].at[i] = 0
    <2> HIDE DEF grown
    <2>1. C'[h] = [grown(h) EXCEPT !.at[n] = 1] /\ h \in TS'
      BY <1>1
    <2>2. C'[h].size = n /\ C'[h].at[n] = 1 /\ \A i \in Slots : i # n => C'[h].at[i] = grown(h).at[i]
      BY <1>4, <1>7, <1>9, <2>1, StoredClock
    <2>3. \A i \in Slots : i # n => fresh(h)[i] = 0
      BY <1>5 DEF FirstClock
    <2> HIDE DEF fresh
    <2> QED
      BY <1>6, <1>7, <2>1, <2>2, <2>3
  <1> QED
    BY <1>1, <1>2, <1>3, <1>4, <1>5, <1>10, <1>11 DEF n

\* getState keeps the clock invariant: the word past the end of a vector is
\* written over only with the clock 1 of the thread it belongs to.
LEMMA RegisterStep ==
  ASSUME IInv, NEW t \in Threads, NEW h \in Handles, getState(t, h)
  PROVE  ClockInv'
  <1>r. /\ Cardinality(TS) \in Nat
        /\ \A k \in TS : /\ k \in Handles /\ tid[k] \in Slots /\ tid[k] \in Nat
                         /\ C[k] \in VectorClock /\ C[k].size \in Nat /\ epoch[k] \in Nat
                         /\ \A i \in Slots : C[k].at[i] \in Nat /\ i \in Nat
        /\ \A w \in LS : /\ w \in Locks /\ L[w] \in VectorClock /\ L[w].size \in Nat
                         /\ \A i \in Slots : L[w].at[i] \in Nat
    BY Readings
  <1>0. PICK n \in Nat : n = Cardinality(TS) + 1
    BY <1>r
  <1>1. /\ h \notin TS /\ TS' = TS \cup {h} /\ Cardinality(TS') = n
        /\ n \in Slots /\ NumThreads' = n + 1
        /\ tid'[h] = n /\ \A g \in TS : tid'[g] = tid[g]
        /\ epoch'[h] = 1 /\ \A g \in TS : epoch'[g] = epoch[g]
        /\ \A g \in TS' : C'[g].size = n
        /\ C'[h].at[n] = 1
        /\ \A i \in Slots : i # n => C'[h].at[i] = 0
        /\ \A g \in TS, i \in Slots :
             C'[g].at[i] = IF C[g].size <= i /\ i < n THEN FirstClock(tid[g], i) ELSE C[g].at[i]
        /\ UNCHANGED <<LS, L, pc, call>>
    BY <1>0, Registered
  <1>2. /\ \A g \in TS : tid[g] \in 1 .. n - 1 /\ tid[g] < n
        /\ \A f, g \in TS : tid[f] = tid[g] => f = g
        /\ \A g \in TS : C[g].size \in n - 1 .. n
        /\ \A m \in LS : L[m].size <= n
    BY <1>0, <1>r DEF IInv, ClockInv, Numbering, Sizes
  <1>3. /\ \A k \in TS : C[k].at[n] = 0
        /\ \A m \in LS : L[m].at[n] = 0
    BY <1>1, <1>2 DEF IInv, ClockInv, Unheard
  <1>4. Numbering' /\ Sizes'
    <2>1. NumThreads' <= n + 1
      BY <1>1
    <2>2. \A g \in TS' : tid'[g] \in 1 .. n
      <3>1. \A g \in TS : tid[g] \in 1 .. n
        BY <1>2
      <3>2. n \in 1 .. n
        BY <1>0, <1>r
      <3> QED
        BY <1>1, <3>1, <3>2
    <2>3. \A f, g \in TS' : tid'[f] = tid'[g] => f = g
      <3>1. \A f, g \in TS : tid'[f] = tid'[g] => f = g
        BY <1>1, <1>2
      <3>2. \A g \in TS : tid'[g] # tid'[h]
        BY <1>1, <1>2, <1>r
      <3> QED
        BY <1>1, <3>1, <3>2
    <2>4. Numbering'
      BY <1>1, <2>1, <2>2, <2>3 DEF Numbering
    <2>5. \A g \in TS' : C'[g].size \in n .. n + 1
      BY <1>1
    <2>6. \A m \in LS' : L'[m].size <= n + 1
      BY <1>1, <1>2, <1>r
    <2> QED
      BY <1>1, <2>4, <2>5, <2>6 DEF Sizes
  <1>5. Unheard'
    <2>1. ASSUME NEW i \in Slots, \A g \in TS' : tid'[g] # i
          PROVE  (\A k \in TS' : C'[k].at[i] = 0) /\ (\A m \in LS : L[m].at[i] = 0)
      <3>1. i # n /\ \A g \in TS : tid[g] # i
        BY <1>1, <2>1
      <3>2. (\A k \in TS : C[k].at[i] = 0) /\ (\A m \in LS : L[m].at[i] = 0)
        BY <3>1 DEF IInv, ClockInv, Unheard
      <3> QED
        BY <1>1, <3>1, <3>2 DEF FirstClock
    <2> QED
      BY <1>1, <2>1 DEF Unheard
  <1>6. ASSUME NEW g \in TS
        PROVE  /\ InReach(g)' /\ Own(g)' \in Nat
               /\ InReach(g) => Own(g)' = Own(g)
               /\ ~InReach(g) => Own(g)' = 1
    <2>1. C'[g].size = n /\ tid'[g] = tid[g]
      BY <1>1
    <2>2. C'[g].at[tid[g]] = IF C[g].size <= tid[g] THEN 1 ELSE C[g].at[tid[g]]
      BY <1>1, <1>2, <1>r DEF FirstClock
    <2> QED
      BY <1>2, <1>r, <2>1, <2>2 DEF InReach, Own
  <1>7. /\ Own(h)' = 1 /\ ~InReach(h)'
    BY <1>1 DEF InReach, Own
  <1>8. OwnClocks'
    <2>1. ASSUME NEW g \in TS
          PROVE  Own(g)' <= epoch'[g] /\ InReach(g)'
      <3>1. Own(g) <= epoch[g] /\ (~InReach(g) => Own(g) >= 1) /\ Own(g) \in Nat
        BY <1>r DEF IInv, ClockInv, OwnClocks, Own
      <3>2. epoch'[g] = epoch[g] /\ epoch[g] \in Nat
        BY <1>1, <1>r
      <3> QED
        BY <1>6, <3>1, <3>2
    <2> QED
      BY <1>1, <1>7, <2>1 DEF OwnClocks
  <1>9. ASSUME NEW g \in TS, NEW k \in TS, k # g
        PROVE  Hearsay(g, C[k])' /\ Behind(g, C[k])'
    <2>1. Hearsay(g, C[k]) /\ Behind(g, C[k])
      BY <1>9 DEF IInv, ClockInv, HeardByThreads
    <2>2. C'[k].at[tid[g]] = C[k].at[tid[g]] \/ C'[k].at[tid[g]] = 0
      BY <1>1, <1>2, <1>9, <1>r DEF FirstClock
    <2>3. tid'[g] = tid[g] /\ C[k].at[tid[g]] \in Nat /\ Own(g) \in Nat
      BY <1>1, <1>r DEF Own
    <2> QED
      BY <1>6, <2>1, <2>2, <2>3 DEF Hearsay, Behind, Settled, InReach
  <1>10. ASSUME NEW g \in TS
         PROVE  /\ Hearsay(g, C[h])' /\ Behind(g, C[h])'
                /\ Hearsay(h, C[g])' /\ Behind(h, C[g])'
    <2>1. C'[h].at[tid'[g]] = 0 /\ C'[g].at[tid'[h]] = 0
      BY <1>1, <1>2, <1>3, <1>r
    <2> QED
      BY <1>6, <1>7, <2>1 DEF Hearsay, Behind, Settled, InReach
  <1>11. HeardByThreads'
    BY <1>1, <1>9, <1>10 DEF HeardByThreads
  <1>12. ASSUME NEW m \in LS, NEW g \in TS
         PROVE  /\ Hearsay(g, L[m])'
                /\ \/ Behind(g, L[m])'
                   \/ \E u \in Threads : Self(u) = g /\ Publishing(u, m)'
    <2>1. /\ Hearsay(g, L[m])
          /\ Behind(g, L[m]) \/ \E u \in Threads : Self(u) = g /\ Publishing(u, m)
      BY DEF IInv, ClockInv, HeardByLocks
    <2>2. /\ L'[m] = L[m] /\ tid'[g] = tid[g] /\ L[m].at[tid[g]] \in Nat /\ Own(g) \in Nat
          /\ tid[g] \in Nat /\ C[g].size \in Nat
      BY <1>1, <1>r DEF Own
    <2>3. Hearsay(g, L[m])'
      BY <1>6, <2>1, <2>2 DEF Hearsay
    <2>4. Behind(g, L[m]) => Behind(g, L[m])'
      BY <1>6, <2>1, <2>2 DEF Hearsay, Behind, Settled, InReach
    <2>5. \A u \in Threads : Publishing(u, m) => Publishing(u, m)'
      BY <1>1 DEF Publishing
    <2> QED
      BY <2>1, <2>3, <2>4, <2>5
  <1>13. ASSUME NEW m \in LS
         PROVE  Hearsay(h, L[m])' /\ Behind(h, L[m])'
    <2>1. L'[m].at[tid'[h]] = 0
      BY <1>1, <1>3
    <2> QED
      BY <1>7, <2>1 DEF Hearsay, Behind, Settled, InReach
  <1>14. HeardByLocks'
    BY <1>1, <1>12, <1>13 DEF HeardByLocks, Self
  <1> QED
    BY <1>4, <1>5, <1>8, <1>11, <1>14 DEF ClockInv

\* getLockState: a new mutex knows of nobody.
LEMMA LockStateStep ==
  ASSUME IInv, NEW t \in Threads, NEW m \in Locks, getLockState(t, m)
  PROVE  ClockInv'
  <1>1. /\ LS' = LS \cup {m} /\ m \notin LS
        /\ L' = [L EXCEPT ![m] = newVectorClock(NumThreads)]
        /\ UNCHANGED <<TS, tid, C, epoch, NumThreads, pc, call>>
    BY DEF getLockState, control, threads
  <1>2. /\ L'[m].size = NumThreads /\ \A i \in Slots : L'[m].at[i] = 0
        /\ \A w \in LS : L'[w] = L[w]
    BY <1>1, NewClock DEF IInv, TypeOK
  <1>3. (Numbering /\ OwnClocks /\ HeardByThreads)'
    BY <1>1 DEF IInv, ClockInv, Numbering, OwnClocks, HeardByThreads, Hearsay, Behind,
       InReach, Settled, Own
  <1>4. Sizes' /\ Unheard'
    <2>1. \A w \in LS' : w \in LS \/ w = m
      BY <1>1
    <2>2. Sizes'
      BY <1>1, <1>2, <2>1 DEF IInv, ClockInv, Sizes, Numbering
    <2>3. Unheard'
      BY <1>1, <1>2, <2>1 DEF IInv, ClockInv, Unheard
    <2> QED
      BY <2>2, <2>3
  <1>5. HeardByLocks'
    <2>1. ASSUME NEW g \in TS
          PROVE  Hearsay(g, L[m])' /\ Behind(g, L[m])'
      BY <1>1, <1>2, Readings DEF Hearsay, Behind, InReach, Settled, Own
    <2>2. ASSUME NEW g \in TS, NEW w \in LS
          PROVE  /\ Hearsay(g, L[w])'
                 /\ \/ Behind(g, L[w])'
                    \/ \E u \in Threads : Self(u) = g /\ Publishing(u, w)'
      <3>1. L'[w] = L[w] /\ \A u \in Threads : Publishing(u, w) => Publishing(u, w)'
        BY <1>1, <1>2 DEF Publishing
      <3>2. /\ Hearsay(g, L[w])
            /\ Behind(g, L[w]) \/ \E u \in Threads : Self(u) = g /\ Publishing(u, w)
        BY DEF IInv, ClockInv, HeardByLocks
      <3> QED
        BY <1>1, <3>1, <3>2 DEF Hearsay, Behind, InReach, Settled, Own
    <2> QED
      BY <1>1, <2>1, <2>2 DEF HeardByLocks, Self
  <1> QED
    BY <1>3, <1>4, <1>5 DEF ClockInv

(***************************************************************************)
(* The theorems.                                                           *)
(***************************************************************************)
\* ClockInv survives every step of every thread.
LEMMA ClockStep ==
  ASSUME IInv, NEW t \in Threads, ThreadStep(t)
  PROVE  ClockInv'
  <1>1. ASSUME UNCHANGED <<threads, locks>>,
               \E point \in {"run", "waiting"} \cup CallbackPoints :
                 pc' = [pc EXCEPT ![t] = point],
               pc[t] # "tick", \A u \in Threads \ {t} : call'[u] = call[u]
        PROVE  ClockInv'
    <2>1. \A u \in Threads : pc[u] = "tick" => pc'[u] = "tick" /\ call'[u] = call[u]
      BY <1>1 DEF IInv, TypeOK
    <2> QED
      BY <1>1, <2>1, Undisturbed DEF IInv
  <1>c. call \in [Threads -> Op \cup {NoCall}]
    BY DEF IInv, TypeOK
  <1>2. ASSUME NEW u \in Threads, PthreadCreate(t, u) \/ PthreadJoin(t, u)
        PROVE  ClockInv'
    BY <1>1, <1>2, <1>c DEF PthreadCreate, PthreadJoin, Performs, Enter, CallbackPoints
  <1>3. ASSUME NEW m \in Locks,
               PthreadMutexLock(t, m) \/ PthreadMutexUnlock(t, m) \/ Untracked(t, m)
        PROVE  ClockInv'
    BY <1>1, <1>3, <1>c DEF PthreadMutexLock, PthreadMutexUnlock, Untracked, Performs, Enter,
       Return, CallbackPoints
  <1>4. ASSUME NEW x \in Vars, NEW do \in Accesses, Access(t, x, do)
        PROVE  ClockInv'
    BY <1>1, <1>4, <1>c DEF Access, Performs, Enter, Return, CallbackPoints
  <1>5. ASSUME NEW x \in Vars, getVarState(t, x)
        PROVE  ClockInv'
    BY <1>5, Undisturbed DEF getVarState, control, IInv
  <1>6. ASSUME NEW x \in Vars, ft_read(t, x) \/ ft_write(t, x)
        PROVE  ClockInv'
    BY <1>1, <1>6, <1>c DEF ft_read, ft_write, InAccess, Return, CallbackPoints
  <1>7. ASSUME ft_fork_count(t) \/ ft_join_test(t) \/ ft_join_drop(t)
        PROVE  ClockInv'
    BY <1>1, <1>7, <1>c DEF ft_fork_count, ft_join_test, ft_join_drop, Goto, CallbackPoints
  <1> QED
    BY <1>2, <1>3, <1>4, <1>5, <1>6, <1>7, ForkJoinStep, RegisterStep, LockStateStep,
       AcquireStep, ReleaseStep, TickStep, AdoptStep DEF ThreadStep

\* IInv holds when the program starts: nothing is registered.
LEMMA InitIInv == Init => IInv
  <1> SUFFICES ASSUME Init PROVE IInv
    OBVIOUS
  <1>1. TypeOK
    <2>1. 0 \in 0 .. MaxTid + 1 /\ 0 \in Slots
      BY MaxTidNat DEF Slots
    <2>2. newVectorClock(0) \in VectorClock
      BY <2>1, NewClock
    <2> QED
      BY <2>1, <2>2, ProgramAssumption DEF Init, TypeOK, Epoch
  <1>2. ClockInv
    BY FS_EmptySet DEF Init, ClockInv, Numbering, Sizes, Unheard, OwnClocks,
       HeardByThreads, HeardByLocks
  <1>3. Callbacks
    BY DEF Init, Callbacks
  <1>4. Alive
    BY DEF Init, Alive
  <1> QED
    BY <1>1, <1>2, <1>3, <1>4 DEF IInv

\* Every step, of a thread or of none, keeps IInv.
LEMMA NextIInv == IInv /\ [Next]_vars => IInv'
  <1>1. ASSUME IInv, NEW t \in Threads, ThreadStep(t)
        PROVE  IInv'
    BY <1>1, ControlStep, TypeStep, ClockStep DEF IInv
  <1>2. ASSUME IInv, UNCHANGED vars
        PROVE  IInv'
    <2>1. UNCHANGED <<life, step, holder, pc, call, TS, tid, C, epoch, NumThreads,
                      isConcurrent, LS, L, VS, W, R, Rvc, reported>>
      BY <1>2 DEF vars
    <2>2. TypeOK'
      BY <1>2, <2>1 DEF IInv, TypeOK
    <2>3. Callbacks' /\ Alive'
      BY <1>2, <2>1 DEF IInv, Callbacks, Alive, Self, Child
    <2>4. ClockInv'
      BY <1>2, <2>1, Undisturbed DEF IInv, threads, locks
    <2> QED
      BY <2>2, <2>3, <2>4 DEF IInv
  <1> QED
    BY <1>1, <1>2 DEF Next, Terminated

\* The inductive invariant of the runtime: in every reachable state of any
\* program, vector clocks, numbering and callbacks are as IInv says.
THEOREM Invariance == Spec => []IInv
  BY InitIInv, NextIInv, PTL DEF Spec

\* Every index the runtime computes, in getState, ExtendVectorClocks and the
\* joins, stays within the memory of its vector, at most one word past the
\* end, for any number of threads.
THEOREM TypeCorrect == Spec => []TypeOK
  <1>1. IInv => TypeOK
    BY DEF IInv
  <1> QED
    BY <1>1, Invariance, PTL

\* getState numbers the threads densely and uniquely, and every vector
\* reaches every other thread's index.
THEOREM DenselyNumbered == Spec => []DenseTids
  <1>1. IInv => DenseTids
    BY Readings DEF IInv, ClockInv, Numbering, Sizes, DenseTids
  <1> QED
    BY <1>1, Invariance, PTL

\* No join, copy or extension lets anyone know a later clock of a thread
\* than the thread's own.
THEOREM OnlyKnownClocks == Spec => []KnownClocks
  <1>1. ASSUME IInv, NEW h \in TS
        PROVE  /\ Own(h) <= epoch[h]
               /\ \A k \in TS : C[k].at[tid[h]] <= Own(h)
               /\ \A m \in LS : L[m].at[tid[h]] <= Own(h)
    <2>1. /\ Own(h) <= epoch[h] /\ Own(h) \in Nat
          /\ \A k \in TS \ {h} : C[k].at[tid[h]] <= Own(h)
          /\ \A m \in LS : L[m].at[tid[h]] <= Own(h)
      BY <1>1, Readings DEF IInv, ClockInv, OwnClocks, HeardByThreads, HeardByLocks,
         Hearsay, Own
    <2>2. C[h].at[tid[h]] <= Own(h)
      BY <2>1 DEF Own
    <2> QED
      BY <2>1, <2>2
  <1>2. IInv => KnownClocks
    BY <1>1 DEF KnownClocks
  <1> QED
    BY <1>2, Invariance, PTL

\* What the others know of a settled thread is strictly behind the thread's
\* own clock, except in the release that is about to advance it.
THEOREM AlwaysStrictlyAhead == Spec => []StrictlyAhead
  <1>1. IInv => StrictlyAhead
    BY DEF IInv, ClockInv, HeardByThreads, HeardByLocks, Behind, StrictlyAhead
  <1> QED
    BY <1>1, Invariance, PTL

\* Within a vector's size, extending changes no word and joining lowers none.
LEMMA GrownClock ==
  ASSUME NEW v \in VectorClock, NEW w \in VectorClock, NEW i \in Slots, i < v.size
  PROVE  /\ i < ExtendToMatch(v, w).size /\ ExtendToMatch(v, w).at[i] >= v.at[i]
         /\ i < JoinClock(v, w).size /\ JoinClock(v, w).at[i] >= v.at[i]
  <1>1. /\ v.size \in Nat /\ w.size \in Nat /\ i \in Nat
        /\ v.at[i] \in Nat /\ w.at[i] \in Nat
    BY MaxTidNat DEF VectorClock, Slots
  <1>2. /\ ExtendToMatch(v, w).size = Larger(v.size, w.size)
        /\ ExtendToMatch(v, w).at[i] = v.at[i]
    BY <1>1, ExtendedClock
  <1>3. /\ JoinClock(v, w).size = Larger(v.size, w.size)
        /\ i < Larger(v.size, w.size)
        /\ JoinClock(v, w).at[i] = Larger(v.at[i], Known(w, i))
    BY <1>1, JoinedClock DEF Larger, Known
  <1>4. Larger(v.at[i], Known(w, i)) >= v.at[i]
    BY <1>1 DEF Larger, Known
  <1> QED
    BY <1>1, <1>2, <1>3, <1>4

\* No step of any thread takes a settled thread's clock back.
LEMMA AdvanceStep ==
  ASSUME IInv, NEW t \in Threads, ThreadStep(t), NEW h \in TS, Settled(h)
  PROVE  /\ tid'[h] = tid[h] /\ tid[h] < C'[h].size
         /\ C'[h].at[tid[h]] >= C[h].at[tid[h]]
  <1>r. /\ h \in Handles /\ tid[h] \in Slots /\ tid[h] \in Nat
        /\ C[h] \in VectorClock /\ C[h].size \in Nat /\ C[h].at[tid[h]] \in Nat
        /\ epoch[h] \in Nat /\ C[h].at[tid[h]] <= epoch[h] /\ tid[h] < C[h].size
    BY Readings DEF IInv, ClockInv, OwnClocks, Settled, Own
  <1>c. C \in [Handles -> VectorClock] /\ L \in [Locks -> VectorClock] /\ TS \subseteq Handles
    BY DEF IInv, TypeOK
  <1>1. CASE UNCHANGED <<tid, C>>
    BY <1>1, <1>r
  <1>2. ASSUME NEW g \in Handles, getState(t, g)
        PROVE  /\ tid'[h] = tid[h] /\ tid[h] < C'[h].size
               /\ C'[h].at[tid[h]] >= C[h].at[tid[h]]
    <2> DEFINE n == Cardinality(TS) + 1
    <2>1. /\ tid'[h] = tid[h] /\ C'[h].size = n
          /\ C'[h].at[tid[h]] = C[h].at[tid[h]]
      BY <1>2, <1>r, Registered
    <2>2. tid[h] < n /\ n \in Nat
      BY <1>r, Readings DEF IInv, ClockInv, Numbering
    <2> QED
      BY <1>r, <2>1, <2>2
  <1>3. CASE ft_fork(t) \/ ft_join(t)
    <2>1. /\ Self(t) \in TS /\ Child(t) \in TS /\ Self(t) # Child(t) /\ tid' = tid
      BY <1>3 DEF ft_fork, ft_join, IInv, Callbacks
    <2>0. PICK p \in TS, u \in TS : p = Self(t) /\ u = Child(t) /\ p # u
      BY <2>1
    <2>p. p \in Handles /\ u \in Handles
      BY <1>c
    <2>a. ASSUME ft_fork(t)
         PROVE  \E g \in TS : \/ C'[h] = JoinClock(C[h], C[g])
                              \/ C'[h] = increment(h, ExtendToMatch(C[h], C[g]))
                              \/ C'[h] = C[h]
      <3>1. C' = [C EXCEPT ![p] = increment(p, ExtendToMatch(C[p], C[u])),
                           ![u] = JoinClock(C[u], C[p])]
        BY <2>0, <2>a DEF ft_fork
      <3>2. /\ h = p => C'[h] = increment(h, ExtendToMatch(C[h], C[u]))
            /\ h = u => C'[h] = JoinClock(C[h], C[p])
            /\ h # p /\ h # u => C'[h] = C[h]
        BY <1>c, <1>r, <2>0, <2>p, <3>1
      <3> QED
        BY <3>2
    <2>b. ASSUME ft_join(t)
         PROVE  \E g \in TS : \/ C'[h] = JoinClock(C[h], C[g])
                              \/ C'[h] = increment(h, ExtendToMatch(C[h], C[g]))
                              \/ C'[h] = C[h]
      <3>1. C' = [C EXCEPT ![p] = JoinClock(C[p], C[u]),
                           ![u] = increment(u, ExtendToMatch(C[u], C[p]))]
        BY <2>0, <2>b DEF ft_join
      <3>2. /\ h = u => C'[h] = increment(h, ExtendToMatch(C[h], C[p]))
            /\ h = p => C'[h] = JoinClock(C[h], C[u])
            /\ h # p /\ h # u => C'[h] = C[h]
        BY <1>c, <1>r, <2>0, <2>p, <3>1
      <3> QED
        BY <3>2
    <2>2. PICK g \in TS : \/ C'[h] = JoinClock(C[h], C[g])
                          \/ C'[h] = increment(h, ExtendToMatch(C[h], C[g]))
                          \/ C'[h] = C[h]
      BY <1>3, <2>a, <2>b
    <2>3. C[g] \in VectorClock
      BY <1>c
    <2>4. CASE C'[h] = increment(h, ExtendToMatch(C[h], C[g]))
      <3> DEFINE ev == ExtendToMatch(C[h], C[g])
                 now == epoch[h] + 1
      <3>1. ev \in VectorClock /\ tid[h] < ev.size
        BY <1>r, <2>3, ExtendedClock, GrownClock
      <3>2. C'[h] = [ev EXCEPT !.at[tid[h]] = now] /\ now \in Nat
        BY <1>r, <2>4 DEF increment
      <3>3. now >= C[h].at[tid[h]]
        BY <1>r
      <3> HIDE DEF ev, now
      <3>4. C'[h].size = ev.size /\ C'[h].at[tid[h]] = now
        BY <1>r, <3>1, <3>2, StoredClock
      <3> QED
        BY <2>1, <3>1, <3>3, <3>4
    <2> QED
      BY <1>r, <2>1, <2>2, <2>3, <2>4, GrownClock
  <1>4. CASE ft_acquire(t) \/ ft_release(t)
    <2>1. call[t].on \in Locks /\ tid' = tid
      BY <1>4 DEF ft_acquire, ft_release, IInv, Callbacks
    <2>2. PICK m \in Locks : \/ C'[h] = JoinClock(C[h], L[m])
                             \/ C'[h] = ExtendToMatch(C[h], L[m])
                             \/ C'[h] = C[h]
      BY <1>4, <1>c, <1>r, <2>1 DEF ft_acquire, ft_release
    <2>3. L[m] \in VectorClock
      BY <1>c
    <2> QED
      BY <1>r, <2>1, <2>2, <2>3, GrownClock
  <1>5. CASE ft_release_tick(t)
    <2> DEFINE g == Self(t)
               now == C[h].at[tid[h]] + 1
    <2>1. tid' = tid /\ (g = h => C'[h] = [C[h] EXCEPT !.at[tid[h]] = now])
          /\ (g # h => C'[h] = C[h])
      BY <1>5, <1>c, <1>r DEF ft_release_tick
    <2>2. now \in Nat /\ now >= C[h].at[tid[h]]
      BY <1>r
    <2> HIDE DEF now, g
    <2>3. now \in Nat /\ tid[h] \in Slots /\ C[h] \in VectorClock
      BY <1>r, <2>2
    <2>4. CASE g = h
      <3>1. C'[h] = [C[h] EXCEPT !.at[tid[h]] = now]
        BY <2>1, <2>4
      <3>2. C'[h].size = C[h].size /\ C'[h].at[tid[h]] = now
        BY <2>3, <3>1, StoredClock
      <3> QED
        BY <1>r, <2>1, <2>2, <3>2
    <2>5. CASE g # h
      BY <1>r, <2>1, <2>5
    <2> QED
      BY <2>4, <2>5
  <1>6. \/ UNCHANGED <<tid, C>> \/ \E g \in Handles : getState(t, g)
        \/ ft_fork(t) \/ ft_join(t) \/ ft_acquire(t) \/ ft_release(t) \/ ft_release_tick(t)
    BY DEF ThreadStep, PthreadCreate, PthreadJoin, PthreadMutexLock, PthreadMutexUnlock,
       Untracked, Access, getLockState, getVarState, ft_read, ft_write, ft_fork_count, ft_join_test,
       ft_join_drop, ft_acquire_adopt, threads
  <1> QED
    BY <1>1, <1>2, <1>3, <1>4, <1>5, <1>6

\* Once a thread's clock lies within its vector it never goes back, whoever
\* registers, forks, joins or locks next.
THEOREM ClocksAdvance == Spec => SettledClocksAdvance
  <1>1. ASSUME IInv, [Next]_vars
        PROVE  [SettledForGood]_vars
    <2>1. ASSUME NEW t \in Threads, ThreadStep(t)
          PROVE  SettledForGood
      <3>1. ASSUME NEW h \in TS, Settled(h)
            PROVE  Settled(h)' /\ tid'[h] = tid[h] /\ Own(h)' >= Own(h)
        <4>1. /\ tid'[h] = tid[h] /\ tid[h] < C'[h].size
              /\ C'[h].at[tid[h]] >= C[h].at[tid[h]]
          BY <1>1, <2>1, <3>1, AdvanceStep
        <4>2. C[h].at[tid[h]] \in Nat /\ C[h].at[tid[h]] >= 1
          BY <1>1, <3>1, Readings DEF Settled, Own
        <4>3. h \in Handles /\ C' \in [Handles -> VectorClock] /\ tid[h] \in Slots
          BY <1>1, <2>1, Readings, TypeStep DEF TypeOK
        <4>4. C'[h].at[tid[h]] \in Nat
          BY <4>3 DEF VectorClock
        <4> QED
          BY <4>1, <4>2, <4>4 DEF Settled, Own
      <3> QED
        BY <3>1 DEF SettledForGood
    <2> QED
      BY <1>1, <2>1 DEF Next, Terminated
  <1> QED
    BY <1>1, Invariance, PTL DEF Spec, SettledClocksAdvance

(***************************************************************************)
(* isConcurrent is exact in every program whose threads are joined by      *)
(* their creators: the test in ft_join, which is an access of its own,     *)
(* never finds a zero, since the thread joined is still counted.           *)
(***************************************************************************)
Born     == {t \in Threads : life[t] # "unborn" /\ t # Main}
Creating == {t \in Threads : pc[t] = "create"}
Joined   == {t \in Threads : life[t] = "joined"}
Leaving  == {t \in Threads : pc[t] \in {"join", "drop"}}

\* A thread in a create callback has created one of its own, which nobody
\* else's callback is about and nobody has joined.
Creations ==
  /\ life[Main] = "running"
  /\ \A t \in Creating :
       /\ call[t] = [do |-> "create", on |-> call[t].on]
       /\ call[t].on \in Born \ Joined
       /\ \E i \in DOMAIN Program[t] : call[t] \in Program[t][i]
  /\ \A t, v \in Creating : call[t].on = call[v].on => t = v

CountInv == LiveCount /\ Creations

-----------------------------------------------------------------------------
\* LiveCount in terms of the four sets, all of them finite.
LEMMA Counted ==
  ASSUME IsFiniteSet(Threads)
  PROVE  /\ LiveCount <=> isConcurrent = Cardinality(Born) - Cardinality(Creating)
                                         - Cardinality(Joined) + Cardinality(Leaving)
         /\ IsFiniteSet(Born) /\ IsFiniteSet(Creating)
         /\ IsFiniteSet(Joined) /\ IsFiniteSet(Leaving)
         /\ Cardinality(Born) \in Nat /\ Cardinality(Creating) \in Nat
         /\ Cardinality(Joined) \in Nat /\ Cardinality(Leaving) \in Nat
<1>1. /\ IsFiniteSet(Born) /\ IsFiniteSet(Creating)
      /\ IsFiniteSet(Joined) /\ IsFiniteSet(Leaving)
  BY FS_Subset DEF Born, Creating, Joined, Leaving
<1> QED
  BY <1>1, FS_CardinalityType DEF LiveCount, Born, Creating, Joined, Leaving

\* The same in the next state.
LEMMA CountedNext ==
  ASSUME IsFiniteSet(Threads)
  PROVE  LiveCount' <=> isConcurrent' = Cardinality(Born') - Cardinality(Creating')
                                        - Cardinality(Joined') + Cardinality(Leaving')
BY DEF LiveCount, Born, Creating, Joined, Leaving

\* In a join callback that has not counted its thread out, the counter is not
\* zero: those being created are all alive, and the one joined is counted.
LEMMA NotZero ==
  ASSUME IsFiniteSet(Threads), CountInv, NEW t \in Leaving
  PROVE  isConcurrent >= 1
<1>1. Joined \subseteq Born
  BY DEF CountInv, Creations, Joined, Born
<1>2. /\ IsFiniteSet(Born \ Joined)
      /\ Cardinality(Born \ Joined) = Cardinality(Born) - Cardinality(Joined)
  <2>1. Born \cap Joined = Joined
    BY <1>1
  <2>2. IsFiniteSet(Born)
    BY Counted
  <2>3. /\ IsFiniteSet(Born \ Joined)
        /\ Cardinality(Born \ Joined) = Cardinality(Born) - Cardinality(Born \cap Joined)
    BY <2>2, FS_Difference
  <2> QED
    BY <2>1, <2>3
<1>3. Cardinality(Creating) <= Cardinality(Born \ Joined)
  <2> DEFINE f == [v \in Creating |-> call[v].on]
  <2>1. f \in Injection(Creating, Born \ Joined)
    BY DEF CountInv, Creations, Injection, IsInjective
  <2> HIDE DEF f
  <2> QED
    BY <1>2, <2>1, FS_Injection
<1>4. Cardinality(Leaving) >= 1
  BY Counted, FS_EmptySet
<1> QED
  BY <1>2, <1>3, <1>4, Counted DEF CountInv

-----------------------------------------------------------------------------
(* The steps.                                                              *)

\* A step of one thread that keeps out of the calls that count.
LEMMA Elsewhere ==
  ASSUME IsFiniteSet(Threads), CountInv, NEW t \in Threads,
         t \notin Creating \cup Leaving,
         \A v \in Threads \ {t} : pc'[v] = pc[v] /\ call'[v] = call[v],
         pc'[t] \notin {"create", "join", "drop"},
         UNCHANGED <<life, isConcurrent>>
  PROVE  CountInv'
<1>1. Born' = Born /\ Creating' = Creating /\ Joined' = Joined /\ Leaving' = Leaving
  BY DEF Born, Creating, Joined, Leaving
<1>2. LiveCount'
  BY <1>1, Counted, CountedNext DEF CountInv
<1>3. \A v \in Creating : v # t /\ v \in Threads /\ call'[v] = call[v]
  BY DEF Creating
<1> QED
  BY <1>1, <1>2, <1>3 DEF CountInv, Creations

\* pthread_create: one more thread lives, and one more create callback runs.
LEMMA CreateCounts ==
  ASSUME IsFiniteSet(Threads), TypeOK, CountInv, NEW t \in Threads, NEW u \in Threads,
         PthreadCreate(t, u)
  PROVE  CountInv'
<1> DEFINE op == [do |-> "create", on |-> u]
<1>1. /\ pc[t] = "run" /\ pc' = [pc EXCEPT ![t] = "create"]
      /\ call' = [call EXCEPT ![t] = op]
      /\ life[u] = "unborn" /\ life' = [life EXCEPT ![u] = "running"]
      /\ step[t] \in DOMAIN Program[t] /\ op \in Program[t][step[t]]
      /\ isConcurrent' = isConcurrent
  <2>1. step[t] \in Nat \ {0} /\ step[t] <= Len(Program[t]) => step[t] \in DOMAIN Program[t]
    BY ProgramAssumption
  <2> QED
    BY <2>1 DEF TypeOK, PthreadCreate, Performs, Enter
<1>2. pc' \in [Threads -> {"run", "waiting"} \cup CallbackPoints] /\ u # Main
      /\ call'[t] = op /\ \A v \in Threads \ {t} : call'[v] = call[v]
  BY <1>1 DEF TypeOK, CountInv, Creations, CallbackPoints
<1>3. /\ Born' = Born \cup {u} /\ u \notin Born
      /\ Creating' = Creating \cup {t} /\ t \notin Creating
      /\ Joined' = Joined /\ u \notin Joined /\ Leaving' = Leaving
  BY <1>1, <1>2 DEF TypeOK, Born, Creating, Joined, Leaving
<1>4. LiveCount'
  <2>1. /\ Cardinality(Born') = Cardinality(Born) + 1
        /\ Cardinality(Creating') = Cardinality(Creating) + 1
    BY <1>3, Counted, FS_AddElement
  <2> QED
    BY <1>1, <1>3, <2>1, Counted, CountedNext DEF CountInv
<1>5. Creations'
  <2>1. life'[Main] = "running"
    BY <1>1 DEF CountInv, Creations, TypeOK
  <2>2. \A v \in Creating : v # t /\ call'[v] = call[v] /\ call[v].on # u
    BY <1>2, <1>3 DEF CountInv, Creations, Creating
  <2>3. \A v \in Creating' : /\ call'[v] = [do |-> "create", on |-> call'[v].on]
                             /\ call'[v].on \in Born' \ Joined'
                             /\ \E i \in DOMAIN Program[v] : call'[v] \in Program[v][i]
    BY <1>1, <1>2, <1>3, <2>2 DEF CountInv, Creations
  <2>4. \A v, w \in Creating' : call'[v].on = call'[w].on => v = w
    BY <1>2, <1>3, <2>2 DEF CountInv, Creations
  <2> QED
    BY <2>1, <2>3, <2>4 DEF Creations
<1> QED
  BY <1>4, <1>5 DEF CountInv

\* pthread_join: nobody but its creator, whose create callback is over, joins
\* a thread.
LEMMA JoinCounts ==
  ASSUME IsFiniteSet(Threads), CreatorsJoin, TypeOK, CountInv,
         NEW t \in Threads, NEW u \in Threads, PthreadJoin(t, u)
  PROVE  CountInv'
<1> DEFINE op == [do |-> "join", on |-> u]
<1>1. /\ pc[t] = "run" /\ pc' = [pc EXCEPT ![t] = "join"]
      /\ call' = [call EXCEPT ![t] = op]
      /\ life[u] = "running" /\ life' = [life EXCEPT ![u] = "joined"]
      /\ step[t] \in DOMAIN Program[t] /\ op \in Program[t][step[t]]
      /\ isConcurrent' = isConcurrent
  <2>1. step[t] \in Nat \ {0} /\ step[t] <= Len(Program[t]) => step[t] \in DOMAIN Program[t]
    BY ProgramAssumption
  <2> QED
    BY <2>1 DEF TypeOK, PthreadJoin, Performs, Finished, Enter
<1>2. u # Main /\ \A v \in Threads : \A i \in DOMAIN Program[v] :
                    [do |-> "create", on |-> u] \in Program[v][i] => v = t
  <2>1. op \in {o \in Program[t][step[t]] : o.do = "join"} /\ op.on = u
    BY <1>1
  <2> HIDE DEF op
  <2> QED
    BY <1>1, <2>1 DEF CreatorsJoin
<1>3. /\ Born' = Born /\ Creating' = Creating
      /\ Joined' = Joined \cup {u} /\ u \notin Joined
      /\ Leaving' = Leaving \cup {t} /\ t \notin Leaving
  BY <1>1 DEF TypeOK, Born, Creating, Joined, Leaving, CallbackPoints
<1>4. LiveCount'
  <2>1. /\ Cardinality(Joined') = Cardinality(Joined) + 1
        /\ Cardinality(Leaving') = Cardinality(Leaving) + 1
    BY <1>3, Counted, FS_AddElement
  <2> QED
    BY <1>1, <1>3, <2>1, Counted, CountedNext DEF CountInv
<1>5. Creations'
  <2>1. life'[Main] = "running"
    BY <1>1, <1>2 DEF CountInv, Creations, TypeOK
  <2>2. \A v \in Creating : v \in Threads /\ v # t /\ call'[v] = call[v]
    BY <1>1 DEF Creating, TypeOK
  <2>3. \A v \in Creating : call[v].on # u
    BY <1>2, <2>2 DEF CountInv, Creations
  <2> QED
    BY <1>3, <2>1, <2>2, <2>3 DEF CountInv, Creations
<1> QED
  BY <1>4, <1>5 DEF CountInv

\* ft_fork counts the thread whose create callback this is.
LEMMA ForkCounts ==
  ASSUME IsFiniteSet(Threads), TypeOK, CountInv, NEW t \in Threads, ft_fork_count(t)
  PROVE  CountInv'
<1>1. /\ pc[t] = "create" /\ pc' = [pc EXCEPT ![t] = "fork"]
      /\ isConcurrent' = isConcurrent + 1 /\ UNCHANGED <<call, life>>
  BY DEF ft_fork_count, Goto, program
<1>2. /\ Born' = Born /\ Joined' = Joined /\ Leaving' = Leaving
      /\ Creating' = Creating \ {t} /\ t \in Creating
  BY <1>1 DEF TypeOK, Born, Creating, Joined, Leaving
<1>3. Cardinality(Creating') = Cardinality(Creating) - 1
  BY <1>2, Counted, FS_RemoveElement
<1>4. LiveCount'
  BY <1>1, <1>2, <1>3, Counted, CountedNext DEF CountInv
<1>5. Creations'
  BY <1>1, <1>2 DEF CountInv, Creations
<1> QED
  BY <1>4, <1>5 DEF CountInv

\* The test in ft_join finds the counter above zero.
LEMMA TestCounts ==
  ASSUME IsFiniteSet(Threads), TypeOK, CountInv, NEW t \in Threads, ft_join_test(t)
  PROVE  CountInv'
<1>1. t \in Leaving
  BY DEF ft_join_test, Leaving
<1>2. isConcurrent # 0
  BY <1>1, NotZero DEF TypeOK
<1>3. /\ pc[t] = "join" /\ pc' = [pc EXCEPT ![t] = "drop"]
      /\ UNCHANGED <<call, life, isConcurrent>>
  BY <1>2 DEF ft_join_test, Goto, program
<1>4. Born' = Born /\ Joined' = Joined /\ Leaving' = Leaving /\ Creating' = Creating
  BY <1>3 DEF TypeOK, Born, Creating, Joined, Leaving
<1>5. LiveCount'
  BY <1>3, <1>4, Counted, CountedNext DEF CountInv
<1> QED
  BY <1>3, <1>4, <1>5 DEF CountInv, Creations

\* The decrement is of the thread joined.
LEMMA DropCounts ==
  ASSUME IsFiniteSet(Threads), TypeOK, CountInv, NEW t \in Threads, ft_join_drop(t)
  PROVE  CountInv'
<1>1. /\ pc[t] = "drop" /\ pc' = [pc EXCEPT ![t] = "joined"]
      /\ isConcurrent' = isConcurrent - 1 /\ UNCHANGED <<call, life>>
  BY DEF ft_join_drop, Goto, program
<1>2. /\ Born' = Born /\ Joined' = Joined /\ Creating' = Creating
      /\ Leaving' = Leaving \ {t} /\ t \in Leaving
  BY <1>1 DEF TypeOK, Born, Creating, Joined, Leaving
<1>3. Cardinality(Leaving') = Cardinality(Leaving) - 1
  BY <1>2, Counted, FS_RemoveElement
<1>4. LiveCount'
  BY <1>1, <1>2, <1>3, Counted, CountedNext DEF CountInv
<1> QED
  BY <1>1, <1>2, <1>4 DEF CountInv, Creations

\* Every other action keeps out of the calls that count.
LEMMA OthersCount ==
  ASSUME IsFiniteSet(Threads), TypeOK, CountInv, NEW t \in Threads,
         \/ ft_fork(t) \/ ft_join(t) \/ ft_acquire(t) \/ ft_acquire_adopt(t)
         \/ ft_release(t) \/ ft_release_tick(t)
         \/ \E m \in Locks : PthreadMutexLock(t, m) \/ PthreadMutexUnlock(t, m) \/ Untracked(t, m)
         \/ \E x \in Vars : \/ \E do \in Accesses : Access(t, x, do)
                            \/ ft_read(t, x) \/ ft_write(t, x)
  PROVE  CountInv'
<1>1. /\ pc[t] \notin {"create", "join", "drop"}
      /\ \E point \in {"run", "waiting", "acquire", "adopt", "release", "tick", "access"} :
           pc' = [pc EXCEPT ![t] = point]
      /\ \E op : call' = [call EXCEPT ![t] = op]
      /\ UNCHANGED <<life, isConcurrent>>
  <2>1. call' = call => call' = [call EXCEPT ![t] = call[t]]
    BY DEF TypeOK
  <2>2. CASE ft_fork(t) \/ ft_join(t)
    BY <2>2 DEF ft_fork, ft_join, Return
  <2>3. CASE ft_acquire(t) \/ ft_release(t)
    BY <2>1, <2>3 DEF ft_acquire, ft_release, Goto, program
  <2>4. CASE ft_acquire_adopt(t) \/ ft_release_tick(t)
    BY <2>4 DEF ft_acquire_adopt, ft_release_tick, Return
  <2>5. CASE \E m \in Locks : PthreadMutexLock(t, m) \/ PthreadMutexUnlock(t, m)
    BY <2>5 DEF PthreadMutexLock, PthreadMutexUnlock, Performs, Enter
  <2>6. CASE \E m \in Locks : Untracked(t, m)
    BY <2>6 DEF Untracked, Performs, Enter, Return
  <2>7. CASE \E x \in Vars : \E do \in Accesses : Access(t, x, do)
    BY <2>7 DEF Access, Performs, Enter, Return
  <2>8. CASE \E x \in Vars : ft_read(t, x) \/ ft_write(t, x)
    BY <2>8 DEF ft_read, ft_write, InAccess, Return
  <2> QED
    BY <2>2, <2>3, <2>4, <2>5, <2>6, <2>7, <2>8
<1>2. /\ \A v \in Threads \ {t} : pc'[v] = pc[v] /\ call'[v] = call[v]
      /\ pc'[t] \notin {"create", "join", "drop"}
  BY <1>1 DEF TypeOK
<1>3. t \notin Creating \cup Leaving
  BY <1>1 DEF Creating, Leaving
<1> QED
  BY <1>1, <1>2, <1>3, Elsewhere

\* A lookup, or no step at all, changes nothing that counts.
LEMMA LookupsCount ==
  ASSUME IsFiniteSet(Threads), CountInv, UNCHANGED <<pc, call, life, isConcurrent>>
  PROVE  CountInv'
<1>1. Born' = Born /\ Creating' = Creating /\ Joined' = Joined /\ Leaving' = Leaving
  BY DEF Born, Creating, Joined, Leaving
<1> QED
  BY <1>1, Counted, CountedNext DEF CountInv, Creations

\* No step makes the counter wrong.
LEMMA CountStep ==
  ASSUME IsFiniteSet(Threads), CreatorsJoin, TypeOK, CountInv, [Next]_vars
  PROVE  CountInv'
<1>1. CASE UNCHANGED vars
  BY <1>1, LookupsCount DEF vars
<1>2. ASSUME NEW t \in Threads, ThreadStep(t)
      PROVE  CountInv'
  <2>1. CASE \E u \in Threads : PthreadCreate(t, u) \/ PthreadJoin(t, u)
    BY <2>1, CreateCounts, JoinCounts
  <2>2. CASE ft_fork_count(t) \/ ft_join_test(t) \/ ft_join_drop(t)
    BY <2>2, ForkCounts, TestCounts, DropCounts
  <2>3. CASE \/ \E m \in Locks : getLockState(t, m)
             \/ \E x \in Vars : getVarState(t, x)
             \/ \E h \in Handles : getState(t, h)
    <3>1. UNCHANGED <<pc, call, life, isConcurrent>>
      BY <2>3 DEF getLockState, getVarState, getState, program, control
    <3> QED
      BY <3>1, LookupsCount
  <2> QED
    BY <1>2, <2>1, <2>2, <2>3, OthersCount DEF ThreadStep
<1> QED
  BY <1>1, <1>2 DEF Next, Terminated

\* isConcurrent counts exactly the threads created and not yet joined, but for
\* those whose callback has not come to it, whatever tests and decrements of
\* ft_join interleave, in programs whose threads are joined by their creators.
THEOREM CountsLive ==
  ASSUME IsFiniteSet(Threads), CreatorsJoin
  PROVE  Spec => []LiveCount
<1>1. Init => CountInv
  <2> SUFFICES ASSUME Init PROVE CountInv
    OBVIOUS
  <2>1. /\ Born = {} /\ Creating = {} /\ Joined = {} /\ Leaving = {}
        /\ life[Main] = "running" /\ isConcurrent = 0
    BY ProgramAssumption DEF Init, Born, Creating, Joined, Leaving
  <2>2. LiveCount
    BY <2>1, Counted, FS_EmptySet
  <2> QED
    BY <2>1, <2>2 DEF CountInv, Creations
<1>2. TypeOK /\ CountInv /\ [Next]_vars => CountInv'
  BY CountStep
<1>3. CountInv => LiveCount
  BY DEF CountInv
<1> QED
  BY <1>1, <1>2, <1>3, TypeCorrect, PTL DEF Spec
=============================================================================
