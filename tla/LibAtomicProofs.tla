-------------------------- MODULE LibAtomicProofs --------------------------
(***************************************************************************)
(* Theorems about LibAtomic: the lock table keeps word-by-word copies of   *)
(* one object apart, and every call takes effect in one step, for any      *)
(* objects, sizes, threads and placement of the objects in the table.      *)
(***************************************************************************)
EXTENDS LibAtomic, TLAPS

\* What ret and new hold at each point of a call.
Buffers ==
  \A t \in Threads :
    /\ pc[t] \in {"idle", "start"} => ret[t] = None
    /\ pc[t] \in {"read", "decide", "expect"} => ret[t] \in Value(Object(t))
    /\ pc[t] = "write" => new[t] \in Value(Object(t))
    /\ pc[t] \in {"decide", "free"} => i[t] = 1
    /\ Inside(t) => Object(t) \notin LockFree

\* OneInside without its sets.
Exclusive ==
  /\ \A t, u \in Threads :
       Inside(t) /\ Inside(u) /\ FlagFor[Object(t)] = FlagFor[Object(u)] => t = u
  /\ \A t \in Threads : Inside(t) => flag[FlagFor[Object(t)]]
  /\ \A f \in Flags : flag[f] => \E t \in Threads : Inside(t) /\ FlagFor[Object(t)] = f

\* The words a thread has passed over: while it is inside, the object does not
\* change but by its own writes.
Copied ==
  \A t \in Threads :
    /\ pc[t] = "read" => \A k \in 1 .. i[t] - 1 : ret[t][k] = mem[Object(t)][k]
    /\ pc[t] \in {"decide", "expect"} => ret[t] = mem[Object(t)]
    /\ pc[t] = "write" => \A k \in 1 .. i[t] - 1 : mem[Object(t)][k] = new[t][k]

IInv == TypeOK /\ Buffers /\ Exclusive /\ Copied

-----------------------------------------------------------------------------
\* What a call of Ops is made of.
LEMMA OpsTyped ==
  ASSUME NEW o \in Ops
  PROVE  /\ o # None
         /\ o.on \in Objects
         /\ o.do \in {"load", "store", "exchange", "compare_exchange", "fetch"}
         /\ o.do \in {"store", "exchange", "compare_exchange", "fetch"} => o.val \in Value(o.on)
         /\ o.do = "fetch" => \A old \in Value(o.on) : Fetched(o.fetch, old, o.val) \in Value(o.on)
         /\ Size[o.on] \in Nat \ {0} /\ FlagFor[o.on] \in Flags
         /\ InitialValue[o.on] \in Value(o.on)
<1>1. PICK b \in Objects : o \in OpOn(b)
  BY ObjectsAssumption
<1>2. o.on = b /\ o.do \in {"load", "store", "exchange", "compare_exchange", "fetch"}
      /\ (o.do \in {"store", "exchange", "compare_exchange", "fetch"} => o.val \in Value(b))
  BY <1>1 DEF OpOn
<1> QED
  BY <1>2, ObjectsAssumption

\* What a call leaves of an object is a value of it.
LEMMA WrittenTyped ==
  ASSUME NEW o \in Ops, NEW old \in Value(o.on)
  PROVE  Written(o, old) \in Value(o.on)
BY OpsTyped DEF Written

\* A buffer may be empty or hold a value of an object.
LEMMA BufferHolds ==
  /\ None \in Buffer
  /\ \A o \in Objects : Value(o) \subseteq Buffer
BY DEF Buffer

\* A thread in a call has one.
LEMMA InCall ==
  ASSUME TypeOK, NEW t \in Threads, pc[t] # "idle"
  PROVE  op[t] \in Ops
BY DEF TypeOK

\* Exclusive says what OneInside says.
LEMMA ExclusiveMeansOneInside ==
  ASSUME TypeOK, Exclusive
  PROVE  OneInside
BY InCall, OpsTyped DEF TypeOK, Exclusive, OneInside, Inside

\* Nothing has been called, and no lock is taken.
LEMMA Initially == Init => IInv
<1> SUFFICES ASSUME Init PROVE IInv
  OBVIOUS
<1> USE ObjectsAssumption, BufferHolds DEF Init
<1>1. mem \in [Objects -> Buffer]
  BY DEF Buffer
<1>2. TypeOK
  BY <1>1 DEF TypeOK
<1>3. Buffers /\ Exclusive /\ Copied
  BY DEF Buffers, Exclusive, Copied, Inside
<1> QED
  BY <1>2, <1>3 DEF IInv

-----------------------------------------------------------------------------
(* Every step keeps IInv.                                                    *)

\* A call that begins takes no lock and touches no buffer.
LEMMA CallKeeps ==
  ASSUME IInv, NEW t \in Threads, Call(t)
  PROVE  IInv'
<1> USE DEF Call, Goto
<1> PICK o \in Ops : op' = [op EXCEPT ![t] = o]
  OBVIOUS
<1>0. \A u \in Threads : Inside(u)' <=> Inside(u)
  BY DEF IInv, TypeOK, Inside
<1>1. TypeOK'
  BY BufferHolds, OpsTyped DEF IInv, TypeOK
<1>2. Buffers'
  BY <1>0 DEF IInv, TypeOK, Buffers, Inside, Object
<1>3. Exclusive'
  BY <1>0 DEF IInv, TypeOK, Exclusive, Inside, Object
<1>4. Copied'
  BY DEF IInv, TypeOK, Copied, Object
<1> QED
  BY <1>1, <1>2, <1>3, <1>4 DEF IInv

\* The instruction writes an object no locked call is at.
LEMMA LockFreeKeeps ==
  ASSUME IInv, NEW t \in Threads, LockFreeOp(t)
  PROVE  IInv'
<1> USE DEF LockFreeOp, Goto
<1>0. \A u \in Threads : Inside(u)' <=> Inside(u)
  BY DEF IInv, TypeOK, Inside
<1>a. op[t] \in Ops /\ Object(t) \in Objects /\ mem[Object(t)] \in Value(Object(t))
  BY InCall, OpsTyped DEF IInv, TypeOK, Object
<1>b. Written(op[t], mem[Object(t)]) \in Value(Object(t))
  BY <1>a, WrittenTyped DEF Object
<1>1. TypeOK'
  BY BufferHolds, <1>a, <1>b DEF IInv, TypeOK, Object
<1>2. Buffers'
  BY <1>0 DEF IInv, TypeOK, Buffers, Inside, Object
<1>3. Exclusive'
  BY <1>0 DEF IInv, TypeOK, Exclusive, Inside, Object
<1>4. Copied'
  <2>1. \A u \in Threads : Inside(u) => Object(u) # Object(t)
    BY DEF IInv, Buffers
  <2> QED
    BY <2>1 DEF IInv, TypeOK, Copied, Object, Inside
<1> QED
  BY <1>1, <1>2, <1>3, <1>4 DEF IInv

\* get_lock: the flag was down, so nobody was inside under it.
LEMMA GetLockKeeps ==
  ASSUME IInv, NEW t \in Threads, get_lock(t)
  PROVE  IInv'
<1> USE DEF get_lock, Goto, Locked
<1> DEFINE g == FlagFor[Object(t)]
<1>a. op[t] \in Ops /\ Object(t) \in Objects /\ g \in Flags
  BY InCall, OpsTyped DEF IInv, TypeOK, Object
<1>b. \A u \in Threads : Inside(u) => FlagFor[Object(u)] # g
  BY DEF IInv, Exclusive
<1>c. \A u \in Threads : Inside(u)' <=> Inside(u) \/ u = t
  BY DEF IInv, TypeOK, Inside
<1>1. TypeOK'
  BY BufferHolds, <1>a, OpsTyped DEF IInv, TypeOK, Object
<1>2. Buffers'
  BY <1>a, <1>c, OpsTyped DEF IInv, TypeOK, Buffers, Inside, Object
<1>3. Exclusive'
  BY <1>a, <1>b, <1>c DEF IInv, TypeOK, Exclusive, Object
<1>4. Copied'
  BY <1>a DEF IInv, TypeOK, Copied, Object
<1> QED
  BY <1>1, <1>2, <1>3, <1>4 DEF IInv

\* The word read is the object's, and t the only one that could change it.
LEMMA ReadWordKeeps ==
  ASSUME IInv, NEW t \in Threads, ReadWord(t)
  PROVE  IInv'
<1> DEFINE r == [ret[t] EXCEPT ![i[t]] = mem[Object(t)][i[t]]]
<1>0. /\ pc[t] = "read"
      /\ ret' = [ret EXCEPT ![t] = r]
      /\ \/ pc' = pc /\ i[t] < Size[Object(t)] /\ i' = [i EXCEPT ![t] = @ + 1]
         \/ /\ pc' = [pc EXCEPT ![t] = "decide"] /\ ~(i[t] < Size[Object(t)])
            /\ i' = [i EXCEPT ![t] = 1]
      /\ UNCHANGED <<mem, flag, op, new>>
  BY DEF ReadWord, Advance, Goto
<1>a. op[t] \in Ops /\ Object(t) \in Objects /\ mem[Object(t)] \in Value(Object(t))
      /\ ret[t] \in Value(Object(t)) /\ i[t] \in 1 .. Size[Object(t)]
      /\ Size[Object(t)] \in Nat \ {0}
  BY <1>0, InCall, OpsTyped DEF IInv, TypeOK, Object, Buffers
<1>b. r \in Value(Object(t)) /\ r[i[t]] = mem[Object(t)][i[t]]
      /\ \A k \in 1 .. i[t] - 1 : r[k] = ret[t][k]
  BY <1>a DEF Value
<1> HIDE DEF r
<1>e. ret' \in [Threads -> Buffer] /\ ret'[t] = r
  BY <1>0, <1>a, <1>b, BufferHolds DEF IInv, TypeOK
<1>c. \A u \in Threads : Inside(u)' <=> Inside(u)
  BY <1>0 DEF IInv, TypeOK, Inside
<1>d. \A k \in 1 .. i[t] : r[k] = mem[Object(t)][k]
  <2>1. \A k \in 1 .. i[t] - 1 : ret[t][k] = mem[Object(t)][k]
    BY <1>0 DEF IInv, Copied
  <2> QED
    BY <1>a, <1>b, <2>1
<1>f. i[t] = Size[Object(t)] => r = mem[Object(t)]
  BY <1>a, <1>b, <1>d DEF Value
<1>1. TypeOK'
  BY <1>0, <1>a, <1>e DEF IInv, TypeOK, Object
<1>2. Buffers'
  <2>1. \A u \in Threads \ {t} : ret'[u] = ret[u] /\ pc'[u] = pc[u] /\ i'[u] = i[u]
    BY <1>0 DEF IInv, TypeOK
  <2>2. pc'[t] \in {"read", "decide"} /\ (pc'[t] = "decide" => i'[t] = 1)
    BY <1>0 DEF IInv, TypeOK
  <2> QED
    BY <1>0, <1>b, <1>c, <1>e, <2>1, <2>2 DEF IInv, Buffers, Object, Inside
<1>3. Exclusive'
  BY <1>0, <1>c DEF IInv, TypeOK, Exclusive, Object
<1>4. Copied'
  <2>1. \A u \in Threads \ {t} : ret'[u] = ret[u] /\ pc'[u] = pc[u] /\ i'[u] = i[u]
    BY <1>0 DEF IInv, TypeOK
  <2>2. \/ pc'[t] = "read" /\ i'[t] = i[t] + 1
        \/ pc'[t] = "decide" /\ i[t] = Size[Object(t)]
    BY <1>0, <1>a DEF IInv, TypeOK
  <2>3. pc'[t] = "read" => \A k \in 1 .. i'[t] - 1 : r[k] = mem[Object(t)][k]
    BY <1>a, <1>d, <2>2
  <2> QED
    BY <1>0, <1>e, <1>f, <2>1, <2>2, <2>3 DEF IInv, Copied, Object
<1> QED
  BY <1>1, <1>2, <1>3, <1>4 DEF IInv

\* Read again, the object holds what was read of it before.
LEMMA CopyToExpectKeeps ==
  ASSUME IInv, NEW t \in Threads, CopyToExpect(t)
  PROVE  IInv' /\ ret' = ret
<1> USE DEF CopyToExpect, Goto, Advance
<1>a. op[t] \in Ops /\ Object(t) \in Objects /\ mem[Object(t)] \in Value(Object(t))
      /\ ret[t] \in Value(Object(t)) /\ i[t] \in 1 .. Size[Object(t)]
      /\ Size[Object(t)] \in Nat \ {0} /\ ret[t] = mem[Object(t)]
  BY InCall, OpsTyped DEF IInv, TypeOK, Object, Buffers, Copied
<1>b. ret' = ret
  <2>1. [ret[t] EXCEPT ![i[t]] = mem[Object(t)][i[t]]] = ret[t]
    BY <1>a DEF Value
  <2> QED
    BY <2>1 DEF IInv, TypeOK
<1>c. \A u \in Threads : Inside(u)' <=> Inside(u)
  BY DEF IInv, TypeOK, Inside
<1>1. TypeOK'
  BY BufferHolds, <1>a, <1>b DEF IInv, TypeOK, Object
<1>2. Buffers'
  BY <1>b, <1>c DEF IInv, TypeOK, Buffers, Inside, Object
<1>3. Exclusive'
  BY <1>c DEF IInv, TypeOK, Exclusive, Object
<1>4. Copied'
  BY <1>a, <1>b DEF IInv, TypeOK, Copied, Object
<1> QED
  BY <1>b, <1>1, <1>2, <1>3, <1>4 DEF IInv

\* The value to write is made of the whole value read.
LEMMA DecideKeeps ==
  ASSUME IInv, NEW t \in Threads, Decide(t)
  PROVE  IInv'
<1> USE DEF Decide, Goto
<1>a. op[t] \in Ops /\ Object(t) \in Objects /\ ret[t] \in Value(Object(t))
      /\ Size[Object(t)] \in Nat \ {0}
  BY InCall, OpsTyped DEF IInv, TypeOK, Object, Buffers
<1>b. Written(op[t], ret[t]) \in Value(Object(t))
  BY <1>a, WrittenTyped DEF Object
<1>c. \A u \in Threads : Inside(u)' <=> Inside(u)
  BY DEF IInv, TypeOK, Inside
<1>d. \/ pc' = [pc EXCEPT ![t] = "free"] /\ new' = new
      \/ pc' = [pc EXCEPT ![t] = "expect"] /\ new' = new
      \/ pc' = [pc EXCEPT ![t] = "write"] /\ new' = [new EXCEPT ![t] = Written(op[t], ret[t])]
  OBVIOUS
<1>e. pc[t] = "decide" /\ UNCHANGED <<mem, flag, op, i, ret>>
  OBVIOUS
<1>f. Copied => ret[t] = mem[Object(t)]
  BY <1>e DEF Copied
<1>g. pc[t] = "decide" => i[t] = 1
  BY DEF IInv, Buffers
<1> USE <1>e
<1> HIDE DEF Decide
<1>1. TypeOK'
  BY BufferHolds, <1>a, <1>b, <1>d, <1>g DEF IInv, TypeOK, Object
<1>2. Buffers'
  BY <1>a, <1>b, <1>c, <1>d, <1>g DEF IInv, TypeOK, Buffers, Inside, Object
<1>3. Exclusive'
  BY <1>c DEF IInv, TypeOK, Exclusive, Object
<1>4. Copied'
  BY <1>a, <1>d, <1>f, <1>g DEF IInv, TypeOK, Copied, Object
<1> QED
  BY <1>1, <1>2, <1>3, <1>4 DEF IInv

\* The object is t's alone, and holds the new value when the last word is written.
LEMMA WriteWordKeeps ==
  ASSUME IInv, NEW t \in Threads, WriteWord(t)
  PROVE  /\ IInv'
         /\ \A o \in Objects : o # Object(t) => mem'[o] = mem[o]
         /\ pc'[t] # "write" => mem'[Object(t)] = new[t]
<1> DEFINE v == [mem[Object(t)] EXCEPT ![i[t]] = new[t][i[t]]]
<1>0. /\ pc[t] = "write"
      /\ mem' = [mem EXCEPT ![Object(t)] = v]
      /\ \/ pc' = pc /\ i[t] < Size[Object(t)] /\ i' = [i EXCEPT ![t] = @ + 1]
         \/ /\ pc' = [pc EXCEPT ![t] = "free"] /\ ~(i[t] < Size[Object(t)])
            /\ i' = [i EXCEPT ![t] = 1]
      /\ UNCHANGED <<flag, op, ret, new>>
  BY DEF WriteWord, Advance, Goto
<1>a. op[t] \in Ops /\ Object(t) \in Objects /\ mem[Object(t)] \in Value(Object(t))
      /\ new[t] \in Value(Object(t)) /\ i[t] \in 1 .. Size[Object(t)]
      /\ Size[Object(t)] \in Nat \ {0}
  BY <1>0, InCall, OpsTyped DEF IInv, TypeOK, Object, Buffers
<1>b. v \in Value(Object(t)) /\ v[i[t]] = new[t][i[t]]
      /\ \A k \in 1 .. i[t] - 1 : v[k] = mem[Object(t)][k]
  BY <1>a DEF Value
<1> HIDE DEF v
<1>e. mem' \in [Objects -> Buffer] /\ mem'[Object(t)] = v
  BY <1>0, <1>a, <1>b, BufferHolds DEF IInv, TypeOK
<1>c. \A u \in Threads : Inside(u)' <=> Inside(u)
  BY <1>0 DEF IInv, TypeOK, Inside
<1>d. \A o \in Objects : o # Object(t) => mem'[o] = mem[o]
  BY <1>0 DEF IInv, TypeOK
<1>f. \A k \in 1 .. i[t] : v[k] = new[t][k]
  <2>1. \A k \in 1 .. i[t] - 1 : mem[Object(t)][k] = new[t][k]
    BY <1>0 DEF IInv, Copied
  <2> QED
    BY <1>a, <1>b, <2>1
<1>g. i[t] = Size[Object(t)] => v = new[t]
  BY <1>a, <1>b, <1>f DEF Value
<1>h. \/ pc'[t] = "write" /\ i'[t] = i[t] + 1
      \/ pc'[t] = "free" /\ i[t] = Size[Object(t)] /\ i'[t] = 1
  BY <1>0, <1>a DEF IInv, TypeOK
<1>i. \A u \in Threads \ {t} : pc'[u] = pc[u] /\ i'[u] = i[u]
  BY <1>0 DEF IInv, TypeOK
<1>1. TypeOK'
  BY <1>0, <1>a, <1>b, <1>d, <1>e DEF IInv, TypeOK, Object
<1>2. Buffers'
  BY <1>0, <1>c, <1>h, <1>i DEF IInv, Buffers, Object, Inside
<1>3. Exclusive'
  BY <1>0, <1>c DEF IInv, TypeOK, Exclusive, Object
<1>4. Copied'
  <2>1. \A u \in Threads \ {t} : Inside(u) => mem'[Object(u)] = mem[Object(u)]
    <3>1. \A u \in Threads \ {t} : Inside(u) => Object(u) # Object(t) /\ Object(u) \in Objects
      BY <1>0, InCall, OpsTyped DEF IInv, TypeOK, Exclusive, Inside, Object
    <3> QED
      BY <1>d, <3>1
  <2>2. pc'[t] = "write" => \A k \in 1 .. i'[t] - 1 : v[k] = new[t][k]
    BY <1>a, <1>f, <1>h
  <2> QED
    BY <1>0, <1>e, <1>h, <1>i, <2>1, <2>2 DEF IInv, Copied, Object, Inside
<1> QED
  BY <1>d, <1>e, <1>g, <1>h, <1>1, <1>2, <1>3, <1>4 DEF IInv

\* free_lock: t was the one inside, and nobody is after it.
LEMMA FreeLockKeeps ==
  ASSUME IInv, NEW t \in Threads, free_lock(t)
  PROVE  IInv'
<1> USE DEF free_lock, Goto
<1>a. op[t] \in Ops /\ Object(t) \in Objects /\ FlagFor[Object(t)] \in Flags /\ Inside(t)
  BY InCall, OpsTyped DEF IInv, TypeOK, Object, Inside
<1>c. \A u \in Threads : Inside(u)' <=> Inside(u) /\ u # t
  BY DEF IInv, TypeOK, Inside
<1>1. TypeOK'
  BY BufferHolds, <1>a DEF IInv, TypeOK, Object
<1>2. Buffers'
  BY <1>c DEF IInv, TypeOK, Buffers, Inside, Object
<1>3. Exclusive'
  BY <1>a, <1>c DEF IInv, TypeOK, Exclusive, Object
<1>4. Copied'
  BY DEF IInv, TypeOK, Copied, Object
<1> QED
  BY <1>1, <1>2, <1>3, <1>4 DEF IInv

\* A call that returns has given its lock up.
LEMMA ReturnKeeps ==
  ASSUME IInv, NEW t \in Threads, Return(t)
  PROVE  IInv'
<1> USE DEF Return, Goto
<1>c. \A u \in Threads : Inside(u)' <=> Inside(u)
  BY DEF IInv, TypeOK, Inside
<1>1. TypeOK'
  BY BufferHolds DEF IInv, TypeOK, Object
<1>2. Buffers'
  BY <1>c DEF IInv, TypeOK, Buffers, Inside, Object
<1>3. Exclusive'
  BY <1>c DEF IInv, TypeOK, Exclusive, Inside, Object
<1>4. Copied'
  BY DEF IInv, TypeOK, Copied, Object
<1> QED
  BY <1>1, <1>2, <1>3, <1>4 DEF IInv

\* IInv is about this state alone.
LEMMA Stutters == IInv /\ UNCHANGED vars => IInv'
BY DEF IInv, TypeOK, Buffers, Exclusive, Copied, Inside, Object, vars

\* IInv holds in every state of every program.
THEOREM Invariance == Spec => []IInv
<1>1. IInv /\ [Next]_vars => IInv'
  BY CallKeeps, LockFreeKeeps, GetLockKeeps, ReadWordKeeps, CopyToExpectKeeps, DecideKeeps,
     WriteWordKeeps, FreeLockKeeps, ReturnKeeps, Stutters DEF Next, CallStep
<1> QED
  BY Initially, <1>1, PTL DEF Spec

\* No copy runs past its object, and every value stored is one of its object.
THEOREM TypeCorrect == Spec => []TypeOK
BY Invariance, PTL DEF IInv

\* A flag of the table is up exactly while one thread copies an object hashed
\* to it (get_lock, free_lock).
THEOREM MutualExclusion == Spec => []OneInside
<1>1. IInv => OneInside
  BY ExclusiveMeansOneInside DEF IInv
<1> QED
  BY Invariance, <1>1, PTL
-----------------------------------------------------------------------------
(* Every step is one of AtomicMemory, or changes nothing of it.              *)

\* An object nobody is writing to is what its words are; one that t is writing to is
\* what t will leave of it.
LEMMA ObjectHolds ==
  ASSUME IInv, NEW o \in Objects
  PROVE  /\ Writers(o) = {} => AbstractMem[o] = mem[o]
         /\ \A t \in Writers(o) : AbstractMem[o] = new[t]
<1>1. \A t, u \in Writers(o) : t = u
  BY DEF IInv, Exclusive, Writers, Inside
<1> QED
  BY <1>1 DEF AbstractMem

\* The same of the next state.
LEMMA ObjectHoldsNext ==
  ASSUME IInv', NEW o \in Objects
  PROVE  /\ Writers(o)' = {} => AbstractMem'[o] = mem'[o]
         /\ \A t \in Writers(o)' : AbstractMem'[o] = new'[t]
<1>1. \A t, u \in Writers(o)' : t = u
  BY DEF IInv, Exclusive, Writers, Inside
<1> QED
  BY <1>1 DEF AbstractMem

\* While t is inside, nobody else writes to its object, and nobody ever writes word
\* by word to a lock-free one.
LEMMA OnlyWriter ==
  ASSUME IInv, NEW t \in Threads, Inside(t) \/ Object(t) \in LockFree
  PROVE  Writers(Object(t)) \subseteq {t}
BY DEF IInv, Exclusive, Buffers, Writers, Inside

\* What a locked call writes is what AtomicMemory says it leaves.
LEMMA WrittenIsEffect ==
  ASSUME NEW o \in Ops, NEW old
  PROVE  Written(o, old) = Atomic!Effect(o, old)
BY OpsTyped, Zenon DEF Written, Atomic!Effect

\* Phase and result of each thread, case by case.
LEMMA Mapped ==
  /\ AbstractPhase =
       [t \in Threads |-> IF pc[t] = "idle" THEN "idle"
                          ELSE IF pc[t] \in {"start", "read", "decide"} THEN "called" ELSE "done"]
  /\ AbstractResult =
       [t \in Threads |-> IF pc[t] \in {"idle", "start", "read", "decide"} THEN None ELSE ret[t]]
<1>1. \A t \in Threads :
        AbstractPhase[t] = IF pc[t] = "idle" THEN "idle"
                           ELSE IF pc[t] \in {"start", "read", "decide"} THEN "called" ELSE "done"
  BY DEF AbstractPhase
<1>2. AbstractPhase = [t \in Threads |-> AbstractPhase[t]]
  BY DEF AbstractPhase
<1> QED
  BY <1>1, <1>2 DEF AbstractResult

\* The same of the next state.
LEMMA MappedNext ==
  /\ AbstractPhase' =
       [t \in Threads |-> IF pc'[t] = "idle" THEN "idle"
                          ELSE IF pc'[t] \in {"start", "read", "decide"} THEN "called" ELSE "done"]
  /\ AbstractResult' =
       [t \in Threads |-> IF pc'[t] \in {"idle", "start", "read", "decide"} THEN None ELSE ret'[t]]
<1>1. \A t \in Threads :
        AbstractPhase'[t] = IF pc'[t] = "idle" THEN "idle"
                            ELSE IF pc'[t] \in {"start", "read", "decide"} THEN "called" ELSE "done"
  BY DEF AbstractPhase
<1>2. AbstractPhase' = [t \in Threads |-> AbstractPhase'[t]]
  BY DEF AbstractPhase
<1> QED
  BY <1>1, <1>2 DEF AbstractResult

\* An object whose words, writer and what the writer writes stay the same holds what
\* it held.
LEMMA SameObject ==
  ASSUME IInv, IInv', NEW o \in Objects,
         mem'[o] = mem[o], Writers(o)' = Writers(o),
         \A u \in Writers(o) : new'[u] = new[u]
  PROVE  AbstractMem'[o] = AbstractMem[o]
<1>1. CASE Writers(o) = {}
  BY <1>1, ObjectHolds, ObjectHoldsNext
<1>2. CASE Writers(o) # {}
  <2>1. PICK u \in Writers(o) : TRUE
    BY <1>2
  <2>2. AbstractMem[o] = new[u]
    BY <2>1, ObjectHolds
  <2>3. AbstractMem'[o] = new'[u]
    BY <2>1, ObjectHoldsNext
  <2> QED
    BY <2>1, <2>2, <2>3
<1> QED
  BY <1>1, <1>2

\* AbstractMem is known by what each object holds: a step that changes none leaves it
\* alone, and one that changes one is an EXCEPT.
LEMMA ObjectByObject ==
  /\ (\A o \in Objects : AbstractMem'[o] = AbstractMem[o]) => AbstractMem' = AbstractMem
  /\ \A b \in Objects :
       (\A o \in Objects \ {b} : AbstractMem'[o] = AbstractMem[o])
       => AbstractMem' = [AbstractMem EXCEPT ![b] = AbstractMem'[b]]
<1>1. AbstractMem = [o \in Objects |-> AbstractMem[o]]
  BY DEF AbstractMem
<1>2. AbstractMem' = [o \in Objects |-> AbstractMem'[o]]
  BY DEF AbstractMem
<1> DEFINE m == AbstractMem
           n == AbstractMem'
<1>3. m = [o \in Objects |-> m[o]] /\ n = [o \in Objects |-> n[o]]
  BY <1>1, <1>2
<1> HIDE DEF m, n
<1>4. /\ (\A o \in Objects : n[o] = m[o]) => n = m
      /\ \A b \in Objects :
           (\A o \in Objects \ {b} : n[o] = m[o]) => n = [m EXCEPT ![b] = n[b]]
  BY <1>3
<1> QED
  BY <1>4 DEF m, n

\* A step that writes no word and starts or ends no writing leaves memory alone.
LEMMA SameMem ==
  ASSUME IInv, IInv', UNCHANGED mem, \A o \in Objects : Writers(o)' = Writers(o),
         \A u \in Threads : pc[u] = "write" => new'[u] = new[u]
  PROVE  AbstractMem' = AbstractMem
<1>1. \A o \in Objects : \A u \in Writers(o) : new'[u] = new[u]
  BY DEF Writers
<1> QED
  BY <1>1, SameObject, ObjectByObject

\* A call begins.
LEMMA CallImplements ==
  ASSUME IInv, NEW t \in Threads, Call(t)
  PROVE  Atomic!Call(t)
<1>0. IInv'
  BY CallKeeps
<1> USE DEF Call, Goto
<1>1. AbstractMem' = AbstractMem
  <2>1. \A o \in Objects : Writers(o)' = Writers(o)
    BY DEF IInv, TypeOK, Writers, Object
  <2> QED
    BY <1>0, <2>1, SameMem
<1>2. AbstractResult' = AbstractResult
  BY Mapped, MappedNext DEF IInv, TypeOK
<1>3. AbstractPhase[t] = "idle" /\ AbstractPhase' = [AbstractPhase EXCEPT ![t] = "called"]
  BY Mapped, MappedNext DEF IInv, TypeOK
<1> QED
  BY <1>1, <1>2, <1>3 DEF Atomic!Call

\* A call returns.
LEMMA ReturnImplements ==
  ASSUME IInv, NEW t \in Threads, Return(t)
  PROVE  Atomic!Return(t)
<1>0. IInv'
  BY ReturnKeeps
<1> USE DEF Return, Goto
<1>1. AbstractMem' = AbstractMem
  <2>1. \A o \in Objects : Writers(o)' = Writers(o)
    BY DEF IInv, TypeOK, Writers, Object
  <2> QED
    BY <1>0, <2>1, SameMem
<1>2. AbstractResult' = [AbstractResult EXCEPT ![t] = None]
  BY Mapped, MappedNext DEF IInv, TypeOK
<1>3. AbstractPhase[t] = "done" /\ AbstractPhase' = [AbstractPhase EXCEPT ![t] = "idle"]
  BY Mapped, MappedNext DEF IInv, TypeOK
<1> QED
  BY <1>1, <1>2, <1>3 DEF Atomic!Return

\* The instruction is the step that takes effect.
LEMMA LockFreeImplements ==
  ASSUME IInv, NEW t \in Threads, LockFreeOp(t)
  PROVE  Atomic!TakeEffect(t)
<1>i. IInv'
  BY LockFreeKeeps
<1> USE DEF LockFreeOp, Goto
<1>0. op[t] \in Ops /\ Object(t) \in Objects
  BY InCall, OpsTyped DEF IInv, TypeOK, Object
<1> PICK b \in Objects : b = Object(t)
  BY <1>0
<1>1. \A o \in Objects : Writers(o)' = Writers(o)
  BY DEF IInv, TypeOK, Writers, Object
<1>2. Writers(b) = {}
  BY OnlyWriter DEF Writers
<1>3. AbstractMem[b] = mem[b]
  BY <1>0, <1>2, ObjectHolds
<1>4. AbstractMem' = [AbstractMem EXCEPT ![b] = Written(op[t], mem[b])]
  <2>0. mem'[b] = Written(op[t], mem[b]) /\ \A o \in Objects \ {b} : mem'[o] = mem[o]
    BY <1>0 DEF IInv, TypeOK
  <2>1. AbstractMem'[b] = Written(op[t], mem[b])
    BY <1>i, <1>0, <1>1, <1>2, <2>0, ObjectHoldsNext
  <2>2. \A o \in Objects \ {b} : AbstractMem'[o] = AbstractMem[o]
    BY <1>i, <1>1, <2>0, SameObject
  <2> QED
    BY <1>0, <2>1, <2>2, ObjectByObject
<1>5. AbstractResult' = [AbstractResult EXCEPT ![t] = IF op[t].do = "store" THEN None ELSE mem[b]]
  BY Mapped, MappedNext DEF IInv, TypeOK
<1>6. AbstractPhase[t] = "called" /\ AbstractPhase' = [AbstractPhase EXCEPT ![t] = "done"]
  BY Mapped, MappedNext DEF IInv, TypeOK
<1>7. Written(op[t], mem[b]) = Atomic!Effect(op[t], AbstractMem[b])
  BY <1>0, <1>3, WrittenIsEffect
<1> QED
  BY <1>3, <1>4, <1>5, <1>6, <1>7 DEF Atomic!TakeEffect, Object

\* A store takes effect when it gets the lock: the others that want the object
\* wait for it.  Any other call has nothing to show yet.
LEMMA GetLockImplements ==
  ASSUME IInv, NEW t \in Threads, get_lock(t)
  PROVE  Atomic!TakeEffect(t) \/ UNCHANGED Atomic!vars
<1>i. IInv'
  BY GetLockKeeps
<1> USE DEF get_lock, Goto
<1>0. op[t] \in Ops /\ Object(t) \in Objects
  BY InCall, OpsTyped DEF IInv, TypeOK, Object
<1> PICK b \in Objects : b = Object(t)
  BY <1>0
<1>a. Writers(b) = {}
  BY DEF IInv, Exclusive, Writers, Inside
<1>1. CASE op[t].do = "store"
  <2> USE <1>1 DEF Locked
  <2>1. Writers(b)' = {t} /\ \A o \in Objects \ {b} : Writers(o)' = Writers(o)
    BY <1>a DEF IInv, TypeOK, Writers, Object
  <2>2. AbstractMem' = [AbstractMem EXCEPT ![b] = op[t].val]
    <3>1. AbstractMem'[b] = op[t].val
      <4>1. new'[t] = op[t].val
        BY DEF IInv, TypeOK
      <4> QED
        BY <1>i, <1>0, <2>1, <4>1, ObjectHoldsNext
    <3>2. \A o \in Objects \ {b} : AbstractMem'[o] = AbstractMem[o]
      <4>1. \A o \in Objects \ {b} : \A u \in Writers(o) : new'[u] = new[u]
        BY DEF Writers, IInv, TypeOK
      <4> QED
        BY <1>i, <2>1, <4>1, SameObject
    <3> QED
      BY <1>0, <3>1, <3>2, ObjectByObject
  <2>3. AbstractResult' = [AbstractResult EXCEPT ![t] = None]
    BY Mapped, MappedNext DEF IInv, TypeOK, Buffers
  <2>4. AbstractPhase[t] = "called" /\ AbstractPhase' = [AbstractPhase EXCEPT ![t] = "done"]
    BY Mapped, MappedNext DEF IInv, TypeOK
  <2>5. Atomic!Effect(op[t], AbstractMem[b]) = op[t].val
    <3>1. Written(op[t], AbstractMem[b]) = op[t].val
      BY DEF Written
    <3> QED
      BY <1>0, <3>1, WrittenIsEffect
  <2>6. UNCHANGED op
    OBVIOUS
  <2> HIDE DEF get_lock, Goto, Locked
  <2> QED
    BY <1>1, <2>2, <2>3, <2>4, <2>5, <2>6 DEF Atomic!TakeEffect, Object
<1>2. CASE op[t].do # "store"
  <2> USE <1>2 DEF Locked
  <2>1. AbstractMem' = AbstractMem
    <3>1. \A o \in Objects : Writers(o)' = Writers(o)
      BY DEF IInv, TypeOK, Writers, Object
    <3> QED
      BY <1>i, <3>1, SameMem
  <2>2. AbstractResult' = AbstractResult /\ AbstractPhase' = AbstractPhase
    BY Mapped, MappedNext DEF IInv, TypeOK
  <2> QED
    BY <2>1, <2>2 DEF Atomic!vars
<1> QED
  BY <1>1, <1>2

\* Reading a word shows nothing.
LEMMA ReadWordImplements ==
  ASSUME IInv, NEW t \in Threads, ReadWord(t)
  PROVE  UNCHANGED Atomic!vars
<1>i. IInv'
  BY ReadWordKeeps
<1>0. /\ pc[t] = "read" /\ (pc' = pc \/ pc' = [pc EXCEPT ![t] = "decide"])
      /\ \A u \in Threads \ {t} : ret'[u] = ret[u]
      /\ UNCHANGED <<mem, new, op>>
  BY DEF ReadWord, Advance, Goto, IInv, TypeOK
<1>1. \A o \in Objects : Writers(o)' = Writers(o)
  BY <1>0 DEF IInv, TypeOK, Writers, Object
<1>2. AbstractMem' = AbstractMem
  BY <1>i, <1>0, <1>1, SameMem
<1>3. AbstractResult' = AbstractResult /\ AbstractPhase' = AbstractPhase
  BY <1>0, Mapped, MappedNext DEF IInv, TypeOK
<1> QED
  BY <1>0, <1>2, <1>3 DEF Atomic!vars

\* A call that does more than store takes effect at its last look at what it read.
LEMMA DecideImplements ==
  ASSUME IInv, NEW t \in Threads, Decide(t)
  PROVE  Atomic!TakeEffect(t)
<1>i. IInv'
  BY DecideKeeps
<1>b. Object(t) \in Objects
  BY InCall, OpsTyped DEF Decide, IInv, TypeOK, Object
<1> PICK b \in Objects : b = Object(t)
  BY <1>b
<1> DEFINE w == Written(op[t], ret[t])
<1>0. op[t] \in Ops /\ b = Object(t) /\ op[t].do # "store" /\ pc[t] = "decide"
      /\ UNCHANGED <<mem, op, ret>>
      /\ \/ /\ w = ret[t] /\ new' = new
            /\ pc' = [pc EXCEPT ![t] = "free"] \/ pc' = [pc EXCEPT ![t] = "expect"]
         \/ pc' = [pc EXCEPT ![t] = "write"] /\ new' = [new EXCEPT ![t] = w]
  BY InCall, OpsTyped DEF Decide, Goto, Written, IInv, TypeOK, Object
<1>1. Writers(b) = {}
  BY <1>0, OnlyWriter DEF Writers, Inside
<1>2. ret[t] = mem[b] /\ AbstractMem[b] = mem[b]
  BY <1>0, <1>1, ObjectHolds DEF IInv, Copied
<1>3. w = Atomic!Effect(op[t], AbstractMem[b])
  BY <1>0, <1>2, WrittenIsEffect
<1> HIDE DEF w
<1>4. AbstractMem' = [AbstractMem EXCEPT ![b] = w]
  <2>1. \A o \in Objects \ {b} : Writers(o)' = Writers(o)
    BY <1>0 DEF IInv, TypeOK, Writers, Object
  <2>2. \A o \in Objects \ {b} : \A u \in Writers(o) : new'[u] = new[u]
    BY <1>0 DEF Writers, IInv, TypeOK
  <2>3. \A o \in Objects \ {b} : AbstractMem'[o] = AbstractMem[o]
    BY <1>i, <1>0, <2>1, <2>2, SameObject
  <2>4. AbstractMem'[b] = w
    <3>1. CASE pc' = [pc EXCEPT ![t] = "write"] /\ new' = [new EXCEPT ![t] = w]
      <4>1. t \in Writers(b)' /\ new'[t] = w
        BY <1>0, <3>1 DEF IInv, TypeOK, Writers, Object
      <4> QED
        BY <1>i, <1>0, <4>1, ObjectHoldsNext
    <3>2. CASE w = ret[t] /\ pc' \in {[pc EXCEPT ![t] = "free"], [pc EXCEPT ![t] = "expect"]}
      <4>1. Writers(b)' = {}
        BY <1>0, <1>1, <3>2 DEF IInv, TypeOK, Writers, Object
      <4> QED
        BY <1>i, <1>0, <1>2, <3>2, <4>1, ObjectHoldsNext
    <3> QED
      BY <1>0, <3>1, <3>2
  <2> QED
    BY <1>0, <2>3, <2>4, ObjectByObject
<1>5. AbstractResult' = [AbstractResult EXCEPT ![t] = ret[t]]
  BY <1>0, Mapped, MappedNext DEF IInv, TypeOK
<1>6. AbstractPhase[t] = "called" /\ AbstractPhase' = [AbstractPhase EXCEPT ![t] = "done"]
  BY <1>0, Mapped, MappedNext DEF IInv, TypeOK
<1> QED
  BY <1>0, <1>2, <1>3, <1>4, <1>5, <1>6 DEF Atomic!TakeEffect, Object

\* Writing the words out changes nothing any more: the last one leaves the object
\* holding what it has held since the writing began.
LEMMA WriteWordImplements ==
  ASSUME IInv, NEW t \in Threads, WriteWord(t)
  PROVE  UNCHANGED Atomic!vars
<1>i. IInv' /\ (\A o \in Objects : o # Object(t) => mem'[o] = mem[o])
      /\ (pc'[t] # "write" => mem'[Object(t)] = new[t])
  BY WriteWordKeeps
<1>0. /\ pc[t] = "write" /\ (pc' = pc \/ pc' = [pc EXCEPT ![t] = "free"])
      /\ UNCHANGED <<op, ret, new>>
  BY DEF WriteWord, Advance, Goto
<1>1. Object(t) \in Objects
  BY <1>0, InCall, OpsTyped DEF IInv, TypeOK, Object
<1> PICK b \in Objects : b = Object(t)
  BY <1>1
<1>2. Writers(b) = {t}
  BY <1>0, OnlyWriter DEF Writers, Inside
<1>3. AbstractMem[b] = new[t]
  BY <1>1, <1>2, ObjectHolds
<1>4. AbstractMem'[b] = new[t]
  <2>1. CASE pc'[t] = "write"
    <3>1. t \in Writers(b)'
      BY <1>0, <2>1 DEF Writers, Object
    <3> QED
      BY <1>i, <1>0, <1>1, <3>1, ObjectHoldsNext
  <2>2. CASE pc'[t] # "write"
    <3>1. Writers(b)' = {}
      BY <1>0, <1>2, <2>2 DEF IInv, TypeOK, Writers, Object
    <3> QED
      BY <1>i, <1>1, <2>2, <3>1, ObjectHoldsNext
  <2> QED
    BY <2>1, <2>2
<1>5. \A o \in Objects \ {b} : AbstractMem'[o] = AbstractMem[o]
  <2>1. \A o \in Objects \ {b} : Writers(o)' = Writers(o)
    BY <1>0 DEF IInv, TypeOK, Writers, Object
  <2> QED
    BY <1>i, <1>0, <2>1, SameObject
<1>6. AbstractMem' = AbstractMem
  BY <1>3, <1>4, <1>5, ObjectByObject
<1>7. AbstractResult' = AbstractResult /\ AbstractPhase' = AbstractPhase
  BY <1>0, Mapped, MappedNext DEF IInv, TypeOK
<1> QED
  BY <1>0, <1>6, <1>7 DEF Atomic!vars

\* A failed comparison reads again what it has read.
LEMMA CopyToExpectImplements ==
  ASSUME IInv, NEW t \in Threads, CopyToExpect(t)
  PROVE  UNCHANGED Atomic!vars
<1>i. IInv' /\ ret' = ret
  BY CopyToExpectKeeps
<1>0. /\ pc[t] = "expect" /\ (pc' = pc \/ pc' = [pc EXCEPT ![t] = "free"])
      /\ UNCHANGED <<mem, new, op>>
  BY DEF CopyToExpect, Advance, Goto
<1>1. \A o \in Objects : Writers(o)' = Writers(o)
  BY <1>0 DEF IInv, TypeOK, Writers, Object
<1>2. AbstractMem' = AbstractMem
  BY <1>i, <1>0, <1>1, SameMem
<1>3. AbstractResult' = AbstractResult /\ AbstractPhase' = AbstractPhase
  BY <1>i, <1>0, Mapped, MappedNext DEF IInv, TypeOK
<1> QED
  BY <1>0, <1>2, <1>3 DEF Atomic!vars

\* Giving the lock up shows nothing.
LEMMA FreeLockImplements ==
  ASSUME IInv, NEW t \in Threads, free_lock(t)
  PROVE  UNCHANGED Atomic!vars
<1>i. IInv'
  BY FreeLockKeeps
<1>0. /\ pc[t] = "free" /\ pc' = [pc EXCEPT ![t] = "return"]
      /\ new' = [new EXCEPT ![t] = None]
      /\ UNCHANGED <<mem, op, ret>>
  BY DEF free_lock, Goto
<1>1. \A o \in Objects : Writers(o)' = Writers(o)
  BY <1>0 DEF IInv, TypeOK, Writers, Object
<1>2. AbstractMem' = AbstractMem
  <2>1. \A u \in Threads : pc[u] = "write" => new'[u] = new[u]
    BY <1>0 DEF IInv, TypeOK
  <2> QED
    BY <1>i, <1>0, <1>1, <2>1, SameMem
<1>3. AbstractResult' = AbstractResult /\ AbstractPhase' = AbstractPhase
  BY <1>0, Mapped, MappedNext DEF IInv, TypeOK
<1> QED
  BY <1>0, <1>2, <1>3 DEF Atomic!vars

\* libatomic.c implements AtomicMemory (IsAtomic): every call takes effect in one
\* step, the instruction's or the last look at what was read under the lock.
THEOREM Implements == Spec => IsAtomic
<1>1. Init => Atomic!Init
  <2> SUFFICES ASSUME Init PROVE Atomic!Init
    OBVIOUS
  <2>1. AbstractMem = InitialValue
    <3>1. \A o \in Objects : Writers(o) = {}
      BY DEF Init, Writers
    <3>2. \A o \in Objects : AbstractMem[o] = InitialValue[o]
      BY <3>1, Initially, ObjectHolds DEF Init
    <3>3. AbstractMem = [o \in Objects |-> AbstractMem[o]]
      BY DEF AbstractMem
    <3>4. InitialValue = [o \in Objects |-> InitialValue[o]]
      BY ObjectsAssumption
    <3> QED
      BY <3>2, <3>3, <3>4
  <2>2. AbstractPhase = [t \in Threads |-> "idle"] /\ AbstractResult = [t \in Threads |-> None]
    BY Mapped DEF Init
  <2> QED
    BY <2>1, <2>2 DEF Init, Atomic!Init
<1>2. IInv /\ [Next]_vars => [Atomic!Next]_Atomic!vars
  <2> SUFFICES ASSUME IInv, [Next]_vars PROVE [Atomic!Next]_Atomic!vars
    OBVIOUS
  <2>1. CASE UNCHANGED vars
    BY <2>1 DEF vars, Atomic!vars, AbstractMem, AbstractPhase, AbstractResult, Writers, Object
  <2>2. CASE Next
    <3> PICK t \in Threads : Call(t) \/ CallStep(t)
      BY <2>2 DEF Next
    <3>1. Atomic!Call(t) \/ Atomic!TakeEffect(t) \/ Atomic!Return(t) \/ UNCHANGED Atomic!vars
      BY CallImplements, LockFreeImplements, GetLockImplements, ReadWordImplements,
         DecideImplements, WriteWordImplements, CopyToExpectImplements, FreeLockImplements,
         ReturnImplements DEF CallStep
    <3> QED
      BY <3>1 DEF Atomic!Next
  <2> QED
    BY <2>1, <2>2
<1> QED
  BY Invariance, <1>1, <1>2, PTL DEF Spec, IsAtomic, Atomic!Spec
=============================================================================
