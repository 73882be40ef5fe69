----------------------------- MODULE LibAtomic -----------------------------
(***************************************************************************)
(* The __atomic_* functions for compilers without them                     *)
(* (etsan/libs/libatomic.c).  A call on an object whose size the target    *)
(* handles atomically is one step; any other takes a spin lock, chosen by  *)
(* hashing the object's address into a small table, and copies the object  *)
(* word by word.                                                           *)
(*                                                                         *)
(* A value is a function from the indices of an object's words to words.   *)
(* Objects do not overlap.  Memory is sequentially consistent: the fences  *)
(* the memory models ask for are left out, and the acquire and release     *)
(* orders of the lock itself are taken for granted.                        *)
(***************************************************************************)
EXTENDS Naturals

CONSTANTS
  Threads,
  Objects,
  Flags,               \* flag_table
  FlagFor,             \* FlagFor[o]: the flag o's address is hashed to
  LockFree,            \* the objects of an always-lock-free size
  Size,                \* Size[o]: the number of o's words
  Word,
  Ops,
  InitialValue,
  Fetched(_, _, _),
  None

Value(o) == [1 .. Size[o] -> Word]

OpOn(o) ==
  [do : {"load"}, on : {o}]
  \cup [do : {"store", "exchange"}, on : {o}, val : Value(o)]
  \cup [do : {"compare_exchange"}, on : {o}, expect : Value(o), val : Value(o)]
  \cup [do : {"fetch"}, on : {o}, fetch : {"add", "sub", "and", "or", "xor", "nand"},
        val : Value(o)]

ASSUME ObjectsAssumption ==
  /\ Size \in [Objects -> Nat \ {0}]
  /\ FlagFor \in [Objects -> Flags]
  /\ LockFree \subseteq Objects
  /\ \A o \in Objects : InitialValue[o] \in Value(o)
  /\ InitialValue \in [Objects -> UNION {Value(o) : o \in Objects}]
  /\ Ops \subseteq UNION {OpOn(o) : o \in Objects}
  /\ \A o \in Ops : o.do = "fetch" =>
       \A old \in Value(o.on) : Fetched(o.fetch, old, o.val) \in Value(o.on)
  /\ None \notin Ops /\ \A o \in Objects : None \notin Value(o)

VARIABLES
  mem,       \* mem[o][i]: the words of the objects
  flag,      \* flag_table
  pc,
  op,        \* op[t]: the call t is in
  i,         \* i[t]: the word t's copying is at
  ret,       \* ret[t]: what t has read of the object
  new        \* new[t]: what t writes to the object

vars == <<mem, flag, pc, op, i, ret, new>>

\* What ret and new can hold.
Buffer == {None} \cup UNION {Value(o) : o \in Objects}

TypeOK ==
  /\ mem \in [Objects -> Buffer] /\ \A o \in Objects : mem[o] \in Value(o)
  /\ flag \in [Flags -> BOOLEAN]
  /\ pc \in [Threads -> {"idle", "start", "read", "decide", "write", "expect", "free", "return"}]
  /\ op \in [Threads -> Ops \cup {None}]
  /\ i \in [Threads -> Nat \ {0}]
  /\ \A t \in Threads : /\ (pc[t] = "idle") <=> (op[t] = None)
                        /\ pc[t] \in {"read", "write", "expect"} => i[t] <= Size[op[t].on]
  /\ ret \in [Threads -> Buffer] /\ new \in [Threads -> Buffer]

Init ==
  /\ mem = InitialValue
  /\ flag = [f \in Flags |-> FALSE]
  /\ pc = [t \in Threads |-> "idle"]
  /\ op = [t \in Threads |-> None]
  /\ i = [t \in Threads |-> 1]
  /\ ret = [t \in Threads |-> None]
  /\ new = [t \in Threads |-> None]

Goto(t, label) == pc' = [pc EXCEPT ![t] = label]

Object(t) == op[t].on

Call(t) ==
  /\ pc[t] = "idle"
  /\ \E o \in Ops : op' = [op EXCEPT ![t] = o]
  /\ Goto(t, "start")
  /\ UNCHANGED <<mem, flag, i, ret, new>>

\* What the instruction or the locked code leaves of an object that held old.
Written(o, old) ==
  CASE o.do \in {"store", "exchange"} -> o.val
    [] o.do = "fetch" -> Fetched(o.fetch, old, o.val)
    [] o.do = "compare_exchange" /\ old = o.expect -> o.val
    [] OTHER -> old

\* __atomic_always_lock_free: the target's own instruction.
LockFreeOp(t) ==
  LET o == Object(t)
  IN  /\ pc[t] = "start" /\ o \in LockFree
      /\ mem' = [mem EXCEPT ![o] = Written(op[t], @)]
      /\ ret' = [ret EXCEPT ![t] = IF op[t].do = "store" THEN None ELSE mem[o]]
      /\ Goto(t, "return")
      /\ UNCHANGED <<flag, op, i, new>>

\* Where a call goes with the lock in its hands: a store reads nothing; the
\* buffer of any other holds nothing of the object yet.
Locked(t) ==
  IF op[t].do = "store"
  THEN Goto(t, "write") /\ new' = [new EXCEPT ![t] = op[t].val] /\ UNCHANGED ret
  ELSE Goto(t, "read") /\ ret' = [ret EXCEPT ![t] = InitialValue[Object(t)]] /\ UNCHANGED new

\* Wrong on purpose, to show that OneInside notices: a load does not wait for
\* the lock.
get_lock_unless_load(t) ==
  /\ pc[t] = "start" /\ Object(t) \notin LockFree
  /\ flag[FlagFor[Object(t)]] => op[t].do = "load"
  /\ flag' = [flag EXCEPT ![FlagFor[Object(t)]] = TRUE]
  /\ i' = [i EXCEPT ![t] = 1]
  /\ Locked(t)
  /\ UNCHANGED <<mem, op>>

\* while (__atomic_test_and_set (lock_ptr) == 1) ;  the turn that ends it.
get_lock(t) ==
  /\ pc[t] = "start" /\ Object(t) \notin LockFree
  /\ ~flag[FlagFor[Object(t)]]
  /\ flag' = [flag EXCEPT ![FlagFor[Object(t)]] = TRUE]
  /\ i' = [i EXCEPT ![t] = 1]
  /\ Locked(t)
  /\ UNCHANGED <<mem, op>>

\* Wrong on purpose, to show that TypeOK notices: one word too many.
AdvancePast(t, next) ==
  IF i[t] <= Size[Object(t)]
  THEN i' = [i EXCEPT ![t] = @ + 1] /\ UNCHANGED pc
  ELSE i' = [i EXCEPT ![t] = 1] /\ Goto(t, next)

\* i passes over the words, then the call goes on with next.
Advance(t, next) ==
  IF i[t] < Size[Object(t)]
  THEN i' = [i EXCEPT ![t] = @ + 1] /\ UNCHANGED pc
  ELSE i' = [i EXCEPT ![t] = 1] /\ Goto(t, next)

\* memcpy (ret, mem, size); the assignment and the comparison with expect
\* read the object the same way.
ReadWord(t) ==
  /\ pc[t] = "read"
  /\ ret' = [ret EXCEPT ![t][i[t]] = mem[Object(t)][i[t]]]
  /\ Advance(t, "decide")
  /\ UNCHANGED <<mem, flag, op, new>>

\* memcpy (expect, mem, size): a failed comparison reads the object again.
CopyToExpect(t) ==
  /\ pc[t] = "expect"
  /\ ret' = [ret EXCEPT ![t][i[t]] = mem[Object(t)][i[t]]]
  /\ Advance(t, "free")
  /\ UNCHANGED <<mem, flag, op, new>>

\* Wrong on purpose, to show that IsAtomic notices: memcmp with the size of a
\* word.
DecideByFirstWord(t) ==
  LET o == op[t]
  IN  /\ pc[t] = "decide"
      /\ \/ o.do = "load" /\ Goto(t, "free") /\ UNCHANGED new
         \/ /\ o.do = "compare_exchange" /\ ret[t][1] # o.expect[1]
            /\ Goto(t, "expect") /\ UNCHANGED new
         \/ /\ o.do = "compare_exchange" /\ ret[t][1] = o.expect[1]
            /\ Goto(t, "write") /\ new' = [new EXCEPT ![t] = o.val]
         \/ /\ o.do \in {"exchange", "fetch"}
            /\ Goto(t, "write") /\ new' = [new EXCEPT ![t] = Written(o, ret[t])]
      /\ UNCHANGED <<mem, flag, op, i, ret>>

\* With the object read: a load is over, a comparison may fail.
Decide(t) ==
  LET o == op[t]
  IN  /\ pc[t] = "decide"
      /\ \/ o.do = "load" /\ Goto(t, "free") /\ UNCHANGED new
         \/ /\ o.do = "compare_exchange" /\ ret[t] # o.expect
            /\ Goto(t, "expect") /\ UNCHANGED new
         \/ /\ o.do \in {"exchange", "fetch"} \/ (o.do = "compare_exchange" /\ ret[t] = o.expect)
            /\ Goto(t, "write") /\ new' = [new EXCEPT ![t] = Written(o, ret[t])]
      /\ UNCHANGED <<mem, flag, op, i, ret>>

\* memcpy (mem, val, size)
WriteWord(t) ==
  /\ pc[t] = "write"
  /\ mem' = [mem EXCEPT ![Object(t)][i[t]] = new[t][i[t]]]
  /\ Advance(t, "free")
  /\ UNCHANGED <<flag, op, ret, new>>

\* Wrong on purpose, to show that LocksAreFreed notices: the free_lock before
\* "return false" forgotten.
free_lock_on_success(t) ==
  /\ pc[t] = "free"
  /\ flag' = [flag EXCEPT ![FlagFor[Object(t)]] =
                 op[t].do = "compare_exchange" /\ ret[t] # op[t].expect]
  /\ new' = [new EXCEPT ![t] = None]
  /\ Goto(t, "return")
  /\ UNCHANGED <<mem, op, i, ret>>

free_lock(t) ==
  /\ pc[t] = "free"
  /\ flag' = [flag EXCEPT ![FlagFor[Object(t)]] = FALSE]
  /\ new' = [new EXCEPT ![t] = None]
  /\ Goto(t, "return")
  /\ UNCHANGED <<mem, op, i, ret>>

Return(t) ==
  /\ pc[t] = "return"
  /\ op' = [op EXCEPT ![t] = None]
  /\ ret' = [ret EXCEPT ![t] = None]
  /\ Goto(t, "idle")
  /\ UNCHANGED <<mem, flag, i, new>>

\* The steps of a call that has begun.
CallStep(t) ==
  \/ LockFreeOp(t)
  \/ get_lock(t)
  \/ ReadWord(t)
  \/ Decide(t)
  \/ WriteWord(t)
  \/ CopyToExpect(t)
  \/ free_lock(t)
  \/ Return(t)

Next == \E t \in Threads : Call(t) \/ CallStep(t)

\* Threads in a call are run; whether they ever call again is theirs.
Spec == Init /\ [][Next]_vars /\ \A t \in Threads : WF_vars(CallStep(t))

-----------------------------------------------------------------------------
Inside(t) == pc[t] \in {"read", "decide", "write", "expect", "free"}

\* The lock table keeps the word-by-word copies apart: a flag is up exactly
\* while one thread copies an object hashed to it.
OneInside ==
  \A f \in Flags :
    LET holders == {t \in Threads : Inside(t) /\ FlagFor[Object(t)] = f}
    IN  /\ flag[f] <=> holders # {}
        /\ \A t, u \in holders : t = u

\* A lock is always given up: whoever spins sees it free again and again.
\* (A test-and-set lock does not promise any one thread more than that.)
LocksAreFreed == \A f \in Flags : flag[f] ~> ~flag[f]

-----------------------------------------------------------------------------
(* The calls are atomic: the point at which a locked call takes effect is  *)
(* its last look at what it read, before the first word is written.        *)

Writers(o) == {t \in Threads : pc[t] = "write" /\ Object(t) = o}

AbstractMem == [o \in Objects |->
  IF Writers(o) = {} THEN mem[o] ELSE new[CHOOSE t \in Writers(o) : TRUE]]

AbstractPhase == [t \in Threads |->
  CASE pc[t] = "idle" -> "idle"
    [] pc[t] \in {"start", "read", "decide"} -> "called"
    [] OTHER -> "done"]

AbstractResult == [t \in Threads |-> IF AbstractPhase[t] = "done" THEN ret[t] ELSE None]

Atomic == INSTANCE AtomicMemory WITH
            mem <- AbstractMem, phase <- AbstractPhase, result <- AbstractResult

\* libatomic.c implements AtomicMemory: no call sees half of another one's
\* words, and none comes between another's reading and writing.
IsAtomic == Atomic!Spec
=============================================================================
