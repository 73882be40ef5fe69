-------------------------- MODULE Instrumentation --------------------------
(***************************************************************************)
(* The compiler pass (ThreadSanitizer.cpp, EmbedSanitizerExtension.h) on   *)
(* one function: which instructions get a callback of the runtime, which   *)
(* one, and where.                                                         *)
(*                                                                         *)
(* A function's blocks are laid end to end in one sequence of              *)
(* instructions; br, ret, resume and invoke end a block.  The vectors of   *)
(* the pass are sets of positions: every callback is inserted next to its  *)
(* own instruction, so that the order of a vector does not show.           *)
(***************************************************************************)
EXTENDS Integers, Sequences, FiniteSets

CONSTANTS
  Functions,         \* the functions the pass may be given
  Addresses,
  Foreign,           \* gcov and profile counters, other address spaces
  ConstantData,      \* constant globals, and what a vtable pointer points to
  Uncaptured         \* locals whose address does not escape

Sizes == {1, 2, 4, 8, 16}

Plain == [op : {"load", "store"}, on : Addresses, size : Nat \ {0}, align : Nat,
          vtable : BOOLEAN, line : Nat]

\* The read-modify-write operations the runtime has a function for; LLVM has
\* minima and maxima too.
NamedRMW == {"xchg", "add", "sub", "and", "or", "xor", "nand"}

Atomic == [op : {"atomic_load", "atomic_store", "cmpxchg"}, on : Addresses, size : Nat \ {0}]
          \cup [op : {"rmw"}, on : Addresses, size : Nat \ {0},
                does : NamedRMW \cup {"max", "min", "umax", "umin"}]
          \cup [op : {"fence"}]

\* The functions whose calls order threads, and all the others.
SyncNames == {"pthread_create", "pthread_join", "pthread_mutex_lock", "pthread_mutex_unlock"}

Call == [op : {"call", "invoke"}, fn : SyncNames \cup {"other"}, direct : BOOLEAN]

MemIntrinsic == [op : {"memset", "memcpy", "memmove"}, on : Addresses]

Terminator == [op : {"br", "ret", "resume"}]

Instruction == Plain \cup Atomic \cup Call \cup MemIntrinsic \cup Terminator

\* Every block ends with a terminator, and so does the last.  The size of an
\* access is its pointer's: the accesses of one pointer agree.
ASSUME FunctionsAssumption ==
  /\ Functions \subseteq [main : BOOLEAN, sanitize : BOOLEAN, body : Seq(Instruction)]
  /\ \A g \in Functions : LET n == Len(g.body)
       IN  n > 0 => g.body[n].op \in {"br", "ret", "resume", "invoke"}
  /\ \A g \in Functions : \A p, q \in 1 .. Len(g.body) :
       /\ g.body[p].op \in {"load", "store"}
       /\ g.body[q].op \in {"load", "store"}
       /\ g.body[p].on = g.body[q].on
       => g.body[p].size = g.body[q].size

\* What the pass inserts or puts in the place of an instruction.
Callback ==
  [fn : {"read", "write", "unaligned_read", "unaligned_write"}, size : Sizes, line : Nat]
  \cup [fn : {"vptr_read", "vptr_update"}, line : Nat]
  \cup [fn : {"thread_create", "thread_join", "thread_lock", "thread_unlock",
              "func_entry", "func_exit", "main_func_exit"}]
  \cup [fn : {"atomic_load", "atomic_store", "atomic_rmw", "atomic_cmpxchg"}, size : Sizes]
  \cup [fn : {"atomic_fence", "memset", "memcpy", "memmove"}]

VARIABLES
  f,                                    \* the function
  phase,                                \* the part of runOnFunction the pass is in
  at,                                   \* the position it scans
  Local, All, AtomicAccesses, MemIntrinCalls,
  HasCalls, Res,
  before, after,                        \* the callbacks inserted next to a position
  instead                               \* the callback in its place

vars == <<f, phase, at, Local, All, AtomicAccesses, MemIntrinCalls, HasCalls, Res,
          before, after, instead>>

Positions == 1 .. Len(f.body)

I(p) == f.body[p]

IsPlain(p)     == I(p).op \in {"load", "store"}
IsAtomic(p)    == I(p).op \in {"atomic_load", "atomic_store", "rmw", "cmpxchg", "fence"}
IsIntrinsic(p) == I(p).op \in {"memset", "memcpy", "memmove"}
IsCall(p)      == I(p).op \in {"call", "invoke"} \/ IsIntrinsic(p)
EndsBlock(p)   == I(p).op \in {"br", "ret", "resume", "invoke"}

TypeOK ==
  /\ f \in Functions
  /\ phase \in {"scan", "accesses", "atomics", "intrinsics", "entry", "done"}
  /\ at \in 1 .. Len(f.body) + 1
  /\ Local \subseteq Positions /\ All \subseteq Positions
  /\ AtomicAccesses \subseteq Positions /\ MemIntrinCalls \subseteq Positions
  /\ HasCalls \in BOOLEAN /\ Res \in BOOLEAN
  /\ before \in [Positions -> Seq(Callback)]
  /\ after \in [Positions -> Seq(Callback)]
  /\ instead \in [Positions -> Seq(Callback)]

Init ==
  /\ f \in Functions
  /\ phase = "scan"
  /\ at = 1
  /\ Local = {} /\ All = {} /\ AtomicAccesses = {} /\ MemIntrinCalls = {}
  /\ HasCalls = FALSE /\ Res = FALSE
  /\ before = [p \in Positions |-> << >>]
  /\ after = [p \in Positions |-> << >>]
  /\ instead = [p \in Positions |-> << >>]

-----------------------------------------------------------------------------
(* chooseInstructionsToInstrument                                          *)

\* A store to p's address later in l: the loop comes from the end, and keeps
\* the addresses of the stores it has met in WriteTargets.
WrittenLater(l, p) == \E q \in l : p < q /\ I(q).op = "store" /\ I(q).on = I(p).on

Chosen(l) ==
  {p \in l :
     /\ I(p).on \notin Foreign
     /\ I(p).op = "load" => ~WrittenLater(l, p) /\ I(p).on \notin ConstantData
     /\ I(p).on \notin Uncaptured}

-----------------------------------------------------------------------------
(* The scan.                                                               *)

\* InstrIfSynchronization acts on a call instruction with a known callee.
Recognised(p) == I(p).op = "call" /\ I(p).direct /\ I(p).fn \in SyncNames

SyncCallback(p) ==
  [fn |-> CASE I(p).fn = "pthread_create" -> "thread_create"
            [] I(p).fn = "pthread_join" -> "thread_join"
            [] I(p).fn = "pthread_mutex_lock" -> "thread_lock"
            [] I(p).fn = "pthread_mutex_unlock" -> "thread_unlock"]

\* Wrong on purpose, to show that SyncsAnnounced notices: every callback goes
\* before its call, as IRB stands when it is made.
InstrBeforeSynchronization(p) ==
  IF Recognised(p)
  THEN before' = [before EXCEPT ![p] = Append(@, SyncCallback(p))] /\ UNCHANGED after
  ELSE UNCHANGED <<before, after>>

InstrIfSynchronization(p) ==
  IF ~Recognised(p) THEN UNCHANGED <<before, after>>
  ELSE IF I(p).fn = "pthread_mutex_unlock"
  THEN before' = [before EXCEPT ![p] = Append(@, SyncCallback(p))] /\ UNCHANGED after
  ELSE after' = [after EXCEPT ![p] = Append(@, SyncCallback(p))] /\ UNCHANGED before

ScanAccess ==
  /\ phase = "scan" /\ at \in Positions
  /\ IsPlain(at) \/ IsAtomic(at)
  /\ IF IsAtomic(at)
     THEN AtomicAccesses' = AtomicAccesses \cup {at} /\ UNCHANGED Local
     ELSE Local' = Local \cup {at} /\ UNCHANGED AtomicAccesses
  /\ at' = at + 1
  /\ UNCHANGED <<f, phase, All, MemIntrinCalls, HasCalls, Res, before, after, instead>>

\* Wrong on purpose, to show that JudgedInPlace notices: the accesses before a
\* call are chosen with those after it.
ScanCallOn ==
  /\ phase = "scan" /\ at \in Positions /\ IsCall(at)
  /\ InstrIfSynchronization(at)
  /\ MemIntrinCalls' = MemIntrinCalls \cup {p \in {at} : IsIntrinsic(p)}
  /\ HasCalls' = TRUE
  /\ at' = at + 1
  /\ UNCHANGED <<f, phase, Local, All, AtomicAccesses, Res, instead>>

\* A call, or an invoke, which also ends its block: the accesses so far are
\* chosen among themselves.  The callback inserted after the call is a call the
\* scan meets next, with nothing to choose from.
ScanCall ==
  /\ phase = "scan" /\ at \in Positions /\ IsCall(at)
  /\ InstrIfSynchronization(at)
  /\ MemIntrinCalls' = MemIntrinCalls \cup {p \in {at} : IsIntrinsic(p)}
  /\ HasCalls' = TRUE
  /\ All' = All \cup Chosen(Local)
  /\ Local' = {}
  /\ at' = at + 1
  /\ UNCHANGED <<f, phase, AtomicAccesses, Res, instead>>

ScanEnd ==
  /\ phase = "scan" /\ at \in Positions
  /\ EndsBlock(at) /\ ~IsCall(at)
  /\ All' = All \cup Chosen(Local)
  /\ Local' = {}
  /\ at' = at + 1
  /\ UNCHANGED <<f, phase, AtomicAccesses, MemIntrinCalls, HasCalls, Res, before, after,
                 instead>>

ScanDone ==
  /\ phase = "scan" /\ at \notin Positions
  /\ phase' = "accesses"
  /\ UNCHANGED <<f, at, Local, All, AtomicAccesses, MemIntrinCalls, HasCalls, Res, before,
                 after, instead>>

-----------------------------------------------------------------------------
(* The callbacks of accesses, atomics, intrinsics, and of the function.    *)

\* Wrong on purpose, to show that TypeOK notices: only sizes past 16 are bad.
SizeUpTo16(p) == I(p).size <= 16

\* getMemoryAccessFuncIndex does not return -1.
GoodSize(p) == I(p).size \in Sizes

\* Wrong on purpose, to show that CallbacksDefined notices: an alignment of 0
\* is not taken for the type's own.
AlignedBy(p) == I(p).align # 0 /\ (I(p).align >= 8 \/ I(p).align % I(p).size = 0)

Aligned(p) == I(p).align = 0 \/ I(p).align >= 8 \/ I(p).align % I(p).size = 0

\* IRB.CreateIntCast(getLineNumber(I), IRB.getInt8Ty(), false)
LineArgument(p) == I(p).line % 256

AccessCallback(p) ==
  LET write == I(p).op = "store"
  IN  IF I(p).vtable
      THEN [fn |-> IF write THEN "vptr_update" ELSE "vptr_read", line |-> LineArgument(p)]
      ELSE [fn |-> IF Aligned(p) THEN IF write THEN "write" ELSE "read"
                   ELSE IF write THEN "unaligned_write" ELSE "unaligned_read",
            size |-> I(p).size, line |-> LineArgument(p)]

instrumentLoadOrStore ==
  LET kept == {p \in All : f.sanitize /\ GoodSize(p)}
  IN  /\ phase = "accesses"
      /\ before' = [p \in Positions |->
                      IF p \in kept THEN Append(before[p], AccessCallback(p)) ELSE before[p]]
      /\ Res' = (kept # {})
      /\ phase' = "atomics"
      /\ UNCHANGED <<f, at, Local, All, AtomicAccesses, MemIntrinCalls, HasCalls, after, instead>>

AtomicCallback(p) ==
  CASE I(p).op = "fence" -> [fn |-> "atomic_fence"]
    [] I(p).op = "rmw" -> [fn |-> "atomic_rmw", size |-> I(p).size]
    [] I(p).op = "cmpxchg" -> [fn |-> "atomic_cmpxchg", size |-> I(p).size]
    [] OTHER -> [fn |-> I(p).op, size |-> I(p).size]

\* An atomic of another size, or an operation with no name, stays as it is.
HasCallback(p) ==
  I(p).op = "fence" \/ (GoodSize(p) /\ (I(p).op = "rmw" => I(p).does \in NamedRMW))

\* In any function, sanitized or not.
instrumentAtomic ==
  LET kept == {p \in AtomicAccesses : HasCallback(p)}
  IN  /\ phase = "atomics"
      /\ instead' = [p \in Positions |-> IF p \in kept THEN <<AtomicCallback(p)>> ELSE instead[p]]
      /\ Res' = (Res \/ kept # {})
      /\ phase' = "intrinsics"
      /\ UNCHANGED <<f, at, Local, All, AtomicAccesses, MemIntrinCalls, HasCalls, before, after>>

\* A plain call to the library's function of that name.
instrumentMemIntrinsic ==
  /\ phase = "intrinsics"
  /\ instead' = [p \in Positions |-> IF p \in MemIntrinCalls /\ f.sanitize
                                     THEN <<[fn |-> I(p).op]>> ELSE instead[p]]
  /\ phase' = "entry"
  /\ UNCHANGED <<f, at, Local, All, AtomicAccesses, MemIntrinCalls, HasCalls, Res, before, after>>

\* Wrong on purpose, to show that StacksBalanced notices: a function left by an
\* exception stays on the call stack.
Returns == {p \in Positions : I(p).op = "ret"}

Exits == {p \in Positions : I(p).op \in {"ret", "resume"}}

\* func_exit at each exit of the function, then main's report.
AtExit == <<[fn |-> "func_exit"]>> \o (IF f.main THEN <<[fn |-> "main_func_exit"]>> ELSE << >>)

EntryAndExit ==
  /\ phase = "entry"
  /\ IF Res \/ HasCalls
     THEN /\ before' = [p \in Positions |->
                          (IF p = 1 THEN <<[fn |-> "func_entry"]>> ELSE << >>)
                          \o before[p] \o (IF p \in Exits THEN AtExit ELSE << >>)]
          /\ Res' = TRUE
     ELSE UNCHANGED <<before, Res>>
  /\ phase' = "done"
  /\ UNCHANGED <<f, at, Local, All, AtomicAccesses, MemIntrinCalls, HasCalls, after, instead>>

Next ==
  \/ ScanAccess \/ ScanCall \/ ScanEnd \/ ScanDone
  \/ instrumentLoadOrStore \/ instrumentAtomic \/ instrumentMemIntrinsic
  \/ EntryAndExit

Spec == Init /\ [][Next]_vars

-----------------------------------------------------------------------------
(* What the pass promises of the function it leaves behind.                *)

Count(s, name) == Cardinality({i \in DOMAIN s : s[i].fn = name})

\* Another thread may reach what p accesses, and change it.
Shared(p) ==
  /\ IsPlain(p) /\ GoodSize(p)
  /\ I(p).on \notin Foreign \cup Uncaptured
  /\ I(p).op = "load" => I(p).on \notin ConstantData

Judged(p) == IsPlain(p) /\ \E i \in DOMAIN before[p] : before[p][i] = AccessCallback(p)

\* A store to p's address that runs whenever p does, with no call and so no
\* synchronization callback between them.
JudgedAsWrite(p) ==
  \E q \in Positions :
    /\ p < q /\ I(q).op = "store" /\ I(q).on = I(p).on /\ Judged(q)
    /\ \A r \in p .. q : ~IsCall(r) /\ ~EndsBlock(r)

(* Every access of a sanitized function that another thread may conflict with *)
(* is given to the detector, at its place between the synchronizations: by    *)
(* its own callback, or, for a read, by that of a write of the same address.  *)
JudgedInPlace ==
  phase = "done" /\ f.sanitize =>
    \A p \in Positions : Shared(p) => Judged(p) \/ (I(p).op = "load" /\ JudgedAsWrite(p))

(* A call by name to create, join, lock or unlock has its callback where the  *)
(* order it makes holds: an unlock's while the mutex is still held, the       *)
(* others' once the call is over.  No other instruction has one.              *)
SyncsAnnounced ==
  phase = "done" =>
    \A p \in Positions :
      LET called(fn) == IF I(p).op = "call" /\ I(p).direct /\ I(p).fn = fn THEN 1 ELSE 0
      IN  /\ Count(after[p], "thread_create") = called("pthread_create")
          /\ Count(after[p], "thread_join") = called("pthread_join")
          /\ Count(after[p], "thread_lock") = called("pthread_mutex_lock")
          /\ Count(before[p], "thread_unlock") = called("pthread_mutex_unlock")
          /\ Len(after[p]) + Count(before[p], "thread_unlock") =
             IF Recognised(p) THEN 1 ELSE 0

\* The access callbacks of tsan_interface.h.
Declared ==
  [fn : {"read", "write"}, size : Sizes]
  \cup [fn : {"unaligned_read", "unaligned_write"}, size : {2, 4, 8, 16}]

(* The pass calls no access callback that the runtime does not have.          *)
CallbacksDefined ==
  phase = "done" =>
    \A p \in Positions : \A i \in DOMAIN before[p] :
      "size" \in DOMAIN before[p][i] =>
        [fn |-> before[p][i].fn, size |-> before[p][i].size] \in Declared

(* A function from which a callback can report is on the call stack while it  *)
(* runs and not after: entered once, and left once at each of its exits; and  *)
(* main then gives its report.                                                *)
StacksBalanced ==
  phase = "done" /\ Positions # {} =>
    LET entered == Count(before[1], "func_entry")
    IN  /\ (\E p \in Positions : Judged(p) \/ IsCall(p)) => entered = 1
        /\ \A p \in Positions : I(p).op \in {"ret", "resume"} =>
             /\ Count(before[p], "func_exit") = entered
             /\ f.main /\ entered = 1 => before[p][Len(before[p])].fn = "main_func_exit"

(* What the comment of InstrIfSynchronization says: a call of one of the      *)
(* synchronization functions gets its callback.                               *)
EverySyncAnnounced ==
  phase = "done" =>
    \A p \in Positions :
      I(p).op \in {"call", "invoke"} /\ I(p).fn \in SyncNames =>
        after[p] # << >> \/ Count(before[p], "thread_unlock") > 0

(* What the comment of getLineNumber says: a callback is given the line of    *)
(* its instruction.                                                           *)
LinesArrive ==
  phase = "done" =>
    \A p \in Positions : \A i \in DOMAIN before[p] :
      "line" \in DOMAIN before[p][i] => before[p][i].line = I(p).line

\* The memory functions the runtime defines.
Intercepted == {}

(* What the comment of instrumentMemIntrinsic says: the call an intrinsic     *)
(* becomes is intercepted by the run-time, and its accesses judged there.     *)
IntrinsicsIntercepted ==
  phase = "done" /\ f.sanitize =>
    \A p \in Positions : IsIntrinsic(p) =>
      \E i \in DOMAIN instead[p] : instead[p][i].fn \in Intercepted
=============================================================================
