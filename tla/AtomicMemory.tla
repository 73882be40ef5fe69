---------------------------- MODULE AtomicMemory ----------------------------
(***************************************************************************)
(* What the __atomic_* functions promise: a call takes effect in one step, *)
(* between its start and its return, and returns what the object held      *)
(* before that step.  LibAtomic implements this.                           *)
(***************************************************************************)
CONSTANTS
  Threads,
  Objects,
  Ops,                 \* the calls: what they do, on which object
  InitialValue,        \* InitialValue[o]
  Fetched(_, _, _),    \* Fetched(f, old, val): what fetch_f leaves
  None

VARIABLES
  mem,       \* mem[o]: the value of object o
  phase,     \* phase[t]: idle, called, or done and about to return
  op,        \* op[t]: the call t is in
  result     \* result[t]: what a call that is done returns

vars == <<mem, phase, op, result>>

Init ==
  /\ mem = InitialValue
  /\ phase = [t \in Threads |-> "idle"]
  /\ op = [t \in Threads |-> None]
  /\ result = [t \in Threads |-> None]

Call(t) ==
  /\ phase[t] = "idle"
  /\ phase' = [phase EXCEPT ![t] = "called"]
  /\ \E o \in Ops : op' = [op EXCEPT ![t] = o]
  /\ UNCHANGED <<mem, result>>

\* What o leaves of an object that held old.
Effect(o, old) ==
  CASE o.do = "load" -> old
    [] o.do \in {"store", "exchange"} -> o.val
    [] o.do = "compare_exchange" -> IF old = o.expect THEN o.val ELSE old
    [] o.do = "fetch" -> Fetched(o.fetch, old, o.val)

TakeEffect(t) ==
  LET o == op[t]
  IN  /\ phase[t] = "called"
      /\ phase' = [phase EXCEPT ![t] = "done"]
      /\ mem' = [mem EXCEPT ![o.on] = Effect(o, @)]
      /\ result' = [result EXCEPT ![t] = IF o.do = "store" THEN None ELSE mem[o.on]]
      /\ UNCHANGED op

Return(t) ==
  /\ phase[t] = "done"
  /\ phase' = [phase EXCEPT ![t] = "idle"]
  /\ op' = [op EXCEPT ![t] = None]
  /\ result' = [result EXCEPT ![t] = None]
  /\ UNCHANGED mem

Next == \E t \in Threads : Call(t) \/ TakeEffect(t) \/ Return(t)

Spec == Init /\ [][Next]_vars
=============================================================================
