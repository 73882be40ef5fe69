------------------------- MODULE MCInstrumentation -------------------------
(* Instances of Instrumentation: every body of a few instructions, and single *)
(* accesses of every size and alignment.                                      *)
EXTENDS Instrumentation

\* x and y are shared; k is constant, u does not escape, g is a gcov counter.
CONSTANTS x, y, k, u, g

MCAddresses    == {x, y, k, u, g}
MCForeign      == {g}
MCConstantData == {k}
MCUncaptured   == {u}

Access(op, on) ==
  [op |-> op, on |-> on, size |-> 4, align |-> 4, vtable |-> FALSE, line |-> 7]

CallOf(fn) == [op |-> "call", fn |-> fn, direct |-> TRUE]

Bodies(letters, n) == {Append(b, [op |-> "ret"]) : b \in [1 .. n -> letters]}

FunctionsOf(bodies) == [main : BOOLEAN, sanitize : BOOLEAN, body : bodies]

\* Every order of accesses to one address and to the others.
Accesses ==
  {Access("load", a) : a \in MCAddresses} \cup {Access("store", a) : a \in {x, u, g}}

Breaks ==
  {CallOf(fn) : fn \in {"pthread_join", "pthread_mutex_lock", "pthread_mutex_unlock", "other"}}
  \cup {[op |-> "invoke", fn |-> "other", direct |-> TRUE]}
  \cup {[op |-> "br"], [op |-> "resume"], [op |-> "memcpy", on |-> x],
        [op |-> "atomic_store", on |-> y, size |-> 4], [op |-> "fence"]}

Orders ==
  FunctionsOf(UNION {Bodies(Accesses \cup Breaks, n) : n \in 0 .. 2})
  \cup [main : {FALSE}, sanitize : {TRUE}, body : Bodies(Accesses \cup Breaks, 3)]

\* Longer stretches over one address.
Stretches ==
  [main : {FALSE}, sanitize : {TRUE},
   body : Bodies({Access("load", x), Access("store", x), Access("load", y),
                  CallOf("pthread_mutex_lock"), [op |-> "br"]}, 5)]

\* One access of any shape.
Shapes ==
  FunctionsOf({<<a, [op |-> "ret"]>> :
     a \in [op : {"load", "store"}, on : {x}, size : {1, 2, 3, 4, 8, 16}, align : {0, 1, 2, 4, 8, 16},
            vtable : BOOLEAN, line : {7, 200}]
          \cup [op : {"atomic_load", "cmpxchg"}, on : {x}, size : {3, 4}]
          \cup [op : {"rmw"}, on : {x}, size : {3, 4}, does : {"add", "umax"}]
          \cup {CallOf("pthread_create")}})

MCFunctions == Orders \cup Stretches \cup Shapes

\* A synchronization call from which an exception must run destructors: an invoke.
UnnamedCalls ==
  FunctionsOf({<<c, Access("load", a), Access("store", b), [op |-> "ret"]>> :
     c \in [op : {"call", "invoke"}, fn : {"pthread_join", "other"}, direct : {TRUE}], a, b \in {x, y}})

\* Accesses in a file of three hundred lines.
LongFile ==
  FunctionsOf({<<[Access("load", a) EXCEPT !.line = n], [Access("store", b) EXCEPT !.line = n + 1],
                 [op |-> "ret"]>> : a, b \in {x, y}, n \in {7, 254, 255, 300}})

\* Bulk writes.
BulkWrites ==
  FunctionsOf({<<[op |-> i, on |-> x], Access("load", a), Access("store", b), [op |-> "ret"]>> :
     i \in {"memset", "memcpy", "memmove"}, a, b \in {x, y}})

\* The pass has returned.
Returned == phase = "done" /\ UNCHANGED vars

MCNext == Next \/ Returned

MCSpec == Init /\ [][MCNext]_vars
=============================================================================
