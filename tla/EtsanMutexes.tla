---------------------------- MODULE EtsanMutexes ----------------------------
(***************************************************************************)
(* The runtime's own mutexes TS, VS and LS, and what is read and written   *)
(* under which of them (etsan/defs.h, fasttrack.h).                        *)
(*                                                                         *)
(* Etsan takes each critical section for one step.  Here locking and       *)
(* unlocking are steps of their own, and of the data only the sizes of the *)
(* vectors are left: enough to say which vectors push_back writes to.  A   *)
(* callback is the sequence of sections its thread still has to go         *)
(* through; two accesses to one word meet when the next steps of two       *)
(* threads both touch it, and nothing forbids either.                      *)
(***************************************************************************)
EXTENDS Integers, Sequences, FiniteSets

CONSTANTS
  Threads, Main,   \* thread t has the handle t: none is used twice here
  Locks, Vars,     \* the addresses the program hands to the runtime
  Program          \* Program[t]: the sequence of operations t performs

Op == [do : {"create", "join"}, on : Threads]
      \cup [do : {"lock", "unlock"}, on : Locks]
      \cup [do : {"read", "write"}, on : Vars]

Mutexes == {"TS", "VS", "LS"}

Nobody == "nobody"

ASSUME MutexAssumption ==
  /\ IsFiniteSet(Threads) /\ Main \in Threads /\ Nobody \notin Threads
  /\ Program \in [Threads -> Seq(Op)]

\* What a thread does next inside a callback.
Piece == [do : {"acquire", "release"}, on : Mutexes]
         \cup [do : {"state", "fork", "join"}, on : Threads]
         \cup [do : {"variable", "new_variable", "read", "write"}, on : Vars]
         \cup [do : {"mutex", "merge"}, on : Locks]
         \cup [do : {"adopt", "tick", "count", "uncount"}]

VARIABLES
  life, step, holder,    \* the program: as in Etsan
  todo,                  \* todo[t]: what is left of the callback t is in
  owner,                 \* owner[g]: who holds the runtime's mutex g
  isConcurrent,
  TS, VS, LS,            \* the keys of the three maps
  size,                  \* size[h]: C.size() of the ThreadState of h
  lsize                  \* lsize[m]: L.size() of the LockState of m

program == <<life, step, holder>>
sizes   == <<size, lsize>>
vars == <<life, step, holder, todo, owner, isConcurrent, TS, VS, LS, size, lsize>>

\* A vector never outgrows the number of threads and one (getLockState).
MaxSize == Cardinality(Threads) + 1

TypeOK ==
  /\ life \in [Threads -> {"unborn", "running", "joined"}]
  /\ step \in [Threads -> Nat \ {0}]
  /\ holder \in [Locks -> Threads \cup {Nobody}]
  /\ todo \in [Threads -> Seq(Piece)]
  /\ owner \in [Mutexes -> Threads \cup {Nobody}]
  /\ isConcurrent \in Nat
  /\ TS \subseteq Threads /\ VS \subseteq Vars /\ LS \subseteq Locks
  /\ size \in [Threads -> 0 .. MaxSize]
  /\ lsize \in [Locks -> 0 .. MaxSize]

Init ==
  /\ life = [t \in Threads |-> IF t = Main THEN "running" ELSE "unborn"]
  /\ step = [t \in Threads |-> 1]
  /\ holder = [m \in Locks |-> Nobody]
  /\ todo = [t \in Threads |-> << >>]
  /\ owner = [g \in Mutexes |-> Nobody]
  /\ isConcurrent = 0
  /\ TS = {} /\ VS = {} /\ LS = {}
  /\ size = [t \in Threads |-> 0]
  /\ lsize = [m \in Locks |-> 0]

-----------------------------------------------------------------------------
(* The code of the callbacks.                                              *)

Section(g, do, on) ==
  <<[do |-> "acquire", on |-> g], [do |-> do, on |-> on], [do |-> "release", on |-> g]>>

\* Wrong on purpose, to show that MapsGuarded notices: the map is searched
\* before the mutex is taken.
getStateUnguarded(h) == <<[do |-> "state", on |-> h]>>

getState(h)     == Section("TS", "state", h)
getVarState(x)  == Section("VS", "variable", x)
getLockState(m) == Section("LS", "mutex", m)

\* The arguments of a call, in either order.
Arguments(p, q) == {p \o q, q \o p}

\* Wrong on purpose, to show that LockOrder notices: ft_fork looks its child up
\* inside its section.
ft_fork_nested(t, u) ==
  {getState(t) \o <<[do |-> "count"], [do |-> "acquire", on |-> "TS"]>> \o getState(u)
   \o <<[do |-> "fork", on |-> u], [do |-> "release", on |-> "TS"]>>}

ft_fork(t, u) ==
  {args \o <<[do |-> "count"]>> \o Section("TS", "fork", u) :
     args \in Arguments(getState(t), getState(u))}

ft_join(t, u) ==
  {args \o <<[do |-> "uncount"]>> \o Section("TS", "join", u) :
     args \in Arguments(getState(t), getState(u))}

\* Merging the two vectors under LS; then updateEpoch, or updateEpoch and
\* increment, under nothing.
ft_acquire(t, m) ==
  {args \o Section("LS", "merge", m) \o <<[do |-> "adopt"]>> :
     args \in Arguments(getState(t), getLockState(m))}

ft_release(t, m) ==
  {args \o Section("LS", "merge", m) \o <<[do |-> "tick"]>> :
     args \in Arguments(getState(t), getLockState(m))}

\* Wrong on purpose, to show that EveryCallReturns notices: the fast path
\* returns without the unlock.
ft_access_fast(t, x, do) ==
  {args \o <<[do |-> "acquire", on |-> "VS"], [do |-> do, on |-> x]>> :
     args \in Arguments(getState(t), getVarState(x))}

\* ft_read and ft_write, every path of which ends with the unlock.
ft_access(t, x, do) ==
  {args \o Section("VS", do, x) : args \in Arguments(getState(t), getVarState(x))}

Callbacks(t, op) ==
  CASE op.do = "create" -> ft_fork(t, op.on)
    [] op.do = "join" -> ft_join(t, op.on)
    [] op.do = "lock" -> ft_acquire(t, op.on)
    [] op.do = "unlock" -> ft_release(t, op.on)
    [] OTHER -> IF isConcurrent = 0 THEN {<< >>} ELSE ft_access(t, op.on, op.do)

-----------------------------------------------------------------------------
Piece1(t) == Head(todo[t])

Inside(t) == todo[t] # << >>

AtPiece(t, dos) == Inside(t) /\ Piece1(t).do \in dos

\* Wrong on purpose, to show that OnlyAtBirth notices: the callback of a join
\* is called before pthread_join.
HasBegun(u) == life[u] = "running"

\* Thread u is over: pthread_join returns, and its callback is called.
HasEnded(u) == life[u] = "running" /\ ~Inside(u) /\ step[u] > Len(Program[u])

\* The program: an operation of t up to the entry of its callback.
Perform(t) ==
  LET op == Program[t][step[t]]
  IN  /\ life[t] = "running" /\ ~Inside(t) /\ step[t] <= Len(Program[t])
      /\ CASE op.do = "create" -> /\ life[op.on] = "unborn"
                                  /\ life' = [life EXCEPT ![op.on] = "running"]
                                  /\ UNCHANGED holder
           [] op.do = "join" -> /\ HasEnded(op.on)
                                /\ life' = [life EXCEPT ![op.on] = "joined"]
                                /\ UNCHANGED holder
           [] op.do = "lock" -> /\ holder[op.on] = Nobody
                                /\ holder' = [holder EXCEPT ![op.on] = t]
                                /\ UNCHANGED life
           [] OTHER -> UNCHANGED <<life, holder>>
      /\ \E code \in Callbacks(t, op) : todo' = [todo EXCEPT ![t] = code]
      /\ step' = [step EXCEPT ![t] = @ + 1]
      /\ UNCHANGED <<owner, isConcurrent, TS, VS, LS, sizes>>

\* t goes on to what follows; before that, to the pieces of more.
Proceed(t, more) == todo' = [todo EXCEPT ![t] = more \o Tail(@)]

Acquire(t) ==
  /\ AtPiece(t, {"acquire"})
  /\ owner[Piece1(t).on] = Nobody
  /\ owner' = [owner EXCEPT ![Piece1(t).on] = t]
  /\ Proceed(t, << >>)
  /\ UNCHANGED <<program, isConcurrent, TS, VS, LS, sizes>>

Release(t) ==
  /\ AtPiece(t, {"release"})
  /\ owner' = [owner EXCEPT ![Piece1(t).on] = Nobody]
  /\ Proceed(t, << >>)
  /\ UNCHANGED <<program, isConcurrent, TS, VS, LS, sizes>>

\* UpdateThreadClocks with n threads in the map: the vectors that are shorter
\* grow to n.
UpdateThreadClocks(n) == [g \in Threads |-> IF g \in TS' /\ size[g] < n THEN n ELSE size[g]]

FindState(t) ==
  LET h == Piece1(t).on
  IN  /\ AtPiece(t, {"state"})
      /\ TS' = TS \cup {h}
      /\ size' = IF h \in TS THEN size ELSE UpdateThreadClocks(Cardinality(TS) + 1)
      /\ Proceed(t, << >>)
      /\ UNCHANGED <<program, owner, isConcurrent, VS, LS, lsize>>

\* getVarState of an unknown address calls getThreadState with VS held.
FindVariable(t) ==
  LET x == Piece1(t).on
  IN  /\ AtPiece(t, {"variable"})
      /\ Proceed(t, IF x \in VS THEN << >>
                    ELSE getState(t) \o <<[do |-> "new_variable", on |-> x]>>)
      /\ UNCHANGED <<program, owner, isConcurrent, TS, VS, LS, sizes>>

NewVariable(t) ==
  /\ AtPiece(t, {"new_variable"})
  /\ VS' = VS \cup {Piece1(t).on}
  /\ Proceed(t, << >>)
  /\ UNCHANGED <<program, owner, isConcurrent, TS, LS, sizes>>

\* A new LockState has NumThreads entries, one more than there are threads.
FindMutex(t) ==
  LET m == Piece1(t).on
  IN  /\ AtPiece(t, {"mutex"})
      /\ LS' = LS \cup {m}
      /\ lsize' = IF m \in LS \/ TS = {} THEN lsize
                  ELSE [lsize EXCEPT ![m] = Cardinality(TS) + 1]
      /\ Proceed(t, << >>)
      /\ UNCHANGED <<program, owner, isConcurrent, TS, VS, size>>

\* Wrong on purpose, to show that TypeOK notices: <= for < in ExtendVectorClock.
OnePast(m, n) == IF m < n THEN n + 1 ELSE m + 1

Longer(m, n) == IF m < n THEN n ELSE m

\* ExtendVectorClocks, and the join or copy that follows it.
Merge(t) ==
  LET m == Piece1(t).on
      n == Longer(size[t], lsize[m])
  IN  /\ AtPiece(t, {"merge"})
      /\ size' = [size EXCEPT ![t] = n]
      /\ lsize' = [lsize EXCEPT ![m] = n]
      /\ Proceed(t, << >>)
      /\ UNCHANGED <<program, owner, isConcurrent, TS, VS, LS>>

ForkOrJoin(t) ==
  LET u == Piece1(t).on
      n == Longer(size[t], size[u])
  IN  /\ AtPiece(t, {"fork", "join"})
      /\ size' = [size EXCEPT ![t] = n, ![u] = n]
      /\ Proceed(t, << >>)
      /\ UNCHANGED <<program, owner, isConcurrent, TS, VS, LS, lsize>>

Count(t) ==
  /\ AtPiece(t, {"count", "uncount"})
  /\ isConcurrent' = IF Piece1(t).do = "count" THEN isConcurrent + 1
                     ELSE IF isConcurrent = 0 THEN 0 ELSE isConcurrent - 1
  /\ Proceed(t, << >>)
  /\ UNCHANGED <<program, owner, TS, VS, LS, sizes>>

\* updateEpoch and increment; the program's own unlock comes after the latter.
Adopt(t) ==
  /\ AtPiece(t, {"adopt", "tick"})
  /\ holder' = IF Piece1(t).do = "adopt" THEN holder
               ELSE [holder EXCEPT ![Program[t][step[t] - 1].on] = Nobody]
  /\ Proceed(t, << >>)
  /\ UNCHANGED <<life, step, owner, isConcurrent, TS, VS, LS, sizes>>

\* The body of ft_read or ft_write: it changes the shadow words only.
Judge(t) ==
  /\ AtPiece(t, {"read", "write"})
  /\ Proceed(t, << >>)
  /\ UNCHANGED <<program, owner, isConcurrent, TS, VS, LS, sizes>>

CallbackStep(t) ==
  \/ Acquire(t) \/ Release(t) \/ FindState(t) \/ FindVariable(t) \/ NewVariable(t)
  \/ FindMutex(t) \/ Merge(t) \/ ForkOrJoin(t) \/ Count(t) \/ Adopt(t) \/ Judge(t)

Next == \E t \in Threads : Perform(t) \/ CallbackStep(t)

\* The operating system runs every thread that can run.  A program makes
\* finitely many calls, so that a mutex somebody waits for is free at last for
\* good, and weak fairness is enough.
Spec == Init /\ [][Next]_vars /\ \A t \in Threads : WF_vars(Perform(t) \/ CallbackStep(t))

-----------------------------------------------------------------------------
(* The words a thread's next step reads or writes.  ft_read also reads       *)
(* NumThreads, when a variable becomes read-shared.                          *)

Word(kind, of) == [kind |-> kind, of |-> of]

\* The vectors that the registration of h writes to.
Grown(h) == {h} \cup {g \in TS : size[g] < Cardinality(TS) + 1}

Writes(t) ==
  IF ~Inside(t) THEN {}
  ELSE LET p == Piece1(t)
       IN  CASE p.do = "state" /\ p.on \notin TS ->
                  {Word("map", "TS"), Word("count", "NumThreads"), Word("epoch", p.on)}
                  \cup {Word("C", g) : g \in Grown(p.on)}
             [] p.do = "new_variable" -> {Word("map", "VS"), Word("shadow", p.on)}
             [] p.do = "mutex" /\ p.on \notin LS -> {Word("map", "LS"), Word("L", p.on)}
             [] p.do = "merge" -> {Word("C", t), Word("L", p.on)}
             [] p.do \in {"fork", "join"} ->
                  {Word("C", t), Word("C", p.on), Word("epoch", t), Word("epoch", p.on)}
             [] p.do = "adopt" -> {Word("epoch", t)}
             [] p.do = "tick" -> {Word("epoch", t), Word("C", t)}
             [] p.do \in {"read", "write"} -> {Word("shadow", p.on)}
             [] OTHER -> {}

Reads(t) ==
  IF ~Inside(t) THEN {}
  ELSE LET p == Piece1(t)
       IN  CASE p.do = "state" ->
                  {Word("map", "TS")} \cup IF p.on \in TS THEN {} ELSE {Word("C", g) : g \in TS}
             [] p.do = "variable" -> {Word("map", "VS")}
             [] p.do = "new_variable" -> {Word("epoch", t)}
             [] p.do = "mutex" ->
                  {Word("map", "LS")}
                  \cup IF p.on \in LS THEN {} ELSE {Word("count", "NumThreads")}
             [] p.do = "adopt" -> {Word("C", t)}
             [] p.do \in {"read", "write"} -> {Word("C", t), Word("epoch", t)}
             [] OTHER -> {}

\* Two threads are about to touch one word of these kinds, one to write it.
Clash(kinds) ==
  \E t, u \in Threads : /\ t # u
                        /\ \E w \in Writes(t) \cap (Reads(u) \cup Writes(u)) : w.kind \in kinds

-----------------------------------------------------------------------------
(* What must hold.                                                         *)

(* The maps, the shadow words and the clocks of the program's mutexes are    *)
(* touched by one thread at a time, lookups included (getState, getVarState, *)
(* getLockState, and ft_* through the references these return).              *)
MapsGuarded == ~Clash({"map", "shadow", "L"})

Holds(t, g) == owner[g] = t

WaitsFor(t, g) == AtPiece(t, {"acquire"}) /\ Piece1(t).on = g

(* A callback that waits for a mutex of the runtime holds none, or waits for *)
(* TS with VS (getVarState): no two can wait for each other.                 *)
LockOrder ==
  \A t \in Threads : \A g, k \in Mutexes :
    WaitsFor(t, g) /\ Holds(t, k) => g = "TS" /\ k = "VS"

Blocked(t) == \E g \in Mutexes : WaitsFor(t, g) /\ owner[g] # Nobody

(* The mutexes of the runtime never stop all the callbacks: of those that    *)
(* have begun, however many, one can go on (getVarState, which calls         *)
(* getThreadState with VS held, and the ft_*, whose arguments are looked up  *)
(* before their own section).                                                *)
NeverAllBlocked ==
  (\E t \in Threads : Inside(t)) => \E t \in Threads : Inside(t) /\ ~Blocked(t)

(* Every callback comes back to the program, whatever the other threads do.  *)
EveryCallReturns == \A t \in Threads : Inside(t) ~> ~Inside(t)

(* What defs.h:87 says of the mutex TS.mGuard, "A lock to acquire before     *)
(* accesing thread states C": so that no two threads touch one vector.       *)
StatesGuarded == ~Clash({"C", "epoch"})

\* t is about to enter a thread in the map, or to merge a new thread's vector.
AtBirth(t) ==
  \/ AtPiece(t, {"fork"})
  \/ AtPiece(t, {"state"}) /\ Piece1(t).on \notin TS

(* It is nearly so: two threads touch one vector, or its epoch, only while   *)
(* one of them registers a thread, which makes the vectors of others grow    *)
(* (getState, UpdateThreadClocks), or forks one (ft_fork).  ft_join, which   *)
(* writes to the vector of another thread as well, finds it at rest: unless  *)
(* the pthread_t has been handed out again, which it is not here.            *)
OnlyAtBirth ==
  \A t, u \in Threads : \A w \in Writes(t) \cap (Reads(u) \cup Writes(u)) :
    t # u /\ w.kind \in {"C", "epoch"} => AtBirth(t) \/ AtBirth(u)
=============================================================================
