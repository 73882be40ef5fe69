------------------------- MODULE EtsanMutexesProofs -------------------------
(***************************************************************************)
(* Theorems about EtsanMutexes, for any threads and any program: the maps, *)
(* the shadow words and the clocks of the program's mutexes are touched by *)
(* one thread at a time, the vectors of the threads too but while a thread *)
(* is registered or forked, and the callbacks never all wait.              *)
(*                                                                         *)
(* The invariant says of every thread that what is left of its callback,   *)
(* begun with the mutexes it holds, takes no mutex out of order, does each *)
(* piece under the mutex that guards it, and ends with none held.  The     *)
(* code of a callback is put together from sections, and so is the proof.  *)
(***************************************************************************)
EXTENDS EtsanMutexes, SequenceTheorems, FiniteSetTheorems, TLAPS

\* What a thread that holds h holds after the piece p.
Then(p, h) ==
  IF p.do = "acquire" THEN h \cup {p.on}
  ELSE IF p.do = "release" THEN h \ {p.on} ELSE h

\* p may be done by a thread that holds h.
Allowed(p, h) ==
  /\ p.do = "acquire" => h = {} \/ (h = {"VS"} /\ p.on = "TS")
  /\ p.do = "release" => p.on \in h
  /\ p.do \in {"state", "fork", "join"} => "TS" \in h
  /\ p.do = "variable" => h = {"VS"}
  /\ p.do \in {"new_variable", "read", "write"} => "VS" \in h
  /\ p.do \in {"mutex", "merge"} => "LS" \in h

\* Begun with h held, the code c keeps the rules and ends with e held: held[i]
\* is held before the i-th piece.
Traced(c, held) ==
  \A i \in 1 .. Len(c) : Allowed(c[i], held[i]) /\ held[i + 1] = Then(c[i], held[i])

Passes(c, h, e) ==
  /\ c \in Seq(Piece)
  /\ \E held \in [1 .. Len(c) + 1 -> SUBSET Mutexes] :
       held[1] = h /\ held[Len(c) + 1] = e /\ Traced(c, held)

HeldBy(t) == {g \in Mutexes : owner[g] = t}

CodeInv == \A t \in Threads : Passes(todo[t], HeldBy(t), {})

IInv == TypeOK /\ CodeInv

-----------------------------------------------------------------------------
(* Code.                                                                     *)

\* No code changes nothing.
LEMMA NoCode ==
  ASSUME NEW h \in SUBSET Mutexes
  PROVE  Passes(<< >>, h, h) /\ \A e : Passes(<< >>, h, e) => e = h
<1>1. << >> \in Seq(Piece) /\ Len(<< >>) = 0
  BY EmptySeq
<1>2. Passes(<< >>, h, h)
  <2> DEFINE held == [i \in 1 .. 1 |-> h]
  <2>1. held \in [1 .. 0 + 1 -> SUBSET Mutexes] /\ held[1] = h /\ held[0 + 1] = h
    OBVIOUS
  <2>2. Traced(<< >>, held)
    BY <1>1 DEF Traced
  <2> HIDE DEF held
  <2> QED
    BY <1>1, <2>1, <2>2 DEF Passes
<1>3. \A e : Passes(<< >>, h, e) => e = h
  BY <1>1 DEF Passes
<1> QED
  BY <1>2, <1>3

\* One piece.
LEMMA OnePiece ==
  ASSUME NEW h \in SUBSET Mutexes, NEW p \in Piece, Allowed(p, h), Then(p, h) \in SUBSET Mutexes
  PROVE  Passes(<<p>>, h, Then(p, h))
<1> DEFINE held == [i \in 1 .. 2 |-> IF i = 1 THEN h ELSE Then(p, h)]
<1>1. <<p>> \in Seq(Piece) /\ Len(<<p>>) = 1 /\ <<p>>[1] = p
  OBVIOUS
<1>2. held \in [1 .. 1 + 1 -> SUBSET Mutexes] /\ held[1] = h /\ held[1 + 1] = Then(p, h)
  OBVIOUS
<1> HIDE DEF held
<1>3. Traced(<<p>>, held)
  BY <1>1, <1>2 DEF Traced
<1> QED
  BY <1>1, <1>2, <1>3 DEF Passes

\* What comes after the first piece, and what the first piece may rely on.
LEMMA Rest ==
  ASSUME NEW c, NEW h, NEW e, Passes(c, h, e), c # << >>
  PROVE  /\ Head(c) \in Piece /\ Allowed(Head(c), h)
         /\ Passes(Tail(c), Then(Head(c), h), e)
<1>1. PICK held \in [1 .. Len(c) + 1 -> SUBSET Mutexes] :
         held[1] = h /\ held[Len(c) + 1] = e /\ Traced(c, held)
  BY DEF Passes
<1>2. c \in Seq(Piece) /\ Len(c) \in Nat
  BY LenProperties DEF Passes
<1>3. /\ Head(c) \in Piece /\ Tail(c) \in Seq(Piece) /\ Len(Tail(c)) = Len(c) - 1
      /\ \A i \in 1 .. Len(c) - 1 : Tail(c)[i] = c[i + 1]
      /\ Len(c) >= 1 /\ Head(c) = c[1]
  BY <1>2, HeadTailProperties, EmptySeq
<1>4. Allowed(c[1], h) /\ held[1 + 1] = Then(c[1], h)
  BY <1>1, <1>2, <1>3 DEF Traced
<1> DEFINE d == [i \in 1 .. Len(c) |-> held[i + 1]]
<1>5. d \in [1 .. (Len(c) - 1) + 1 -> SUBSET Mutexes]
  BY <1>1, <1>2
<1>6. d[1] = held[1 + 1] /\ d[(Len(c) - 1) + 1] = held[Len(c) + 1]
  BY <1>2, <1>3
<1>7. \A i \in 1 .. Len(c) - 1 : Allowed(Tail(c)[i], d[i]) /\ d[i + 1] = Then(Tail(c)[i], d[i])
  <2> SUFFICES ASSUME NEW i \in 1 .. Len(c) - 1
               PROVE  Allowed(Tail(c)[i], d[i]) /\ d[i + 1] = Then(Tail(c)[i], d[i])
    OBVIOUS
  <2>1. i + 1 \in 1 .. Len(c) /\ i \in 1 .. Len(c)
    BY <1>2
  <2>2. d[i] = held[i + 1] /\ d[i + 1] = held[(i + 1) + 1]
    BY <2>1
  <2>3. Allowed(c[i + 1], held[i + 1]) /\ held[(i + 1) + 1] = Then(c[i + 1], held[i + 1])
    BY <1>1, <2>1 DEF Traced
  <2> QED
    BY <1>3, <2>2, <2>3
<1> HIDE DEF d
<1>8. Traced(Tail(c), d)
  BY <1>3, <1>7 DEF Traced
<1>9. Passes(Tail(c), Then(Head(c), h), e)
  BY <1>1, <1>3, <1>4, <1>5, <1>6, <1>8 DEF Passes
<1> QED
  BY <1>3, <1>4, <1>9

\* One code after another.
LEMMA Composed ==
  ASSUME NEW c, NEW d, NEW h, NEW k, NEW e, Passes(c, h, k), Passes(d, k, e)
  PROVE  Passes(c \o d, h, e)
<1>1. PICK f \in [1 .. Len(c) + 1 -> SUBSET Mutexes] :
         f[1] = h /\ f[Len(c) + 1] = k /\ Traced(c, f)
  BY DEF Passes
<1>2. PICK g \in [1 .. Len(d) + 1 -> SUBSET Mutexes] :
         g[1] = k /\ g[Len(d) + 1] = e /\ Traced(d, g)
  BY DEF Passes
<1>3. c \in Seq(Piece) /\ d \in Seq(Piece) /\ Len(c) \in Nat /\ Len(d) \in Nat
  BY LenProperties DEF Passes
<1>4. PICK cd : cd = c \o d
  OBVIOUS
<1>5. /\ cd \in Seq(Piece) /\ Len(cd) = Len(c) + Len(d)
      /\ \A i \in 1 .. Len(c) + Len(d) : cd[i] = IF i <= Len(c) THEN c[i] ELSE d[i - Len(c)]
  BY <1>3, <1>4, ConcatProperties
<1> DEFINE held == [i \in 1 .. (Len(c) + Len(d)) + 1 |->
                      IF i <= Len(c) THEN f[i] ELSE g[i - Len(c)]]
<1>6. \A i \in 1 .. Len(c) + 1 : i \in 1 .. (Len(c) + Len(d)) + 1 /\ held[i] = f[i]
  <2> SUFFICES ASSUME NEW i \in 1 .. Len(c) + 1
               PROVE  i \in 1 .. (Len(c) + Len(d)) + 1 /\ held[i] = f[i]
    OBVIOUS
  <2>1. i \in 1 .. (Len(c) + Len(d)) + 1
    BY <1>3
  <2>2. CASE i <= Len(c)
    BY <2>1, <2>2
  <2>3. CASE ~(i <= Len(c))
    <3>1. i = Len(c) + 1 /\ i - Len(c) = 1
      BY <1>3, <2>3
    <3> QED
      BY <1>1, <1>2, <2>1, <2>3, <3>1
  <2> QED
    BY <2>1, <2>2, <2>3
<1>7. \A i \in 1 .. Len(d) + 1 : /\ Len(c) + i \in 1 .. (Len(c) + Len(d)) + 1
                                 /\ held[Len(c) + i] = g[i]
  <2> SUFFICES ASSUME NEW i \in 1 .. Len(d) + 1
               PROVE  Len(c) + i \in 1 .. (Len(c) + Len(d)) + 1 /\ held[Len(c) + i] = g[i]
    OBVIOUS
  <2>1. /\ Len(c) + i \in 1 .. (Len(c) + Len(d)) + 1 /\ ~(Len(c) + i <= Len(c))
        /\ (Len(c) + i) - Len(c) = i
    BY <1>3
  <2> QED
    BY <2>1
<1>8. held \in [1 .. (Len(c) + Len(d)) + 1 -> SUBSET Mutexes]
  <2> SUFFICES ASSUME NEW i \in 1 .. (Len(c) + Len(d)) + 1
               PROVE  (IF i <= Len(c) THEN f[i] ELSE g[i - Len(c)]) \in SUBSET Mutexes
    OBVIOUS
  <2>1. i <= Len(c) => i \in 1 .. Len(c) + 1
    BY <1>3
  <2>2. ~(i <= Len(c)) => i - Len(c) \in 1 .. Len(d) + 1
    BY <1>3
  <2> QED
    BY <2>1, <2>2
<1> HIDE DEF held
<1>9. held[1] = h /\ held[(Len(c) + Len(d)) + 1] = e
  <2>1. 1 \in 1 .. Len(c) + 1 /\ Len(d) + 1 \in 1 .. Len(d) + 1
        /\ Len(c) + (Len(d) + 1) = (Len(c) + Len(d)) + 1
    BY <1>3
  <2> QED
    BY <1>1, <1>2, <1>6, <1>7, <2>1
<1>10. \A i \in 1 .. Len(c) + Len(d) :
          Allowed(cd[i], held[i]) /\ held[i + 1] = Then(cd[i], held[i])
  <2> SUFFICES ASSUME NEW i \in 1 .. Len(c) + Len(d)
               PROVE  Allowed(cd[i], held[i]) /\ held[i + 1] = Then(cd[i], held[i])
    OBVIOUS
  <2>1. CASE i <= Len(c)
    <3>1. i \in 1 .. Len(c) /\ i \in 1 .. Len(c) + 1 /\ i + 1 \in 1 .. Len(c) + 1
      BY <1>3, <2>1
    <3>2. held[i] = f[i] /\ held[i + 1] = f[i + 1] /\ cd[i] = c[i]
      BY <1>5, <1>6, <2>1, <3>1
    <3> QED
      BY <1>1, <3>1, <3>2 DEF Traced
  <2>2. CASE ~(i <= Len(c))
    <3>0. i - Len(c) \in 1 .. Len(d) /\ i = Len(c) + (i - Len(c))
      BY <1>3, <2>2
    <3>1. PICK j \in 1 .. Len(d) : i = Len(c) + j /\ i - Len(c) = j
      BY <3>0
    <3>2. j \in 1 .. Len(d) + 1 /\ j + 1 \in 1 .. Len(d) + 1 /\ i + 1 = Len(c) + (j + 1)
      BY <1>3, <3>1
    <3>3. held[i] = g[j] /\ held[i + 1] = g[j + 1] /\ cd[i] = d[j]
      BY <1>5, <1>7, <2>2, <3>1, <3>2
    <3> QED
      BY <1>2, <3>1, <3>3 DEF Traced
  <2> QED
    BY <2>1, <2>2
<1>11. Traced(cd, held)
  BY <1>5, <1>10 DEF Traced
<1>12. Passes(cd, h, e)
  BY <1>5, <1>8, <1>9, <1>11 DEF Passes
<1> QED
  BY <1>4, <1>12

\* Three pieces.
LEMMA ThreePieces ==
  ASSUME NEW h \in SUBSET Mutexes, NEW p \in Piece, NEW q \in Piece, NEW r \in Piece,
         NEW k \in SUBSET Mutexes, k = Then(p, h),
         NEW l \in SUBSET Mutexes, l = Then(q, k),
         NEW e \in SUBSET Mutexes, e = Then(r, l),
         Allowed(p, h), Allowed(q, k), Allowed(r, l)
  PROVE  Passes(<<p, q, r>>, h, e)
<1> DEFINE held == [i \in 1 .. 4 |-> IF i = 1 THEN h ELSE IF i = 2 THEN k
                                      ELSE IF i = 3 THEN l ELSE e]
<1>1. /\ <<p, q, r>> \in Seq(Piece) /\ Len(<<p, q, r>>) = 3
      /\ <<p, q, r>>[1] = p /\ <<p, q, r>>[2] = q /\ <<p, q, r>>[3] = r
  OBVIOUS
<1>2. /\ held \in [1 .. 3 + 1 -> SUBSET Mutexes]
      /\ held[1] = h /\ held[2] = k /\ held[3] = l /\ held[4] = e
  OBVIOUS
<1> HIDE DEF held
<1>3. PICK c : c = <<p, q, r>>
  OBVIOUS
<1>4. \A i \in 1 .. 3 : Allowed(c[i], held[i]) /\ held[i + 1] = Then(c[i], held[i])
  <2>1. \A i \in 1 .. 3 : i = 1 \/ i = 2 \/ i = 3
    OBVIOUS
  <2>2. Allowed(c[1], held[1]) /\ held[1 + 1] = Then(c[1], held[1])
    BY <1>1, <1>2, <1>3
  <2>3. Allowed(c[2], held[2]) /\ held[2 + 1] = Then(c[2], held[2])
    BY <1>1, <1>2, <1>3
  <2>4. Allowed(c[3], held[3]) /\ held[3 + 1] = Then(c[3], held[3])
    BY <1>1, <1>2, <1>3
  <2> QED
    BY <2>1, <2>2, <2>3, <2>4
<1>5. Traced(c, held)
  BY <1>1, <1>3, <1>4 DEF Traced
<1>6. Passes(c, h, e)
  BY <1>1, <1>2, <1>3, <1>5 DEF Passes
<1> QED
  BY <1>3, <1>6

\* A critical section leaves what is held as it was.
LEMMA SectionPasses ==
  ASSUME NEW g \in Mutexes, NEW do, NEW on, [do |-> do, on |-> on] \in Piece,
         do \notin {"acquire", "release"},
         NEW h \in SUBSET Mutexes, h = {} \/ (h = {"VS"} /\ g = "TS"),
         Allowed([do |-> do, on |-> on], h \cup {g})
  PROVE  Passes(Section(g, do, on), h, h)
<1> DEFINE p == [do |-> "acquire", on |-> g]
           q == [do |-> do, on |-> on]
           r == [do |-> "release", on |-> g]
<1>1. p \in Piece /\ q \in Piece /\ r \in Piece
  BY DEF Piece
<1>2. h \cup {g} \in SUBSET Mutexes /\ g \notin h
  BY DEF Mutexes
<1>3. Allowed(p, h) /\ Then(p, h) = h \cup {g}
  BY DEF Allowed, Then
<1>4. Allowed(q, h \cup {g}) /\ Then(q, h \cup {g}) = h \cup {g}
  BY DEF Then
<1>5. Allowed(r, h \cup {g}) /\ Then(r, h \cup {g}) = h
  BY <1>2 DEF Allowed, Then
<1>6. Section(g, do, on) = <<p, q, r>>
  BY DEF Section
<1> HIDE DEF p, q, r
<1>7. PICK k : k = h \cup {g}
  OBVIOUS
<1>8. /\ k \in SUBSET Mutexes /\ k = Then(p, h) /\ k = Then(q, k) /\ h = Then(r, k)
      /\ Allowed(p, h) /\ Allowed(q, k) /\ Allowed(r, k)
  BY <1>2, <1>3, <1>4, <1>5, <1>7
<1>9. Passes(<<p, q, r>>, h, h)
  BY <1>1, <1>8, ThreePieces
<1> QED
  BY <1>6, <1>9

\* The lookups; that of a thread also inside that of a variable.
LEMMA Lookups ==
  /\ \A u \in Threads : Passes(getState(u), {}, {}) /\ Passes(getState(u), {"VS"}, {"VS"})
  /\ \A x \in Vars : Passes(getVarState(x), {}, {})
  /\ \A m \in Locks : Passes(getLockState(m), {}, {})
<1>0. {} \in SUBSET Mutexes /\ {"VS"} \in SUBSET Mutexes /\ "TS" \in Mutexes
      /\ "VS" \in Mutexes /\ "LS" \in Mutexes
  BY DEF Mutexes
<1>1. ASSUME NEW u \in Threads, NEW h, h \in {{}, {"VS"}}
      PROVE  Passes(getState(u), h, h)
  <2>1. [do |-> "state", on |-> u] \in Piece
    BY DEF Piece
  <2>2. Allowed([do |-> "state", on |-> u], h \cup {"TS"})
    BY DEF Allowed
  <2>3. Passes(Section("TS", "state", u), h, h)
    BY <1>0, <1>1, <2>1, <2>2, SectionPasses
  <2> QED
    BY <2>3 DEF getState
<1>2. ASSUME NEW x \in Vars PROVE Passes(getVarState(x), {}, {})
  <2>1. [do |-> "variable", on |-> x] \in Piece
    BY DEF Piece
  <2>2. Allowed([do |-> "variable", on |-> x], {} \cup {"VS"})
    BY DEF Allowed
  <2>3. Passes(Section("VS", "variable", x), {}, {})
    BY <1>0, <2>1, <2>2, SectionPasses
  <2> QED
    BY <2>3 DEF getVarState
<1>3. ASSUME NEW m \in Locks PROVE Passes(getLockState(m), {}, {})
  <2>1. [do |-> "mutex", on |-> m] \in Piece
    BY DEF Piece
  <2>2. Allowed([do |-> "mutex", on |-> m], {} \cup {"LS"})
    BY DEF Allowed
  <2>3. Passes(Section("LS", "mutex", m), {}, {})
    BY <1>0, <2>1, <2>2, SectionPasses
  <2> QED
    BY <2>3 DEF getLockState
<1> QED
  BY <1>1, <1>2, <1>3

\* Arguments evaluated in either order.
LEMMA ArgumentsPass ==
  ASSUME NEW p, NEW q, Passes(p, {}, {}), Passes(q, {}, {}), NEW args \in Arguments(p, q)
  PROVE  Passes(args, {}, {})
<1>1. Passes(p \o q, {}, {}) /\ Passes(q \o p, {}, {})
  BY Composed
<1> QED
  BY <1>1 DEF Arguments

\* A piece that nothing guards.
LEMMA FreePasses ==
  ASSUME NEW do \in {"adopt", "tick", "count", "uncount"}
  PROVE  Passes(<<[do |-> do]>>, {}, {})
<1> DEFINE p == [do |-> do]
<1>1. p \in Piece /\ Allowed(p, {}) /\ Then(p, {}) = {} /\ {} \in SUBSET Mutexes
  BY DEF Piece, Allowed, Then
<1> HIDE DEF p
<1>2. Passes(<<p>>, {}, {})
  BY <1>1, OnePiece
<1> QED
  BY <1>2 DEF p

\* Every callback keeps the rules and ends with nothing held.
LEMMA CallbacksPass ==
  ASSUME NEW t \in Threads, NEW op \in Op, NEW code \in Callbacks(t, op)
  PROVE  Passes(code, {}, {})
<1>0. {} \in SUBSET Mutexes /\ "TS" \in Mutexes /\ "VS" \in Mutexes /\ "LS" \in Mutexes
  BY DEF Mutexes
<1>1. CASE op.do = "create"
  <2>1. op.on \in Threads
    BY <1>1 DEF Op
  <2>2. PICK args \in Arguments(getState(t), getState(op.on)) :
           code = args \o <<[do |-> "count"]>> \o Section("TS", "fork", op.on)
    BY <1>1 DEF Callbacks, ft_fork
  <2>3. Passes(args, {}, {})
    BY <2>1, Lookups, ArgumentsPass
  <2>4. [do |-> "fork", on |-> op.on] \in Piece /\ Allowed([do |-> "fork", on |-> op.on], {} \cup {"TS"})
    BY <2>1 DEF Piece, Allowed
  <2>5. Passes(Section("TS", "fork", op.on), {}, {})
    BY <1>0, <2>4, SectionPasses
  <2>6. Passes(args \o <<[do |-> "count"]>>, {}, {})
    BY <2>3, FreePasses, Composed
  <2> QED
    BY <2>2, <2>5, <2>6, Composed
<1>2. CASE op.do = "join"
  <2>1. op.on \in Threads
    BY <1>2 DEF Op
  <2>2. PICK args \in Arguments(getState(t), getState(op.on)) :
           code = args \o <<[do |-> "uncount"]>> \o Section("TS", "join", op.on)
    BY <1>2 DEF Callbacks, ft_join
  <2>3. Passes(args, {}, {})
    BY <2>1, Lookups, ArgumentsPass
  <2>4. [do |-> "join", on |-> op.on] \in Piece /\ Allowed([do |-> "join", on |-> op.on], {} \cup {"TS"})
    BY <2>1 DEF Piece, Allowed
  <2>5. Passes(Section("TS", "join", op.on), {}, {})
    BY <1>0, <2>4, SectionPasses
  <2>6. Passes(args \o <<[do |-> "uncount"]>>, {}, {})
    BY <2>3, FreePasses, Composed
  <2> QED
    BY <2>2, <2>5, <2>6, Composed
<1>3. CASE op.do \in {"lock", "unlock"}
  <2>1. op.on \in Locks
    BY <1>3 DEF Op
  <2>2. PICK args \in Arguments(getState(t), getLockState(op.on)), do \in {"adopt", "tick"} :
           code = args \o Section("LS", "merge", op.on) \o <<[do |-> do]>>
    BY <1>3 DEF Callbacks, ft_acquire, ft_release
  <2>3. Passes(args, {}, {})
    BY <2>1, Lookups, ArgumentsPass
  <2>4. [do |-> "merge", on |-> op.on] \in Piece /\ Allowed([do |-> "merge", on |-> op.on], {} \cup {"LS"})
    BY <2>1 DEF Piece, Allowed
  <2>5. Passes(Section("LS", "merge", op.on), {}, {})
    BY <1>0, <2>4, SectionPasses
  <2>6. Passes(args \o Section("LS", "merge", op.on), {}, {})
    BY <2>3, <2>5, Composed
  <2>7. Passes(<<[do |-> do]>>, {}, {})
    BY FreePasses
  <2> QED
    BY <2>2, <2>6, <2>7, Composed
<1>4. CASE op.do \in {"read", "write"}
  <2>1. op.on \in Vars
    BY <1>4 DEF Op
  <2>2. code \in {<< >>} \/ code \in ft_access(t, op.on, op.do)
    BY <1>4 DEF Callbacks
  <2>3. CASE code = << >>
    BY <1>0, <2>3, NoCode
  <2>4. CASE code \in ft_access(t, op.on, op.do)
    <3>1. PICK args \in Arguments(getState(t), getVarState(op.on)) :
             code = args \o Section("VS", op.do, op.on)
      BY <2>4 DEF ft_access
    <3>2. Passes(args, {}, {})
      BY <2>1, Lookups, ArgumentsPass
    <3>3. PICK do \in {"read", "write"} : do = op.do
      BY <1>4
    <3>4. [do |-> do, on |-> op.on] \in Piece /\ Allowed([do |-> do, on |-> op.on], {} \cup {"VS"})
      BY <2>1 DEF Piece, Allowed
    <3>5. Passes(Section("VS", do, op.on), {}, {})
      BY <1>0, <3>4, SectionPasses
    <3> QED
      BY <3>1, <3>2, <3>3, <3>5, Composed
  <2> QED
    BY <2>2, <2>3, <2>4
<1> QED
  BY <1>1, <1>2, <1>3, <1>4 DEF Op

-----------------------------------------------------------------------------
(* The states.                                                               *)

\* The program has not begun, and no callback has.
LEMMA Initially == Init => IInv
<1> SUFFICES ASSUME Init PROVE IInv
  OBVIOUS
<1>1. MaxSize \in Nat
  BY MutexAssumption, FS_CardinalityType DEF MaxSize
<1>2. Nobody \notin Threads /\ \A t \in Threads : << >> \in Seq(Piece)
  BY MutexAssumption, EmptySeq
<1>3. TypeOK
  BY <1>1, <1>2 DEF Init, TypeOK, Mutexes
<1>4. \A t \in Threads : HeldBy(t) = {}
  BY <1>2 DEF Init, HeldBy
<1>5. Passes(<< >>, {}, {})
  BY NoCode
<1>6. CodeInv
  BY <1>4, <1>5 DEF Init, CodeInv
<1> QED
  BY <1>3, <1>6 DEF IInv

\* How many threads the map can hold.
LEMMA Sizes ==
  ASSUME TypeOK
  PROVE  /\ Cardinality(TS) \in Nat /\ Cardinality(TS) + 1 \in 0 .. MaxSize
         /\ \A h \in Threads \ TS : Cardinality(TS) + 1 \in 0 .. Cardinality(Threads)
         /\ MaxSize \in Nat /\ MaxSize = Cardinality(Threads) + 1
<1>1. IsFiniteSet(Threads) /\ TS \subseteq Threads
  BY MutexAssumption DEF TypeOK
<1>2. /\ Cardinality(Threads) \in Nat /\ IsFiniteSet(TS) /\ Cardinality(TS) \in Nat
      /\ Cardinality(TS) <= Cardinality(Threads)
  BY <1>1, FS_CardinalityType, FS_Subset
<1>3. ASSUME NEW h \in Threads \ TS PROVE Cardinality(TS) + 1 <= Cardinality(Threads)
  <2>1. TS \cup {h} \subseteq Threads
    BY <1>1
  <2>2. Cardinality(TS \cup {h}) = Cardinality(TS) + 1
    BY <1>2, FS_AddElement
  <2>3. Cardinality(TS \cup {h}) <= Cardinality(Threads)
    BY <1>1, <2>1, FS_Subset
  <2> QED
    BY <2>2, <2>3
<1> QED
  BY <1>2, <1>3 DEF MaxSize

\* What the next piece of a callback is, and what its thread may count on.
LEMMA AtHead ==
  ASSUME IInv, NEW t \in Threads, todo[t] # << >>
  PROVE  /\ Piece1(t) \in Piece /\ Allowed(Piece1(t), HeldBy(t))
         /\ Passes(Tail(todo[t]), Then(Piece1(t), HeldBy(t)), {})
         /\ Piece1(t).do = "acquire" \/ Piece1(t).do = "release" => Piece1(t).on \in Mutexes
         /\ Piece1(t).do \in {"state", "fork", "join"} => Piece1(t).on \in Threads
         /\ Piece1(t).do \in {"variable", "new_variable", "read", "write"} => Piece1(t).on \in Vars
         /\ Piece1(t).do \in {"mutex", "merge"} => Piece1(t).on \in Locks
<1>1. Passes(todo[t], HeldBy(t), {})
  BY DEF IInv, CodeInv
<1>2. /\ Piece1(t) \in Piece /\ Allowed(Piece1(t), HeldBy(t))
      /\ Passes(Tail(todo[t]), Then(Piece1(t), HeldBy(t)), {})
  BY <1>1, Rest DEF Piece1
<1> QED
  BY <1>2 DEF Piece

\* A step that goes on to the rest of the code keeps the rules when its
\* mutexes are those that the piece leaves, and no other thread's change.
LEMMA Continues ==
  ASSUME IInv, NEW t \in Threads, todo[t] # << >>,
         todo' = [todo EXCEPT ![t] = Tail(todo[t])],
         HeldBy(t)' = Then(Piece1(t), HeldBy(t)),
         \A u \in Threads \ {t} : HeldBy(u)' = HeldBy(u)
  PROVE  CodeInv' /\ todo' \in [Threads -> Seq(Piece)]
<1>1. Passes(Tail(todo[t]), Then(Piece1(t), HeldBy(t)), {})
  BY AtHead
<1>2. todo \in [Threads -> Seq(Piece)]
  BY DEF IInv, TypeOK
<1>3. Tail(todo[t]) \in Seq(Piece)
  BY <1>1 DEF Passes
<1>4. ASSUME NEW u \in Threads PROVE Passes(todo'[u], HeldBy(u)', {})
  <2>1. CASE u = t
    BY <1>1, <1>2, <2>1
  <2>2. CASE u # t
    <3>1. todo'[u] = todo[u] /\ HeldBy(u)' = HeldBy(u)
      BY <1>2, <2>2
    <3> QED
      BY <3>1 DEF IInv, CodeInv
  <2> QED
    BY <2>1, <2>2
<1>5. CodeInv'
  BY <1>4 DEF CodeInv
<1>6. todo' \in [Threads -> Seq(Piece)]
  BY <1>2, <1>3
<1> QED
  BY <1>5, <1>6

\* The same of a step that leaves the mutexes as they are.
LEMMA ContinuesUnlocked ==
  ASSUME IInv, NEW t \in Threads, todo[t] # << >>, UNCHANGED owner,
         Piece1(t).do \notin {"acquire", "release"},
         todo' = [todo EXCEPT ![t] = Tail(todo[t])]
  PROVE  CodeInv' /\ todo' \in [Threads -> Seq(Piece)]
<1>1. \A u \in Threads : HeldBy(u)' = HeldBy(u)
  BY DEF HeldBy
<1>2. Then(Piece1(t), HeldBy(t)) = HeldBy(t)
  BY DEF Then
<1> QED
  BY <1>1, <1>2, Continues

\* Proceed without more code.
LEMMA ProceedsTail ==
  ASSUME IInv, NEW t \in Threads, todo[t] # << >>, Proceed(t, << >>)
  PROVE  todo' = [todo EXCEPT ![t] = Tail(todo[t])]
<1>1. Tail(todo[t]) \in Seq(Piece)
  BY AtHead DEF Passes
<1>2. << >> \o Tail(todo[t]) = Tail(todo[t])
  BY <1>1, ConcatEmptySeq
<1> QED
  BY <1>2 DEF Proceed

\* The program goes on: its callback begins with nothing held.
LEMMA PerformKeeps ==
  ASSUME IInv, NEW t \in Threads, Perform(t)
  PROVE  IInv'
<1> DEFINE op == Program[t][step[t]]
<1>0. /\ todo[t] = << >> /\ step[t] <= Len(Program[t])
      /\ \E code \in Callbacks(t, op) : todo' = [todo EXCEPT ![t] = code]
      /\ step' = [step EXCEPT ![t] = step[t] + 1]
      /\ UNCHANGED <<owner, isConcurrent, TS, VS, LS, sizes>>
      /\ \/ op.do = "create" /\ life' = [life EXCEPT ![op.on] = "running"] /\ UNCHANGED holder
         \/ op.do = "join" /\ life' = [life EXCEPT ![op.on] = "joined"] /\ UNCHANGED holder
         \/ op.do = "lock" /\ holder' = [holder EXCEPT ![op.on] = t] /\ UNCHANGED life
         \/ UNCHANGED <<life, holder>>
  BY DEF Perform, Inside
<1>1. op \in Op
  <2>1. Program[t] \in Seq(Op) /\ step[t] \in Nat \ {0}
    BY MutexAssumption DEF IInv, TypeOK
  <2>2. step[t] \in 1 .. Len(Program[t])
    BY <1>0, <2>1, LenProperties
  <2> QED
    BY <2>1, <2>2, ElementOfSeq
<1>2. PICK code \in Callbacks(t, op) : todo' = [todo EXCEPT ![t] = code]
  BY <1>0
<1>3. Passes(code, {}, {})
  BY <1>1, CallbacksPass
<1> HIDE DEF op
<1>4. todo \in [Threads -> Seq(Piece)]
  BY DEF IInv, TypeOK
<1>5. HeldBy(t) = {}
  <2>1. Passes(<< >>, HeldBy(t), {})
    BY <1>0 DEF IInv, CodeInv
  <2>2. HeldBy(t) \in SUBSET Mutexes
    BY DEF HeldBy
  <2> QED
    BY <2>1, <2>2, NoCode
<1>6. \A u \in Threads : HeldBy(u)' = HeldBy(u)
  BY <1>0 DEF HeldBy
<1>7. CodeInv'
  <2>1. ASSUME NEW u \in Threads PROVE Passes(todo'[u], HeldBy(u)', {})
    <3>1. CASE u = t
      BY <1>2, <1>3, <1>4, <1>5, <1>6, <3>1
    <3>2. CASE u # t
      <4>1. todo'[u] = todo[u] /\ HeldBy(u)' = HeldBy(u)
        BY <1>2, <1>4, <1>6, <3>2
      <4> QED
        BY <4>1 DEF IInv, CodeInv
    <3> QED
      BY <3>1, <3>2
  <2> QED
    BY <2>1 DEF CodeInv
<1>8. TypeOK'
  <2>1. todo' \in [Threads -> Seq(Piece)]
    <3>1. code \in Seq(Piece)
      BY <1>3 DEF Passes
    <3> QED
      BY <1>2, <1>4, <3>1
  <2>2. step' \in [Threads -> Nat \ {0}]
    BY <1>0 DEF IInv, TypeOK
  <2>3. life' \in [Threads -> {"unborn", "running", "joined"}]
        /\ holder' \in [Locks -> Threads \cup {Nobody}]
    <3>1. /\ life \in [Threads -> {"unborn", "running", "joined"}]
          /\ holder \in [Locks -> Threads \cup {Nobody}]
      BY DEF IInv, TypeOK
    <3>2. CASE op.do = "create" /\ life' = [life EXCEPT ![op.on] = "running"] /\ UNCHANGED holder
      BY <3>1, <3>2
    <3>3. CASE op.do = "join" /\ life' = [life EXCEPT ![op.on] = "joined"] /\ UNCHANGED holder
      BY <3>1, <3>3
    <3>4. CASE op.do = "lock" /\ holder' = [holder EXCEPT ![op.on] = t] /\ UNCHANGED life
      BY <3>1, <3>4
    <3>5. CASE UNCHANGED <<life, holder>>
      BY <3>1, <3>5
    <3> QED
      BY <1>0, <3>2, <3>3, <3>4, <3>5
  <2> QED
    BY <1>0, <2>1, <2>2, <2>3 DEF IInv, TypeOK, sizes
<1> QED
  BY <1>7, <1>8 DEF IInv

\* A mutex is taken when nobody has it, and given back by who has it.
LEMMA MutexKeeps ==
  ASSUME IInv, NEW t \in Threads, Acquire(t) \/ Release(t)
  PROVE  IInv'
<1> PICK g : g = Piece1(t).on
  OBVIOUS
<1>0. /\ todo[t] # << >> /\ Proceed(t, << >>)
      /\ UNCHANGED <<program, isConcurrent, TS, VS, LS, sizes>>
      /\ \/ /\ Piece1(t).do = "acquire" /\ owner[g] = Nobody
            /\ owner' = [owner EXCEPT ![g] = t]
         \/ Piece1(t).do = "release" /\ owner' = [owner EXCEPT ![g] = Nobody]
  BY DEF Acquire, Release, AtPiece, Inside
<1>1. g \in Mutexes /\ owner \in [Mutexes -> Threads \cup {Nobody}] /\ Nobody \notin Threads
  BY <1>0, AtHead, MutexAssumption DEF IInv, TypeOK
<1>2. todo' = [todo EXCEPT ![t] = Tail(todo[t])]
  BY <1>0, ProceedsTail
<1>3. HeldBy(t)' = Then(Piece1(t), HeldBy(t)) /\ \A u \in Threads \ {t} : HeldBy(u)' = HeldBy(u)
  <2>1. CASE Piece1(t).do = "acquire" /\ owner[g] = Nobody /\ owner' = [owner EXCEPT ![g] = t]
    BY <1>1, <2>1 DEF HeldBy, Then
  <2>2. CASE Piece1(t).do = "release" /\ owner' = [owner EXCEPT ![g] = Nobody]
    <3>1. owner[g] = t
      <4>1. g \in HeldBy(t)
        BY <1>0, <2>2, AtHead DEF Allowed
      <4> QED
        BY <4>1 DEF HeldBy
    <3> QED
      BY <1>1, <2>2, <3>1 DEF HeldBy, Then
  <2> QED
    BY <1>0, <2>1, <2>2
<1>4. CodeInv' /\ todo' \in [Threads -> Seq(Piece)]
  BY <1>0, <1>2, <1>3, Continues
<1>5. owner' \in [Mutexes -> Threads \cup {Nobody}]
  BY <1>0, <1>1
<1> QED
  BY <1>0, <1>4, <1>5 DEF IInv, TypeOK, program, sizes

\* The registration of a thread.
LEMMA FindStateKeeps ==
  ASSUME IInv, NEW t \in Threads, FindState(t)
  PROVE  IInv'
<1> PICK h : h = Piece1(t).on
  OBVIOUS
<1>0. /\ todo[t] # << >> /\ Piece1(t).do = "state" /\ TS' = TS \cup {h}
      /\ size' = IF h \in TS THEN size ELSE UpdateThreadClocks(Cardinality(TS) + 1)
      /\ Proceed(t, << >>)
      /\ UNCHANGED <<program, owner, isConcurrent, VS, LS, lsize>>
  BY DEF FindState, AtPiece, Inside
<1>1. h \in Threads
  BY <1>0, AtHead
<1>2. todo' = [todo EXCEPT ![t] = Tail(todo[t])]
  BY <1>0, ProceedsTail
<1>3. CodeInv' /\ todo' \in [Threads -> Seq(Piece)]
  BY <1>0, <1>2, ContinuesUnlocked
<1>4. size' \in [Threads -> 0 .. MaxSize] /\ TS' \subseteq Threads
  <2>1. Cardinality(TS) + 1 \in 0 .. MaxSize /\ size \in [Threads -> 0 .. MaxSize]
    BY Sizes DEF IInv, TypeOK
  <2>2. UpdateThreadClocks(Cardinality(TS) + 1) \in [Threads -> 0 .. MaxSize]
    BY <2>1 DEF UpdateThreadClocks
  <2> QED
    BY <1>0, <1>1, <2>1, <2>2 DEF IInv, TypeOK
<1> QED
  BY <1>0, <1>3, <1>4 DEF IInv, TypeOK, program

\* The lookup of a variable goes on, when it is new, to that of the thread.
LEMMA FindVariableKeeps ==
  ASSUME IInv, NEW t \in Threads, FindVariable(t)
  PROVE  IInv'
<1> PICK x : x = Piece1(t).on
  OBVIOUS
<1>0. /\ todo[t] # << >> /\ Piece1(t).do = "variable"
      /\ Proceed(t, IF x \in VS THEN << >> ELSE getState(t) \o <<[do |-> "new_variable", on |-> x]>>)
      /\ UNCHANGED <<program, owner, isConcurrent, TS, VS, LS, sizes>>
  BY DEF FindVariable, AtPiece, Inside
<1>1. x \in Vars /\ HeldBy(t) = {"VS"} /\ Passes(Tail(todo[t]), {"VS"}, {})
  BY <1>0, AtHead DEF Allowed, Then
<1>2. CASE x \in VS
  <2>1. todo' = [todo EXCEPT ![t] = Tail(todo[t])]
    BY <1>0, <1>2, ProceedsTail
  <2>2. CodeInv' /\ todo' \in [Threads -> Seq(Piece)]
    BY <1>0, <2>1, ContinuesUnlocked
  <2> QED
    BY <1>0, <2>2 DEF IInv, TypeOK, program, sizes
<1>3. CASE x \notin VS
  <2> DEFINE p == [do |-> "new_variable", on |-> x]
  <2>1. Passes(getState(t), {"VS"}, {"VS"})
    BY Lookups
  <2>2. p \in Piece /\ Allowed(p, {"VS"}) /\ Then(p, {"VS"}) = {"VS"} /\ {"VS"} \in SUBSET Mutexes
    BY <1>1 DEF Piece, Allowed, Then, Mutexes
  <2> HIDE DEF p
  <2>3. Passes(<<p>>, {"VS"}, {"VS"})
    BY <2>2, OnePiece
  <2>4. Passes(getState(t) \o <<p>>, {"VS"}, {"VS"})
    BY <2>1, <2>3, Composed
  <2>5. PICK c : c = (getState(t) \o <<p>>) \o Tail(todo[t])
    OBVIOUS
  <2>6. Passes(c, {"VS"}, {})
    BY <1>1, <2>4, <2>5, Composed
  <2>7. todo' = [todo EXCEPT ![t] = c]
    BY <1>0, <1>3, <2>5 DEF Proceed, p
  <2>8. todo \in [Threads -> Seq(Piece)] /\ c \in Seq(Piece)
    BY <2>6 DEF IInv, TypeOK, Passes
  <2>9. \A u \in Threads : HeldBy(u)' = HeldBy(u)
    BY <1>0 DEF HeldBy
  <2>10. ASSUME NEW u \in Threads PROVE Passes(todo'[u], HeldBy(u)', {})
    <3>1. CASE u = t
      BY <1>1, <2>6, <2>7, <2>8, <2>9, <3>1
    <3>2. CASE u # t
      <4>1. todo'[u] = todo[u] /\ HeldBy(u)' = HeldBy(u)
        BY <2>7, <2>8, <2>9, <3>2
      <4> QED
        BY <4>1 DEF IInv, CodeInv
    <3> QED
      BY <3>1, <3>2
  <2>11. CodeInv'
    BY <2>10 DEF CodeInv
  <2>12. todo' \in [Threads -> Seq(Piece)]
    BY <2>7, <2>8
  <2> QED
    BY <1>0, <2>11, <2>12 DEF IInv, TypeOK, program, sizes
<1> QED
  BY <1>2, <1>3

\* The steps that change the maps, the vectors and the count.
LEMMA DataKeeps ==
  ASSUME IInv, NEW t \in Threads,
         \/ NewVariable(t) \/ FindMutex(t) \/ Merge(t) \/ ForkOrJoin(t)
         \/ Count(t) \/ Adopt(t) \/ Judge(t)
  PROVE  IInv'
<1>0. /\ todo[t] # << >> /\ Proceed(t, << >>) /\ UNCHANGED owner
      /\ Piece1(t).do \notin {"acquire", "release"}
      /\ UNCHANGED <<life, step, TS>>
  BY DEF NewVariable, FindMutex, Merge, ForkOrJoin, Count, Adopt, Judge, AtPiece, Inside, program
<1>1. todo' = [todo EXCEPT ![t] = Tail(todo[t])]
  BY <1>0, ProceedsTail
<1>2. CodeInv' /\ todo' \in [Threads -> Seq(Piece)]
  BY <1>0, <1>1, ContinuesUnlocked
<1>3. TypeOK
  BY DEF IInv
<1>4. isConcurrent' \in Nat
  BY <1>3 DEF TypeOK, NewVariable, FindMutex, Merge, ForkOrJoin, Count, Adopt, Judge
<1>5. VS' \subseteq Vars /\ LS' \subseteq Locks
  <2>1. CASE NewVariable(t)
    <3>1. Piece1(t).on \in Vars
      BY <1>0, <2>1, AtHead DEF NewVariable, AtPiece
    <3> QED
      BY <1>3, <2>1, <3>1 DEF TypeOK, NewVariable
  <2>2. CASE FindMutex(t)
    <3>1. Piece1(t).on \in Locks
      BY <1>0, <2>2, AtHead DEF FindMutex, AtPiece
    <3> QED
      BY <1>3, <2>2, <3>1 DEF TypeOK, FindMutex
  <2>3. CASE ~NewVariable(t) /\ ~FindMutex(t)
    BY <1>3, <2>3 DEF TypeOK, Merge, ForkOrJoin, Count, Adopt, Judge
  <2> QED
    BY <2>1, <2>2, <2>3
<1>6. holder' \in [Locks -> Threads \cup {Nobody}]
  BY <1>3 DEF TypeOK, NewVariable, FindMutex, Merge, ForkOrJoin, Count, Adopt, Judge, program
<1>7. size' \in [Threads -> 0 .. MaxSize] /\ lsize' \in [Locks -> 0 .. MaxSize]
  <2>0. size \in [Threads -> 0 .. MaxSize] /\ lsize \in [Locks -> 0 .. MaxSize]
    BY <1>3 DEF TypeOK
  <2>1. CASE FindMutex(t)
    <3>1. Cardinality(TS) + 1 \in 0 .. MaxSize
      BY <1>3, Sizes
    <3>2. PICK n \in 0 .. MaxSize : n = Cardinality(TS) + 1
      BY <3>1
    <3>3. UNCHANGED size /\ (UNCHANGED lsize \/ lsize' = [lsize EXCEPT ![Piece1(t).on] = n])
      BY <2>1, <3>2 DEF FindMutex
    <3> QED
      BY <2>0, <3>3
  <2>2. CASE Merge(t)
    <3>1. Piece1(t).on \in Locks
      BY <1>0, <2>2, AtHead DEF Merge, AtPiece
    <3>2. PICK n : n = Longer(size[t], lsize[Piece1(t).on])
      OBVIOUS
    <3>3. n \in 0 .. MaxSize
      BY <2>0, <3>1, <3>2 DEF Longer
    <3>4. size' = [size EXCEPT ![t] = n] /\ lsize' = [lsize EXCEPT ![Piece1(t).on] = n]
      BY <2>2, <3>2 DEF Merge
    <3> QED
      BY <2>0, <3>3, <3>4
  <2>3. CASE ForkOrJoin(t)
    <3>1. Piece1(t).on \in Threads
      BY <1>0, <2>3, AtHead DEF ForkOrJoin, AtPiece
    <3>2. PICK n : n = Longer(size[t], size[Piece1(t).on])
      OBVIOUS
    <3>3. n \in 0 .. MaxSize
      BY <2>0, <3>1, <3>2 DEF Longer
    <3>4. size' = [size EXCEPT ![t] = n, ![Piece1(t).on] = n] /\ UNCHANGED lsize
      BY <2>3, <3>2 DEF ForkOrJoin
    <3> QED
      BY <2>0, <3>3, <3>4
  <2>4. CASE ~FindMutex(t) /\ ~Merge(t) /\ ~ForkOrJoin(t)
    BY <2>0, <2>4 DEF NewVariable, Count, Adopt, Judge, sizes
  <2> QED
    BY <2>1, <2>2, <2>3, <2>4
<1>8. life' \in [Threads -> {"unborn", "running", "joined"}] /\ step' \in [Threads -> Nat \ {0}]
      /\ owner' \in [Mutexes -> Threads \cup {Nobody}] /\ TS' \subseteq Threads
  BY <1>0, <1>3 DEF TypeOK
<1> QED
  BY <1>2, <1>4, <1>5, <1>6, <1>7, <1>8 DEF IInv, TypeOK

\* No step leaves the invariant.
LEMMA Step == IInv /\ [Next]_vars => IInv'
<1> SUFFICES ASSUME IInv, [Next]_vars PROVE IInv'
  OBVIOUS
<1>1. ASSUME NEW t \in Threads, Perform(t) \/ CallbackStep(t) PROVE IInv'
  <2>1. CASE Perform(t)
    BY <2>1, PerformKeeps
  <2>2. CASE Acquire(t) \/ Release(t)
    BY <2>2, MutexKeeps
  <2>3. CASE FindState(t)
    BY <2>3, FindStateKeeps
  <2>4. CASE FindVariable(t)
    BY <2>4, FindVariableKeeps
  <2>5. CASE \/ NewVariable(t) \/ FindMutex(t) \/ Merge(t) \/ ForkOrJoin(t)
             \/ Count(t) \/ Adopt(t) \/ Judge(t)
    BY <2>5, DataKeeps
  <2> QED
    BY <1>1, <2>1, <2>2, <2>3, <2>4, <2>5 DEF CallbackStep
<1>2. CASE UNCHANGED vars
  <2>1. \A u : HeldBy(u)' = HeldBy(u)
    BY <1>2 DEF vars, HeldBy
  <2>2. CodeInv'
    BY <1>2, <2>1 DEF vars, IInv, CodeInv
  <2>3. TypeOK'
    BY <1>2 DEF vars, IInv, TypeOK
  <2> QED
    BY <2>2, <2>3 DEF IInv
<1> QED
  BY <1>1, <1>2 DEF Next

-----------------------------------------------------------------------------
\* The invariant of all that follows.
THEOREM Invariance == Spec => []IInv
<1> QED
  BY Initially, Step, PTL DEF Spec

\* No vector outgrows the number of threads by more than the one entry that
\* getLockState adds; every variable has its type.
THEOREM TypeCorrect == Spec => []TypeOK
<1>1. IInv => TypeOK
  BY DEF IInv
<1> QED
  BY <1>1, Invariance, PTL

\* A thread that waits for a mutex of the runtime holds none, or waits for TS
\* in getVarState with VS: the callbacks cannot wait for each other in a ring.
THEOREM Ordered == Spec => []LockOrder
<1>1. IInv => LockOrder
  <2> SUFFICES ASSUME IInv, NEW t \in Threads, NEW g \in Mutexes, NEW k \in Mutexes,
                      WaitsFor(t, g), Holds(t, k)
               PROVE  g = "TS" /\ k = "VS"
    BY DEF LockOrder
  <2>1. todo[t] # << >> /\ Piece1(t).do = "acquire" /\ Piece1(t).on = g
    BY DEF WaitsFor, AtPiece, Inside
  <2>2. k \in HeldBy(t)
    BY DEF Holds, HeldBy
  <2> QED
    BY <2>1, <2>2, AtHead DEF Allowed
<1> QED
  BY <1>1, Invariance, PTL

\* The mutex under which a word is touched.
Guard(w) == IF w.kind = "map" THEN w.of ELSE IF w.kind = "shadow" THEN "VS" ELSE "LS"

\* Who touches a map, a shadow word or the clocks of a mutex holds its guard.
LEMMA TouchedUnderGuard ==
  ASSUME IInv, NEW t \in Threads, NEW w \in Reads(t) \cup Writes(t),
         w.kind \in {"map", "shadow", "L"}
  PROVE  Guard(w) \in HeldBy(t)
<1> DEFINE p == Piece1(t)
<1>1. todo[t] # << >>
  BY DEF Reads, Writes, Inside
<1>2. p \in Piece /\ Allowed(p, HeldBy(t))
  BY <1>1, AtHead
<1> HIDE DEF p
<1>3. CASE p.do = "state"
  <2>1. w.kind = "map" /\ w.of = "TS"
    BY <1>1, <1>3 DEF Reads, Writes, Word, Inside, p
  <2> QED
    BY <1>2, <1>3, <2>1 DEF Allowed, Guard
<1>4. CASE p.do = "variable"
  <2>1. w.kind = "map" /\ w.of = "VS"
    BY <1>1, <1>4 DEF Reads, Writes, Word, Inside, p
  <2> QED
    BY <1>2, <1>4, <2>1 DEF Allowed, Guard
<1>5. CASE p.do \in {"new_variable", "read", "write"}
  <2>1. w.kind = "shadow" \/ (w.kind = "map" /\ w.of = "VS")
    BY <1>1, <1>5 DEF Reads, Writes, Word, Inside, p
  <2> QED
    BY <1>2, <1>5, <2>1 DEF Allowed, Guard
<1>6. CASE p.do \in {"mutex", "merge"}
  <2>1. w.kind = "L" \/ (w.kind = "map" /\ w.of = "LS")
    BY <1>1, <1>6 DEF Reads, Writes, Word, Inside, p
  <2> QED
    BY <1>2, <1>6, <2>1 DEF Allowed, Guard
<1>7. CASE p.do \in {"acquire", "release", "fork", "join", "adopt", "tick", "count", "uncount"}
  BY <1>1, <1>7 DEF Reads, Writes, Word, Inside, p
<1> QED
  BY <1>2, <1>3, <1>4, <1>5, <1>6, <1>7 DEF Piece

\* In every interleaving, no two threads are about to touch one entry of a map,
\* one shadow word or the clocks of one mutex.
THEOREM Guarded == Spec => []MapsGuarded
<1>1. IInv => MapsGuarded
  <2> SUFFICES ASSUME IInv, NEW t \in Threads, NEW u \in Threads, t # u,
                      NEW w \in Writes(t) \cap (Reads(u) \cup Writes(u)),
                      w.kind \in {"map", "shadow", "L"}
               PROVE  FALSE
    BY DEF MapsGuarded, Clash
  <2>1. Guard(w) \in HeldBy(t) /\ Guard(w) \in HeldBy(u)
    BY TouchedUnderGuard
  <2> QED
    BY <2>1 DEF HeldBy
<1> QED
  BY <1>1, Invariance, PTL

-----------------------------------------------------------------------------
(* The callbacks never all wait.                                             *)

\* Whoever holds a mutex of the runtime is inside a callback.
LEMMA HolderInside ==
  ASSUME IInv, NEW t \in Threads, NEW g \in HeldBy(t)
  PROVE  Inside(t)
<1>1. Passes(todo[t], HeldBy(t), {}) /\ HeldBy(t) \in SUBSET Mutexes
  BY DEF IInv, CodeInv, HeldBy
<1>2. todo[t] = << >> => HeldBy(t) = {}
  BY <1>1, NoCode
<1> QED
  BY <1>2 DEF Inside

\* Of the threads inside callbacks, however many, one is not waiting for a
\* mutex of the runtime that another holds.
THEOREM NoDeadlock == Spec => []NeverAllBlocked
<1>1. IInv => NeverAllBlocked
  <2> SUFFICES ASSUME IInv, NEW t \in Threads, Inside(t),
                      \A u \in Threads : Inside(u) => Blocked(u)
               PROVE  FALSE
    BY DEF NeverAllBlocked
  <2>0. /\ owner \in [Mutexes -> Threads \cup {Nobody}]
        /\ \A u \in Threads : \A g \in Mutexes : g \in HeldBy(u) <=> owner[g] = u
    BY DEF IInv, TypeOK, HeldBy
  \* Whoever holds a mutex waits for TS with VS.
  <2>1. ASSUME NEW u \in Threads, NEW k \in HeldBy(u) PROVE k = "VS" /\ owner["TS"] # Nobody
    <3>1. PICK g \in Mutexes : WaitsFor(u, g) /\ owner[g] # Nobody
      BY <2>1, HolderInside DEF Blocked
    <3>2. /\ todo[u] # << >> /\ Piece1(u).do = "acquire" /\ Piece1(u).on = g
      BY <3>1 DEF WaitsFor, AtPiece, Inside
    <3>3. HeldBy(u) = {} \/ (HeldBy(u) = {"VS"} /\ g = "TS")
      BY <3>2, AtHead DEF Allowed
    <3> QED
      BY <2>1, <3>1, <3>3
  \* t waits for a mutex that somebody holds.
  <2>2. PICK g \in Mutexes : owner[g] # Nobody
    BY DEF Blocked
  <2>3. PICK u \in Threads : owner[g] = u
    BY <2>0, <2>2
  <2>4. owner["TS"] # Nobody /\ "TS" \in Mutexes
    BY <2>0, <2>1, <2>3 DEF Mutexes
  <2>5. PICK v \in Threads : owner["TS"] = v
    BY <2>0, <2>4
  <2>6. "TS" \in HeldBy(v)
    BY <2>0, <2>4, <2>5
  <2> QED
    BY <2>1, <2>6
<1> QED
  BY <1>1, Invariance, PTL

-----------------------------------------------------------------------------
(* The vectors of the threads.                                               *)

\* Code that joins no thread, and code that joins those that are over.
Pure == {p \in Piece : p.do # "join"}

Timely == {p \in Piece : p.do = "join" => life[p.on] = "joined"}

\* A callback joins only threads that are over, which are in no callback.
JoinInv ==
  /\ \A t \in Threads : todo[t] \in Seq(Timely)
  /\ \A t \in Threads : life[t] = "joined" => todo[t] = << >>

\* The code of a callback, made of pieces of S.
LEMMA CallbacksAreOf ==
  ASSUME NEW t \in Threads, NEW op \in Op, NEW code \in Callbacks(t, op),
         NEW S, Pure \subseteq S,
         op.do = "join" => [do |-> "join", on |-> op.on] \in S
  PROVE  code \in Seq(S)
<1>1. ASSUME NEW g \in Mutexes, NEW do, NEW on, [do |-> do, on |-> on] \in S
      PROVE  Section(g, do, on) \in Seq(S)
  <2>1. [do |-> "acquire", on |-> g] \in S /\ [do |-> "release", on |-> g] \in S
    BY DEF Pure, Piece
  <2> QED
    BY <1>1, <2>1 DEF Section
<1>2. "TS" \in Mutexes /\ "VS" \in Mutexes /\ "LS" \in Mutexes
  BY DEF Mutexes
<1>3. \A u \in Threads : getState(u) \in Seq(S)
  <2> SUFFICES ASSUME NEW u \in Threads PROVE getState(u) \in Seq(S)
    OBVIOUS
  <2>1. [do |-> "state", on |-> u] \in S
    BY DEF Pure, Piece
  <2> QED
    BY <1>1, <1>2, <2>1 DEF getState
<1>4. \A x \in Vars : getVarState(x) \in Seq(S)
  <2> SUFFICES ASSUME NEW x \in Vars PROVE getVarState(x) \in Seq(S)
    OBVIOUS
  <2>1. [do |-> "variable", on |-> x] \in S
    BY DEF Pure, Piece
  <2> QED
    BY <1>1, <1>2, <2>1 DEF getVarState
<1>5. \A m \in Locks : getLockState(m) \in Seq(S)
  <2> SUFFICES ASSUME NEW m \in Locks PROVE getLockState(m) \in Seq(S)
    OBVIOUS
  <2>1. [do |-> "mutex", on |-> m] \in S
    BY DEF Pure, Piece
  <2> QED
    BY <1>1, <1>2, <2>1 DEF getLockState
<1>6. \A p, q : p \in Seq(S) /\ q \in Seq(S) => p \o q \in Seq(S)
  BY ConcatProperties
<1>7. \A p, q : p \in Seq(S) /\ q \in Seq(S) => \A args \in Arguments(p, q) : args \in Seq(S)
  <2> SUFFICES ASSUME NEW p \in Seq(S), NEW q \in Seq(S), NEW args \in Arguments(p, q)
               PROVE  args \in Seq(S)
    OBVIOUS
  <2>1. args = p \o q \/ args = q \o p
    BY DEF Arguments
  <2> QED
    BY <1>6, <2>1
<1>8. \A do \in {"adopt", "tick", "count", "uncount"} : <<[do |-> do]>> \in Seq(S)
  <2> SUFFICES ASSUME NEW do \in {"adopt", "tick", "count", "uncount"}
               PROVE  <<[do |-> do]>> \in Seq(S)
    OBVIOUS
  <2>1. [do |-> do] \in S
    BY DEF Pure, Piece
  <2> QED
    BY <2>1
<1>9. CASE op.do = "create"
  <2>1. op.on \in Threads
    BY <1>9 DEF Op
  <2>2. PICK args \in Arguments(getState(t), getState(op.on)) :
           code = args \o <<[do |-> "count"]>> \o Section("TS", "fork", op.on)
    BY <1>9 DEF Callbacks, ft_fork
  <2>3. args \in Seq(S) /\ <<[do |-> "count"]>> \in Seq(S)
    BY <1>3, <1>7, <1>8, <2>1
  <2>4. [do |-> "fork", on |-> op.on] \in S
    BY <2>1 DEF Pure, Piece
  <2>5. Section("TS", "fork", op.on) \in Seq(S)
    BY <1>1, <1>2, <2>4
  <2> QED
    BY <1>6, <2>2, <2>3, <2>5
<1>10. CASE op.do = "join"
  <2>1. op.on \in Threads
    BY <1>10 DEF Op
  <2>2. PICK args \in Arguments(getState(t), getState(op.on)) :
           code = args \o <<[do |-> "uncount"]>> \o Section("TS", "join", op.on)
    BY <1>10 DEF Callbacks, ft_join
  <2>3. args \in Seq(S) /\ <<[do |-> "uncount"]>> \in Seq(S)
    BY <1>3, <1>7, <1>8, <2>1
  <2>4. Section("TS", "join", op.on) \in Seq(S)
    BY <1>1, <1>2, <1>10
  <2> QED
    BY <1>6, <2>2, <2>3, <2>4
<1>11. CASE op.do \in {"lock", "unlock"}
  <2>1. op.on \in Locks
    BY <1>11 DEF Op
  <2>2. PICK args \in Arguments(getState(t), getLockState(op.on)), do \in {"adopt", "tick"} :
           code = args \o Section("LS", "merge", op.on) \o <<[do |-> do]>>
    BY <1>11 DEF Callbacks, ft_acquire, ft_release
  <2>3. args \in Seq(S) /\ <<[do |-> do]>> \in Seq(S)
    BY <1>3, <1>5, <1>7, <1>8, <2>1
  <2>4. [do |-> "merge", on |-> op.on] \in S
    BY <2>1 DEF Pure, Piece
  <2>5. Section("LS", "merge", op.on) \in Seq(S)
    BY <1>1, <1>2, <2>4
  <2> QED
    BY <1>6, <2>2, <2>3, <2>5
<1>12. CASE op.do \in {"read", "write"}
  <2>1. op.on \in Vars
    BY <1>12 DEF Op
  <2>2. CASE code = << >>
    BY <2>2
  <2>3. CASE code \in ft_access(t, op.on, op.do)
    <3>1. PICK args \in Arguments(getState(t), getVarState(op.on)) :
             code = args \o Section("VS", op.do, op.on)
      BY <2>3 DEF ft_access
    <3>2. args \in Seq(S)
      BY <1>3, <1>4, <1>7, <2>1
    <3>3. PICK do \in {"read", "write"} : do = op.do
      BY <1>12
    <3>4. [do |-> do, on |-> op.on] \in S
      BY <2>1 DEF Pure, Piece
    <3>5. Section("VS", do, op.on) \in Seq(S)
      BY <1>1, <1>2, <3>4
    <3> QED
      BY <1>6, <3>1, <3>2, <3>3, <3>5
  <2> QED
    BY <1>12, <2>2, <2>3 DEF Callbacks
<1> QED
  BY <1>9, <1>10, <1>11, <1>12 DEF Op

\* Sequences of more are sequences.
LEMMA SeqGrows ==
  ASSUME NEW S, NEW T, S \subseteq T
  PROVE  Seq(S) \subseteq Seq(T)
<1> SUFFICES ASSUME NEW s \in Seq(S) PROVE s \in Seq(T)
  OBVIOUS
<1>1. /\ Len(s) \in Nat /\ s = [i \in 1 .. Len(s) |-> s[i]]
      /\ \A i \in 1 .. Len(s) : s[i] \in T
  BY LenProperties, ElementOfSeq
<1>2. [i \in 1 .. Len(s) |-> s[i]] \in Seq(T)
  BY <1>1, IsASeq
<1> QED
  BY <1>1, <1>2

\* A callback goes on by one piece; the lookups it may add join nobody.
LEMMA GoesOn ==
  ASSUME IInv, NEW t \in Threads, CallbackStep(t)
  PROVE  /\ todo[t] # << >> /\ UNCHANGED life
         /\ \E more \in Seq(Pure) : todo' = [todo EXCEPT ![t] = more \o Tail(todo[t])]
<1>1. << >> \in Seq(Pure)
  OBVIOUS
<1>2. CASE ~FindVariable(t)
  <2>1. todo[t] # << >> /\ UNCHANGED life /\ Proceed(t, << >>)
    BY <1>2 DEF CallbackStep, Acquire, Release, FindState, NewVariable, FindMutex, Merge,
       ForkOrJoin, Count, Adopt, Judge, AtPiece, Inside, program
  <2> QED
    BY <1>1, <2>1 DEF Proceed
<1>3. CASE FindVariable(t)
  <2> PICK x : x = Piece1(t).on
    OBVIOUS
  <2>1. /\ todo[t] # << >> /\ Piece1(t).do = "variable" /\ UNCHANGED life
        /\ Proceed(t, IF x \in VS THEN << >>
                      ELSE getState(t) \o <<[do |-> "new_variable", on |-> x]>>)
    BY <1>3 DEF FindVariable, AtPiece, Inside, program
  <2>2. x \in Vars
    BY <2>1, AtHead
  <2>3. [do |-> "new_variable", on |-> x] \in Pure /\ [do |-> "state", on |-> t] \in Pure
        /\ [do |-> "acquire", on |-> "TS"] \in Pure /\ [do |-> "release", on |-> "TS"] \in Pure
    BY <2>2 DEF Pure, Piece, Mutexes
  <2>4. getState(t) \in Seq(Pure) /\ <<[do |-> "new_variable", on |-> x]>> \in Seq(Pure)
    BY <2>3 DEF getState, Section
  <2>5. getState(t) \o <<[do |-> "new_variable", on |-> x]>> \in Seq(Pure)
    BY <2>4, ConcatProperties
  <2> QED
    BY <1>1, <2>1, <2>5 DEF Proceed
<1> QED
  BY <1>2, <1>3

\* Nobody joins, or is over, before anybody is born.
LEMMA JoinInitially == Init => JoinInv
<1> SUFFICES ASSUME Init PROVE JoinInv
  OBVIOUS
<1>1. << >> \in Seq(Timely)
  OBVIOUS
<1> QED
  BY <1>1 DEF Init, JoinInv

\* pthread_join returns when the thread is over, and no thread is born twice.
LEMMA PerformKeepsJoins ==
  ASSUME IInv, JoinInv, NEW t \in Threads, Perform(t)
  PROVE  JoinInv'
<1> DEFINE op == Program[t][step[t]]
<1>0. /\ life[t] = "running" /\ todo[t] = << >> /\ step[t] <= Len(Program[t])
      /\ \E code \in Callbacks(t, op) : todo' = [todo EXCEPT ![t] = code]
      /\ \/ op.do = "create" /\ life[op.on] = "unborn" /\ life' = [life EXCEPT ![op.on] = "running"]
         \/ op.do = "join" /\ HasEnded(op.on) /\ life' = [life EXCEPT ![op.on] = "joined"]
         \/ op.do \notin {"create", "join"} /\ UNCHANGED life
  BY DEF Perform, Inside
<1>1. op \in Op
  <2>1. Program[t] \in Seq(Op) /\ step[t] \in Nat \ {0}
    BY MutexAssumption DEF IInv, TypeOK
  <2>2. step[t] \in 1 .. Len(Program[t])
    BY <1>0, <2>1, LenProperties
  <2> QED
    BY <2>1, <2>2, ElementOfSeq
<1>2. PICK code \in Callbacks(t, op) : todo' = [todo EXCEPT ![t] = code]
  BY <1>0
<1>3. /\ todo \in [Threads -> Seq(Piece)]
      /\ life \in [Threads -> {"unborn", "running", "joined"}]
  BY DEF IInv, TypeOK
<1>4. op.do \in {"create", "join"} => op.on \in Threads
  BY <1>1 DEF Op
<1>5. HasEnded(op.on) => /\ life[op.on] = "running" /\ todo[op.on] = << >>
                         /\ step[op.on] > Len(Program[op.on])
  BY DEF HasEnded, Inside
<1>6. step[t] \in Nat /\ Len(Program[t]) \in Nat
  BY MutexAssumption, LenProperties DEF IInv, TypeOK
<1> HIDE DEF op
<1>7. Timely \subseteq Timely'
  <2> SUFFICES ASSUME NEW p \in Piece, p.do = "join", life[p.on] = "joined"
               PROVE  life'[p.on] = "joined"
    BY DEF Timely
  <2>1. p.on \in Threads
    BY DEF Piece
  <2> QED
    BY <1>0, <1>3, <1>4, <1>5, <2>1
<1>8. op.do = "join" => [do |-> "join", on |-> op.on] \in Timely'
  <2>1. op.do = "join" => [do |-> "join", on |-> op.on] \in Piece /\ life'[op.on] = "joined"
    BY <1>0, <1>3, <1>4 DEF Piece
  <2> QED
    BY <2>1 DEF Timely
<1>9. code \in Seq(Timely')
  <2>1. Pure \subseteq Timely'
    BY DEF Pure, Timely
  <2> QED
    BY <1>1, <1>2, <1>8, <2>1, CallbacksAreOf
<1>10. ASSUME NEW u \in Threads
       PROVE  todo'[u] \in Seq(Timely') /\ (life'[u] = "joined" => todo'[u] = << >>)
  <2>1. CASE u = t
    <3>1. life'[t] # "joined"
      <4>1. op.do = "join" /\ HasEnded(op.on) => op.on # t
        BY <1>0, <1>5, <1>6
      <4> QED
        BY <1>0, <1>3, <1>4, <4>1
    <3> QED
      BY <1>2, <1>3, <1>9, <2>1, <3>1
  <2>2. CASE u # t
    <3>1. todo'[u] = todo[u]
      BY <1>2, <1>3, <2>2
    <3>2. todo[u] \in Seq(Timely')
      BY <1>7, SeqGrows DEF JoinInv
    <3>3. life'[u] = "joined" => life[u] = "joined" \/ todo[u] = << >>
      BY <1>0, <1>3, <1>4, <1>5
    <3> QED
      BY <3>1, <3>2, <3>3 DEF JoinInv
  <2> QED
    BY <2>1, <2>2
<1> QED
  BY <1>10 DEF JoinInv

\* No step leaves the invariant.
LEMMA JoinStep == IInv /\ JoinInv /\ [Next]_vars => JoinInv'
<1> SUFFICES ASSUME IInv, JoinInv, [Next]_vars PROVE JoinInv'
  OBVIOUS
<1>1. ASSUME NEW t \in Threads, CallbackStep(t) PROVE JoinInv'
  <2>1. PICK more \in Seq(Pure) : todo' = [todo EXCEPT ![t] = more \o Tail(todo[t])]
    BY <1>1, GoesOn
  <2>2. todo[t] # << >> /\ UNCHANGED life /\ todo \in [Threads -> Seq(Piece)]
    BY <1>1, GoesOn DEF IInv, TypeOK
  <2>3. Timely' = Timely /\ Pure \subseteq Timely
    BY <2>2 DEF Timely, Pure
  <2>4. more \in Seq(Timely) /\ Tail(todo[t]) \in Seq(Timely)
    <3>1. todo[t] \in Seq(Timely)
      BY DEF JoinInv
    <3> QED
      BY <2>2, <2>3, <3>1, SeqGrows, HeadTailProperties
  <2>5. PICK c : c = more \o Tail(todo[t])
    OBVIOUS
  <2>6. c \in Seq(Timely) /\ todo' = [todo EXCEPT ![t] = c]
    BY <2>1, <2>4, <2>5, ConcatProperties
  <2>7. \A u \in Threads : todo'[u] \in Seq(Timely) /\ (life[u] = "joined" => todo'[u] = << >>)
    BY <2>2, <2>6 DEF JoinInv
  <2> QED
    BY <2>2, <2>3, <2>7 DEF JoinInv
<1>2. CASE UNCHANGED vars
  <2>1. UNCHANGED <<life, todo>> /\ Timely' = Timely
    BY <1>2 DEF vars, Timely
  <2> QED
    BY <2>1 DEF JoinInv
<1> QED
  BY <1>1, <1>2, PerformKeepsJoins DEF Next

\* A callback joins only threads that are in no callback.
THEOREM JoinsAtRest == Spec => []JoinInv
<1>1. IInv /\ IInv' /\ JoinInv /\ [Next]_vars => JoinInv'
  BY JoinStep
<1> QED
  BY <1>1, JoinInitially, Invariance, PTL DEF Spec

\* The words of a vector or of an epoch that the next step of a thread touches
\* are the thread's own, unless it is at a birth or at a join.
LEMMA TouchesOwn ==
  ASSUME IInv, NEW t \in Threads, ~AtBirth(t),
         NEW w \in Reads(t) \cup Writes(t), w.kind \in {"C", "epoch"}
  PROVE  Inside(t) /\ (w.of = t \/ (Piece1(t).do = "join" /\ w.of = Piece1(t).on))
<1> DEFINE p == Piece1(t)
<1>1. todo[t] # << >>
  BY DEF Reads, Writes, Inside
<1>2. p \in Piece
  BY <1>1, AtHead
<1>3. p.do # "fork" /\ (p.do = "state" => p.on \in TS)
  BY <1>1 DEF AtBirth, AtPiece, Inside
<1> HIDE DEF p
<1>4. CASE p.do \in {"state", "variable", "mutex", "acquire", "release", "count", "uncount"}
  BY <1>1, <1>3, <1>4 DEF Reads, Writes, Word, Inside, p
<1>5. CASE p.do \in {"new_variable", "merge", "adopt", "tick", "read", "write"}
  BY <1>1, <1>5 DEF Reads, Writes, Word, Inside, p
<1>6. CASE p.do = "join"
  BY <1>1, <1>6 DEF Reads, Writes, Word, Inside, p
<1> QED
  BY <1>2, <1>3, <1>4, <1>5, <1>6 DEF Piece

\* Two threads are about to touch one vector, or its epoch, only while one of
\* them registers or forks a thread: at every other time the vectors need no
\* mutex, ft_join's writes to another thread's vector included (no pthread_t is
\* handed out twice).
THEOREM NearlyGuarded == Spec => []OnlyAtBirth
<1>1. IInv /\ JoinInv => OnlyAtBirth
  <2> SUFFICES ASSUME IInv, JoinInv, NEW t \in Threads, NEW u \in Threads,
                      NEW w \in Writes(t) \cap (Reads(u) \cup Writes(u)),
                      t # u, w.kind \in {"C", "epoch"}, ~AtBirth(t), ~AtBirth(u)
               PROVE  FALSE
    BY DEF OnlyAtBirth
  <2>1. Inside(t) /\ (w.of = t \/ (Piece1(t).do = "join" /\ w.of = Piece1(t).on))
    BY TouchesOwn
  <2>2. Inside(u) /\ (w.of = u \/ (Piece1(u).do = "join" /\ w.of = Piece1(u).on))
    BY TouchesOwn
  \* A thread that is joined is in no callback.
  <2>3. ASSUME NEW v \in Threads, Inside(v), Piece1(v).do = "join"
        PROVE  /\ ~Inside(Piece1(v).on) /\ "TS" \in HeldBy(v)
    <3>1. todo[v] # << >>
      BY <2>3 DEF Inside
    <3>2. Piece1(v) \in Timely
      BY <3>1, HeadTailProperties DEF JoinInv, Piece1
    <3>3. Piece1(v).on \in Threads /\ Allowed(Piece1(v), HeldBy(v))
      BY <2>3, <3>1, AtHead
    <3> QED
      BY <2>3, <3>2, <3>3 DEF JoinInv, Timely, Inside, Allowed
  <2>4. CASE w.of = t /\ Piece1(u).do = "join" /\ w.of = Piece1(u).on
    BY <2>1, <2>2, <2>3, <2>4
  <2>5. CASE w.of = u /\ Piece1(t).do = "join" /\ w.of = Piece1(t).on
    BY <2>1, <2>2, <2>3, <2>5
  <2>6. CASE Piece1(t).do = "join" /\ Piece1(u).do = "join"
    BY <2>1, <2>2, <2>3, <2>6 DEF HeldBy
  <2> QED
    BY <2>1, <2>2, <2>4, <2>5, <2>6
<1> QED
  BY <1>1, Invariance, JoinsAtRest, PTL
=============================================================================
