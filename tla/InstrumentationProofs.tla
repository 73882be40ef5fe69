----------------------- MODULE InstrumentationProofs -----------------------
(***************************************************************************)
(* Theorems about Instrumentation, for functions of any length over any    *)
(* addresses: leaving out the reads that are written later loses no        *)
(* access, and every callback stands where it should.                      *)
(***************************************************************************)
EXTENDS Instrumentation, SequenceTheorems, FiniteSetTheorems, TLAPS

\* From p to q nothing ends the block and nothing is called.
Stretch(p, q) == \A r \in p .. q : ~IsCall(r) /\ ~EndsBlock(r)

\* Another thread may reach the address of p, and change what is there.
Reachable(p) ==
  /\ I(p).on \notin Foreign \cup Uncaptured
  /\ I(p).op = "load" => I(p).on \notin ConstantData

\* p is among the accesses to instrument, or a write that stands for it is.
Kept(p) ==
  Reachable(p) =>
    \/ p \in All
    \/ /\ I(p).op = "load"
       /\ \E q \in All : p < q /\ I(q).op = "store" /\ I(q).on = I(p).on /\ Stretch(p, q)

\* The vectors hold what they are for.
VectorsInv ==
  /\ \A p \in Local \cup All : IsPlain(p)
  /\ \A p \in AtomicAccesses : IsAtomic(p)
  /\ \A p \in MemIntrinCalls : IsIntrinsic(p)

\* Local holds all accesses since the last call or end of a block, and of those
\* before it none has been lost.
ScanInv ==
  phase = "scan" =>
    /\ \A p \in Local : p < at /\ Stretch(p, at - 1)
    /\ \A p \in 1 .. at - 1 : IsPlain(p) /\ p \notin Local => Kept(p)

ChosenInv == phase = "accesses" => \A p \in Positions : IsPlain(p) => Kept(p)

JudgedInv ==
  phase \in {"atomics", "intrinsics", "entry", "done"} /\ f.sanitize =>
    \A p \in Positions : Shared(p) => Judged(p) \/ (I(p).op = "load" /\ JudgedAsWrite(p))

IInv == TypeOK /\ VectorsInv /\ ScanInv /\ ChosenInv /\ JudgedInv

-----------------------------------------------------------------------------
\* A function of the program.
LEMMA Bodies ==
  ASSUME f \in Functions
  PROVE  /\ f.main \in BOOLEAN /\ f.sanitize \in BOOLEAN /\ f.body \in Seq(Instruction)
         /\ Len(f.body) \in Nat
         /\ \A p \in Positions : I(p) \in Instruction
         /\ Positions # {} => EndsBlock(Len(f.body)) /\ Len(f.body) \in Positions
         /\ \A p, q \in Positions :
              IsPlain(p) /\ IsPlain(q) /\ I(p).on = I(q).on => I(p).size = I(q).size
<1>1. f.main \in BOOLEAN /\ f.sanitize \in BOOLEAN /\ f.body \in Seq(Instruction)
  BY FunctionsAssumption
<1>2. Len(f.body) \in Nat /\ \A p \in Positions : I(p) \in Instruction
  BY <1>1, LenProperties DEF Positions, I
<1>3. Positions # {} => EndsBlock(Len(f.body)) /\ Len(f.body) \in Positions
  BY <1>2, FunctionsAssumption DEF Positions, EndsBlock, I
<1>4. \A p, q \in Positions :
        IsPlain(p) /\ IsPlain(q) /\ I(p).on = I(q).on => I(p).size = I(q).size
  BY FunctionsAssumption DEF Positions, IsPlain, I
<1> QED
  BY <1>1, <1>2, <1>3, <1>4

\* The kinds of instruction exclude one another.
LEMMA Kinds ==
  ASSUME f \in Functions, NEW p \in Positions
  PROVE  /\ IsPlain(p) => /\ I(p).size \in Nat \ {0} /\ I(p).line \in Nat /\ I(p).align \in Nat
                          /\ I(p).vtable \in BOOLEAN
                          /\ ~IsCall(p) /\ ~EndsBlock(p) /\ ~IsAtomic(p)
         /\ IsAtomic(p) => ~IsCall(p) /\ ~EndsBlock(p)
<1>1. I(p) \in Instruction
  BY Bodies
<1> HIDE DEF I
<1> QED
  BY <1>1 DEF Instruction, Plain, Atomic, Call, MemIntrinsic, Terminator, IsPlain, IsAtomic,
              IsCall, IsIntrinsic, EndsBlock, I

\* The callbacks are of the kinds listed.
LEMMA CallbackTypes ==
  ASSUME f \in Functions, NEW p \in Positions
  PROVE  /\ IsPlain(p) /\ GoodSize(p) => AccessCallback(p) \in Callback
         /\ Recognised(p) => SyncCallback(p) \in Callback
         /\ IsAtomic(p) /\ HasCallback(p) => AtomicCallback(p) \in Callback
         /\ IsIntrinsic(p) => [fn |-> I(p).op] \in Callback
<1>1. IsPlain(p) /\ GoodSize(p) => AccessCallback(p) \in Callback
  <2> SUFFICES ASSUME IsPlain(p), GoodSize(p) PROVE AccessCallback(p) \in Callback
    OBVIOUS
  <2>1. LineArgument(p) \in Nat
    BY Kinds DEF LineArgument
  <2>2. CASE I(p).vtable
    BY <2>1, <2>2 DEF AccessCallback, Callback
  <2>3. CASE ~I(p).vtable
    BY <2>1, <2>3 DEF AccessCallback, Callback, GoodSize
  <2> QED
    BY <2>2, <2>3
<1>2. Recognised(p) => SyncCallback(p) \in Callback
  BY DEF Recognised, SyncNames, SyncCallback, Callback
<1>3. IsAtomic(p) /\ HasCallback(p) => AtomicCallback(p) \in Callback
  BY DEF IsAtomic, HasCallback, AtomicCallback, GoodSize, Callback
<1>4. IsIntrinsic(p) => [fn |-> I(p).op] \in Callback
  BY DEF IsIntrinsic, Callback
<1> QED
  BY <1>1, <1>2, <1>3, <1>4

-----------------------------------------------------------------------------
\* InstrIfSynchronization inserts callbacks and nothing else.
LEMMA SyncTyped ==
  ASSUME TypeOK, NEW p \in Positions, InstrIfSynchronization(p)
  PROVE  /\ before' \in [Positions -> Seq(Callback)]
         /\ after' \in [Positions -> Seq(Callback)]
<1>1. CASE ~Recognised(p)
  BY <1>1 DEF InstrIfSynchronization, TypeOK
<1>2. CASE Recognised(p)
  <2>1. SyncCallback(p) \in Callback
    BY <1>2, CallbackTypes DEF TypeOK
  <2>2. \A s \in Seq(Callback) : Append(s, SyncCallback(p)) \in Seq(Callback)
    BY <2>1, AppendProperties
  <2>3. \/ UNCHANGED after /\ before' = [before EXCEPT ![p] = Append(@, SyncCallback(p))]
        \/ UNCHANGED before /\ after' = [after EXCEPT ![p] = Append(@, SyncCallback(p))]
    BY <1>2 DEF InstrIfSynchronization
  <2>4. before \in [Positions -> Seq(Callback)] /\ after \in [Positions -> Seq(Callback)]
    BY DEF TypeOK
  <2> QED
    BY <2>2, <2>3, <2>4
<1> QED
  BY <1>1, <1>2

\* What has been chosen stays so as All grows.
LEMMA KeptStays ==
  ASSUME UNCHANGED f, All \subseteq All', NEW p, Kept(p)
  PROVE  Kept(p)'
BY DEF Kept, Reachable, Stretch, I, IsCall, IsIntrinsic, EndsBlock

\* The accesses of a stretch are chosen: the writes that are in reach themselves,
\* and for each read that is in reach itself or a later write.
LEMMA ChosenKeeps ==
  ASSUME TypeOK, VectorsInv, UNCHANGED f, All' = All \cup Chosen(Local),
         NEW n, \A p \in Local : p < n /\ Stretch(p, n - 1), n \in Nat,
         NEW p \in Local
  PROVE  Kept(p)'
<1> SUFFICES ASSUME Reachable(p), p \notin Chosen(Local)
             PROVE  /\ I(p).op = "load"
                    /\ \E q \in Chosen(Local) : p < q /\ I(q).op = "store" /\ I(q).on = I(p).on
                                                /\ Stretch(p, q)
  BY DEF Kept, Reachable, Stretch, I, IsCall, IsIntrinsic, EndsBlock
<1>1. I(p).op = "load" /\ WrittenLater(Local, p)
  BY DEF Chosen, Reachable
<1>2. PICK q \in Local : p < q /\ I(q).op = "store" /\ I(q).on = I(p).on
  BY <1>1 DEF WrittenLater
<1>3. q \in Chosen(Local)
  BY <1>2 DEF Chosen, Reachable
<1>4. Stretch(p, q)
  <2>1. p \in Int /\ q \in Int /\ q < n
    BY DEF TypeOK, Positions
  <2> QED
    BY <2>1 DEF Stretch
<1> QED
  BY <1>1, <1>2, <1>3, <1>4

\* Nothing has been scanned yet.
LEMMA Initially == Init => IInv
<1> SUFFICES ASSUME Init PROVE IInv
  OBVIOUS
<1>1. TypeOK
  <2>1. << >> \in Seq(Callback)
    BY EmptySeq
  <2>2. 1 \in 1 .. Len(f.body) + 1
    BY Bodies DEF Init
  <2> QED
    BY <2>1, <2>2 DEF Init, TypeOK
<1> QED
  BY <1>1 DEF Init, IInv, VectorsInv, ScanInv, ChosenInv, JudgedInv

\* An access, atomic or not, joins its vector.
LEMMA ScanAccessKeeps ==
  ASSUME IInv, ScanAccess
  PROVE  IInv'
<1> USE DEF IInv
<1>0. at \in Positions /\ at \in Nat /\ Len(f.body) \in Nat
  BY Bodies DEF ScanAccess, TypeOK, Positions
<1>a. /\ UNCHANGED <<f, phase, All, MemIntrinCalls, HasCalls, Res, before, after, instead>>
      /\ at' = at + 1 /\ phase = "scan"
      /\ \/ Local' = Local /\ AtomicAccesses' = AtomicAccesses \cup {at} /\ IsAtomic(at)
         \/ Local' = Local \cup {at} /\ AtomicAccesses' = AtomicAccesses /\ IsPlain(at) /\ ~IsAtomic(at)
  BY DEF ScanAccess
<1>b. ~IsCall(at) /\ ~EndsBlock(at) /\ (IsAtomic(at) => ~IsPlain(at))
  BY <1>0, <1>a, Kinds DEF TypeOK
<1>c. /\ Positions' = Positions /\ Len(f.body)' = Len(f.body)
      /\ \A p : I(p)' = I(p)
  BY <1>a DEF Positions, I
<1>1. TypeOK'
  <2>1. at' \in 1 .. Len(f.body)' + 1
    BY <1>0, <1>a, <1>c DEF Positions
  <2>2. Local' \subseteq Positions /\ AtomicAccesses' \subseteq Positions
    BY <1>0, <1>a DEF TypeOK
  <2> QED
    BY <1>a, <1>c, <2>1, <2>2 DEF TypeOK
<1>2. VectorsInv'
  BY <1>a, <1>c DEF VectorsInv, IsPlain, IsAtomic, IsIntrinsic
<1>3. ScanInv'
  <2>1. \A p \in Local' : p < at' /\ Stretch(p, at - 1)'
    <3>1. \A p \in Local : p < at /\ Stretch(p, at - 1)
      BY <1>a DEF ScanInv
    <3>2. \A p \in Local \cup {at} : p \in Int /\ p < at + 1 /\ Stretch(p, at)
      BY <1>0, <1>b, <3>1 DEF Stretch, TypeOK, Positions
    <3>3. \A p : Stretch(p, at - 1)' <=> Stretch(p, at)
      <4>1. at' - 1 = at
        BY <1>0, <1>a
      <4> QED
        BY <1>c, <4>1 DEF Stretch, IsCall, IsIntrinsic, EndsBlock
    <3> QED
      BY <1>a, <3>2, <3>3
  <2>2. ASSUME NEW p \in 1 .. at' - 1, IsPlain(p)', p \notin Local'
        PROVE  Kept(p)'
    <3>1. p \in 1 .. at - 1 /\ IsPlain(p) /\ p \notin Local
      BY <1>0, <1>a, <1>b, <2>2 DEF IsPlain, I
    <3>2. Kept(p)
      BY <1>a, <3>1 DEF ScanInv
    <3> QED
      BY <1>a, <3>2, KeptStays
  <2> QED
    BY <2>1, <2>2 DEF ScanInv
<1>4. ChosenInv' /\ JudgedInv'
  BY <1>a DEF ChosenInv, JudgedInv
<1> QED
  BY <1>1, <1>2, <1>3, <1>4

\* A call or the end of a block: the stretch is chosen and begins anew.
LEMMA ScanBreakKeeps ==
  ASSUME IInv, ScanCall \/ ScanEnd
  PROVE  IInv'
<1> USE DEF IInv
<1>0. at \in Positions /\ at \in Nat /\ Len(f.body) \in Nat
  BY Bodies DEF ScanCall, ScanEnd, TypeOK, Positions
<1>a. /\ UNCHANGED <<f, phase, AtomicAccesses, Res, instead>>
      /\ at' = at + 1 /\ phase = "scan"
      /\ All' = All \cup Chosen(Local) /\ Local' = {}
      /\ IsCall(at) \/ EndsBlock(at)
      /\ \A p \in MemIntrinCalls' : p \in MemIntrinCalls \/ (p = at /\ IsIntrinsic(p))
  BY DEF ScanCall, ScanEnd
<1>e. HasCalls' \in BOOLEAN
  BY DEF ScanCall, ScanEnd, TypeOK
<1>f. /\ Positions' = Positions /\ Len(f.body)' = Len(f.body)
      /\ \A p : I(p)' = I(p)
  BY <1>a DEF Positions, I
<1>b. ~IsPlain(at)
  BY <1>0, <1>a, Kinds DEF TypeOK
<1>c. Chosen(Local) \subseteq Local
  BY DEF Chosen
<1>d. before' \in [Positions -> Seq(Callback)] /\ after' \in [Positions -> Seq(Callback)]
  BY SyncTyped DEF ScanCall, ScanEnd, TypeOK
<1>1. TypeOK'
  <2>1. at' \in 1 .. Len(f.body)' + 1
    BY <1>0, <1>a, <1>f DEF Positions
  <2>2. Local' \subseteq Positions /\ All' \subseteq Positions /\ MemIntrinCalls' \subseteq Positions
    BY <1>0, <1>a, <1>c DEF TypeOK
  <2> QED
    BY <1>a, <1>d, <1>e, <1>f, <2>1, <2>2 DEF TypeOK
<1>2. VectorsInv'
  BY <1>a, <1>c, <1>f DEF VectorsInv, IsPlain, IsAtomic, IsIntrinsic
<1>3. ScanInv'
  <2>1. ASSUME NEW p \in 1 .. at' - 1, IsPlain(p)'
        PROVE  Kept(p)'
    <3>1. p \in 1 .. at - 1 /\ IsPlain(p)
      BY <1>0, <1>a, <1>b, <1>f, <2>1 DEF IsPlain
    <3>2. CASE p \in Local
      <4>1. \A q \in Local : q < at /\ Stretch(q, at - 1)
        BY <1>a DEF ScanInv
      <4> QED
        BY <1>0, <1>a, <3>2, <4>1, ChosenKeeps
    <3>3. CASE p \notin Local
      <4>1. Kept(p)
        BY <1>a, <3>1, <3>3 DEF ScanInv
      <4> QED
        BY <1>a, <4>1, KeptStays
    <3> QED
      BY <3>2, <3>3
  <2> QED
    BY <1>a, <2>1 DEF ScanInv
<1>4. ChosenInv' /\ JudgedInv'
  BY <1>a DEF ChosenInv, JudgedInv
<1> QED
  BY <1>1, <1>2, <1>3, <1>4

\* The last position ends a block: nothing is left in Local.
LEMMA ScanDoneKeeps ==
  ASSUME IInv, ScanDone
  PROVE  IInv'
<1> USE DEF IInv
<1>a. /\ UNCHANGED <<f, at, Local, All, AtomicAccesses, MemIntrinCalls, HasCalls, Res, before,
                  after, instead>>
      /\ phase = "scan" /\ at \notin Positions /\ phase' = "accesses"
  BY DEF ScanDone
<1>b. at = Len(f.body) + 1 /\ Len(f.body) \in Nat
  BY <1>a, Bodies DEF TypeOK, Positions
<1>c. Local = {}
  <2> SUFFICES ASSUME NEW p \in Local PROVE FALSE
    OBVIOUS
  <2>1. p \in Positions /\ Stretch(p, Len(f.body))
    BY <1>a, <1>b DEF TypeOK, ScanInv
  <2>2. EndsBlock(Len(f.body)) /\ Len(f.body) \in p .. Len(f.body)
    BY <2>1, Bodies DEF TypeOK, Positions
  <2> QED
    BY <2>1, <2>2 DEF Stretch
<1>1. TypeOK'
  BY <1>a DEF TypeOK, Positions
<1>2. VectorsInv'
  BY <1>a DEF VectorsInv, IsPlain, IsAtomic, IsIntrinsic, I
<1>3. ScanInv' /\ JudgedInv'
  BY <1>a DEF ScanInv, JudgedInv
<1>4. ChosenInv'
  <2>1. ASSUME NEW p \in Positions', IsPlain(p)'
        PROVE  Kept(p)'
    <3>1. p \in 1 .. at - 1 /\ IsPlain(p)
      BY <1>a, <1>b, <2>1 DEF Positions, IsPlain, I
    <3>2. Kept(p)
      BY <1>a, <1>c, <3>1 DEF ScanInv
    <3> QED
      BY <1>a, <3>2, KeptStays
  <2> QED
    BY <2>1 DEF ChosenInv
<1> QED
  BY <1>1, <1>2, <1>3, <1>4

-----------------------------------------------------------------------------
\* Callbacks put around those that are there leave them there.
LEMMA JudgedStays ==
  ASSUME UNCHANGED f,
         \A p \in Positions : Judged(p) => Judged(p)',
         JudgedInv, phase \in {"atomics", "intrinsics", "entry", "done"}
  PROVE  JudgedInv'
BY DEF JudgedInv, Shared, JudgedAsWrite, Positions, I, IsPlain, IsCall, IsIntrinsic, EndsBlock,
       GoodSize

\* Each access kept gets its callback; a write that stands for a read has the
\* size of the read, so that it gets one whenever the read would have.
LEMMA AccessesKeeps ==
  ASSUME IInv, instrumentLoadOrStore
  PROVE  IInv'
<1> USE DEF IInv
<1> DEFINE kept == {p \in All : f.sanitize /\ GoodSize(p)}
<1>a. /\ UNCHANGED <<f, at, Local, All, AtomicAccesses, MemIntrinCalls, HasCalls, after, instead>>
      /\ phase = "accesses" /\ phase' = "atomics" /\ Res' \in BOOLEAN
      /\ before' = [p \in Positions |->
                      IF p \in kept THEN Append(before[p], AccessCallback(p)) ELSE before[p]]
  BY DEF instrumentLoadOrStore
<1>b. ASSUME NEW p \in Positions
      PROVE  /\ before'[p] \in Seq(Callback)
             /\ p \in kept => \E i \in DOMAIN before'[p] : before'[p][i] = AccessCallback(p)
  <2>1. CASE p \notin kept
    BY <1>a, <2>1 DEF TypeOK
  <2>2. CASE p \in kept
    <3>1. AccessCallback(p) \in Callback
      BY <2>2, CallbackTypes DEF TypeOK, VectorsInv
    <3>2. before'[p] = Append(before[p], AccessCallback(p)) /\ before[p] \in Seq(Callback)
      BY <1>a, <2>2 DEF TypeOK
    <3> HIDE DEF kept
    <3>3. /\ before'[p] \in Seq(Callback) /\ Len(before[p]) + 1 \in DOMAIN before'[p]
          /\ before'[p][Len(before[p]) + 1] = AccessCallback(p)
      BY <3>1, <3>2, AppendProperties, LenProperties
    <3> QED
      BY <3>3
  <2> QED
    BY <2>1, <2>2
<1>1. TypeOK'
  <2>1. before' \in [Positions -> Seq(Callback)]
    BY <1>a, <1>b
  <2> QED
    BY <1>a, <2>1 DEF TypeOK, Positions
<1>2. VectorsInv'
  BY <1>a DEF VectorsInv, IsPlain, IsAtomic, IsIntrinsic, I
<1>3. ScanInv' /\ ChosenInv'
  BY <1>a DEF ScanInv, ChosenInv
<1>4. JudgedInv'
  <2> SUFFICES ASSUME f.sanitize, NEW p \in Positions, Shared(p)
               PROVE  Judged(p)' \/ (I(p).op = "load" /\ JudgedAsWrite(p)')
    BY <1>a DEF JudgedInv, Shared, Positions, I, IsPlain, GoodSize
  <2>0. IsPlain(p) /\ GoodSize(p) /\ Reachable(p)
    BY DEF Shared, Reachable
  <2>1. \A q \in All : q \in Positions /\ IsPlain(q)
    BY DEF TypeOK, VectorsInv
  <2>2. \A q \in All : GoodSize(q) => Judged(q)'
    <3> SUFFICES ASSUME NEW q \in All, GoodSize(q) PROVE Judged(q)'
      OBVIOUS
    <3>1. \E i \in DOMAIN before'[q] : before'[q][i] = AccessCallback(q)
      BY <1>b, <2>1
    <3>2. IsPlain(q)' /\ AccessCallback(q)' = AccessCallback(q)
      BY <1>a, <2>1 DEF IsPlain, AccessCallback, LineArgument, Aligned, I
    <3> QED
      BY <3>1, <3>2 DEF Judged
  <2>3. CASE p \in All
    BY <2>0, <2>2, <2>3
  <2>4. CASE p \notin All
    <3>1. Kept(p)
      BY <1>a, <2>0 DEF ChosenInv
    <3>2. PICK q \in All : /\ p < q /\ I(q).op = "store" /\ I(q).on = I(p).on
                           /\ Stretch(p, q) /\ I(p).op = "load"
      BY <2>0, <2>4, <3>1 DEF Kept
    <3>3. GoodSize(q)
      <4>1. I(p).size = I(q).size
        BY <2>0, <2>1, <3>2, Bodies DEF TypeOK
      <4> QED
        BY <2>0, <4>1 DEF GoodSize
    <3>4. Judged(q)'
      BY <2>2, <3>3
    <3>5. q \in Positions' /\ p < q /\ I(q)'.op = "store" /\ I(q)'.on = I(p)'.on
      BY <1>a, <2>1, <3>2 DEF Positions, I
    <3>6. \A r \in p .. q : ~IsCall(r)' /\ ~EndsBlock(r)'
      BY <1>a, <3>2 DEF Stretch, IsCall, IsIntrinsic, EndsBlock, I
    <3> QED
      BY <3>2, <3>4, <3>5, <3>6 DEF JudgedAsWrite
  <2> QED
    BY <2>3, <2>4
<1> QED
  BY <1>1, <1>2, <1>3, <1>4

\* Atomics and intrinsics are replaced in their own place.
LEMMA ReplacementsKeep ==
  ASSUME IInv, instrumentAtomic \/ instrumentMemIntrinsic
  PROVE  IInv'
<1> USE DEF IInv
<1>a. /\ UNCHANGED <<f, at, Local, All, AtomicAccesses, MemIntrinCalls, HasCalls, before, after>>
      /\ phase \in {"atomics", "intrinsics"} /\ phase' \in {"intrinsics", "entry"}
      /\ Res' \in BOOLEAN
  BY DEF instrumentAtomic, instrumentMemIntrinsic, TypeOK
<1>b. instead' \in [Positions -> Seq(Callback)]
  <2>0. \A c \in Callback : <<c>> \in Seq(Callback)
    OBVIOUS
  <2>1. CASE instrumentAtomic
    <3>1. \A p \in AtomicAccesses : HasCallback(p) =>
            <<AtomicCallback(p)>> \in Seq(Callback)
      BY <2>0, CallbackTypes DEF TypeOK, VectorsInv
    <3> HIDE DEF AtomicCallback
    <3> QED
      BY <2>1, <3>1 DEF instrumentAtomic, TypeOK
  <2>2. CASE instrumentMemIntrinsic
    <3>1. \A p \in MemIntrinCalls : <<[fn |-> I(p).op]>> \in Seq(Callback)
      BY <2>0, CallbackTypes DEF TypeOK, VectorsInv
    <3> QED
      BY <2>2, <3>1 DEF instrumentMemIntrinsic, TypeOK
  <2> QED
    BY <2>1, <2>2
<1>1. TypeOK'
  BY <1>a, <1>b DEF TypeOK, Positions
<1>2. VectorsInv'
  BY <1>a DEF VectorsInv, IsPlain, IsAtomic, IsIntrinsic, I
<1>3. ScanInv' /\ ChosenInv'
  BY <1>a DEF ScanInv, ChosenInv
<1>4. JudgedInv'
  <2>1. \A p : Judged(p)' <=> Judged(p)
    BY <1>a DEF Judged, IsPlain, AccessCallback, LineArgument, Aligned, I
  <2> QED
    BY <1>a, <2>1, JudgedStays
<1> QED
  BY <1>1, <1>2, <1>3, <1>4

\* What is in a sequence is in one it is in the middle of.
LEMMA InTheMiddle ==
  ASSUME NEW S, NEW s \in Seq(S), NEW t \in Seq(S), NEW u \in Seq(S), NEW i \in DOMAIN t
  PROVE  Len(s) + i \in DOMAIN (s \o t \o u) /\ (s \o t \o u)[Len(s) + i] = t[i]
<1>1. /\ s \o t \in Seq(S) /\ Len(s \o t) = Len(s) + Len(t)
      /\ i \in 1 .. Len(t) /\ Len(s) \in Nat /\ Len(t) \in Nat /\ Len(u) \in Nat
  BY ConcatProperties, LenProperties
<1>2. (s \o t)[Len(s) + i] = t[i]
  BY <1>1, ConcatProperties
<1>3. /\ s \o t \o u \in Seq(S) /\ Len(s \o t \o u) = Len(s) + Len(t) + Len(u)
      /\ (s \o t \o u)[Len(s) + i] = t[i]
  BY <1>1, <1>2, ConcatProperties
<1>4. Len(s) + i \in DOMAIN (s \o t \o u)
  BY <1>1, <1>3, LenProperties
<1> QED
  BY <1>3, <1>4

\* The callbacks of the function go around those of its accesses.
LEMMA EntryAndExitKeeps ==
  ASSUME IInv, EntryAndExit
  PROVE  IInv'
<1> USE DEF IInv
<1>a. /\ UNCHANGED <<f, at, Local, All, AtomicAccesses, MemIntrinCalls, HasCalls, after, instead>>
      /\ phase = "entry" /\ phase' = "done" /\ Res' \in BOOLEAN
  BY DEF EntryAndExit, TypeOK
<1>b. \A p \in Positions : before[p] \in Seq(Callback)
  BY DEF TypeOK
<1>c. /\ before' \in [Positions -> Seq(Callback)]
      /\ \A p \in Positions : \A i \in DOMAIN before[p] :
           \E j \in DOMAIN before'[p] : before'[p][j] = before[p][i]
  <2>1. CASE UNCHANGED before
    BY <2>1 DEF TypeOK
  <2>2. CASE ~UNCHANGED before
    <3> DEFINE pre(p) == IF p = 1 THEN <<[fn |-> "func_entry"]>> ELSE << >>
               post(p) == IF p \in Exits THEN AtExit ELSE << >>
    <3>1. before' = [p \in Positions |-> pre(p) \o before[p] \o post(p)]
      BY <2>2 DEF EntryAndExit
    <3>2. \A p \in Positions : pre(p) \in Seq(Callback) /\ post(p) \in Seq(Callback)
      <4>1. /\ [fn |-> "func_entry"] \in Callback /\ [fn |-> "func_exit"] \in Callback
            /\ [fn |-> "main_func_exit"] \in Callback
        BY DEF Callback
      <4>2. << >> \in Seq(Callback) /\ \A c \in Callback : <<c>> \in Seq(Callback)
        OBVIOUS
      <4>3. AtExit \in Seq(Callback)
        BY <4>1, <4>2, ConcatProperties DEF AtExit
      <4> QED
        BY <4>1, <4>2, <4>3
    <3> HIDE DEF pre, post
    <3>4. \A p \in Positions : pre(p) \o before[p] \o post(p) \in Seq(Callback)
      BY <1>b, <3>2, ConcatProperties
    <3>5. \A p \in Positions : before'[p] = pre(p) \o before[p] \o post(p)
      BY <3>1
    <3>6. ASSUME NEW p \in Positions, NEW i \in DOMAIN before[p]
          PROVE  \E j \in DOMAIN before'[p] : before'[p][j] = before[p][i]
      <4>1. PICK s \in Seq(Callback), u \in Seq(Callback) : s = pre(p) /\ u = post(p)
        BY <3>2
      <4>2. PICK t \in Seq(Callback) : t = before[p]
        BY <1>b
      <4>3. i \in DOMAIN t
        BY <3>6, <4>2
      <4>4. Len(s) + i \in DOMAIN (s \o t \o u) /\ (s \o t \o u)[Len(s) + i] = t[i]
        BY <4>3, InTheMiddle
      <4>5. before'[p] = s \o t \o u
        BY <3>5, <4>1, <4>2
      <4> QED
        BY <4>2, <4>4, <4>5
    <3> QED
      BY <3>1, <3>4, <3>6
  <2> QED
    BY <2>1, <2>2
<1>1. TypeOK'
  BY <1>a, <1>c DEF TypeOK, Positions
<1>2. VectorsInv'
  BY <1>a DEF VectorsInv, IsPlain, IsAtomic, IsIntrinsic, I
<1>3. ScanInv' /\ ChosenInv'
  BY <1>a DEF ScanInv, ChosenInv
<1>4. JudgedInv'
  <2>1. \A p \in Positions : Judged(p) => Judged(p)'
    <3> SUFFICES ASSUME NEW p \in Positions, Judged(p) PROVE Judged(p)'
      OBVIOUS
    <3>1. IsPlain(p)' /\ AccessCallback(p)' = AccessCallback(p)
      BY <1>a DEF Judged, IsPlain, AccessCallback, LineArgument, Aligned, I
    <3>2. \E j \in DOMAIN before'[p] : before'[p][j] = AccessCallback(p)
      BY <1>c DEF Judged
    <3> QED
      BY <3>1, <3>2 DEF Judged
  <2> QED
    BY <1>a, <2>1, JudgedStays
<1> QED
  BY <1>1, <1>2, <1>3, <1>4

\* A pass that has returned changes nothing.
LEMMA Stutters ==
  ASSUME IInv, UNCHANGED vars
  PROVE  IInv'
<1>1. TypeOK'
  BY DEF vars, IInv, TypeOK, Positions
<1>2. VectorsInv'
  BY DEF vars, IInv, VectorsInv, IsPlain, IsAtomic, IsIntrinsic, I
<1>3. \A p : Kept(p)' <=> Kept(p)
  BY DEF vars, Kept, Reachable, Stretch, I, IsCall, IsIntrinsic, EndsBlock
<1>4. ScanInv' /\ ChosenInv'
  BY <1>3 DEF vars, IInv, ScanInv, ChosenInv, Stretch, Positions, I, IsPlain, IsCall, IsIntrinsic,
              EndsBlock
<1>5. JudgedInv'
  <2>1. \A p : Judged(p)' <=> Judged(p)
    BY DEF vars, Judged, IsPlain, AccessCallback, LineArgument, Aligned, I
  <2> QED
    BY <2>1 DEF vars, IInv, JudgedInv, Shared, JudgedAsWrite, Positions, I, IsPlain, IsCall,
                IsIntrinsic, EndsBlock, GoodSize
<1> QED
  BY <1>1, <1>2, <1>4, <1>5 DEF IInv

\* The inductive invariant of the pass.
THEOREM Invariance == Spec => []IInv
<1>1. IInv /\ [Next]_vars => IInv'
  BY ScanAccessKeeps, ScanBreakKeeps, ScanDoneKeeps, AccessesKeeps, ReplacementsKeep,
     EntryAndExitKeeps, Stutters DEF Next
<1> QED
  BY Initially, <1>1, PTL DEF Spec

\* The pass inserts only callbacks of its list, next to instructions of the function.
THEOREM TypeCorrect == Spec => []TypeOK
BY Invariance, PTL DEF IInv

\* Every access that another thread may conflict with is judged in its place, by its
\* own callback or that of a later write (chooseInstructionsToInstrument).
THEOREM EveryAccessJudged == Spec => []JudgedInPlace
<1>1. IInv => JudgedInPlace
  BY DEF IInv, JudgedInv, JudgedInPlace
<1> QED
  BY Invariance, <1>1, PTL

-----------------------------------------------------------------------------
(* What exactly stands before and after each instruction.                  *)

Unlocks(p) == Recognised(p) /\ I(p).fn = "pthread_mutex_unlock"

SyncBefore(p) == IF Unlocks(p) THEN <<SyncCallback(p)>> ELSE << >>

SyncAfter(p) == IF Recognised(p) /\ ~Unlocks(p) THEN <<SyncCallback(p)>> ELSE << >>

\* Before the callbacks of the function are put around it.
Middle(p) ==
  IF IsPlain(p) THEN {<< >>} \cup {s \in {<<AccessCallback(p)>>} : GoodSize(p)}
  ELSE {SyncBefore(p)}

Pre(p) == IF Res /\ p = 1 THEN <<[fn |-> "func_entry"]>> ELSE << >>

Post(p) == IF Res /\ p \in Exits THEN AtExit ELSE << >>

PlacedInv ==
  \A p \in Positions :
    /\ phase = "scan" => IF p < at THEN before[p] = SyncBefore(p) /\ after[p] = SyncAfter(p)
                         ELSE before[p] = << >> /\ after[p] = << >>
    /\ phase # "scan" => after[p] = SyncAfter(p)
    /\ phase = "accesses" => before[p] = SyncBefore(p)
    /\ phase \in {"atomics", "intrinsics", "entry"} => before[p] \in Middle(p)
    /\ phase = "done" => \E m \in Middle(p) : before[p] = Pre(p) \o m \o Post(p)

\* A function with a call, or with an access that has a callback, is entered.
EnteredInv ==
  \A p \in Positions :
    /\ IsCall(p) /\ (phase = "scan" => p < at) => HasCalls
    /\ phase \in {"atomics", "intrinsics", "entry"} /\ IsPlain(p) /\ before[p] # << >> => Res
    /\ phase = "done" /\ ~Res => ~IsCall(p) /\ (IsPlain(p) => before[p] = << >>)

PlaceInv == PlacedInv /\ EnteredInv

\* As long as the function is the same, so is all that is said of its instructions.
LEMMA SameFunction ==
  ASSUME UNCHANGED f
  PROVE  /\ Positions' = Positions /\ Exits' = Exits /\ AtExit' = AtExit
         /\ \A p : /\ I(p)' = I(p) /\ IsPlain(p)' = IsPlain(p) /\ IsCall(p)' = IsCall(p)
                   /\ Recognised(p)' = Recognised(p)
                   /\ SyncBefore(p)' = SyncBefore(p) /\ SyncAfter(p)' = SyncAfter(p)
                   /\ Middle(p)' = Middle(p)
BY DEF Positions, Exits, AtExit, I, IsPlain, IsCall, IsIntrinsic, Recognised, Unlocks, SyncCallback,
       SyncBefore, SyncAfter, Middle, AccessCallback, LineArgument, Aligned, GoodSize

\* No access and no end of a block is recognised as a call.
LEMMA OnlyCalls ==
  ASSUME f \in Functions, NEW p \in Positions, ~IsCall(p) \/ IsPlain(p)
  PROVE  ~Recognised(p) /\ SyncBefore(p) = << >> /\ SyncAfter(p) = << >>
BY Kinds DEF IsCall, Recognised, SyncBefore, SyncAfter, Unlocks

\* One instruction is scanned.
LEMMA ScanPlaces ==
  ASSUME TypeOK, PlaceInv, ScanAccess \/ ScanCall \/ ScanEnd
  PROVE  PlaceInv'
<1>0. at \in Positions /\ at \in Nat /\ at' = at + 1 /\ phase = "scan" /\ phase' = "scan" /\ f' = f
  BY DEF ScanAccess, ScanCall, ScanEnd, Positions
<1>1. \A p \in Positions : p \in Nat
  BY DEF Positions
<1>2. /\ before'[at] = SyncBefore(at) /\ after'[at] = SyncAfter(at)
      /\ \A p \in Positions \ {at} : before'[p] = before[p] /\ after'[p] = after[p]
  <2>1. before[at] = << >> /\ after[at] = << >>
    BY <1>0, <1>1 DEF PlaceInv, PlacedInv
  <2>2. CASE ScanAccess \/ ScanEnd
    <3>1. ~IsCall(at)
      BY <1>0, <2>2, Kinds DEF ScanAccess, ScanEnd, TypeOK
    <3> QED
      BY <1>0, <2>1, <2>2, <3>1, OnlyCalls DEF ScanAccess, ScanEnd, TypeOK
  <2>3. CASE ScanCall
    <3>1. InstrIfSynchronization(at)
      BY <2>3 DEF ScanCall
    <3>2. Append(<< >>, SyncCallback(at)) = <<SyncCallback(at)>>
      OBVIOUS
    <3>3. CASE ~Recognised(at)
      BY <2>1, <3>1, <3>3 DEF InstrIfSynchronization, SyncBefore, SyncAfter, Unlocks
    <3>4. CASE Recognised(at) /\ I(at).fn = "pthread_mutex_unlock"
      <4>1. before' = [before EXCEPT ![at] = Append(@, SyncCallback(at))] /\ after' = after
        BY <3>1, <3>4 DEF InstrIfSynchronization
      <4>2. SyncBefore(at) = <<SyncCallback(at)>> /\ SyncAfter(at) = << >>
        BY <3>4 DEF SyncBefore, SyncAfter, Unlocks
      <4> HIDE DEF SyncCallback
      <4> QED
        BY <1>0, <2>1, <3>2, <4>1, <4>2 DEF TypeOK
    <3>5. CASE Recognised(at) /\ I(at).fn # "pthread_mutex_unlock"
      <4>1. after' = [after EXCEPT ![at] = Append(@, SyncCallback(at))] /\ before' = before
        BY <3>1, <3>5 DEF InstrIfSynchronization
      <4>2. SyncAfter(at) = <<SyncCallback(at)>> /\ SyncBefore(at) = << >>
        BY <3>5 DEF SyncBefore, SyncAfter, Unlocks
      <4> QED
        BY <1>0, <2>1, <3>2, <4>1, <4>2 DEF TypeOK
    <3> QED
      BY <3>3, <3>4, <3>5
  <2> QED
    BY <2>2, <2>3
<1>3. PlacedInv'
  <2> SUFFICES ASSUME NEW p \in Positions
               PROVE  IF p < at' THEN before'[p] = SyncBefore(p) /\ after'[p] = SyncAfter(p)
                      ELSE before'[p] = << >> /\ after'[p] = << >>
    BY <1>0, SameFunction DEF PlacedInv
  <2>1. p # at => (p < at' <=> p < at)
    BY <1>0, <1>1
  <2> QED
    BY <1>0, <1>2, <2>1 DEF PlaceInv, PlacedInv
<1>4. EnteredInv'
  <2>1. HasCalls => HasCalls'
    BY DEF ScanAccess, ScanCall, ScanEnd
  <2>2. IsCall(at) => HasCalls'
    BY <1>0, Kinds DEF ScanAccess, ScanCall, ScanEnd, TypeOK
  <2>3. \A p \in Positions : p < at' => p < at \/ p = at
    BY <1>0, <1>1
  <2> QED
    BY <1>0, <2>1, <2>2, <2>3, SameFunction DEF PlaceInv, EnteredInv
<1> QED
  BY <1>3, <1>4 DEF PlaceInv

\* The scan is over, or atomics and intrinsics are replaced in their place.
LEMMA OtherPhasesPlace ==
  ASSUME TypeOK, PlaceInv, ScanDone \/ instrumentAtomic \/ instrumentMemIntrinsic
  PROVE  PlaceInv'
<1>1. /\ UNCHANGED <<f, at, HasCalls, before, after>> /\ (Res => Res')
      /\ \/ phase = "scan" /\ phase' = "accesses" /\ at \notin Positions
         \/ phase = "atomics" /\ phase' = "intrinsics"
         \/ phase = "intrinsics" /\ phase' = "entry"
  <2>1. CASE ScanDone
    BY <2>1 DEF ScanDone
  <2>2. CASE instrumentAtomic
    <3> DEFINE kept == {p \in AtomicAccesses : HasCallback(p)}
    <3>1. /\ UNCHANGED <<f, at, HasCalls, before, after>> /\ Res' = (Res \/ kept # {})
          /\ phase = "atomics" /\ phase' = "intrinsics"
      BY <2>2 DEF instrumentAtomic
    <3> HIDE DEF kept
    <3>2. Res => Res'
      BY <3>1, Zenon
    <3> QED
      BY <3>1, <3>2
  <2>3. CASE instrumentMemIntrinsic
    BY <2>3 DEF instrumentMemIntrinsic
  <2> QED
    BY <2>1, <2>2, <2>3
<1>2. at \notin Positions => \A p \in Positions : p < at
  BY Bodies DEF TypeOK, Positions
<1>3. PlacedInv'
  BY <1>1, <1>2, SameFunction DEF PlaceInv, PlacedInv
<1>4. EnteredInv'
  BY <1>1, <1>2, SameFunction DEF PlaceInv, EnteredInv
<1> QED
  BY <1>3, <1>4 DEF PlaceInv

\* The accesses get their callbacks where nothing stood.
LEMMA AccessesPlace ==
  ASSUME TypeOK, VectorsInv, PlaceInv, instrumentLoadOrStore
  PROVE  PlaceInv'
<1> DEFINE kept == {p \in All : f.sanitize /\ GoodSize(p)}
<1>1. /\ UNCHANGED <<f, HasCalls, after>> /\ phase = "accesses" /\ phase' = "atomics"
      /\ Res' = (kept # {})
      /\ before' = [p \in Positions |->
                      IF p \in kept THEN Append(before[p], AccessCallback(p)) ELSE before[p]]
  BY DEF instrumentLoadOrStore
<1>2. \A p \in kept : p \in Positions /\ IsPlain(p) /\ GoodSize(p)
  BY DEF TypeOK, VectorsInv
<1> HIDE DEF kept
<1>3. ASSUME NEW p \in Positions
      PROVE  /\ before'[p] \in Middle(p)
             /\ IsPlain(p) /\ before'[p] # << >> => p \in kept
  <2>1. before[p] = SyncBefore(p)
    BY <1>1 DEF PlaceInv, PlacedInv
  <2>2. IsPlain(p) => before[p] = << >>
    BY <2>1, OnlyCalls DEF TypeOK
  <2>3. CASE p \in kept
    <3>1. before'[p] = Append(<< >>, AccessCallback(p))
      BY <1>1, <1>2, <2>2, <2>3
    <3>2. Append(<< >>, AccessCallback(p)) = <<AccessCallback(p)>>
      OBVIOUS
    <3> QED
      BY <1>2, <2>3, <3>1, <3>2 DEF Middle
  <2>4. CASE p \notin kept
    <3>1. before'[p] = before[p]
      BY <1>1, <2>4
    <3> QED
      BY <2>1, <2>2, <3>1 DEF Middle
  <2> QED
    BY <2>3, <2>4
<1>4. PlacedInv'
  BY <1>1, <1>3, SameFunction DEF PlaceInv, PlacedInv
<1>5. EnteredInv'
  BY <1>1, <1>3, SameFunction DEF PlaceInv, EnteredInv
<1> QED
  BY <1>4, <1>5 DEF PlaceInv

\* The callbacks of the function go around what is there, or nowhere.
LEMMA EntryPlaces ==
  ASSUME TypeOK, PlaceInv, EntryAndExit
  PROVE  PlaceInv'
<1>1. UNCHANGED <<f, HasCalls, after>> /\ phase = "entry" /\ phase' = "done"
  BY DEF EntryAndExit
<1>2. \A p \in Positions : before[p] \in Middle(p) /\ before[p] \in Seq(Callback)
  BY <1>1 DEF PlaceInv, PlacedInv, TypeOK
<1>3. CASE Res \/ HasCalls
  <2>1. Res' = TRUE /\ before' = [p \in Positions |->
                                    (IF p = 1 THEN <<[fn |-> "func_entry"]>> ELSE << >>)
                                    \o before[p] \o (IF p \in Exits THEN AtExit ELSE << >>)]
    BY <1>3 DEF EntryAndExit
  <2>2. \A p \in Positions : before'[p] = Pre(p)' \o before[p] \o Post(p)'
    BY <1>1, <2>1, SameFunction DEF Pre, Post
  <2>3. PlacedInv'
    BY <1>1, <1>2, <2>2, SameFunction DEF PlaceInv, PlacedInv
  <2>4. EnteredInv'
    BY <1>1, <2>1, SameFunction DEF PlaceInv, EnteredInv
  <2> QED
    BY <2>3, <2>4 DEF PlaceInv
<1>4. CASE ~(Res \/ HasCalls)
  <2>1. UNCHANGED <<Res, before>> /\ ~Res
    BY <1>4 DEF EntryAndExit
  <2>2. \A p \in Positions : before'[p] = Pre(p)' \o before[p] \o Post(p)'
    <3>1. \A p \in Positions : Pre(p)' = << >> /\ Post(p)' = << >>
      BY <2>1 DEF Pre, Post
    <3>2. \A s \in Seq(Callback) : << >> \o s \o << >> = s
      BY ConcatEmptySeq
    <3> QED
      BY <1>2, <2>1, <3>1, <3>2
  <2>3. PlacedInv'
    BY <1>1, <1>2, <2>2, SameFunction DEF PlaceInv, PlacedInv
  <2>4. EnteredInv'
    BY <1>1, <1>4, <2>1, SameFunction DEF PlaceInv, EnteredInv
  <2> QED
    BY <2>3, <2>4 DEF PlaceInv
<1> QED
  BY <1>3, <1>4

\* No step leaves a callback out of its place.
LEMMA PlaceStep ==
  ASSUME IInv, PlaceInv, [Next]_vars
  PROVE  PlaceInv'
<1>1. CASE UNCHANGED vars
  <2>1. UNCHANGED <<f, phase, at, HasCalls, Res, before, after>>
    BY <1>1 DEF vars
  <2>2. \A p : Pre(p)' = Pre(p) /\ Post(p)' = Post(p)
    BY <2>1, SameFunction DEF Pre, Post
  <2> QED
    BY <2>1, <2>2, SameFunction DEF PlaceInv, PlacedInv, EnteredInv
<1>2. CASE Next
  BY <1>2, ScanPlaces, OtherPhasesPlace, AccessesPlace, EntryPlaces DEF IInv, Next
<1> QED
  BY <1>1, <1>2

\* The exact places of all callbacks.
THEOREM Places == Spec => []PlaceInv
<1>1. Init => PlaceInv
  <2> SUFFICES ASSUME Init PROVE PlaceInv
    OBVIOUS
  <2>1. phase = "scan" /\ at = 1 /\ \A p \in Positions : before[p] = << >> /\ after[p] = << >>
    BY DEF Init
  <2>2. \A p \in Positions : ~(p < at)
    BY <2>1 DEF Positions
  <2> QED
    BY <2>1, <2>2 DEF PlaceInv, PlacedInv, EnteredInv
<1> QED
  BY <1>1, PlaceStep, Invariance, PTL DEF Spec

-----------------------------------------------------------------------------
(* What follows from the places.                                           *)

\* A callback more.
LEMMA CountAppend ==
  ASSUME NEW s \in Seq(Callback), NEW c \in Callback, NEW name
  PROVE  /\ Count(s, name) \in Nat
         /\ Count(Append(s, c), name) = Count(s, name) + (IF c.fn = name THEN 1 ELSE 0)
<1> DEFINE old == {i \in DOMAIN s : s[i].fn = name}
           new == {i \in DOMAIN Append(s, c) : Append(s, c)[i].fn = name}
<1>1. Len(s) \in Nat /\ DOMAIN s = 1 .. Len(s)
  BY LenProperties
<1>2. IsFiniteSet(old) /\ Cardinality(old) \in Nat
  <2>1. IsFiniteSet(1 .. Len(s))
    BY <1>1, FS_Interval
  <2> QED
    BY <1>1, <2>1, FS_Subset, FS_CardinalityType
<1>3. /\ DOMAIN Append(s, c) = 1 .. Len(s) + 1
      /\ \A i \in 1 .. Len(s) : Append(s, c)[i] = s[i]
      /\ Append(s, c)[Len(s) + 1] = c
  BY <1>1, AppendProperties, LenProperties
<1>4. new = old \cup {i \in {Len(s) + 1} : c.fn = name}
  BY <1>1, <1>3
<1>5. Len(s) + 1 \notin old
  BY <1>1
<1>6. Count(s, name) = Cardinality(old) /\ Count(Append(s, c), name) = Cardinality(new)
  BY DEF Count
<1> HIDE DEF old, new
<1>7. CASE c.fn = name
  <2>1. new = old \cup {Len(s) + 1}
    BY <1>4, <1>7
  <2>2. Cardinality(new) = Cardinality(old) + 1
    BY <1>2, <1>5, <2>1, FS_AddElement
  <2> QED
    BY <1>2, <1>6, <1>7, <2>2
<1>8. CASE c.fn # name
  <2>1. new = old
    BY <1>4, <1>8
  <2> QED
    BY <1>2, <1>6, <1>8, <2>1
<1> QED
  BY <1>7, <1>8

\* In a sequence of at most one callback.
LEMMA CountShort ==
  ASSUME NEW name
  PROVE  /\ Count(<< >>, name) = 0
         /\ \A c \in Callback : Count(<<c>>, name) = IF c.fn = name THEN 1 ELSE 0
<1>1. Count(<< >>, name) = 0
  <2>1. {i \in DOMAIN << >> : << >>[i].fn = name} = {}
    OBVIOUS
  <2> QED
    BY <2>1, FS_EmptySet DEF Count
<1>2. ASSUME NEW c \in Callback
      PROVE  Count(<<c>>, name) = IF c.fn = name THEN 1 ELSE 0
  <2> DEFINE e == << >>
  <2>1. e \in Seq(Callback) /\ e = << >>
    OBVIOUS
  <2> HIDE DEF e
  <2>2. Count(Append(e, c), name) = Count(e, name) + (IF c.fn = name THEN 1 ELSE 0)
    BY <2>1, CountAppend
  <2>3. Append(e, c) = <<c>>
    BY <2>1
  <2>4. Count(e, name) = 0
    BY <1>1, <2>1
  <2> QED
    BY <2>2, <2>3, <2>4
<1> QED
  BY <1>1, <1>2

\* In a sequence and what follows it.
LEMMA CountConcat ==
  ASSUME NEW s \in Seq(Callback), NEW t, NEW name,
         \/ t = << >>
         \/ \E c \in Callback : t = <<c>>
         \/ \E c, d \in Callback : t = <<c, d>>
  PROVE  /\ t \in Seq(Callback) /\ s \o t \in Seq(Callback)
         /\ Count(s \o t, name) = Count(s, name) + Count(t, name)
<1>1. CASE t = << >>
  <2>1. s \o t = s
    BY <1>1, ConcatEmptySeq
  <2>2. Count(s, name) \in Nat
    <3>1. PICK c : c = [fn |-> "func_entry"]
      OBVIOUS
    <3>2. c \in Callback
      BY <3>1 DEF Callback
    <3> QED
      BY <3>2, CountAppend
  <2> QED
    BY <1>1, <2>1, <2>2, CountShort
<1>2. ASSUME NEW c \in Callback, t = <<c>>
      PROVE  /\ t \in Seq(Callback) /\ s \o t \in Seq(Callback)
             /\ Count(s \o t, name) = Count(s, name) + Count(t, name)
  <2>1. s \o t = Append(s, c)
    BY <1>2, AppendIsConcat
  <2> QED
    <3>1. Count(Append(s, c), name) = Count(s, name) + (IF c.fn = name THEN 1 ELSE 0)
      BY CountAppend
    <3>2. Count(<<c>>, name) = IF c.fn = name THEN 1 ELSE 0
      BY CountShort
    <3>3. <<c>> \in Seq(Callback) /\ Append(s, c) \in Seq(Callback)
      BY AppendProperties
    <3> QED
      BY <1>2, <2>1, <3>1, <3>2, <3>3
<1>3. ASSUME NEW c \in Callback, NEW d \in Callback, t = <<c, d>>
      PROVE  /\ t \in Seq(Callback) /\ s \o t \in Seq(Callback)
             /\ Count(s \o t, name) = Count(s, name) + Count(t, name)
  <2>1. <<c>> \in Seq(Callback) /\ t = Append(<<c>>, d)
    BY <1>3
  <2>2. s \o <<c>> = Append(s, c) /\ Append(s, c) \in Seq(Callback)
    BY AppendIsConcat, AppendProperties
  <2>3. s \o t = Append(Append(s, c), d)
    BY <2>1, <2>2, AppendIsConcat, ConcatAssociative
  <2>4. Count(t, name) = Count(<<c>>, name) + (IF d.fn = name THEN 1 ELSE 0)
    BY <2>1, CountAppend
  <2>5. /\ Count(s \o t, name) = Count(Append(s, c), name) + (IF d.fn = name THEN 1 ELSE 0)
        /\ Count(Append(s, c), name) = Count(s, name) + (IF c.fn = name THEN 1 ELSE 0)
        /\ Count(s, name) \in Nat
    <3>1. PICK a \in Seq(Callback) : a = Append(s, c)
      BY <2>2
    <3>2. Count(Append(a, d), name) = Count(a, name) + (IF d.fn = name THEN 1 ELSE 0)
      BY CountAppend
    <3>3. /\ Count(Append(s, c), name) = Count(s, name) + (IF c.fn = name THEN 1 ELSE 0)
          /\ Count(s, name) \in Nat
      BY CountAppend
    <3> QED
      BY <2>3, <3>1, <3>2, <3>3
  <2>6. Count(<<c>>, name) = IF c.fn = name THEN 1 ELSE 0
    BY CountShort
  <2>7. t \in Seq(Callback) /\ s \o t \in Seq(Callback)
    BY <2>1, <2>2, <2>3, AppendProperties
  <2> QED
    BY <2>4, <2>5, <2>6, <2>7
<1> QED
  BY <1>1, <1>2, <1>3

\* The callbacks at an exit, one by one.
LEMMA AtExitIs ==
  /\ f.main => /\ AtExit = <<[fn |-> "func_exit"], [fn |-> "main_func_exit"]>>
               /\ AtExit = Append(<<[fn |-> "func_exit"]>>, [fn |-> "main_func_exit"])
  /\ ~f.main => AtExit = <<[fn |-> "func_exit"]>>
<1>1. [fn |-> "func_exit"] \in Callback /\ [fn |-> "main_func_exit"] \in Callback
  BY DEF Callback
<1>2. \A c, d \in Callback : /\ <<c>> \o <<d>> = <<c, d>> /\ <<c, d>> = Append(<<c>>, d)
                            /\ <<c>> \o << >> = <<c>>
  <2> HIDE DEF Callback
  <2> SUFFICES ASSUME NEW c \in Callback, NEW d \in Callback
               PROVE  /\ <<c>> \o <<d>> = <<c, d>> /\ <<c, d>> = Append(<<c>>, d)
                      /\ <<c>> \o << >> = <<c>>
    OBVIOUS
  <2>1. <<c>> \in Seq(Callback)
    OBVIOUS
  <2>2. ASSUME NEW t, t = <<c, d>> PROVE t = Append(<<c>>, d)
    BY <2>1, <2>2
  <2> QED
    BY <2>1, <2>2, AppendIsConcat, ConcatEmptySeq
<1> QED
  BY <1>1, <1>2 DEF AtExit

\* The callbacks of each place.
LEMMA Parts ==
  ASSUME f \in Functions, NEW p \in Positions, NEW m \in Middle(p)
  PROVE  /\ Pre(p) \in Seq(Callback)
         /\ Pre(p) = << >> \/ Pre(p) = <<[fn |-> "func_entry"]>>
         /\ m = << >> \/ \E c \in Callback : m = <<c>>
         /\ \/ Post(p) = << >>
            \/ ~f.main /\ Post(p) = <<[fn |-> "func_exit"]>>
            \/ f.main /\ Post(p) = <<[fn |-> "func_exit"], [fn |-> "main_func_exit"]>>
<1>1. [fn |-> "func_entry"] \in Callback
  BY DEF Callback
<1>2. Pre(p) \in Seq(Callback) /\ (Pre(p) = << >> \/ Pre(p) = <<[fn |-> "func_entry"]>>)
  BY <1>1 DEF Pre
<1>3. m = << >> \/ \E c \in Callback : m = <<c>>
  <2> HIDE DEF Callback, AccessCallback, SyncCallback
  <2>1. CASE IsPlain(p)
    BY <2>1, CallbackTypes DEF Middle
  <2>2. CASE ~IsPlain(p)
    BY <2>2, CallbackTypes DEF Middle, SyncBefore, Unlocks
  <2> QED
    BY <2>1, <2>2
<1>4. AtExit = IF f.main THEN <<[fn |-> "func_exit"], [fn |-> "main_func_exit"]>>
               ELSE <<[fn |-> "func_exit"]>>
  BY AtExitIs
<1> QED
  BY <1>2, <1>3, <1>4 DEF Post

\* The callbacks before an instruction, counted place by place.
LEMMA CountBefore ==
  ASSUME f \in Functions, NEW p \in Positions, NEW m \in Middle(p), NEW name
  PROVE  Count(Pre(p) \o m \o Post(p), name) =
           Count(Pre(p), name) + Count(m, name) + Count(Post(p), name)
<1> HIDE DEF Pre, Post, Middle
<1>1. /\ Pre(p) \o m \in Seq(Callback)
      /\ Count(Pre(p) \o m, name) = Count(Pre(p), name) + Count(m, name)
  <2>1. Pre(p) \in Seq(Callback) /\ (m = << >> \/ \E c \in Callback : m = <<c>>)
    BY Parts
  <2> QED
    BY <2>1, CountConcat
<1>2. Count((Pre(p) \o m) \o Post(p), name) = Count(Pre(p) \o m, name) + Count(Post(p), name)
  <2>1. [fn |-> "func_exit"] \in Callback /\ [fn |-> "main_func_exit"] \in Callback
    BY DEF Callback
  <2>2. \/ Post(p) = << >>
        \/ \E c \in Callback : Post(p) = <<c>>
        \/ \E c, d \in Callback : Post(p) = <<c, d>>
    BY <2>1, Parts
  <2> QED
    BY <1>1, <2>2, CountConcat
<1> QED
  BY <1>1, <1>2

\* What the callback of the function and that of an access count for.
LEMMA CountParts ==
  ASSUME f \in Functions, NEW p \in Positions, NEW m \in Middle(p)
  PROVE  /\ Count(Pre(p), "func_entry") = (IF Res /\ p = 1 THEN 1 ELSE 0)
         /\ Count(Pre(p), "func_exit") = 0 /\ Count(Pre(p), "thread_unlock") = 0
         /\ Count(Post(p), "func_exit") = (IF Res /\ p \in Exits THEN 1 ELSE 0)
         /\ Count(Post(p), "func_entry") = 0 /\ Count(Post(p), "thread_unlock") = 0
         /\ Count(m, "func_entry") = 0 /\ Count(m, "func_exit") = 0
         /\ Count(m, "thread_unlock") = (IF Unlocks(p) THEN 1 ELSE 0)
<1>1. /\ [fn |-> "func_entry"] \in Callback
      /\ [fn |-> "func_exit"] \in Callback /\ [fn |-> "main_func_exit"] \in Callback
  BY DEF Callback
<1>2. /\ Count(Pre(p), "func_entry") = (IF Res /\ p = 1 THEN 1 ELSE 0)
      /\ Count(Pre(p), "func_exit") = 0 /\ Count(Pre(p), "thread_unlock") = 0
  BY <1>1, CountShort DEF Pre
<1>3. /\ Count(Post(p), "func_exit") = (IF Res /\ p \in Exits THEN 1 ELSE 0)
      /\ Count(Post(p), "func_entry") = 0 /\ Count(Post(p), "thread_unlock") = 0
  <2>1. ASSUME NEW name
        PROVE  Count(AtExit, name) =
                 (IF "func_exit" = name THEN 1 ELSE 0)
                 + (IF f.main /\ "main_func_exit" = name THEN 1 ELSE 0)
    <3> DEFINE e == <<[fn |-> "func_exit"]>>
               d == [fn |-> "main_func_exit"]
    <3>1. Count(e, name) = (IF "func_exit" = name THEN 1 ELSE 0)
      BY <1>1, CountShort
    <3>2. e \in Seq(Callback) /\ d \in Callback /\ d.fn = "main_func_exit"
      BY <1>1
    <3>3. AtExit = IF f.main THEN Append(e, d) ELSE e
      BY AtExitIs
    <3> HIDE DEF e, d
    <3>4. Count(Append(e, d), name) = Count(e, name) + (IF d.fn = name THEN 1 ELSE 0)
      BY <3>2, CountAppend
    <3> QED
      BY <3>1, <3>2, <3>3, <3>4
  <2>3. /\ Count(AtExit, "func_exit") = 1
        /\ Count(AtExit, "func_entry") = 0 /\ Count(AtExit, "thread_unlock") = 0
    BY <2>1
  <2> QED
    BY <2>3, CountShort DEF Post
<1>4. /\ Count(m, "func_entry") = 0 /\ Count(m, "func_exit") = 0
      /\ Count(m, "thread_unlock") = (IF Unlocks(p) THEN 1 ELSE 0)
  <2>1. CASE IsPlain(p)
    <3>1. ~Unlocks(p)
      BY <2>1, OnlyCalls DEF Unlocks
    <3>2. CASE m = << >>
      BY <3>1, <3>2, CountShort
    <3>3. CASE m = <<AccessCallback(p)>> /\ GoodSize(p)
      <4>1. AccessCallback(p) \in Callback
        BY <2>1, <3>3, CallbackTypes
      <4>2. AccessCallback(p).fn \in {"read", "write", "unaligned_read", "unaligned_write",
                                      "vptr_read", "vptr_update"}
        BY DEF AccessCallback
      <4> HIDE DEF AccessCallback
      <4> QED
        BY <3>1, <3>3, <4>1, <4>2, CountShort
    <3> QED
      BY <2>1, <3>2, <3>3 DEF Middle
  <2>2. CASE ~IsPlain(p) /\ Unlocks(p)
    <3>1. m = <<SyncCallback(p)>> /\ SyncCallback(p) \in Callback
      BY <2>2, CallbackTypes DEF Middle, SyncBefore, Unlocks
    <3>2. SyncCallback(p).fn = "thread_unlock"
      BY <2>2 DEF Unlocks, SyncCallback
    <3> HIDE DEF SyncCallback
    <3> QED
      BY <2>2, <3>1, <3>2, CountShort
  <2>3. CASE ~IsPlain(p) /\ ~Unlocks(p)
    BY <2>3, CountShort DEF Middle, SyncBefore
  <2> QED
    BY <2>1, <2>2, <2>3
<1> QED
  BY <1>2, <1>3, <1>4

\* All the callbacks before an instruction, once the pass is done.
LEMMA CountDone ==
  ASSUME f \in Functions, PlaceInv, phase = "done", NEW p \in Positions
  PROVE  /\ Count(before[p], "func_entry") = (IF Res /\ p = 1 THEN 1 ELSE 0)
         /\ Count(before[p], "func_exit") = (IF Res /\ p \in Exits THEN 1 ELSE 0)
         /\ Count(before[p], "thread_unlock") = (IF Unlocks(p) THEN 1 ELSE 0)
<1>1. PICK m \in Middle(p) : before[p] = Pre(p) \o m \o Post(p)
  BY DEF PlaceInv, PlacedInv
<1>2. /\ Count(before[p], "func_entry") = Count(Pre(p), "func_entry") + Count(m, "func_entry")
                                          + Count(Post(p), "func_entry")
      /\ Count(before[p], "func_exit") = Count(Pre(p), "func_exit") + Count(m, "func_exit")
                                         + Count(Post(p), "func_exit")
      /\ Count(before[p], "thread_unlock") = Count(Pre(p), "thread_unlock")
                                             + Count(m, "thread_unlock")
                                             + Count(Post(p), "thread_unlock")
  BY <1>1, CountBefore
<1> QED
  BY <1>2, CountParts

(* Every call by name to create, join, lock or unlock has its one callback on *)
(* the side of the call where the order it makes holds, and no other          *)
(* instruction has one (InstrIfSynchronization).                              *)
THEOREM EveryCallAnnounced == Spec => []SyncsAnnounced
<1>1. ASSUME IInv, PlaceInv PROVE SyncsAnnounced
  <2> SUFFICES ASSUME phase = "done", NEW p \in Positions
               PROVE  LET called(fn) == IF I(p).op = "call" /\ I(p).direct /\ I(p).fn = fn
                                        THEN 1 ELSE 0
                      IN  /\ Count(after[p], "thread_create") = called("pthread_create")
                          /\ Count(after[p], "thread_join") = called("pthread_join")
                          /\ Count(after[p], "thread_lock") = called("pthread_mutex_lock")
                          /\ Count(before[p], "thread_unlock") = called("pthread_mutex_unlock")
                          /\ Len(after[p]) + Count(before[p], "thread_unlock") =
                             IF Recognised(p) THEN 1 ELSE 0
    BY DEF SyncsAnnounced
  <2>1. f \in Functions
    BY <1>1 DEF IInv, TypeOK
  <2>2. after[p] = SyncAfter(p)
    BY <1>1 DEF PlaceInv, PlacedInv
  <2>3. Count(before[p], "thread_unlock") = IF Unlocks(p) THEN 1 ELSE 0
    BY <1>1, <2>1, CountDone
  <2>4. CASE Recognised(p) /\ ~Unlocks(p)
    <3>1. after[p] = <<SyncCallback(p)>> /\ SyncCallback(p) \in Callback
      BY <2>1, <2>2, <2>4, CallbackTypes DEF SyncAfter
    <3>2. ASSUME NEW name
          PROVE  Count(after[p], name) = IF SyncCallback(p).fn = name THEN 1 ELSE 0
      BY <3>1, CountShort
    <3>3. Len(after[p]) = 1
      BY <3>1
    <3>4. /\ I(p).op = "call" /\ I(p).direct
          /\ \/ I(p).fn = "pthread_create" /\ SyncCallback(p).fn = "thread_create"
             \/ I(p).fn = "pthread_join" /\ SyncCallback(p).fn = "thread_join"
             \/ I(p).fn = "pthread_mutex_lock" /\ SyncCallback(p).fn = "thread_lock"
      BY <2>4 DEF Recognised, Unlocks, SyncNames, SyncCallback
    <3> QED
      BY <2>3, <2>4, <3>2, <3>3, <3>4
  <2>5. CASE ~Recognised(p) \/ Unlocks(p)
    <3>1. after[p] = << >>
      BY <2>2, <2>5 DEF SyncAfter
    <3>2. Len(after[p]) = 0 /\ \A name : Count(after[p], name) = 0
      BY <3>1, CountShort
    <3>3. \A n \in SyncNames \ {"pthread_mutex_unlock"} :
            ~(I(p).op = "call" /\ I(p).direct /\ I(p).fn = n)
      BY <2>5 DEF Recognised, Unlocks
    <3>4. Unlocks(p) <=> I(p).op = "call" /\ I(p).direct /\ I(p).fn = "pthread_mutex_unlock"
      BY DEF Unlocks, Recognised, SyncNames
    <3> QED
      BY <2>3, <2>5, <3>2, <3>3, <3>4 DEF SyncNames, Unlocks
  <2> QED
    BY <2>4, <2>5
<1> QED
  BY <1>1, Invariance, Places, PTL

(* The function is entered once and left once at each exit, if it is entered  *)
(* at all, and it is when it has a call or an access that is judged           *)
(* (runOnFunction).                                                           *)
THEOREM EntriesMatchExits == Spec => []StacksBalanced
<1>1. ASSUME IInv, PlaceInv PROVE StacksBalanced
  <2> SUFFICES ASSUME phase = "done", Positions # {} PROVE StacksBalanced
    BY DEF StacksBalanced
  <2>1. f \in Functions /\ 1 \in Positions /\ Res \in BOOLEAN
    BY <1>1, Bodies DEF IInv, TypeOK, Positions
  <2>2. Count(before[1], "func_entry") = IF Res THEN 1 ELSE 0
    BY <1>1, <2>1, CountDone
  <2>3. (\E p \in Positions : Judged(p) \/ IsCall(p)) => Res
    <3> SUFFICES ASSUME NEW p \in Positions, Judged(p) \/ IsCall(p), ~Res PROVE FALSE
      OBVIOUS
    <3>1. ~IsCall(p) /\ (IsPlain(p) => before[p] = << >>)
      BY <1>1 DEF PlaceInv, EnteredInv
    <3>2. IsPlain(p) /\ DOMAIN before[p] # {}
      BY <3>1 DEF Judged
    <3>3. DOMAIN before[p] = {}
      BY <3>1, <3>2
    <3> QED
      BY <3>2, <3>3
  <2>4. ASSUME NEW p \in Positions, I(p).op \in {"ret", "resume"}
        PROVE  Count(before[p], "func_exit") = IF Res THEN 1 ELSE 0
    <3>1. p \in Exits
      BY <2>4 DEF Exits
    <3> QED
      BY <1>1, <2>1, <3>1, CountDone
  <2>5. ASSUME NEW p \in Positions, I(p).op \in {"ret", "resume"}, f.main, Res
        PROVE  before[p][Len(before[p])].fn = "main_func_exit"
    <3> DEFINE r == [fn |-> "main_func_exit"]
               post == <<[fn |-> "func_exit"], r>>
    <3>1. PICK m \in Middle(p) : before[p] = Pre(p) \o m \o Post(p)
      BY <1>1 DEF PlaceInv, PlacedInv
    <3>2. Post(p) = post
      BY <2>5, AtExitIs DEF Post, Exits
    <3>3. Pre(p) \o m \in Seq(Callback)
      <4>1. m \in Seq(Callback) /\ Pre(p) \in Seq(Callback)
        <5> HIDE DEF Pre, Middle, Callback
        <5>1. Pre(p) \in Seq(Callback) /\ (m = << >> \/ \E c \in Callback : m = <<c>>)
          BY <2>1, Parts
        <5>2. << >> \in Seq(Callback) /\ \A c \in Callback : <<c>> \in Seq(Callback)
          OBVIOUS
        <5> QED
          BY <5>1, <5>2
      <4> QED
        BY <4>1, ConcatProperties
    <3>4. post \in Seq(Callback) /\ Len(post) = 2 /\ post[2] = r
      <4>1. [fn |-> "func_exit"] \in Callback /\ r \in Callback
        BY DEF Callback
      <4> QED
        BY <4>1
    <3> HIDE DEF post
    <3>5. PICK s \in Seq(Callback) : s = Pre(p) \o m
      BY <3>3
    <3>6. before[p] = s \o post
      BY <3>1, <3>2, <3>5
    <3>7. Len(s \o post) = Len(s) + 2 /\ (s \o post)[Len(s) + 2] = r
      <4>1. Len(s) \in Nat
        BY LenProperties
      <4>2. /\ Len(s \o post) = Len(s) + 2
            /\ \A i \in 1 .. Len(s) + 2 : (s \o post)[i] = IF i <= Len(s) THEN s[i]
                                                         ELSE post[i - Len(s)]
        <5>1. \A t \in Seq(Callback) :
                /\ Len(s \o t) = Len(s) + Len(t)
                /\ \A i \in 1 .. Len(s) + Len(t) : (s \o t)[i] = IF i <= Len(s) THEN s[i]
                                                             ELSE t[i - Len(s)]
          <6> HIDE DEF Callback
          <6> QED
            BY ConcatProperties
        <5>2. post \in Seq(Callback) /\ Len(post) = 2
          BY <3>4
        <5> HIDE DEF r
        <5> QED
          BY <5>1, <5>2, Zenon
      <4>3. Len(s) + 2 \in 1 .. Len(s) + 2 /\ ~(Len(s) + 2 <= Len(s)) /\ Len(s) + 2 - Len(s) = 2
        BY <4>1
      <4> QED
        BY <3>4, <4>2, <4>3
    <3> QED
      BY <3>6, <3>7
  <2> QED
    BY <2>2, <2>3, <2>4, <2>5 DEF StacksBalanced
<1> QED
  BY <1>1, Invariance, Places, PTL

\* The callbacks that are no access's, or are one that the runtime has.
Known ==
  {c \in Callback : "size" \in DOMAIN c => [fn |-> c.fn, size |-> c.size] \in Declared}

(* Whatever the size and the alignment of an access, its callback is one that *)
(* tsan_interface.h declares (instrumentLoadOrStore).                         *)
THEOREM OnlyDeclared == Spec => []CallbacksDefined
<1>1. ASSUME IInv, PlaceInv PROVE CallbacksDefined
  <2> SUFFICES ASSUME phase = "done", NEW p \in Positions
               PROVE  \A i \in DOMAIN before[p] :
                        "size" \in DOMAIN before[p][i] =>
                          [fn |-> before[p][i].fn, size |-> before[p][i].size] \in Declared
    BY DEF CallbacksDefined
  <2>1. f \in Functions
    BY <1>1 DEF IInv, TypeOK
  <2>2. PICK m \in Middle(p) : before[p] = Pre(p) \o m \o Post(p)
    BY <1>1 DEF PlaceInv, PlacedInv
  <2>3. \A name \in {"func_entry", "func_exit", "main_func_exit"} : [fn |-> name] \in Known
    BY DEF Known, Callback
  <2>4. Pre(p) \in Seq(Known) /\ Post(p) \in Seq(Known)
    <3>1. Pre(p) \in Seq(Known)
      BY <2>3 DEF Pre
    <3>2. <<[fn |-> "func_exit"]>> \in Seq(Known)
          /\ <<[fn |-> "func_exit"], [fn |-> "main_func_exit"]>> \in Seq(Known)
      BY <2>3
    <3> QED
      <4>1. AtExit \in Seq(Known)
        BY <2>1, <3>2, AtExitIs
      <4>2. << >> \in Seq(Known)
        OBVIOUS
      <4> HIDE DEF Known, AtExit
      <4> QED
        BY <3>1, <4>1, <4>2 DEF Post
  <2>5. m \in Seq(Known)
    <3>1. CASE m = << >>
      BY <3>1
    <3>2. CASE IsPlain(p) /\ GoodSize(p) /\ m = <<AccessCallback(p)>>
      <4>1. AccessCallback(p) \in Callback /\ I(p).align \in Nat /\ I(p).vtable \in BOOLEAN
        BY <2>1, <3>2, CallbackTypes, Kinds
      <4>2. I(p).size = 1 => Aligned(p)
        BY <4>1 DEF Aligned
      <4>3. CASE I(p).vtable
        <5>1. "size" \notin DOMAIN AccessCallback(p)
          BY <4>3 DEF AccessCallback
        <5> QED
          BY <3>2, <4>1, <5>1 DEF Known
      <4>4. CASE ~I(p).vtable
        <5>1. [fn |-> AccessCallback(p).fn, size |-> AccessCallback(p).size] \in Declared
          BY <3>2, <4>2, <4>4 DEF AccessCallback, Declared, GoodSize, Sizes
        <5>2. AccessCallback(p) \in Known
          BY <4>1, <5>1 DEF Known
        <5> HIDE DEF Known
        <5> QED
          BY <3>2, <5>2
      <4> QED
        BY <4>3, <4>4
    <3>3. CASE Recognised(p) /\ m = <<SyncCallback(p)>>
      <4>1. SyncCallback(p) \in Callback /\ DOMAIN SyncCallback(p) = {"fn"}
        BY <2>1, <3>3, CallbackTypes DEF SyncCallback
      <4>2. SyncCallback(p) \in Known
        BY <4>1 DEF Known
      <4> HIDE DEF Known
      <4> QED
        BY <3>3, <4>2
    <3> QED
      BY <3>1, <3>2, <3>3 DEF Middle, SyncBefore, Unlocks
  <2>6. before[p] \in Seq(Known)
    <3> HIDE DEF Known
    <3>1. Pre(p) \o m \in Seq(Known)
      BY <2>4, <2>5, ConcatProperties
    <3> QED
      BY <2>2, <2>4, <3>1, ConcatProperties
  <2>7. \A i \in DOMAIN before[p] : before[p][i] \in Known
    <3> HIDE DEF Known
    <3> QED
      BY <2>6
  <2> QED
    BY <2>7 DEF Known
<1> QED
  BY <1>1, Invariance, Places, PTL
=============================================================================
