---------------------------- MODULE EtsanClocks ----------------------------
(***************************************************************************)
(* The vector clocks of the runtime (etsan/defs.h).                        *)
(*                                                                         *)
(* The code packs an epoch c@t into one int: the clock in the low 24 bits, *)
(* the thread's index in the high 8.  Here an epoch is the record          *)
(* [tid, clock], and entry i of a vector clock is its clock alone, because *)
(* every entry the code stores at index i has i in its high byte.          *)
(*                                                                         *)
(* A std::vector<int> is modelled with the memory behind it: `size' is     *)
(* what size() returns and `at' is the heap block, defined past the end    *)
(* too.  The runtime stores a thread's own clock one past the end of its   *)
(* vector, and that word survives until push_back writes over it: glibc's  *)
(* chunk for a power-of-two capacity always has room for one more int.     *)
(***************************************************************************)
EXTENDS Integers, FiniteSets

CONSTANT Handles      \* the values pthread_self() can return

ASSUME HandlesAssumption == IsFiniteSet(Handles)

\* The largest index getState can give out: it numbers threads from 1.
MaxTid == Cardinality(Handles)

Slots == 0 .. MaxTid

VectorClock == [size : 0 .. MaxTid + 1, at : [Slots -> Nat]]

Epoch == [tid : Slots, clock : Nat]

Larger(m, n) == IF m < n THEN n ELSE m

\* Wrong on purpose, to show that TypeOK notices: resize(n + 1).
newVectorClockTooLong(n) == [size |-> n + 1, at |-> [i \in Slots |-> 0]]

\* newVectorClock: n entries, all at clock 0.
newVectorClock(n) == [size |-> n, at |-> [i \in Slots |-> 0]]

\* Wrong on purpose, to show that DenseTids notices: `if' for `for'.
PushOnce(v, n, fresh) ==
  IF v.size < n
  THEN [size |-> v.size + 1, at |-> [v.at EXCEPT ![v.size] = fresh[v.size]]]
  ELSE v

\* push_back up to n entries; entry i is fresh[i].
PushUpTo(v, n, fresh) ==
  [size |-> Larger(v.size, n),
   at   |-> [i \in Slots |-> IF v.size <= i /\ i < n THEN fresh[i] ELSE v.at[i]]]

\* ExtendVectorClock: append zeros up to n entries.
ExtendVectorClock(v, n) == PushUpTo(v, n, [i \in Slots |-> 0])

\* ExtendVectorClocks(v, w), as seen from v: v grows to the longer of the two.
ExtendToMatch(v, w) == ExtendVectorClock(v, Larger(v.size, w.size))

\* The loop v[i] = w[i] that ft_release runs after ExtendVectorClocks;
\* it stops at size(), so it leaves alone a word that lies past the end.
CopyClock(v, w) ==
  LET ev == ExtendToMatch(v, w)
      ew == ExtendToMatch(w, v)
  IN  [ev EXCEPT !.at = [i \in Slots |-> IF i < ev.size THEN ew.at[i]
                                                        ELSE ev.at[i]]]

\* The loop v[i] = max(v[i], w[i]) that ft_acquire, ft_fork and ft_join run
\* after ExtendVectorClocks.
JoinClock(v, w) ==
  LET ev == ExtendToMatch(v, w)
      ew == ExtendToMatch(w, v)
  IN  [ev EXCEPT !.at = [i \in Slots |-> IF i < ev.size
                                         THEN Larger(ev.at[i], ew.at[i])
                                         ELSE ev.at[i]]]
=============================================================================
