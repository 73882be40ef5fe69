---------------------------- MODULE EpochPacking ----------------------------
(***************************************************************************)
(* An epoch as the runtime stores it (etsan/defs.h): the clock in the low  *)
(* bits of a word, the index of the thread in the high ones.  EtsanClocks  *)
(* keeps the two apart, in a record, and a vector's entries as clocks      *)
(* alone; the theorems say when the words behave in the same way, and what *)
(* happens at the first clock that does not fit.                           *)
(*                                                                         *)
(* In the code Clocks is 2^24, Tids 2^8, NegativeTid 2^7 and SharedTid     *)
(* 239 (0xEF); the theorems hold for any widths.                           *)
(***************************************************************************)
EXTENDS Integers, TLAPS

CONSTANTS
  Clocks, Tids,    \* how many clocks and how many indices have a word
  NegativeTid,     \* the first index that sets the sign bit
  SharedTid        \* the index in READ_SHARED

Widths ==
  /\ Clocks \in Nat \ {0} /\ Tids \in Nat \ {0}
  /\ NegativeTid \in 0 .. Tids /\ SharedTid \in 0 .. Tids - 1

Tid   == 0 .. Tids - 1
Clock == 0 .. Clocks - 1

\* (tid << 24) + clock
Pack(tid, clock) == Clocks * tid + clock

TID(w) == w \div Clocks

CLOCK(w) == w % Clocks

\* 0xEFFFFFFF
READ_SHARED == Pack(SharedTid, Clocks - 1)

\* The word as the int that < and <= compare.
Signed(w) == IF w < Clocks * NegativeTid THEN w ELSE w - Clocks * Tids

\* epoch++
increment(w) == w + 1

-----------------------------------------------------------------------------
\* The blocks of n words do not overlap.
LEMMA Multiples ==
  ASSUME NEW n \in Nat \ {0}, NEW t \in Int, NEW u \in Int, t < u
  PROVE  n * u >= n * t + n
<1>1. n * (u - t) >= n
  BY SMTT(20)
<1> QED
  BY <1>1, SMTT(20)

\* Within the two widths a word has one index and one clock.
LEMMA OnlyOne ==
  ASSUME Widths, NEW t \in Tid, NEW u \in Int, NEW c \in Clock, NEW d \in Clock,
         Pack(t, c) = Pack(u, d)
  PROVE  t = u /\ c = d
<1>1. Clocks \in Nat \ {0} /\ t \in Int /\ c \in 0 .. Clocks - 1 /\ d \in 0 .. Clocks - 1
  BY DEF Widths, Tid, Clock
<1>2. Clocks * t + c = Clocks * u + d
  BY DEF Pack
<1>3. t < u => Clocks * u >= Clocks * t + Clocks
  BY <1>1, Multiples
<1>4. u < t => Clocks * t >= Clocks * u + Clocks
  BY <1>1, Multiples
<1> QED
  BY <1>1, <1>2, <1>3, <1>4, SMTT(20)

\* TID and CLOCK give back what was packed (defs.h:32-33, 134, 203-204).
THEOREM Unpacks ==
  ASSUME Widths, NEW t \in Tid, NEW c \in Clock
  PROVE  TID(Pack(t, c)) = t /\ CLOCK(Pack(t, c)) = c
<1> DEFINE w == Pack(t, c)
<1>1. w \in Int /\ Clocks \in Nat \ {0}
  BY DEF Widths, Pack, Tid, Clock
<1>2. w = Clocks * TID(w) + CLOCK(w) /\ CLOCK(w) \in Clock /\ TID(w) \in Int
  <2> HIDE DEF w
  <2> QED
    BY <1>1, SMTT(20) DEF TID, CLOCK, Clock
<1>3. Pack(t, c) = Pack(TID(w), CLOCK(w))
  BY <1>2 DEF Pack
<1> QED
  BY <1>2, <1>3, OnlyOne

\* The words of two epochs are equal exactly when the epochs are: the tests
\* x.R == t.epoch and x.W == t.epoch (fasttrack.h:35, 87).
THEOREM SameEpoch ==
  ASSUME Widths, NEW t \in Tid, NEW u \in Tid, NEW c \in Clock, NEW d \in Clock
  PROVE  Pack(t, c) = Pack(u, d) <=> t = u /\ c = d
<1>1. u \in Int
  BY DEF Widths, Tid
<1> QED
  BY <1>1, OnlyOne

\* Comparing the words of one thread as ints compares its clocks, also when the
\* index sets the sign bit: std::max in ft_acquire, ft_fork and ft_join, and the
\* comparisons of fasttrack.h:52 and 101, are those of the model.
THEOREM SameOrder ==
  ASSUME Widths, NEW t \in Tid, NEW c \in Clock, NEW d \in Clock
  PROVE  Signed(Pack(t, c)) <= Signed(Pack(t, d)) <=> c <= d
<1>1. /\ Clocks \in Nat \ {0} /\ t \in Int /\ NegativeTid \in Int /\ Tids \in Int
      /\ c \in 0 .. Clocks - 1 /\ d \in 0 .. Clocks - 1
  BY DEF Widths, Tid, Clock
<1>2. CASE t < NegativeTid
  <2>1. Clocks * NegativeTid >= Clocks * t + Clocks
    BY <1>1, <1>2, Multiples
  <2>2. Pack(t, c) < Clocks * NegativeTid /\ Pack(t, d) < Clocks * NegativeTid
    BY <1>1, <2>1, SMTT(20) DEF Pack
  <2> QED
    BY <1>1, <2>2, SMTT(20) DEF Signed, Pack
<1>3. CASE NegativeTid < t
  <2>1. Clocks * t >= Clocks * NegativeTid + Clocks
    BY <1>1, <1>3, Multiples
  <2>2. ~(Pack(t, c) < Clocks * NegativeTid) /\ ~(Pack(t, d) < Clocks * NegativeTid)
    BY <1>1, <2>1, SMTT(20) DEF Pack
  <2> QED
    BY <1>1, <2>2, SMTT(20) DEF Signed, Pack
<1>4. CASE t = NegativeTid
  BY <1>1, <1>4, SMTT(20) DEF Signed, Pack
<1> QED
  BY <1>1, <1>2, <1>3, <1>4

\* Only the last clock of one index is taken for READ_SHARED (defs.h:35).
THEOREM ReservedEpoch ==
  ASSUME Widths, NEW t \in Tid, NEW c \in Clock
  PROVE  Pack(t, c) = READ_SHARED <=> t = SharedTid /\ c = Clocks - 1
<1>1. Clocks - 1 \in Clock /\ SharedTid \in Tid
  BY DEF Widths, Tid, Clock
<1> QED
  BY <1>1, SameEpoch DEF READ_SHARED

\* increment moves the clock and leaves the index alone up to the last clock of
\* an index, which carries: the epoch becomes the next thread's (defs.h:75).
THEOREM IncrementCarries ==
  ASSUME Widths, NEW t \in Tid, NEW c \in Clock
  PROVE  /\ c < Clocks - 1 => increment(Pack(t, c)) = Pack(t, c + 1)
         /\ c = Clocks - 1 => increment(Pack(t, c)) = Pack(t + 1, 0)
BY SMTT(20) DEF Widths, Pack, increment, Tid, Clock
=============================================================================
