---------------------------- MODULE MCLibAtomic ----------------------------
(***************************************************************************)
(* Objects of two one-bit words, for TLC: every read-modify-write on them  *)
(* would be torn without the locks.                                        *)
(***************************************************************************)
EXTENDS LibAtomic, Bitwise, Sequences, TLC

CONSTANTS p, q, r, f

\* p and q collide in the table; r is lock-free.
Flag == (p :> f) @@ (q :> f) @@ (r :> f)

Sizes == (p :> 2) @@ (q :> 2) @@ (r :> 1)

Bits == {0, 1}

Zeroes == [o \in {p, q, r} |-> [k \in 1 .. Sizes[o] |-> 0]]

\* A value as an unsigned integer, low word first, and back.
ToInt(v) == IF Len(v) = 1 THEN v[1] ELSE v[1] + 2 * v[2]

FromInt(n, len) == [k \in 1 .. len |-> (n \div 2 ^ (k - 1)) % 2]

Complement(n, len) == 2 ^ len - 1 - n

\* Unsigned arithmetic of the object's width.
FetchOf(do, old, val) ==
  LET len == Len(old)
      a   == ToInt(old)
      b   == ToInt(val)
  IN  FromInt(CASE do = "add" -> (a + b) % 2 ^ len
                [] do = "sub" -> (a + 2 ^ len - b) % 2 ^ len
                [] do = "and" -> a & b
                [] do = "or" -> a | b
                [] do = "xor" -> a ^^ b
                [] do = "nand" -> Complement(a & b, len), len)

Calls ==
  {[do |-> "load", on |-> p],
   [do |-> "store", on |-> p, val |-> <<1, 1>>],
   [do |-> "exchange", on |-> p, val |-> <<0, 1>>],
   [do |-> "compare_exchange", on |-> p, expect |-> <<1, 1>>, val |-> <<0, 0>>],
   [do |-> "fetch", fetch |-> "add", on |-> p, val |-> <<1, 0>>],
   [do |-> "fetch", fetch |-> "nand", on |-> p, val |-> <<1, 1>>],
   [do |-> "load", on |-> q],
   [do |-> "fetch", fetch |-> "sub", on |-> q, val |-> <<1, 0>>],
   [do |-> "fetch", fetch |-> "or", on |-> r, val |-> <<1>>],
   [do |-> "exchange", on |-> r, val |-> <<0>>]}
=============================================================================
