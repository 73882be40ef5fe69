---------------------------- MODULE RaceDetector ----------------------------
(***************************************************************************)
(* What a precise detector promises (README.md): it reports variables that *)
(* have been raced on, none else, and every one at last.  EtsanHB          *)
(* implements this for programs that register their threads first.         *)
(***************************************************************************)
CONSTANT Vars

VARIABLES
  racy,       \* the variables two accesses have raced on
  reported    \* those the detector has reported

vars == <<racy, reported>>

Init == racy = {} /\ reported = {}

\* The program accesses memory, with or without a race.
Access == \E x \in Vars : racy' = racy \cup {x} /\ UNCHANGED reported

Report(x) == x \in racy /\ reported' = reported \cup {x} /\ UNCHANGED racy

Next == Access \/ \E x \in Vars : Report(x)

Spec == Init /\ [][Next]_vars /\ \A x \in Vars : WF_vars(Report(x))
=============================================================================
