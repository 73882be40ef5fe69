---------------------------- MODULE MCRaceReport ----------------------------
(***************************************************************************)
(* A few races in two files, for TLC to report.                            *)
(***************************************************************************)
EXTENDS RaceReport, TLC

CONSTANTS main, a, b

At(file, line, type) == [fileName |-> file, lineNo |-> line, accessType |-> type]

\* a and b find the same race, b before it one that differs from it in the
\* access alone, and a one in a file that sorts after theirs.
MixedRaces ==
  (main :> << >>)
  @@ (a :> <<At(2, 3, "write"), At(1, 7, "read")>>)
  @@ (b :> <<At(1, 7, "write"), At(1, 7, "read")>>)

\* One race each.
OneRaceEach ==
  (main :> << >>) @@ (a :> <<At(1, 7, "read")>>) @@ (b :> <<At(1, 8, "write")>>)
=============================================================================
