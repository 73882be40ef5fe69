-------------------------- MODULE InstallerProofs --------------------------
(***************************************************************************)
(* Theorems about Installer: with downloads that end, the marker is only   *)
(* there when every tree is, and no compiler is built from less, however   *)
(* often the script is killed outside of its removals and called again.    *)
(***************************************************************************)
EXTENDS Installer, TLAPS

Loop == {"fetch", "fetching", "unpack", "unpacking", "rm_archive"}

\* With the types: the loop is only entered without the marker, and leaves no
\* archive behind, whatever became of the downloads.
TypeInv ==
  /\ TypeOK
  /\ line \in Loop => ~status /\ \A p \in 1 .. part - 1 : archive[p] = "none"
  /\ line = "touch" => archive = Nothing

\* In the loop the marker is not there and the trees of the parts behind it are
\* whole; the archive it is at is whole from its download to its removal.
LoopInv ==
  line \in Loop =>
    /\ status = FALSE
    /\ \A p \in 1 .. part - 1 : tree[p] = "whole"
    /\ line \in {"unpack", "unpacking", "rm_archive"} => archive[part] = "whole"
    /\ line = "rm_archive" => tree[part] = "whole"

\* Past the loop every tree is whole, and past the copy overlaid.
BuildInv ==
  /\ line \in {"touch", "copy", "configure", "make", "make_install"} => Whole
  /\ line \in {"configure", "make", "make_install"} => overlay

IInv == TypeInv /\ LoopInv /\ BuildInv /\ StatusMeansAvailable /\ NeverWrong

-----------------------------------------------------------------------------
\* Nothing is on the disk.
LEMMA Initially == Init => TypeInv
<1>1. MaxCrashes \in Nat /\ MaxRemovals \in Nat
  BY InstallerAssumption
<1>2. Nothing \in [Parts -> Amount]
  BY DEF Nothing, Amount
<1>3. 1 \in Parts
  BY DEF Parts
<1>4. Init => status \in BOOLEAN /\ overlay \in BOOLEAN /\ runtime \in BOOLEAN
  BY DEF Init
<1>5. Init => TypeOK
  BY <1>1, <1>2, <1>3, <1>4 DEF Init, TypeOK
<1> QED
  BY <1>5 DEF Init, TypeInv, Loop

\* A file on the disk only grows.
LEMMA GotAmount ==
  ASSUME NEW had \in Amount, NEW more \in Amount
  PROVE  Got(had, more) \in Amount /\ ("whole" \in {had, more} => Got(had, more) = "whole")
BY DEF Got, Amount

\* What fetching does to the archives.
LEMMA FetchStep ==
  ASSUME archive \in [Parts -> Amount], part \in Parts, Fetch
  PROVE  /\ \E got \in Amount :
              /\ archive' = [archive EXCEPT ![part] = Got(archive[part], got)]
              /\ line = "fetching" => got \in Downloads
         /\ archive' \in [Parts -> Amount]
         /\ \A p \in Parts : p # part => archive'[p] = archive[p]
         /\ \/ line = "fetch" /\ line' = "fetching"
            \/ line = "fetching" /\ line' = "unpack"
         /\ UNCHANGED <<part, crashes, removals, tree, status, overlay, compiler, runtime>>
<1>1. {"none", "part"} \subseteq Amount /\ Downloads \subseteq Amount
  BY InstallerAssumption DEF Amount
<1>2. /\ \/ line = "fetch" /\ line' = "fetching"
         \/ line = "fetching" /\ line' = "unpack"
      /\ UNCHANGED <<part, crashes, removals, tree, status, overlay, compiler, runtime>>
  BY DEF Fetch, Goto
<1>3. PICK got \in Amount :
        /\ archive' = [archive EXCEPT ![part] = Got(archive[part], got)]
        /\ line = "fetching" => got \in Downloads
  BY <1>1 DEF Fetch
<1>4. Got(archive[part], got) \in Amount
  BY GotAmount
<1> QED
  BY <1>2, <1>3, <1>4

\* The invariant needs no assumption on the downloads or the kills.
LEMMA TypeStep == TypeInv /\ [Next]_vars => TypeInv'
<1> SUFFICES ASSUME TypeInv, [Next]_vars PROVE TypeInv'
  OBVIOUS
<1>0. MaxCrashes \in Nat /\ MaxRemovals \in Nat
  BY InstallerAssumption
<1>n. Nothing \in [Parts -> Amount] /\ \A p \in Parts : Nothing[p] = "none"
  BY DEF Nothing, Amount
<1> USE <1>0, <1>n DEF TypeInv, TypeOK, Parts, Removing, Amount, Loop
<1>1. ASSUME Start PROVE TypeInv'
  BY <1>1 DEF Start, disk
<1>2. ASSUME RemoveBuild PROVE TypeInv'
  BY <1>2 DEF RemoveBuild, Goto
<1>3. ASSUME RemoveInstall \/ RemoveStatus PROVE TypeInv'
  <2>1. CASE RemoveInstall
    BY <2>1 DEF RemoveInstall, Goto
  <2>2. CASE RemoveStatus
    <3>1. /\ line' \in {"off", "check"} /\ status' = FALSE
          /\ UNCHANGED <<part, crashes, removals, archive, tree, overlay, compiler, runtime>>
      BY <2>2 DEF RemoveStatus, Goto
    <3> QED
      BY <3>1
  <2> QED
    BY <1>3, <2>1, <2>2
<1>4. ASSUME CheckStatus PROVE TypeInv'
  BY <1>4 DEF CheckStatus, disk
<1>5. ASSUME Fetch PROVE TypeInv'
  <2>1. /\ archive' \in [Parts -> Amount] /\ line \in Loop /\ line' \in {"fetching", "unpack"}
        /\ \A p \in Parts : p # part => archive'[p] = archive[p]
        /\ UNCHANGED <<part, crashes, removals, tree, status, overlay, compiler, runtime>>
    BY <1>5, FetchStep
  <2>2. \A p \in 1 .. part - 1 : p \in Parts /\ p # part
    OBVIOUS
  <2> QED
    BY <2>1, <2>2
<1>6. ASSUME Unpack PROVE TypeInv'
  BY <1>6 DEF Unpack, Goto
<1>7. ASSUME RemoveArchive PROVE TypeInv'
  <2>1. /\ archive' \in [Parts -> Amount] /\ line' \in {"fetch", "off", "touch"} /\ part' \in Parts
        /\ line = "rm_archive"
        /\ UNCHANGED <<crashes, removals, tree, status, overlay, compiler, runtime>>
    BY <1>7 DEF RemoveArchive
  <2>2. \A p \in 1 .. part : archive'[p] = "none"
    BY <1>7, <2>1 DEF RemoveArchive
  <2>3. line' = "touch" => part = 8
    BY <1>7 DEF RemoveArchive
  <2>4. line' = "touch" => archive' = Nothing
    BY <2>1, <2>2, <2>3 DEF Nothing
  <2>5. line' = "fetch" => part' = part + 1
    BY <1>7 DEF RemoveArchive
  <2>6. line' \in Loop => \A p \in 1 .. part' - 1 : archive'[p] = "none"
    <3>1. part \in Int /\ (line' \in Loop => line' = "fetch")
      BY <2>1
    <3>2. line' \in Loop => part' - 1 = part
      <4> HIDE DEF TypeInv, TypeOK, Loop
      <4> QED
        BY <2>5, <3>1
    <3> QED
      BY <2>2, <3>2, Zenon
  <2> QED
    BY <2>1, <2>4, <2>6
<1>8. ASSUME TouchStatus \/ CopyOverlay PROVE TypeInv'
  <2>1. CASE TouchStatus
    BY <2>1 DEF TouchStatus, Goto
  <2>2. CASE CopyOverlay
    <3>1. /\ line' = "configure" /\ overlay' \in BOOLEAN
          /\ UNCHANGED <<part, crashes, removals, archive, tree, status, compiler, runtime>>
      BY <2>2 DEF CopyOverlay, Goto
    <3> QED
      BY <3>1
  <2> QED
    BY <1>8, <2>1, <2>2
<1>9. ASSUME Configure \/ Make \/ MakeInstall \/ InstallRuntime PROVE TypeInv'
  <2>1. /\ line' \in {"off", "make", "make_install", "runtime"}
        /\ compiler' \in {"none", "wrong", "right"} /\ runtime' \in BOOLEAN
        /\ UNCHANGED <<part, crashes, removals, archive, tree, status, overlay>>
    BY <1>9 DEF Configure, Make, MakeInstall, InstallRuntime, Goto, disk
  <2> QED
    BY <2>1
<1>10. ASSUME Crash PROVE TypeInv'
  BY <1>10 DEF Crash, disk
<1>11. ASSUME UNCHANGED vars PROVE TypeInv'
  BY <1>11 DEF vars
<1> QED
  BY <1>1, <1>2, <1>3, <1>4, <1>5, <1>6, <1>7, <1>8, <1>9, <1>10, <1>11 DEF Next, Script

\* No line of the script leaves what TypeOK lists, also when downloads fail
\* and kills come at any time: when the marker is there, no archive is.
THEOREM TypeCorrect == Spec => []TypeOK
<1>1. TypeInv => TypeOK
  BY DEF TypeInv
<1> QED
  BY <1>1, Initially, TypeStep, PTL DEF Spec

-----------------------------------------------------------------------------
\* Every line keeps the invariant when downloads end and removals are not killed.
LEMMA Step ==
  ASSUME Downloads = {"whole"}, KilledRemoving = FALSE, IInv, [Next]_vars
  PROVE  IInv'
<1>0. TypeInv'
  BY TypeStep DEF IInv
<1> DEFINE Rest == LoopInv /\ BuildInv /\ StatusMeansAvailable /\ NeverWrong
<1>a. TypeOK /\ Rest
  BY DEF IInv, TypeInv
<1> USE <1>a DEF TypeOK, Parts, Removing, Loop, LoopInv, BuildInv, StatusMeansAvailable,
                  NeverWrong, Whole
<1>1. ASSUME Start PROVE Rest'
  BY <1>1 DEF Start, disk
<1>2. ASSUME RemoveBuild PROVE Rest'
  BY <1>2 DEF RemoveBuild, Goto
<1>3. ASSUME RemoveInstall \/ RemoveStatus PROVE Rest'
  BY <1>3 DEF RemoveInstall, RemoveStatus, Goto
<1>4. ASSUME CheckStatus PROVE Rest'
  BY <1>4 DEF CheckStatus, disk
<1>5. ASSUME Fetch PROVE Rest'
  <2>1. CASE line = "fetch"
    BY <1>5, <2>1 DEF Fetch, Goto
  <2>2. CASE line = "fetching"
    <3>1. PICK got \in Amount :
            /\ archive' = [archive EXCEPT ![part] = Got(archive[part], got)]
            /\ got = "whole"
      BY <1>5, <2>2, FetchStep
    <3>2. archive'[part] = "whole"
      BY <3>1, GotAmount
    <3> QED
      BY <1>5, <2>2, <3>2, FetchStep
  <2> QED
    BY <1>5, <2>1, <2>2 DEF Fetch
<1>6. ASSUME Unpack PROVE Rest'
  BY <1>6 DEF Unpack, Goto
<1>7. ASSUME RemoveArchive PROVE Rest'
  BY <1>7 DEF RemoveArchive
<1>8. ASSUME TouchStatus PROVE Rest'
  BY <1>8 DEF TouchStatus, Goto
<1>9. ASSUME CopyOverlay PROVE Rest'
  <2>1. tree[1] # Nothing[1]
    BY <1>9 DEF CopyOverlay, Nothing
  <2> QED
    BY <1>9, <2>1 DEF CopyOverlay, Goto
<1>10. ASSUME Configure \/ Make \/ MakeInstall \/ InstallRuntime PROVE Rest'
  BY <1>10 DEF Configure, Make, MakeInstall, InstallRuntime, Goto, disk
<1>11. ASSUME Crash PROVE Rest'
  BY <1>11 DEF Crash, disk
<1>12. ASSUME UNCHANGED vars PROVE Rest'
  BY <1>12 DEF vars
<1>13. Rest'
  BY <1>1, <1>2, <1>3, <1>4, <1>5, <1>6, <1>7, <1>8, <1>9, <1>10, <1>11, <1>12
     DEF Next, Script
<1> QED
  BY <1>0, <1>13 DEF IInv

\* The inductive invariant, for any options, removals and number of kills.
THEOREM Invariance ==
  ASSUME Downloads = {"whole"}, KilledRemoving = FALSE
  PROVE  Spec => []IInv
<1>1. Init => IInv
  BY Initially
     DEF Init, IInv, LoopInv, Loop, BuildInv, StatusMeansAvailable, NeverWrong
<1>2. IInv /\ [Next]_vars => IInv'
  BY Step
<1> QED
  BY <1>1, <1>2, PTL DEF Spec

\* install.sh:122 may take .status for the downloads: when it is there, and no run
\* is removing all, every tree has been unpacked in full.
THEOREM MarkerMeansAvailable ==
  ASSUME Downloads = {"whole"}, KilledRemoving = FALSE
  PROVE  Spec => []StatusMeansAvailable
BY Invariance, PTL DEF IInv

\* No interrupted run makes a later one install a compiler built from less than all
\* sources, or without the files of install.sh:202.
THEOREM CompilerNeverWrong ==
  ASSUME Downloads = {"whole"}, KilledRemoving = FALSE
  PROVE  Spec => []NeverWrong
BY Invariance, PTL DEF IInv
=============================================================================
