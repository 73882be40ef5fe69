----------------------------- MODULE Installer -----------------------------
(***************************************************************************)
(* install.sh and etsan/install.sh: download, unpack, overlay, configure,  *)
(* build, install.  The script can be killed at any line and run again;    *)
(* what it did is on the disk, and the marker .status tells a later run    *)
(* that the downloads are there.                                           *)
(*                                                                         *)
(* Commands are abstracted to what they leave on the disk.  A killed wget, *)
(* tar or make leaves part of its result.                                  *)
(***************************************************************************)
EXTENDS Integers

CONSTANTS
  Options,        \* how the user may call the script: "plain", "new", "clean"
  MaxRemovals,    \* how often the user may ask for one that removes
  MaxCrashes,     \* how often the script may be killed
  KilledRemoving, \* whether it may be while it removes
  Downloads       \* what a download may end with: "whole", and of one that
                  \* fails "part" or "none"

Amount == {"none", "part", "whole"}

ASSUME InstallerAssumption ==
  /\ Options \subseteq {"plain", "new", "clean"}
  /\ MaxCrashes \in Nat /\ MaxRemovals \in Nat /\ KilledRemoving \in BOOLEAN
  /\ "whole" \in Downloads /\ Downloads \subseteq Amount

\* llvm, cfe, clang-tools-extra, compiler-rt, libcxx, libcxxabi, libunwind,
\* test-suite.
Parts == 1 .. 8

Removing == {"rm_build", "rm_build_on", "rm_install", "rm_status"}

VARIABLES
  line,           \* where the running script is; "off" when none runs
  part,           \* the archive it is at
  archive, tree,  \* the archives on the disk, and their unpacked trees
  status,         \* .status exists
  overlay,        \* EmbedSanitizer's own files have been copied over the tree
  compiler,       \* what is installed: built from what tree
  runtime,        \* the libraries of etsan/install.sh are installed
  crashes, removals

disk == <<archive, tree, status, overlay, compiler, runtime>>
vars == <<line, part, archive, tree, status, overlay, compiler, runtime, crashes, removals>>

Nothing == [p \in Parts |-> "none"]

\* The marker .status, once it is there, outlives every archive.
TypeOK ==
  /\ line \in Removing \cup
       {"off", "check", "fetch", "fetching", "unpack", "unpacking", "rm_archive", "touch",
        "copy", "configure", "make", "make_install", "runtime"}
  /\ part \in Parts
  /\ archive \in [Parts -> Amount] /\ tree \in [Parts -> Amount]
  /\ status \in BOOLEAN /\ overlay \in BOOLEAN
  /\ compiler \in {"none", "wrong", "right"}
  /\ runtime \in BOOLEAN
  /\ crashes \in 0 .. MaxCrashes /\ removals \in 0 .. MaxRemovals
  /\ status => archive = Nothing

Init ==
  /\ line = "off" /\ part = 1
  /\ archive = Nothing /\ tree = Nothing
  /\ status = FALSE /\ overlay = FALSE
  /\ compiler = "none" /\ runtime = FALSE
  /\ crashes = 0 /\ removals = 0

Installed == compiler # "none" /\ runtime

Goto(l) == line' = l /\ UNCHANGED <<part, crashes, removals>>

Start ==
  /\ line = "off"
  /\ \/ "plain" \in Options /\ line' = "check" /\ UNCHANGED removals
     \/ /\ {"new", "clean"} \cap Options # {} /\ removals < MaxRemovals
        /\ line' = "rm_build" /\ removals' = removals + 1
  /\ UNCHANGED <<part, disk, crashes>>

\* rm -rf of the build directory, which may be killed half-way.
RemoveBuild ==
  /\ \/ line = "rm_build" /\ Goto("rm_build_on")
        /\ \E gone \in SUBSET Parts :
             tree' = [p \in Parts |-> IF p \in gone THEN "none" ELSE tree[p]]
        /\ UNCHANGED <<archive, overlay>>
     \/ line = "rm_build_on" /\ Goto("rm_install")
        /\ tree' = Nothing /\ archive' = Nothing /\ overlay' = FALSE
  /\ UNCHANGED <<status, compiler, runtime>>

RemoveInstall ==
  /\ line = "rm_install" /\ Goto("rm_status")
  /\ compiler' = "none" /\ runtime' = FALSE
  /\ UNCHANGED <<archive, tree, status, overlay>>

\* --clean stops here, and --new goes on.
RemoveStatus ==
  /\ line = "rm_status"
  /\ \/ "clean" \in Options /\ Goto("off")
     \/ "new" \in Options /\ Goto("check")
  /\ status' = FALSE
  /\ UNCHANGED <<archive, tree, overlay, compiler, runtime>>

\* Wrong on purpose, to show that StatusMeansAvailable notices: the marker is
\* set when the downloads begin.
CheckAndMark ==
  /\ line = "check"
  /\ line' = IF status THEN "copy" ELSE "fetch"
  /\ part' = 1
  /\ status' = TRUE
  /\ UNCHANGED <<crashes, removals, archive, tree, overlay, compiler, runtime>>

CheckStatus ==
  /\ line = "check"
  /\ line' = IF status THEN "copy" ELSE "fetch"
  /\ part' = 1
  /\ UNCHANGED <<crashes, removals, disk>>

\* Wrong on purpose, to show that EventuallyInstalled notices: wget without -c
\* leaves a file that is there as it is.
FetchNew ==
  /\ \/ line = "fetch" /\ archive[part] # "none" /\ Goto("unpack") /\ UNCHANGED archive
     \/ line = "fetch" /\ archive[part] = "none" /\ Goto("fetching")
        /\ archive' = [archive EXCEPT ![part] = "part"]
     \/ line = "fetching" /\ Goto("unpack")
        /\ archive' = [archive EXCEPT ![part] = "whole"]
  /\ UNCHANGED <<tree, status, overlay, compiler, runtime>>

\* wget -c keeps what there is of a file and adds what it gets.
Got(had, more) ==
  IF "whole" \in {had, more} THEN "whole"
  ELSE IF "part" \in {had, more} THEN "part" ELSE "none"

\* A download that has got part of the file can be killed then.  One that fails
\* is not noticed.
Fetch ==
  /\ \/ line = "fetch" /\ Goto("fetching")
        /\ \E got \in {"none", "part"} : archive' = [archive EXCEPT ![part] = Got(@, got)]
     \/ line = "fetching" /\ Goto("unpack")
        /\ \E end \in Downloads : archive' = [archive EXCEPT ![part] = Got(@, end)]
  /\ UNCHANGED <<tree, status, overlay, compiler, runtime>>

\* tar overwrites; of a part of an archive, or of none, it unpacks no whole.
\* Nor is its failure noticed.
Unpack ==
  /\ \/ line = "unpack" /\ Goto("unpacking")
        /\ tree' = [tree EXCEPT ![part] = IF archive[part] = "none" THEN @ ELSE "part"]
     \/ line = "unpacking" /\ Goto("rm_archive")
        /\ tree' = [tree EXCEPT ![part] = IF archive[part] = "whole" THEN "whole" ELSE @]
  /\ UNCHANGED <<archive, status, overlay, compiler, runtime>>

\* Wrong on purpose, to show that TypeOK notices: only the last block has its
\* rm.
RemoveLastArchive ==
  /\ line = "rm_archive"
  /\ IF part = 8 THEN archive' = [archive EXCEPT ![8] = "none"] ELSE UNCHANGED archive
  /\ IF part < 8
     THEN line' = "fetch" /\ part' = part + 1
     ELSE line' = (IF archive[part] = "none" THEN "off" ELSE "touch") /\ UNCHANGED part
  /\ UNCHANGED <<crashes, removals, tree, status, overlay, compiler, runtime>>

\* reportIfSuccessful after the last rm sees that command's result alone.
RemoveArchive ==
  /\ line = "rm_archive"
  /\ archive' = [archive EXCEPT ![part] = "none"]
  /\ IF part < 8
     THEN line' = "fetch" /\ part' = part + 1
     ELSE line' = (IF archive[part] = "none" THEN "off" ELSE "touch") /\ UNCHANGED part
  /\ UNCHANGED <<crashes, removals, tree, status, overlay, compiler, runtime>>

TouchStatus ==
  /\ line = "touch" /\ Goto("copy")
  /\ status' = TRUE
  /\ UNCHANGED <<archive, tree, overlay, compiler, runtime>>

\* Wrong on purpose, to show that NeverWrong notices: cp -n, which leaves the
\* files it finds.
CopyNew ==
  /\ line = "copy" /\ Goto("configure")
  /\ overlay' = (overlay \/ tree = Nothing)
  /\ UNCHANGED <<archive, tree, status, compiler, runtime>>

\* cp -r llvm/*: with no tree to copy to it fails, unnoticed.
CopyOverlay ==
  /\ line = "copy" /\ Goto("configure")
  /\ overlay' = (overlay \/ tree # Nothing)
  /\ UNCHANGED <<archive, tree, status, compiler, runtime>>

\* cmake needs llvm's own tree; the projects in it are optional.
Configure ==
  /\ line = "configure"
  /\ Goto(IF tree[1] = "whole" THEN "make" ELSE "off")
  /\ UNCHANGED disk

Make == line = "make" /\ Goto("make_install") /\ UNCHANGED disk

Whole == \A p \in Parts : tree[p] = "whole"

MakeInstall ==
  /\ line = "make_install" /\ Goto("runtime")
  /\ compiler' = IF Whole /\ overlay THEN "right" ELSE "wrong"
  /\ UNCHANGED <<archive, tree, status, overlay, runtime>>

\* etsan/install.sh
InstallRuntime ==
  /\ line = "runtime" /\ Goto("off")
  /\ runtime' = TRUE
  /\ UNCHANGED <<archive, tree, status, overlay, compiler>>

\* The script is killed, or the machine goes down.
Crash ==
  /\ line # "off" /\ crashes < MaxCrashes
  /\ KilledRemoving \/ line \notin Removing
  /\ line' = "off" /\ crashes' = crashes + 1
  /\ UNCHANGED <<part, disk, removals>>

Script ==
  \/ RemoveBuild \/ RemoveInstall \/ RemoveStatus \/ CheckStatus \/ Fetch \/ Unpack
  \/ RemoveArchive \/ TouchStatus \/ CopyOverlay \/ Configure \/ Make \/ MakeInstall
  \/ InstallRuntime

Next == Start \/ Script \/ Crash

\* The user runs the script whenever it has ended, and it goes on when it is
\* not killed.
Spec == Init /\ [][Next]_vars /\ WF_vars(Start \/ Script)

-----------------------------------------------------------------------------
\* What install.sh:122 takes the marker for, "Check if relevant downloads are
\* available": when it is there, and no run is removing all, every tree has been
\* unpacked in full.
StatusMeansAvailable == status /\ line \notin Removing => Whole

\* No run, after whatever interruptions, installs a compiler that is built from
\* less than all the sources with EmbedSanitizer's own files over them.
NeverWrong == compiler # "wrong"

\* However often it was interrupted or all was removed, running the script again
\* ends with everything installed: what a killed run leaves is never in the way.
EventuallyInstalled == <>[]Installed
=============================================================================
