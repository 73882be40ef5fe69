# EmbedSanitizer in TLA+

EmbedSanitizer is a data race detector for C/C++ programs on 32-bit ARM. A
modified ThreadSanitizer pass of LLVM puts callbacks into a program; a runtime
linked to it follows the FastTrack algorithm and prints the races it finds. This
directory models the pass, the runtime under the program that calls it, the
library of atomic operations linked beside it, and the script that installs all
of it. TLC checks the models on small instances; TLAPS proves theorems about
most of them for every instance.

Paths below are relative to the repository; `defs.h`, `fasttrack.h`,
`tsan_interface.cc`, `race.h` and `race_report.h` are in `etsan/`, and the pass
is in `llvm/lib/Transforms/Instrumentation/`.

## The system

| Component | State | Operations | Meets |
|---|---|---|---|
| Vector clocks (`defs.h`) | vectors of clock-and-index words | create, extend, push, copy, join | used by every state below |
| Thread states (`defs.h`) | `TS.C`: index, vector, epoch per `pthread_t`; `NumThreads`; mutex TS | `getState`, `increment`, `updateEpoch` | created by any callback that needs one; changed by forks, joins, acquires, releases |
| Lock states (`defs.h`) | `LS.L`: a vector per mutex address; mutex LS | `getLockState` | a release writes it, an acquire reads it |
| Variable states (`defs.h`) | `VS.Vstates`: `W`, `R`, `Rvc` per address; mutex VS | `getVarState` | asks for a thread state while it holds VS |
| FastTrack (`fasttrack.h`) | `isConcurrent`, an atomic counter | `ft_fork/join/acquire/release/read/write` | works on the three kinds of state |
| Interface (`tsan_interface.cc`) | none | one callback per instruction kind | looks states up, calls FastTrack, passes races on |
| Race reports (`race.h`, `race_report.h`) | the set `races`, a call stack per thread | insert, print, push and pop | called by the interface; prints at a race and when main returns |
| Instrumentation pass (`ThreadSanitizer.cpp`, `EmbedSanitizerExtension.h`, `EmbedSanitizerDebugInfo.h`) | per function: the accesses still to instrument | choose accesses, place callbacks | decides the order of operation and callback |
| Atomics (`etsan/libs/libatomic.c`) | a table of spin locks | `__atomic_*` fallbacks | linked to the program |
| Installers (`install.sh`, `etsan/install.sh`) | the disk, and the marker `.status` | download, unpack, overlay, build, install | compiles the pass, then the runtime |
| Clang driver, file dictionary | none; an unused class | link the runtime | |

What is hard about it:

* **Callbacks are late.** The create callback stands after `pthread_create`
  (`EmbedSanitizerExtension.h:88`), the lock callback after the lock. A child may
  call the runtime before anyone has told the runtime of it.
* **Some calls have none.** `pthread_mutex_trylock`, `pthread_cond_wait`, and any
  call made by an `invoke` or through a pointer, pass unannounced.
* **One past the end.** `getState` numbers threads from 1 but sizes vectors to
  the number of threads, and so stores a new thread's own clock one past the end
  of its own vector (`defs.h:137`). The word survives until the next thread
  registers and `UpdateThreadClocks` pushes a fresh 1 over it.
* **Three mutexes for one set of vectors.** Forks and registrations change
  vectors under TS, acquires and releases under LS, and an access reads them under
  VS; epochs are updated under none.
* **Unspecified order.** Both states a FastTrack function works on are computed as
  arguments of one call.
* **Reused identifiers.** States are found by `pthread_t`, and a `pthread_t` is
  handed out again after a join, possibly before the callback of that join.
* **Packed words.** 24 bits of clock, 8 of index, and one value meaning "shared".
* **Unlocked reports.** The set of races is changed and traversed by all threads,
  under a comparison that is no order (`race.h:100`).
* **Left-out accesses.** The pass drops a read when a write to its address follows
  in the same stretch of a block.
* **Interrupted installs.** The script trusts what earlier, killed runs left.

What makes each component correct:

* clocks: what the others know of a thread is never later than the thread's own
  clock, and strictly earlier once it has passed it on; slot *i* means the same
  thread everywhere;
* FastTrack: it reports a variable exactly if two accesses race;
* `isConcurrent`: non-zero whenever two threads live;
* the mutexes: acyclic order, every callback returns, the maps guarded;
* reports: each race kept once, no report lost;
* pass: an access left out is covered by another; each synchronisation call has
  its callback in the right place; the call stack stays balanced;
* atomics: each call is one indivisible step, and every lock taken is given up;
* installer: no compiler of less than all sources, and one that is whole at last.

## Modules

| Module | Models |
|---|---|
| `EtsanClocks` | vector clocks: what each operation does to size and words |
| `Etsan` | the runtime, at one step per critical section, under the program |
| `EtsanHB` | `Etsan` beside the real happens-before order, which judges its verdicts |
| `RaceDetector` | what a precise detector promises; abstract, implemented by `EtsanHB` |
| `EtsanMutexes` | the same callbacks with lock and unlock as steps of their own |
| `EpochPacking` | clock and index in one word, as lemmas about integers |
| `RaceReport` | the set of reports, inserted and traversed by several threads |
| `Instrumentation` | the pass on one function |
| `LibAtomic` | `libatomic.c`, copying objects word by word under the lock table |
| `AtomicMemory` | indivisible calls on whole objects; abstract, implemented by `LibAtomic` |
| `Installer` | `install.sh` and `etsan/install.sh`, killed and run again |
| `EtsanProofs`, `EtsanMutexesProofs`, `RaceReportProofs`, `InstrumentationProofs`, `LibAtomicProofs`, `InstallerProofs` | the theorems about the module of that name (those of `EpochPacking` are in it) |
| `EtsanHBProofs` | the theorems about the verdicts of `EtsanHB`, and about the programs they hold of, from `EtsanProofs` |
| `MCEtsan`, `MCEtsanHB`, `MCEtsanMutexes`, `MCRaceReport`, `MCInstrumentation`, `MCLibAtomic` | the small programs, functions and objects TLC runs |

How they fit. `Instrumentation` says where the pass puts callbacks; `Etsan` takes
those places for granted and makes the program's step and the callback's separate
actions. `Etsan` takes each section under a runtime mutex for one step, which
`EtsanMutexes` justifies for the maps, the shadow words and the mutexes' clocks,
and refutes for the thread states (finding `unguarded`), which it shows to be disturbed at registrations and forks only. `Etsan` keeps clock and
index apart, which `EpochPacking` justifies up to 2^24 clocks and 2^8 threads.
`RaceReport` begins where `Etsan`'s `reported` ends.

### The runtime: `EtsanClocks`, `Etsan`, `EtsanHB`

A vector is a record of its `size` and the words `at` of its heap block, defined
for one index past the largest size, because the runtime relies on that word. A
packed word is represented by its clock alone; every word stored at index *i* has
*i* in its high byte. glibc's chunks for power-of-two capacities have room for the
extra word, so reading it back is modelled as finding what was written.

The program is a constant: `Program[t]` is a sequence of sets of operations, of
which thread `t` performs any one at each step, and `Handle[t]` is its
`pthread_t`. `pc` and `call` say where a thread is in a callback. The other
variables have the names of the code. `EtsanHB` adds, for each variable and each
thread, who is ordered after that thread's last accesses, kept from the program's
operations and not from the runtime's clocks; `racy` is the set of variables that
were really raced on.

| Action | Code |
|---|---|
| `PthreadCreate`, `PthreadJoin`, `PthreadMutexLock` | the program's call, which returns before its callback starts |
| `PthreadMutexUnlock` | the entry of the callback before the unlock; the unlock itself is in `ft_release_tick` |
| `Untracked` | `trylock` and the two halves of `cond_wait`, which have no callback |
| `Access` | an access and the test of `isConcurrent` in its callback |
| `getState`, `getLockState`, `getVarState` | the branch that creates the state, under its mutex (a state that exists is found at no cost) |
| `ft_fork_count`, `ft_fork` | `isConcurrent++`; the TS section |
| `ft_join_test`, `ft_join_drop`, `ft_join` | the two accesses to `isConcurrent`; the TS section |
| `ft_acquire`, `ft_acquire_adopt` | the LS section; `updateEpoch` after it |
| `ft_release`, `ft_release_tick` | the LS section; `updateEpoch` and `increment` after it |
| `ft_read`, `ft_write` | the VS section |

The grain is one step for each critical section, each access to `isConcurrent`,
and each stretch of unlocked code between them. A read past the end of another's
vector finds a value of `Garbage`; a thread's own word one past the end is found as
it was stored. What a stray write more than one past the end of `Rvc` would do to
the heap is not modelled: the passing runs in which variables become read-shared
register all threads first.

### The runtime's mutexes: `EtsanMutexes`

Locking and unlocking TS, VS and LS are steps; `todo[t]` is the sequence of pieces
that the callback of `t` still has to go through, and of the data only the sizes of
the vectors are left, enough to say which vectors a `push_back` writes to. `Writes`
and `Reads` give the words a thread's next piece touches; `Clash` says that two
threads are about to touch one word, at least one to write it.

| Action | Code |
|---|---|
| `Perform` | the program's operation, up to the entry of its callback (`Callbacks`: the code of each, with arguments in either order) |
| `Acquire`, `Release` | `mGuard.lock()` and `unlock()` |
| `FindState` | `getState` with `UpdateThreadClocks` |
| `FindVariable`, `NewVariable` | `getVarState`, which calls `getThreadState` with VS held |
| `FindMutex` | `getLockState` |
| `Merge` | `ExtendVectorClocks` and the join or copy of `ft_acquire`, `ft_release` |
| `ForkOrJoin`, `Count` | the TS section of `ft_fork`, `ft_join`; `isConcurrent` |
| `Adopt` | the unguarded `updateEpoch` and `increment` |
| `Judge` | the body of `ft_read` or `ft_write` |

### Reports: `RaceReport`

The constant `Found[t]` lists the races thread `t`'s accesses find (a file, a line,
a kind of access), and `Joined` the threads main joins before it comes to its end.
`order` holds the nodes as the set's pointers lead through them,
`lost` those that another thread's insertion has unhooked, `made` those with
`isMessageCreated`, `msg[t]` and `race[t]` the local variables of `printRaces`.

| Action | Code |
|---|---|
| `reportRace`, `insertRace` | `races.insert` in `reportRaceOnRead/Write`: the search, the store |
| `printRaces`, `testRace`, `createRaceMessage` | the loop of `printRaces`: `begin()`, the test of `isMessageCreated`, the rest of the message |
| `printMessage` | the section under `racePrintLock` |
| `main_func_exit` | `__tsan_main_func_exit`, when the threads of `Joined` are done; the process ends when it has printed |

`std::set` is external and gives no promise for unlocked insertions. The model lets
each search end at any place whose two neighbours agree with the comparison (they are
always compared; which other nodes are depends on how the tree is balanced, which is
not modelled), and of two insertions at one place either keeps both nodes or lets the
second unhook the first. A torn rebalancing, which could corrupt more of the tree, is
left out, so what `reports` shows holds of runs in which the tree survives.
`race_compare` is modelled as the code computes it: -1 converts to true, and two
different races of one file are each before the other.

### The pass: `Instrumentation`

One function is a sequence of instructions, its blocks laid end to end. `before`,
`after` and `instead` hold the callbacks put next to, or in the place of, each.

| Action | Code |
|---|---|
| `ScanAccess`, `ScanCall`, `ScanEnd`, `ScanDone` | the loop of `runOnFunction` over instructions, with `InstrIfSynchronization` and `chooseInstructionsToInstrument` (`Chosen`) at each call and block end |
| `instrumentLoadOrStore` | the loop over `AllLoadsAndStores`: the callback by size, alignment and vtable, and its line argument |
| `instrumentAtomic`, `instrumentMemIntrinsic` | the loops over atomics, of which those of an odd size and the minima and maxima stay as they are (`HasCallback`), and over `memset`, `memcpy`, `memmove` |
| `EntryAndExit` | `__tsan_func_entry`, and at each exit `__tsan_func_exit` and `__tsan_main_func_exit` |

### Atomics: `LibAtomic`

A value is a function from an object's words to words. `pc` names the part of a call
a thread is in, `ret` and `new` its local buffers.

| Action | Code |
|---|---|
| `Call`, `Return` | the caller |
| `LockFreeOp` | the branch on `__atomic_always_lock_free`: one instruction |
| `get_lock`, `free_lock` | the spin lock; a turn that does not get it changes nothing |
| `ReadWord`, `WriteWord`, `CopyToExpect` | one word of a `memcpy` or assignment |
| `Decide` | the comparison of a compare-exchange, the operation of a fetch |

Memory is sequentially consistent: the fences the memory models ask for are left out,
and the acquire and release orders of the lock itself are taken for granted.

### Installation: `Installer`

`line` is where the running script is. Commands are abstracted to what they leave on
the disk: an archive or a tree is absent, partial or whole. `Downloads` says how a
download may end; one that breaks off leaves what it has got (`Got`), which `rm` then
removes without complaint.

| Action | Code (`install.sh`) |
|---|---|
| `Start` | a call of the script, plain or with `--new`, `--clean` |
| `RemoveBuild`, `RemoveInstall`, `RemoveStatus` | the removals of those options |
| `CheckStatus` | the test of `.status` |
| `Fetch`, `Unpack`, `RemoveArchive`, `TouchStatus` | the same three commands for each archive, then the marker |
| `CopyOverlay`, `Configure`, `Make`, `MakeInstall` | EmbedSanitizer's files over LLVM's; `cmake`, `make`, `make install` |
| `InstallRuntime` | `etsan/install.sh` |
| `Crash` | the script is killed between or within commands |

Definitions introduced by "Wrong on purpose" are never used by a specification.
Each is a plausible bug that some property is shown to notice.

## Runs

| Run | Instance | Shows |
|---|---|---|
| `clocks` | main and three workers take either of two mutexes, one by `trylock` and one through `cond_wait`; a worker creates and joins another; two threads get one `pthread_t` | `TypeOK`, `DenseTids`, `KnownClocks`, `StrictlyAhead`, `LiveCount`, `SettledClocksAdvance` in every schedule and argument order, also when a state is found by a reused identifier before the join callback of its first owner |
| `gate` | main writes alone, takes a mutex by `lock` or by `trylock` and creates three workers while it holds it; each passes through that mutex first; then all access one variable, inside and outside of a second mutex; main joins all and accesses again | `Gated`, and at the start `RegistersFirst`: the program is one the theorems about verdicts speak of; `NoFalseAlarm`, `NoMissedRace`: the verdicts are exact once all threads are registered; `ReadsRemembered`, `OverwritesJudged`: `R` and `Rvc` keep each read until an ordered reader replaces it, and a write replaces an unordered access only with a report; `IsDetector`: the runtime implements `RaceDetector`, and reports every race at last |
| `mutexes` | main, a worker that locks and writes, a worker that reads; one mutex and one variable, unknown at first | `TypeOK`, `MapsGuarded`, `LockOrder`, `NeverAllBlocked`; `OnlyAtBirth`: vectors and epochs, which `unguarded` shows to be touched by two threads at once, are so only while one of them registers or forks a thread; `EveryCallReturns` under fairness |
| `reports` | two workers report three races, one of them both, another on the same line and the third in another file; main returns at any time (`Joined` is empty) | `TypeOK`, `CreatedIsDue`, `QuietMeansPrinted`, `EachIsHeld` |
| `instrumentation` | every body of up to three instructions over eighteen letters (eight accesses, calls, an invoke, block ends, an intrinsic, an atomic, a fence) and a return, stretches of five over two addresses, and single accesses of every size, alignment and kind | `TypeOK`, `JudgedInPlace`, `SyncsAnnounced`, `CallbacksDefined`, `StacksBalanced` |
| `atomics` | two threads repeat every kind of call on two objects of two one-bit words that collide in the lock table, and on a lock-free one | `TypeOK`, `OneInside`, `IsAtomic` (it implements `AtomicMemory`), `LocksAreFreed` |
| `installer` | every option, two kills at any line outside of the removals, one removal | `TypeOK`, `StatusMeansAvailable`, `NeverWrong`, `EventuallyInstalled` |
| `threads_cpp` | `tests/unittests/Threads.cpp` with two workers | a false alarm (below) |
| `late_reader` | a variable is read-shared before a thread is created | a missed race (below) |
| `lost` | two workers report one race each, and main joins both before it returns | a lost report (below) |
| `unguarded` | a worker locks while its creator's callback registers it | two threads on one vector (below) |
| `status` | a download may fail, with part of the file or none | a marker without downloads (below) |

Bounds. The programs of the runtime are finite, so there is no bound on counters:
clocks grow by one per fork, join or release. Three threads are the fewest for which a
vector is extended by a thread other than its owner and its creator; `clocks` and
`gate` have four, in the latter because the last thread registered keeps its clock past
its vector's end, where mutexes do not learn of it: it does no work there. Two mutexes
let clocks travel by different ways; one variable suffices since variables share no
state. `Garbage` holds 0 and 9: less, and more, than every clock in these runs. Three
reports by two threads and main's own traversal are the least in which a report is
inserted before, behind and at the place another traversal has reached; a fourth, of a
race already in the set, is found there. `mutexes` needs
one mutex and one variable, because locking differs only between an address that is
known and one that is not. For the pass, two accesses
and what separates them are three instructions; a stretch of five adds a second read and
a second write to choose between. Two-word objects are the least that tear, and one flag for all makes
objects collide. `MaxCrashes` of two lets a killed run meet what another killed run
left; `MaxRemovals` bounds how often a user asks for a fresh start, without which
nothing need ever be installed.

Deadlock is checked in the runs of `Etsan`, `EtsanHB`, `RaceReport` and `LibAtomic`,
where a program whose threads are all over stutters, and of `Instrumentation`, where the
pass that has returned does. `EtsanMutexes` stops when its programs are over, so there
`EveryCallReturns` stands in for it; an installation stops when nobody calls the script again.

`LiveCount` says what the counter counts even when tests and decrements of several
joins interleave: every thread but those whose create callback is still to come. It is
a property of programs whose threads are joined by their creators (`CreatorsJoin`, which
`MCEtsan` assumes of the programs it runs); a thread that joins another's child can find
the counter at zero and skip the decrement.

Fairness.

* `EtsanHB` and `EtsanMutexes`: weak fairness of each thread, the operating
  system's promise to run what can run. The programs are finite, so a mutex somebody
  waits for is in the end free for good, and no strong fairness is needed. In
  `EtsanHB` the fair step includes the program's own, since the operations run to
  the end of the program.
* `LibAtomic`: weak fairness of the calls that have begun, and none of beginning one.
  A test-and-set lock gives no single thread more than that; `LocksAreFreed` says the
  lock is free again and again, and not that each spinning thread gets it.
* `Installer`: weak fairness of calling the script when none runs, and of its going on.
  Kills and removals are bounded, and otherwise unfair.
* The other modules state no fairness. In `RaceReport` programs are finite and
  `racePrintLock` is held for one step, so that a report is printed at last is the
  safety property `QuietMeansPrinted`; main's return may cut the others short, as
  `exit` does.

Further configurations, kept for a reader to run. In each TLC finds the property
violated:

| Configuration | Shows |
|---|---|
| `MCEtsanHB_unprotected.cfg` | a child that runs before its parent's create callback is not tracked while `isConcurrent` is 0: its race with a second thread is missed |
| `MCEtsanHB_vptr.cfg` | `__tsan_vptr_read` runs the write check (`tsan_interface.cc:278`): two reads are called a race |
| `MCEtsanHB_cond_wait.cfg` | a consumer that waits for a condition is told of a race with its producer, since the mutex's return has no callback |
| `MCEtsan_epoch.cfg` | `defs.h:71` "invariant: epoch == C[tid]" fails when a registration pushes clock 1 over a later one |
| `MCEtsan_numthreads.cfg` | `defs.h:57` "Invariant: NumThreads == C.size()": `getState` leaves it at one more |
| `MCRaceReport_twice.cfg` | two traversals test `isMessageCreated` before either sets it: a report is printed twice, against `race.h:29` |
| `MCInstrumentation_unnamed.cfg` | an `invoke` of `pthread_join` gets no callback |
| `MCInstrumentation_lines.cfg` | a line past 255 arrives as another, being an 8-bit constant (`ThreadSanitizer.cpp:549`) |
| `MCInstrumentation_bulk.cfg` | `memset` and its kin become calls that the runtime does not intercept |
| `MCInstaller_removal.cfg` | a `--new` killed between removing the trees and the marker leaves `.status` without them (`install.sh:118`) |

## Findings

* `threads_cpp`: `tests/unittests/Threads.cpp:8-10` says no race should be
  reported of its program. The worker registered last has its clock past
  its vector's end, so its release does not put it into the mutex, and the next
  worker to lock it is told of a race.
* `late_reader`: `Rvc` gets its size when a variable becomes read-shared and never
  grows (`fasttrack.h:59`, `100`). The read of a thread registered later lands past its
  end, and a later write is not compared with it, against `README.md:32`.
* `lost`: two threads insert at once and one node is unhooked. Main joins both and
  makes its own traversal in `__tsan_main_func_exit`, and nothing prints that node's
  race (`race_report.h:116`, against `README.md:32`).
* `unguarded`: `UpdateThreadClocks` pushes onto every thread's vector under TS, while
  that vector's owner merges it under LS, against `defs.h:87`, "A lock to acquire before
  accesing thread states C".
* `status`: `reportIfSuccessful` sees the last `rm` alone, so that a failed download
  of another archive, or of the last one when it breaks off with part of the file, still
  creates `.status` (`install.sh:195`), which every later run takes for the downloads
  (`install.sh:122`).

An observation without a run: `etsan/install.sh` copies the runtime to a directory
named `clang/4.0.0`, while `install.sh` has `version=4.0.1`.

## What is proved

| Module | Theorem | Statement, for every value of the constants |
|---|---|---|
| `EtsanProofs` | `Invariance` | `Spec => []IInv` |
| | `TypeCorrect` | `TypeOK`: every index computed stays within the words of its vector, at most one past the end |
| | `DenselyNumbered`, `OnlyKnownClocks`, `AlwaysStrictlyAhead` | `DenseTids`, `KnownClocks`, `StrictlyAhead` |
| | `ClocksAdvance` | `SettledClocksAdvance` |
| | `CountsLive` | `LiveCount`, if there are finitely many threads and their creators join them |
| `EtsanHBProofs` | `VerdictInvariance` | `HBSpec /\ []Gated => []VerdictInv` |
| | `Precise`, `Complete` | `NoFalseAlarm`, `NoMissedRace`, if `[]Gated` |
| | `WritesJudged`, `ReadsKept` | `OverwritesJudged`, `ReadsRemembered`, if `[]Gated` |
| | `DetectorSteps` | `IsDetector` without its fairness, if `[]Gated`: every step is one of `RaceDetector` or a stutter |
| | `Gates` | `Gated`, of every program that is `RegistersFirst` |
| | `Exact` | `NoFalseAlarm` and `NoMissedRace` of every such program |
| `EtsanMutexesProofs` | `Invariance`, `TypeCorrect` | `IInv`, `TypeOK`: no vector outgrows the threads by more than one |
| | `Ordered`, `Guarded`, `NoDeadlock` | `LockOrder`, `MapsGuarded`, `NeverAllBlocked` |
| | `JoinsAtRest` | `JoinInv`: a thread whose vector is merged at a join is in no callback |
| | `NearlyGuarded` | `OnlyAtBirth` |
| `RaceReportProofs` | `Invariance`, `TypeCorrect` | `IInv`, `TypeOK`: no loop takes `races.end()` for a race |
| | `CreatedDue`, `QuietPrinted`, `Held` | `CreatedIsDue`, `QuietMeansPrinted`, `EachIsHeld` |
| `InstrumentationProofs` | `Invariance`, `TypeCorrect` | `IInv`, `TypeOK` |
| | `EveryAccessJudged` | `JudgedInPlace`, in functions of any length |
| | `Places` | `PlaceInv`: the callbacks around each instruction, in every phase |
| | `EveryCallAnnounced`, `EntriesMatchExits`, `OnlyDeclared` | `SyncsAnnounced`, `StacksBalanced`, `CallbacksDefined` |
| `LibAtomicProofs` | `Invariance`, `TypeCorrect` | `IInv`, `TypeOK`: no copy runs past its object |
| | `MutualExclusion`, `Implements` | `OneInside`; `IsAtomic`, the refinement of `AtomicMemory` |
| `InstallerProofs` | `TypeCorrect` | `TypeOK`: no archive is left once `.status` is there, whatever fails or is killed |
| | `Invariance`, `MarkerMeansAvailable`, `CompilerNeverWrong` | `IInv`, `StatusMeansAvailable`, `NeverWrong`, if no download fails and no removal is killed |
| `EpochPacking` | `Unpacks`, `SameEpoch`, `SameOrder` | the packed words behave as the records of `EtsanClocks`, for any two widths |
| | `ReservedEpoch`, `IncrementCarries` | which epoch is mistaken for `READ_SHARED`, and what the last clock's increment does |

The assumptions are those the modules name: `HandlesAssumption` (finitely many
identifiers), `ProgramAssumption`, `KnowersAssumption` (no thread is a
mutex), `GarbageAssumption`, `ReadSharedAssumption` (no epoch
equals `READ_SHARED`), `MutexAssumption`, `FoundAssumption`, `FunctionsAssumption`
(blocks end with a terminator; the accesses of one pointer agree in size),
`ObjectsAssumption` and `InstallerAssumption`. The theorems of `EpochPacking` assume
`Widths`, `CountsLive` assumes `IsFiniteSet(Threads)` and `CreatorsJoin`, and `Gates` and
`Exact` assume `RegistersFirst`, from which those two follow (`OneCreator`). The two of
`InstallerProofs` that say so assume `Downloads = {"whole"}` and
`KilledRemoving = FALSE`: without either they are false (`MCInstaller_status.cfg`,
`MCInstaller_removal.cfg`).

Why the invariants must be strengthened:

**The clocks.** `StrictlyAhead` is not inductive. A thread whose own clock lies past
the end of its vector (`~InReach`) loses it when the vector is extended: to 0 by
`ExtendVectorClocks`, to 1 by `UpdateThreadClocks`. That is harmless only because
nobody knew anything of the thread: `Hearsay` says that what another vector knows of
it is then 0. A registration needs in turn that nothing is known at the index it
gives out (`Unheard`), that vectors are at most one word short of the number of threads
(`Sizes`), that `NumThreads` is at most one ahead (`Numbering`, for the sizes of new lock
states), and that an epoch is never behind its clock (`OwnClocks`, for the
increments that start from the epoch). The exception in `StrictlyAhead`, the
release that has stored its clock and not yet advanced it, holds because that thread
still holds the mutex (`Callbacks`): nobody acquires or releases it meanwhile.
The proof has one lemma for each group of actions: `Undisturbed` for those that touch
no clock; `AcquireStep`, `ReleaseStep`, `TickStep`, `AdoptStep`; `ForkJoinStep` by
`HandOver`, since a fork and a join are the same exchange with the parts swapped; and
`RegisterStep`, `LockStateStep`. `TypeStep` and `ControlStep` carry `TypeOK`,
`Callbacks` and `Alive`.

**The counter.** `ft_join` decrements only if it finds the counter above zero, in an
access of its own. `NotZero` says that it always does: the thread it joins is still
counted, and of the threads not counted yet (`Creating`) each stands for a different
thread that lives and that nobody has joined (`Creations`). That a thread is joined by its
creator alone makes the two disjoint.

**The verdicts.** The runtime is not exact for every program: the runs that expect a
violation show where it is not. `Gated` says what it takes for granted. All threads have
states of their own and are registered before the first access that is judged, since a
state made later starts from clocks nobody knows of (`threads_cpp`) and `Rvc` does not grow
(`late_reader`). From then on every operation on a mutex has its callback (`cond_wait`),
and no vptr is read (`tsan_interface.cc:278`). At an access by one of several threads
`isConcurrent` counts somebody, and the accessing thread's clock is within its vector
(`Fit`), which the last thread registered has only after another's clock reached it.
A thread that runs alone (`Solitary`: before the first create, after the last join) may
access whatever it likes, provided `isConcurrent` is 0, so that its accesses are not
judged; in truth everything to come is ordered after them, which is what `seen` says.

A gated program has up to three phases, the disjuncts of `VerdictInv`: `Fresh`, before
anything has been judged; `AllRegistered /\ Verdicts`, while accesses are judged; and `Last`,
when one thread is left and nobody can be created any more. The second ends with the join
that empties `isConcurrent`. That the thread then left is ordered after all accesses,
also those the runtime never told it of, comes from `Heirs`: after every access some
thread that still runs is ordered, since a thread that stops hands over to the one
that joins it (`HeirsStep`, `LastStep`, `LastWords`).

`VerdictInv` compares two accounts of one order. `Knowing(e)` is the set of threads and
mutexes whose vectors have reached an epoch `e`, counting a thread that has got a mutex
and has yet to be told (`Knows`); `seen` is who is ordered after accesses in truth, counting
a mutex that its holder has published to and has yet to let go of (`Told`). Every
callback changes the two alike (`SyncStep`). A shadow word must then be neither too late
nor too early: `Backed`, whoever is ordered after all the accesses it stands for knows its epoch
(or reports would be false), and `Represented`, whoever knows its epochs is ordered after
all accesses to the variable (or races would be missed). The first holds for ever, the second
until the variable is reported, after which FastTrack promises nothing. An access that
is in its callback stands in `seen` and not yet in the word (`InCallback`), which is why
`Witnessed` lets a race wait for the callback of its second access. `AlarmStep` and `Judged`
turn a comparison of clocks into a fact about the order; `WriteStep`, `ReadStep` and
`EntryStep` keep the words; `FreshStep` carries the first phase up to
the point where all are registered. `DetectorSteps` follows: since what is reported has been
raced on, each report is one `RaceDetector` allows.

**The programs.** `[]Gated` speaks of schedules. `RegistersFirst` speaks of a program's text
and implies it (`Gates`), so that `Exact` assumes nothing of how the threads run. Such a program's
threads have handles of their own. Main, after steps that it makes alone, gets a mutex by
`lock` or `trylock` and creates all others, two or more, at successive steps before it gives
that mutex up; each worker's first step is to lock it; workers neither create nor join, and nobody
waits for a condition, reads a vptr, or tries a mutex once another thread exists; and the
worker created last accesses no memory. `MCEtsanHB` assumes it of `GateProgram`, so
that TLC checks that the hypothesis is met. The last clause is the price of the word past
the end: no later registration brings the last worker's own clock within its vector.
In `GateInv`, `ControlInv` says where everybody is: until the last create callback returns,
main holds the gate and every worker is at its first step, in no callback (`Waiting`), so that only
main's creates go on, and a worker is in the map when its fork is over (`Births`). The rest is about
clocks. While main creates, every registration lengthens every vector to the number of
threads, no worker's clock has moved from 1, and no mutex's vector is longer than two
(`FirstClocks`); epochs are in step with clocks between callbacks (`InStep`), though not in
every program (`MCEtsan_epoch.cfg`). Hence the word that `UpdateThreadClocks` pushes over is the
value it had, and from the last fork on all clocks but the last worker's are within every vector
(`Ages`). `AllOrdered` says that before the first create whatever main has done is
ordered before everything to come. That `isConcurrent` counts somebody exactly while others live comes
from `LiveCount` (`GateInvGated`).

**The mutexes.** What a thread will lock next depends on all that is left of its
callback. `Passes(c, h, e)` says of a code `c` that, begun with the mutexes `h` held,
it keeps the rules of locking piece by piece and ends with `e` held; `CodeInv` says that of
`todo[t]`, the mutexes `t` owns, and none. `Passes` composes (`Composed`), so a
callback needs only its sections (`SectionPasses`) and their order. `LockOrder` and
`MapsGuarded` then follow from the rule for the first piece. So does `NeverAllBlocked`: whoever
holds a mutex is inside a callback (`HolderInside`), and if it waits it holds VS and waits for
TS, whose holder therefore does not wait. `OnlyAtBirth` needs a fact about the program:
`JoinInv`, that a callback that joins a thread finds it in no callback, because
`pthread_join` returns when the thread is over and the callback comes after the call. Two such
callbacks exclude each other by TS. All else a callback does to vectors outside
registrations and forks is to its own thread's.

**The reports.** `QuietMeansPrinted` needs to know why an unmade report cannot be left
behind: `TraversalInv` says that for each hooked race without a message some thread is
yet to begin its loop or is in it at or before that race. An insertion behind a
traversal restores this by its own loop, an insertion that unhooks others only shrinks
the set; `NodesInv` names who inserts which node, so that none is inserted twice.
`EachIsHeld` rests on `ComparedEqual`: although `race_compare` is no order, two races of
which neither is before the other are equal.

**The pass.** `JudgedInPlace` speaks of the end. `Kept` carries it through the scan: an
access met so far is among those chosen, or is still to be chosen from with nothing but
accesses since, or a later write of its stretch stands for it. Choosing
preserves this because the latest write to an address is never dropped for another.
The other three follow from `PlaceInv`, which gives every sequence of callbacks exactly:
before an instruction first the function's entry, then at most one callback of its own, then
the exit's (`Pre`, `Middle`, `Post`). It needs `EnteredInv`: whatever has got a callback
so far has set `Res` or `HasCalls`, from which `EntryAndExit` decides.

**The atomics.** `Exclusive` (a flag is up exactly for the thread inside) and `Copied`
(what a thread has read or written so far agrees with the object word for word) are
mutually dependent: the words of an object stand still only while nobody else is inside. The
refinement takes effect in the step that decides; while words are being written the
abstract memory holds the writer's buffer, and nobody reads the object then.

**The installer.** At part *p* of the loop all earlier trees are whole (`LoopInv`), and
past the copy the tree is whole and overlaid (`BuildInv`); the marker may be trusted
because no kill separates it from the trees it vouches for. That no archive outlives the
marker holds without these assumptions, from `TypeInv`: the loop starts at the first
archive, only without the marker, and removes each before it goes on to the next.

Checked by TLC only: what is live, which needs the fairness and the enabledness the
prover does not handle: that `IsDetector` reports every race at last, `EveryCallReturns`,
`LocksAreFreed`, `EventuallyInstalled`. Every invariant that a passing run checks has its
theorem, and so has every action property.

## Plan

Done: `EtsanClocks`, `Etsan`, `EtsanHB` with `trylock` and `cond_wait`; `RaceDetector`;
`EtsanMutexes`; `RaceReport`; `EpochPacking`; `Instrumentation`; `LibAtomic` with
`AtomicMemory`; `Installer`; and their theorems.

Left, in this order:

1. Failing calls of the program: the create, lock and join callbacks follow the call
   whatever it returned (`EmbedSanitizerExtension.h:113`).
2. `EtsanMutexes` shown to implement `Etsan` for programs in which no two threads are on
   one vector: today the two are related by reading only.
3. The call stacks of `race_report.h` in the reports.
4. `libatomic.c` on overlapping objects.

## Not modelled

* The Clang driver (`Tools.cpp`, `SanitizerArgs.cpp`): two files of LLVM's own, 13,082
  lines, to which EmbedSanitizer adds two conditions that accept `-fsanitize=thread` for
  `arm-none-linux-gnueabi` and link the runtime. They keep no state and impose no order.
  They are counted among the implementation all the same, and make most of it: the
  definitions here map about a ninth of all lines the components name, and
  more than half without those two files.
* `file_dictionary.h`: nothing uses it.
* `installx86_64.sh`, a second script of the same form without removals, and the check
  of `install.sh` for packages.
* Call stacks (each is touched by its own thread alone), names out of the debug
  information (`EmbedSanitizerDebugInfo.h` but for the line number), statistics and the
  wording of messages.
* `EscapeEnumerator`'s clean-up blocks, `swifterror` addresses,
  `sanitize_thread_no_checking_at_run_time` and the switches of the pass.
* `ft_atomic_load` and the atomic callbacks of the runtime, which print and do nothing.
* The PARSEC benchmarks and the unit tests other than `Threads.cpp`: clients.
