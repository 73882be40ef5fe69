----------------------------- MODULE RaceReport -----------------------------
(***************************************************************************)
(* The reports of races (etsan/race.h, race_report.h): the set `races', in *)
(* which every thread that finds a race inserts it and which it then       *)
(* traverses to print what nobody has printed yet.  Neither is done under  *)
(* a lock.                                                                 *)
(*                                                                         *)
(* A node of the set is named by the report that made it, <<t, i>> for     *)
(* thread t's i-th.  `order' is the order the set's pointers lead through  *)
(* the nodes.  Two insertions at the same place are a data race on the     *)
(* pointer they both store: the outcomes here are that both nodes are      *)
(* kept, or that the second store unhooks what the first put there.  The   *)
(* search for that place compares the race with some nodes, which depend   *)
(* on the balance of the tree; it always compares it with the neighbours   *)
(* of the place it ends at.                                                *)
(*                                                                         *)
(* Left out: the call stacks, which only their own threads touch, and the  *)
(* wording of the messages.                                                *)
(***************************************************************************)
EXTENDS Integers, Sequences, FiniteSets

CONSTANTS
  Threads,
  Main,
  Joined,        \* the threads main has joined when it comes to its end
  Found          \* Found[t]: the races t's accesses find, in order

Race == [fileName : Nat, lineNo : Nat, accessType : {"read", "write"}]

ASSUME FoundAssumption ==
  /\ Main \in Threads /\ Joined \subseteq Threads \ {Main}
  /\ Found \in [Threads -> Seq(Race)]

VARIABLES
  order,         \* the nodes that have been hooked into races, in its order
  lost,          \* those unhooked by another thread's insertion
  made,          \* those with isMessageCreated
  printed,       \* <<t, n>>: t has printed the message of n
  pc,
  step,          \* step[t]: the index of t's next report
  place,         \* the neighbours between which t is about to insert
  race,          \* the node t's loop in printRaces is at
  msg,           \* the nodes whose messages t has constructed
  ended          \* main has returned

vars == <<order, lost, made, printed, pc, step, place, race, msg, ended>>

\* The null pointer and the header, races.end(): an index no report has.
NoNode == <<Main, 0>>

Nodes == UNION {{t} \X DOMAIN Found[t] : t \in Threads}

RaceOf(n) == Found[n[1]][n[2]]

\* The nodes that have ever been in races.
Inserted == {order[i] : i \in DOMAIN order}

RacesSet == Inserted \ lost

\* Nodes are inserted once each, and only inserted nodes are unhooked, made
\* into messages and printed: no traversal goes past the end of races.
TypeOK ==
  /\ order \in Seq(Nodes) /\ \A i, j \in DOMAIN order : order[i] = order[j] => i = j
  /\ lost \subseteq Inserted /\ made \subseteq Inserted
  /\ printed \subseteq Threads \X made
  /\ pc \in [Threads -> {"run", "insert", "begin", "loop", "create", "print"}]
  /\ step \in [Threads -> Nat \ {0}]
  /\ place \in [Threads -> (Inserted \cup {NoNode}) \X (Inserted \cup {NoNode})]
  /\ race \in [Threads -> Inserted \cup {NoNode}]
  /\ msg \in [Threads -> SUBSET made]
  /\ ended \in BOOLEAN

Init ==
  /\ order = << >> /\ lost = {} /\ made = {} /\ printed = {}
  /\ pc = [t \in Threads |-> "run"]
  /\ step = [t \in Threads |-> 1]
  /\ place = [t \in Threads |-> <<NoNode, NoNode>>]
  /\ race = [t \in Threads |-> NoNode]
  /\ msg = [t \in Threads |-> {}]
  /\ ended = FALSE

-----------------------------------------------------------------------------
Done(t) == pc[t] = "run" /\ step[t] > Len(Found[t])

\* Wrong on purpose, to show that EachIsHeld notices: accessType forgotten.
race_compare_lines(l, r) ==
  IF l.fileName = r.fileName THEN l.lineNo # r.lineNo ELSE l.fileName < r.fileName

\* -1 and 1 both are true: two different races of one file are each before
\* the other.
race_compare(l, r) ==
  IF l.fileName = r.fileName
  THEN l.lineNo # r.lineNo \/ l.accessType # r.accessType
  ELSE l.fileName < r.fileName

\* The first of the nodes at some places of order.
FirstAt(places) ==
  IF places = {} THEN NoNode ELSE order[CHOOSE i \in places : \A j \in places : i <= j]

Hooked == {j \in DOMAIN order : order[j] \notin lost}

\* races.begin()
First == FirstAt(Hooked)

\* What the set's pointers lead to after n, be n unhooked or not.
After(n) == FirstAt({j \in Hooked : \E i \in 1 .. j - 1 : order[i] = n})

GoTo(t, label) == pc' = [pc EXCEPT ![t] = label]

\* races.insert: the search for the place.  A race that the node before it
\* is not before, is in the set already.
reportRace(t) ==
  /\ pc[t] = "run" /\ step[t] <= Len(Found[t])
  /\ \E left \in {NoNode} \cup RacesSet :
       LET found == Found[t][step[t]]
           right == IF left = NoNode THEN First ELSE After(left)
       IN  /\ left # NoNode => ~race_compare(found, RaceOf(left))
           /\ right # NoNode => race_compare(found, RaceOf(right))
           /\ IF left = NoNode \/ race_compare(RaceOf(left), found)
              THEN /\ place' = [place EXCEPT ![t] = <<left, right>>]
                   /\ GoTo(t, "insert")
              ELSE GoTo(t, "begin") /\ UNCHANGED place
  /\ UNCHANGED <<order, lost, made, printed, step, race, msg, ended>>

\* The hooked nodes between two neighbours.
Between(left, right) ==
  {n \in RacesSet :
     /\ left = NoNode \/ \E i, j \in DOMAIN order : i < j /\ order[i] = left /\ order[j] = n
     /\ right = NoNode \/ \E i, j \in DOMAIN order : i < j /\ order[i] = n /\ order[j] = right}

\* races.insert: the new node is hooked in.
insertRace(t) ==
  LET n      == <<t, step[t]>>
      left   == place[t][1]
      right  == place[t][2]
      before == {i \in DOMAIN order : order[i] = left}
      at     == IF before = {} THEN 0 ELSE CHOOSE i \in before : TRUE
      gone   == {left, right} \cap lost # {}
  IN  /\ pc[t] = "insert"
      /\ order' = SubSeq(order, 1, at) \o <<n>> \o SubSeq(order, at + 1, Len(order))
      /\ lost' \in {lost, lost \cup Between(left, right)}
                     \cup (IF gone THEN {lost \cup {n}} ELSE {})
      /\ place' = [place EXCEPT ![t] = <<NoNode, NoNode>>]
      /\ GoTo(t, "begin")
      /\ UNCHANGED <<made, printed, step, race, msg, ended>>

\* The loop of printRaces starts at races.begin().
printRaces(t) ==
  /\ pc[t] = "begin"
  /\ race' = [race EXCEPT ![t] = First]
  /\ GoTo(t, "loop")
  /\ UNCHANGED <<order, lost, made, printed, step, place, msg, ended>>

\* Wrong on purpose, to show that QuietMeansPrinted notices: the loop ends at
\* the first message it finds created.
loopUntilMade(t) ==
  /\ pc[t] = "loop"
  /\ GoTo(t, IF race[t] \in {NoNode} \cup made THEN "print" ELSE "create")
  /\ UNCHANGED <<order, lost, made, printed, step, place, race, msg, ended>>

\* Wrong on purpose, to show that TypeOK notices: races.end() is taken for
\* a race.
testEnd(t) ==
  /\ pc[t] = "loop"
  /\ IF race[t] \in made
     THEN race' = [race EXCEPT ![t] = After(race[t])] /\ UNCHANGED pc
     ELSE GoTo(t, "create") /\ UNCHANGED race
  /\ UNCHANGED <<order, lost, made, printed, step, place, msg, ended>>

\* One turn of the loop, as far as the test of isMessageCreated.
testRace(t) ==
  /\ pc[t] = "loop"
  /\ IF race[t] = NoNode
     THEN GoTo(t, "print") /\ UNCHANGED race
     ELSE IF race[t] \in made
     THEN race' = [race EXCEPT ![t] = After(race[t])] /\ UNCHANGED pc
     ELSE GoTo(t, "create") /\ UNCHANGED race
  /\ UNCHANGED <<order, lost, made, printed, step, place, msg, ended>>

\* Wrong on purpose, to show that CreatedIsDue notices: msg = ss.str().
createLastMessage(t) ==
  /\ pc[t] = "create"
  /\ msg' = [msg EXCEPT ![t] = {race[t]}]
  /\ made' = made \cup {race[t]}
  /\ race' = [race EXCEPT ![t] = After(race[t])]
  /\ GoTo(t, "loop")
  /\ UNCHANGED <<order, lost, printed, step, place, ended>>

\* The rest of createRaceMessage: msg.append, isMessageCreated = true.
createRaceMessage(t) ==
  /\ pc[t] = "create"
  /\ msg' = [msg EXCEPT ![t] = @ \cup {race[t]}]
  /\ made' = made \cup {race[t]}
  /\ race' = [race EXCEPT ![t] = After(race[t])]
  /\ GoTo(t, "loop")
  /\ UNCHANGED <<order, lost, printed, step, place, ended>>

\* The section under racePrintLock, and the end of the callback.  When it
\* is main's, which prints once more before it returns, the process ends.
printMessage(t) ==
  /\ pc[t] = "print"
  /\ printed' = printed \cup {<<t, n>> : n \in msg[t]}
  /\ msg' = [msg EXCEPT ![t] = {}]
  /\ GoTo(t, "run")
  /\ step' = [step EXCEPT ![t] = @ + 1]
  /\ ended' = (t = Main /\ step[t] > Len(Found[t]))
  /\ race' = [race EXCEPT ![t] = NoNode]
  /\ UNCHANGED <<order, lost, made, place>>

\* __tsan_main_func_exit, once main has joined those of Joined: the others
\* may be anywhere.
main_func_exit ==
  /\ pc[Main] = "run" /\ step[Main] = Len(Found[Main]) + 1
  /\ \A t \in Joined : Done(t)
  /\ GoTo(Main, "begin")
  /\ UNCHANGED <<order, lost, made, printed, step, place, race, msg, ended>>

ThreadStep(t) ==
  /\ ~ended
  /\ \/ reportRace(t)
     \/ insertRace(t)
     \/ printRaces(t)
     \/ testRace(t)
     \/ createRaceMessage(t)
     \/ printMessage(t)
     \/ t = Main /\ main_func_exit

Terminated == ended /\ UNCHANGED vars

Next == (\E t \in Threads : ThreadStep(t)) \/ Terminated

Spec == Init /\ [][Next]_vars

-----------------------------------------------------------------------------
Printed == {p[2] : p \in printed}

\* A message that has been constructed, so that no other thread will, is
\* printed or on its way in the thread that constructed it.
CreatedIsDue == \A n \in made : n \in Printed \/ \E t \in Threads : n \in msg[t]

\* No thread is reporting: all that is in the set has been printed, whoever
\* inserted, traversed and unhooked in which order.
QuietMeansPrinted == (\A t \in Threads : pc[t] = "run") => RacesSet \subseteq Printed

\* Every race a thread has reported is in the set, or was, under its own
\* node or another's: the comparison takes no two different races for one.
EachIsHeld ==
  \A t \in Threads : \A i \in 1 .. step[t] - 1 : i <= Len(Found[t]) =>
    \E k \in DOMAIN order : RaceOf(order[k]) = Found[t][i]

\* README.md:32 "Then races will be reported, if any, when the program runs":
\* when main has returned, every race that main or a thread it has joined
\* found is printed.
FoundIsPrinted ==
  ended => \A t \in Joined \cup {Main} : \A i \in DOMAIN Found[t] :
             \E n \in Printed : RaceOf(n) = Found[t][i]

\* race.h:29 "if true don't construct the string for printing": no report is
\* printed twice.
PrintedOnce == \A p, q \in printed : p[2] = q[2] => p = q
=============================================================================
