-------------------------- MODULE RaceReportProofs --------------------------
(***************************************************************************)
(* Theorems about RaceReport: for any threads and any races they find,     *)
(* whatever is in the set when nobody is reporting has been printed, and   *)
(* every race reported has been inserted.                                  *)
(***************************************************************************)
EXTENDS RaceReport, SequenceTheorems, WellFoundedInduction, TLAPS

\* The place of t's i-th report has been looked for, and taken if it was new.
Reported(t, i) == i < step[t] \/ (i = step[t] /\ pc[t] \notin {"run", "insert"})

\* Inserted nodes are of reports made; what a thread is about to insert or to
\* construct is there.
NodesInv ==
  /\ \A n \in Inserted : Reported(n[1], n[2])
  /\ \A t \in Threads : pc[t] = "insert" => step[t] \in DOMAIN Found[t]
  /\ \A t \in Threads : pc[t] = "create" => race[t] # NoNode

\* No message is constructed for nothing, and none waits in a thread that is
\* not in printRaces.
MessagesInv ==
  /\ CreatedIsDue
  /\ \A t \in Threads : pc[t] \in {"run", "insert", "begin"} => msg[t] = {}

\* t's loop will come to the node n, if it is still hooked then.
WillReach(t, n) ==
  \/ pc[t] = "begin"
  \/ /\ pc[t] \in {"loop", "create"} /\ race[t] # NoNode
     /\ \E i, j \in DOMAIN order : i <= j /\ order[i] = race[t] /\ order[j] = n

\* A hooked node without a message has a loop on its way to it: this is what
\* makes printing without a lock complete.
TraversalInv == \A n \in RacesSet : n \in made \/ \E t \in Threads : WillReach(t, n)

\* Every report made is in the set, or was, as itself or as an equal race.
HeldInv ==
  \A t \in Threads : \A i \in DOMAIN Found[t] : Reported(t, i) =>
    \E k \in DOMAIN order : RaceOf(order[k]) = Found[t][i]

IInv == TypeOK /\ NodesInv /\ MessagesInv /\ TraversalInv /\ HeldInv

-----------------------------------------------------------------------------
\* A set of naturals with an element has a least one.
LEMMA LeastNumber ==
  ASSUME NEW T, T \subseteq Nat, T # {}
  PROVE  \E x \in T : \A y \in T : x <= y
<1> DEFINE R == OpToRel(<, Nat)
<1>1. \A x, y \in Nat : <<y, x>> \in R <=> y < x
  BY DEF OpToRel
<1>2. IsWellFoundedOn(R, Nat)
  BY NatLessThanWellFounded
<1> HIDE DEF R
<1>3. PICK x \in T : \A y \in T : ~(<<y, x>> \in R)
  BY <1>2, WFMin
<1>4. \A y \in T : y \in Nat /\ x \in Nat /\ ~(y < x)
  BY <1>1, <1>3
<1> QED
  BY <1>4

\* A sequence with one element put in after the first at.
PutIn(s, at, n) == SubSeq(s, 1, at) \o <<n>> \o SubSeq(s, at + 1, Len(s))

\* r holds what s holds, and n, in the order of s.
PutsIn(r, s, n) ==
  /\ \E k \in DOMAIN r : r[k] = n
  /\ \A k \in DOMAIN r : r[k] = n \/ \E i \in DOMAIN s : r[k] = s[i]
  /\ \A i \in DOMAIN s : \E k \in DOMAIN r : r[k] = s[i]
  /\ \A i, j \in DOMAIN s : i <= j =>
       \E k, l \in DOMAIN r : k <= l /\ r[k] = s[i] /\ r[l] = s[j]
  /\ (/\ \A i \in DOMAIN s : s[i] # n
      /\ \A i, j \in DOMAIN s : s[i] = s[j] => i = j)
     => \A k, l \in DOMAIN r : r[k] = r[l] => k = l

\* PutIn puts an element in.
LEMMA InsertIn ==
  ASSUME NEW S, NEW s \in Seq(S), NEW n \in S, NEW at \in 0 .. Len(s)
  PROVE  PutIn(s, at, n) \in Seq(S) /\ PutsIn(PutIn(s, at, n), s, n)
<1> DEFINE a == SubSeq(s, 1, at)
           b == SubSeq(s, at + 1, Len(s))
           c == a \o <<n>>
<1>0. /\ Len(s) \in Nat /\ DOMAIN s = 1 .. Len(s) /\ at \in Nat /\ at <= Len(s)
      /\ \A k \in 1 .. Len(s) : s[k] \in S
  BY LenProperties, ElementOfSeq
<1>1. a \in Seq(S) /\ Len(a) = at /\ \A k \in 1 .. at : a[k] = s[k]
  BY <1>0, SubSeqProperties
<1>2. /\ b \in Seq(S) /\ Len(b) = Len(s) - at
      /\ \A k \in 1 .. Len(s) - at : b[k] = s[at + k]
  <2>1. at + 1 \in Int /\ Len(s) \in Int /\ \A i \in at + 1 .. Len(s) : s[i] \in S
    BY <1>0
  <2>2. /\ b \in Seq(S) /\ Len(b) = IF at + 1 <= Len(s) THEN Len(s) - (at + 1) + 1 ELSE 0
        /\ \A k \in 1 .. Len(s) - (at + 1) + 1 : b[k] = s[(at + 1) + k - 1]
    BY <2>1, SubSeqProperties, SMTT(30)
  <2>3. Len(b) = Len(s) - at
    <3> HIDE DEF b
    <3>1. Len(b) = IF at + 1 <= Len(s) THEN Len(s) - (at + 1) + 1 ELSE 0
      BY <2>2
    <3>2. Len(s) \in Nat /\ at \in Nat /\ at <= Len(s)
      BY <1>0
    <3> QED
      BY <3>1, <3>2
  <2>4. \A k \in 1 .. Len(s) - at : b[k] = s[at + k]
    <3>1. /\ Len(s) - (at + 1) + 1 = Len(s) - at
          /\ \A k \in 1 .. Len(s) - at : (at + 1) + k - 1 = at + k
      BY <1>0
    <3> HIDE DEF b
    <3> QED
      BY <2>2, <3>1
  <2> QED
    BY <2>2, <2>3, <2>4
<1>3. <<n>> \in Seq(S) /\ Len(<<n>>) = 1 /\ <<n>>[1] = n
  OBVIOUS
<1> DEFINE r == PutIn(s, at, n)
<1>5. r = c \o b
  BY DEF PutIn
<1> HIDE DEF a, b, r
<1>4. /\ c \in Seq(S) /\ Len(c) = at + 1
      /\ \A k \in 1 .. at : c[k] = s[k]
      /\ c[at + 1] = n
  BY <1>0, <1>1, <1>3, ConcatProperties
<1> HIDE DEF c
<1>6. /\ c \o b \in Seq(S) /\ Len(c \o b) = Len(s) + 1
      /\ \A k \in 1 .. at + 1 : (c \o b)[k] = c[k]
      /\ \A k \in at + 2 .. Len(s) + 1 : (c \o b)[k] = b[k - (at + 1)]
  BY <1>0, <1>2, <1>4, ConcatProperties
<1>7. /\ r \in Seq(S) /\ Len(r) = Len(s) + 1 /\ DOMAIN r = 1 .. Len(s) + 1
      /\ \A k \in 1 .. at : r[k] = s[k]
      /\ r[at + 1] = n
  <2>1. /\ r \in Seq(S) /\ Len(r) = Len(s) + 1
        /\ \A k \in 1 .. at + 1 : r[k] = c[k]
    BY <1>5, <1>6, Zenon
  <2>2. DOMAIN r = 1 .. Len(s) + 1
    BY <2>1, LenProperties
  <2>3. at + 1 \in 1 .. at + 1 /\ \A k \in 1 .. at : k \in 1 .. at + 1
    BY <1>0
  <2> QED
    BY <1>4, <2>1, <2>2, <2>3, Zenon
<1>8. \A k \in at + 2 .. Len(s) + 1 : b[k - (at + 1)] = s[k - 1]
  <2> SUFFICES ASSUME NEW k \in at + 2 .. Len(s) + 1
               PROVE  b[k - (at + 1)] = s[k - 1]
    OBVIOUS
  <2>1. k - (at + 1) \in 1 .. Len(s) - at /\ at + (k - (at + 1)) = k - 1
    BY <1>0
  <2> QED
    BY <1>2, <2>1
<1>9. \A k \in at + 2 .. Len(s) + 1 : r[k] = s[k - 1]
  BY <1>5, <1>6, <1>8
<1> USE <1>0, <1>7, <1>9
<1> DEFINE to(i) == IF i <= at THEN i ELSE i + 1
<1>11. \A i \in DOMAIN s : to(i) \in DOMAIN r /\ r[to(i)] = s[i]
  <2> SUFFICES ASSUME NEW i \in DOMAIN s PROVE to(i) \in DOMAIN r /\ r[to(i)] = s[i]
    OBVIOUS
  <2>1. CASE i <= at
    <3>1. i \in 1 .. at /\ i \in DOMAIN r
      BY <2>1
    <3> QED
      BY <2>1, <3>1
  <2>2. CASE ~(i <= at)
    <3>1. i + 1 \in at + 2 .. Len(s) + 1 /\ i + 1 \in DOMAIN r /\ (i + 1) - 1 = i
      BY <2>2
    <3> QED
      BY <2>2, <3>1
  <2> QED
    BY <2>1, <2>2
<1>12. \A k \in DOMAIN r : k = at + 1 \/ \E i \in DOMAIN s : k = to(i)
  <2> SUFFICES ASSUME NEW k \in DOMAIN r, k # at + 1
               PROVE  \E i \in DOMAIN s : k = to(i)
    OBVIOUS
  <2>1. CASE k <= at
    <3>1. k \in DOMAIN s /\ k = to(k)
      BY <2>1
    <3> QED
      BY <3>1
  <2>2. CASE ~(k <= at)
    <3>1. k - 1 \in DOMAIN s /\ k = to(k - 1)
      BY <2>2
    <3> QED
      BY <3>1
  <2> QED
    BY <2>1, <2>2
<1>13. \A i, j \in DOMAIN s : i <= j => to(i) <= to(j)
  OBVIOUS
<1>14. at + 1 \in DOMAIN r
  OBVIOUS
<1> HIDE DEF to
<1>15. \A i, j \in DOMAIN s : i <= j =>
        \E k, l \in DOMAIN r : k <= l /\ r[k] = s[i] /\ r[l] = s[j]
  BY <1>11, <1>13
<1>16. ASSUME \A i \in DOMAIN s : s[i] # n, \A i, j \in DOMAIN s : s[i] = s[j] => i = j,
             NEW k \in DOMAIN r, NEW l \in DOMAIN r, r[k] = r[l]
      PROVE  k = l
  <2>1. CASE k = at + 1 /\ l = at + 1
    BY <2>1
  <2>2. CASE \E i \in DOMAIN s : k = to(i)
    <3>1. PICK i \in DOMAIN s : k = to(i)
      BY <2>2
    <3>2. l # at + 1
      BY <1>11, <1>16, <3>1
    <3>3. PICK j \in DOMAIN s : l = to(j)
      BY <1>12, <3>2
    <3>4. s[i] = s[j]
      BY <1>11, <1>16, <3>1, <3>3
    <3> QED
      BY <1>16, <3>1, <3>3, <3>4
  <2>3. CASE k = at + 1 /\ l # at + 1
    <3>1. PICK j \in DOMAIN s : l = to(j)
      BY <1>12, <2>3
    <3> QED
      BY <1>11, <1>16, <2>3, <3>1
  <2> QED
    BY <1>12, <2>1, <2>2, <2>3
<1>17. \A k \in DOMAIN r : r[k] = n \/ \E i \in DOMAIN s : r[k] = s[i]
  BY <1>11, <1>12
<1> QED
  <2>1. r \in Seq(S)
    BY <1>7
  <2>2. PutsIn(r, s, n)
    BY <1>7, <1>11, <1>14, <1>15, <1>16, <1>17 DEF PutsIn
  <2> QED
    BY <2>1, <2>2 DEF r

\* A node is a report of a thread; no report has the name of the header.
LEMMA NodeParts ==
  /\ \A n \in Nodes : n[1] \in Threads /\ n[2] \in DOMAIN Found[n[1]] /\ n = <<n[1], n[2]>>
                      /\ n[2] \in Nat \ {0}
  /\ \A t \in Threads : \A i \in DOMAIN Found[t] : <<t, i>> \in Nodes
  /\ NoNode \notin Nodes
<1>1. \A t \in Threads : DOMAIN Found[t] = 1 .. Len(Found[t]) /\ Len(Found[t]) \in Nat
  BY FoundAssumption, LenProperties
<1>2. \A n \in Nodes : n[1] \in Threads /\ n[2] \in DOMAIN Found[n[1]] /\ n = <<n[1], n[2]>>
  BY DEF Nodes
<1>3. \A t \in Threads : \A i \in DOMAIN Found[t] : <<t, i>> \in Nodes
  BY DEF Nodes
<1>4. \A n \in Nodes : n[2] \in Nat \ {0}
  BY <1>1, <1>2
<1>5. NoNode[2] = 0
  BY DEF NoNode
<1> QED
  BY <1>2, <1>3, <1>4, <1>5

\* What the places of order hold.
LEMMA OrderHolds ==
  ASSUME TypeOK
  PROVE  /\ Len(order) \in Nat /\ DOMAIN order = 1 .. Len(order)
         /\ \A k \in DOMAIN order : order[k] \in Inserted
         /\ Inserted \subseteq Nodes
<1>1. Len(order) \in Nat /\ DOMAIN order = 1 .. Len(order) /\ \A k \in DOMAIN order : order[k] \in Nodes
  BY LenProperties, ElementOfSeq DEF TypeOK
<1> QED
  BY <1>1 DEF Inserted

\* FirstAt gives the node at the least of the places.
LEMMA FirstIsLeast ==
  ASSUME TypeOK, NEW places \in SUBSET DOMAIN order
  PROVE  /\ places = {} => FirstAt(places) = NoNode
         /\ places # {} => \E i \in places : FirstAt(places) = order[i] /\ \A j \in places : i <= j
         /\ FirstAt(places) \in Inserted \cup {NoNode}
<1>1. CASE places = {}
  BY <1>1 DEF FirstAt
<1>2. CASE places # {}
  <2> DEFINE i == CHOOSE i \in places : \A j \in places : i <= j
  <2>1. places \subseteq Nat
    BY OrderHolds
  <2>2. i \in places /\ \A j \in places : i <= j
    BY <1>2, <2>1, LeastNumber
  <2>3. FirstAt(places) = order[i]
    BY <1>2 DEF FirstAt
  <2> HIDE DEF i
  <2> QED
    BY <1>2, <2>2, <2>3, OrderHolds
<1> QED
  BY <1>1, <1>2

\* From races.begin() a loop reaches every hooked node.
LEMMA FirstReaches ==
  ASSUME TypeOK, NEW n \in RacesSet
  PROVE  /\ First # NoNode
         /\ \E i, j \in DOMAIN order : i <= j /\ order[i] = First /\ order[j] = n
<1>1. PICK j \in DOMAIN order : order[j] = n
  BY DEF RacesSet, Inserted
<1>2. j \in Hooked /\ Hooked \subseteq DOMAIN order
  BY <1>1 DEF Hooked, RacesSet
<1>3. PICK i \in Hooked : First = order[i] /\ \A k \in Hooked : i <= k
  BY <1>2, FirstIsLeast DEF First
<1>4. order[i] # NoNode
  BY <1>2, OrderHolds, NodeParts
<1> QED
  BY <1>1, <1>2, <1>3, <1>4

\* After a node a loop reaches every hooked node that it was on its way to.
LEMMA AfterReaches ==
  ASSUME TypeOK, NEW n \in RacesSet, NEW m, m # n,
         \E i, j \in DOMAIN order : i <= j /\ order[i] = m /\ order[j] = n
  PROVE  /\ After(m) # NoNode
         /\ \E i, j \in DOMAIN order : i <= j /\ order[i] = After(m) /\ order[j] = n
<1> DEFINE later == {j \in Hooked : \E i \in 1 .. j - 1 : order[i] = m}
<1>1. PICK i \in DOMAIN order, j \in DOMAIN order : i <= j /\ order[i] = m /\ order[j] = n
  OBVIOUS
<1>2. i \in 1 .. j - 1
  BY <1>1, OrderHolds
<1>3. j \in later /\ later \subseteq DOMAIN order
  BY <1>1, <1>2 DEF Hooked, RacesSet
<1>4. After(m) = FirstAt(later)
  BY DEF After
<1> HIDE DEF later
<1>5. PICK k \in later : FirstAt(later) = order[k] /\ \A l \in later : k <= l
  BY <1>3, FirstIsLeast
<1>6. order[k] # NoNode
  BY <1>3, OrderHolds, NodeParts
<1> QED
  BY <1>1, <1>3, <1>4, <1>5, <1>6

\* First and After give nodes of order or the header.
LEMMA LedTo ==
  ASSUME TypeOK
  PROVE  First \in Inserted \cup {NoNode} /\ \A n : After(n) \in Inserted \cup {NoNode}
<1>1. Hooked \subseteq DOMAIN order
  BY DEF Hooked
<1>2. First \in Inserted \cup {NoNode}
  BY <1>1, FirstIsLeast DEF First
<1>3. ASSUME NEW n PROVE After(n) \in Inserted \cup {NoNode}
  <2> DEFINE later == {j \in Hooked : \E i \in 1 .. j - 1 : order[i] = n}
  <2>1. later \subseteq DOMAIN order
    BY <1>1
  <2>2. After(n) = FirstAt(later)
    BY DEF After
  <2> HIDE DEF later
  <2> QED
    BY <2>1, <2>2, FirstIsLeast
<1> QED
  BY <1>2, <1>3

\* Two races that are not before one another are the same.
LEMMA ComparedEqual ==
  ASSUME NEW l \in Race, NEW r \in Race, ~race_compare(l, r), ~race_compare(r, l)
  PROVE  l = r
<1>1. /\ l.fileName \in Nat /\ r.fileName \in Nat
      /\ l = [fileName |-> l.fileName, lineNo |-> l.lineNo, accessType |-> l.accessType]
      /\ r = [fileName |-> r.fileName, lineNo |-> r.lineNo, accessType |-> r.accessType]
  BY DEF Race
<1>2. l.fileName = r.fileName
  BY <1>1 DEF race_compare
<1>3. l.lineNo = r.lineNo /\ l.accessType = r.accessType
  BY <1>2 DEF race_compare
<1> QED
  BY <1>1, <1>2, <1>3
-----------------------------------------------------------------------------
\* Nothing has been reported.
LEMMA Initially == Init => IInv
<1> SUFFICES ASSUME Init PROVE IInv
  OBVIOUS
<1>1. Inserted = {} /\ order \in Seq(Nodes) /\ DOMAIN order = {}
  BY EmptySeq DEF Init, Inserted
<1>2. TypeOK
  <2>1. \A i, j \in DOMAIN order : order[i] = order[j] => i = j
    BY <1>1
  <2>2. /\ order \in Seq(Nodes) /\ lost \subseteq Inserted /\ made \subseteq Inserted
        /\ printed \subseteq Threads \X made /\ ended \in BOOLEAN
    BY <1>1 DEF Init
  <2>3. /\ pc \in [Threads -> {"run", "insert", "begin", "loop", "create", "print"}]
        /\ step \in [Threads -> Nat \ {0}]
        /\ place \in [Threads -> (Inserted \cup {NoNode}) \X (Inserted \cup {NoNode})]
        /\ race \in [Threads -> Inserted \cup {NoNode}]
        /\ msg \in [Threads -> SUBSET made]
    BY DEF Init
  <2> QED
    BY <2>1, <2>2, <2>3 DEF TypeOK
<1>3. \A t \in Threads : \A i \in DOMAIN Found[t] : ~Reported(t, i)
  <2>1. \A t \in Threads : \A i \in DOMAIN Found[t] : i \in Nat \ {0}
    BY FoundAssumption, LenProperties
  <2> QED
    BY <2>1 DEF Init, Reported
<1>4. NodesInv /\ MessagesInv /\ TraversalInv /\ HeldInv
  BY <1>1, <1>3 DEF Init, NodesInv, MessagesInv, CreatedIsDue, TraversalInv, RacesSet, HeldInv
<1> QED
  BY <1>2, <1>4 DEF IInv

\* What a step that leaves order, lost and made alone keeps.
LEMMA SameSets ==
  ASSUME UNCHANGED <<order, lost>>
  PROVE  /\ Inserted' = Inserted /\ RacesSet' = RacesSet
         /\ First' = First /\ \A n : After(n)' = After(n)
BY DEF Inserted, RacesSet, First, After, FirstAt, Hooked

\* The search for the place: a race that is not inserted is there already.
LEMMA ReportKeeps ==
  ASSUME IInv, NEW t \in Threads, reportRace(t)
  PROVE  IInv'
<1> USE DEF IInv
<1> PICK left \in {NoNode} \cup RacesSet :
       LET found == Found[t][step[t]]
           right == IF left = NoNode THEN First ELSE After(left)
       IN  /\ left # NoNode => ~race_compare(found, RaceOf(left))
           /\ right # NoNode => race_compare(found, RaceOf(right))
           /\ IF left = NoNode \/ race_compare(RaceOf(left), found)
              THEN /\ place' = [place EXCEPT ![t] = <<left, right>>]
                   /\ GoTo(t, "insert")
              ELSE GoTo(t, "begin") /\ UNCHANGED place
  BY DEF reportRace
<1> DEFINE found == Found[t][step[t]]
           right == IF left = NoNode THEN First ELSE After(left)
<1>0. /\ pc[t] = "run" /\ step[t] <= Len(Found[t])
      /\ UNCHANGED <<order, lost, made, printed, step, race, msg, ended>>
      /\ \/ place' = [place EXCEPT ![t] = <<left, right>>] /\ pc' = [pc EXCEPT ![t] = "insert"]
         \/ UNCHANGED place /\ pc' = [pc EXCEPT ![t] = "begin"] /\ left # NoNode
            /\ ~race_compare(found, RaceOf(left)) /\ ~race_compare(RaceOf(left), found)
  BY DEF reportRace, GoTo
<1>a. step[t] \in DOMAIN Found[t] /\ found \in Race
  <2>1. step[t] \in Nat \ {0} /\ Found[t] \in Seq(Race)
    BY FoundAssumption DEF TypeOK
  <2>2. step[t] \in 1 .. Len(Found[t])
    BY <1>0, <2>1, LenProperties
  <2> QED
    BY <2>1, <2>2, LenProperties, ElementOfSeq
<1>b. left \in Inserted \cup {NoNode} /\ right \in Inserted \cup {NoNode}
  BY LedTo DEF RacesSet
<1>c. Inserted' = Inserted /\ RacesSet' = RacesSet
  BY <1>0, SameSets
<1> HIDE DEF right
<1>1. TypeOK'
  <2>1. /\ place' \in [Threads -> (Inserted \cup {NoNode}) \X (Inserted \cup {NoNode})]
        /\ pc' \in [Threads -> {"run", "insert", "begin", "loop", "create", "print"}]
    <3>1. <<left, right>> \in (Inserted \cup {NoNode}) \X (Inserted \cup {NoNode})
      BY <1>b
    <3>2. /\ pc \in [Threads -> {"run", "insert", "begin", "loop", "create", "print"}]
          /\ place \in [Threads -> (Inserted \cup {NoNode}) \X (Inserted \cup {NoNode})]
      BY DEF TypeOK
    <3>3. CASE place' = [place EXCEPT ![t] = <<left, right>>] /\ pc' = [pc EXCEPT ![t] = "insert"]
      BY <3>1, <3>2, <3>3
    <3>4. CASE UNCHANGED place /\ pc' = [pc EXCEPT ![t] = "begin"]
      BY <3>2, <3>4
    <3> QED
      BY <1>0, <3>3, <3>4
  <2>2. UNCHANGED <<order, lost, made, printed, step, race, msg, ended>>
    BY <1>0
  <2> QED
    BY <1>c, <2>1, <2>2 DEF TypeOK
<1>2. NodesInv'
  <2>1. \A u \in Threads : \A n : Reported(u, n) => Reported(u, n)'
    BY <1>0 DEF TypeOK, Reported
  <2>2. \A n \in Inserted : n[1] \in Threads
    BY OrderHolds, NodeParts
  <2>3. \A u \in Threads : pc'[u] = "insert" => step[u] \in DOMAIN Found[u]
    BY <1>0, <1>a DEF NodesInv, TypeOK
  <2>4. \A u \in Threads : pc'[u] = "create" => race[u] # NoNode
    BY <1>0 DEF NodesInv, TypeOK
  <2> QED
    BY <1>0, <1>c, <2>1, <2>2, <2>3, <2>4 DEF NodesInv
<1>3. MessagesInv'
  BY <1>0 DEF MessagesInv, CreatedIsDue, Printed, TypeOK
<1>4. TraversalInv'
  <2>1. \A u \in Threads : \A n : WillReach(u, n) => WillReach(u, n)'
    BY <1>0 DEF WillReach, TypeOK
  <2> QED
    BY <1>0, <1>c, <2>1 DEF TraversalInv
<1>5. HeldInv'
  <2> SUFFICES ASSUME NEW u \in Threads, NEW i \in DOMAIN Found[u], Reported(u, i)'
               PROVE  \E k \in DOMAIN order : RaceOf(order[k]) = Found[u][i]
    BY <1>0 DEF HeldInv, RaceOf
  <2>1. CASE Reported(u, i)
    BY <2>1 DEF HeldInv
  <2>2. CASE ~Reported(u, i)
    <3>1. u = t /\ i = step[t] /\ pc' = [pc EXCEPT ![t] = "begin"]
      BY <1>0, <2>2 DEF Reported, TypeOK
    <3>2. left # NoNode /\ ~race_compare(found, RaceOf(left)) /\ ~race_compare(RaceOf(left), found)
      BY <1>0, <3>1 DEF TypeOK
    <3>3. PICK k \in DOMAIN order : order[k] = left
      BY <1>b, <3>2 DEF Inserted
    <3>4. RaceOf(left) \in Race
      <4>1. left \in Nodes
        BY <3>3, OrderHolds
      <4>2. left[1] \in Threads /\ left[2] \in DOMAIN Found[left[1]]
        BY <4>1, NodeParts
      <4> QED
        BY <4>2, FoundAssumption, LenProperties, ElementOfSeq DEF RaceOf
    <3>5. RaceOf(left) = found
      BY <1>a, <3>2, <3>4, ComparedEqual
    <3> QED
      BY <3>1, <3>3, <3>5
  <2> QED
    BY <2>1, <2>2
<1> QED
  BY <1>1, <1>2, <1>3, <1>4, <1>5

\* A new node is hooked in somewhere: its thread has all before it.
LEMMA InsertKeeps ==
  ASSUME IInv, NEW t \in Threads, insertRace(t)
  PROVE  IInv'
<1> USE DEF IInv
<1>n. <<t, step[t]>> \in Nodes /\ pc[t] = "insert"
  BY NodeParts DEF insertRace, NodesInv
<1> PICK n \in Nodes : n = <<t, step[t]>>
  BY <1>n
<1>p. n[1] = t /\ n[2] = step[t] /\ step[t] \in Nat \ {0}
  BY DEF TypeOK
<1>0. \E at \in 0 .. Len(order) : order' = PutIn(order, at, n)
  <2> DEFINE before == {i \in DOMAIN order : order[i] = place[t][1]}
             at     == IF before = {} THEN 0 ELSE CHOOSE i \in before : TRUE
  <2>1. order' = PutIn(order, at, n)
    BY DEF insertRace, PutIn
  <2>2. at \in 0 .. Len(order)
    <3>1. CASE before = {}
      BY <3>1, OrderHolds
    <3>2. CASE before # {}
      <4>1. at \in before
        BY <3>2
      <4>2. before \subseteq DOMAIN order
        OBVIOUS
      <4> HIDE DEF at, before
      <4> QED
        BY <4>1, <4>2, OrderHolds
    <3> QED
      BY <3>1, <3>2
  <2> HIDE DEF at
  <2> QED
    BY <2>1, <2>2
<1>q. PICK at \in 0 .. Len(order) :
       order' = PutIn(order, at, n)
  BY <1>0
<1>s. at \in 0 .. Len(order)
  BY <1>q
<1>o. PICK o : o = order
  OBVIOUS
<1> DEFINE r == PutIn(o, at, n)
<1>1. order' = r
  BY <1>o, <1>q
<1>h. /\ r \in Seq(Nodes) /\ \E k \in DOMAIN r : r[k] = n
      /\ \A k \in DOMAIN r : r[k] = n \/ \E i \in DOMAIN o : r[k] = o[i]
      /\ \A i \in DOMAIN o : \E k \in DOMAIN r : r[k] = o[i]
      /\ \A i, j \in DOMAIN o : i <= j =>
           \E k, l \in DOMAIN r : k <= l /\ r[k] = o[i] /\ r[l] = o[j]
      /\ (/\ \A i \in DOMAIN o : o[i] # n
          /\ \A i, j \in DOMAIN o : o[i] = o[j] => i = j)
         => \A k, l \in DOMAIN r : r[k] = r[l] => k = l
  <2>1. o \in Seq(Nodes)
    BY <1>o DEF TypeOK
  <2>2. at \in 0 .. Len(o)
    BY <1>o, <1>s
  <2>3. n \in Nodes
    OBVIOUS
  <2> HIDE DEF IInv
  <2>4. r \in Seq(Nodes) /\ PutsIn(r, o, n)
    BY <2>1, <2>2, <2>3, InsertIn
  <2> HIDE DEF r
  <2> QED
    BY <2>4 DEF PutsIn
<1> HIDE DEF r
<1>2. Inserted' = Inserted \cup {n}
  <2>1. Inserted' = {r[k] : k \in DOMAIN r}
    BY <1>1 DEF Inserted
  <2>2. \A m : m \in Inserted <=> \E i \in DOMAIN order : m = order[i]
    BY DEF Inserted
  <2>3. \A m : m \in Inserted' <=> \E k \in DOMAIN r : m = r[k]
    BY <2>1
  <2>4. Inserted' \subseteq Inserted \cup {n}
    BY <1>o, <1>h, <2>2, <2>3
  <2>5. Inserted \subseteq Inserted'
    BY <1>o, <1>h, <2>2, <2>3
  <2>6. n \in Inserted'
    BY <1>o, <1>h, <2>3
  <2> QED
    BY <2>4, <2>5, <2>6
<1>3. n \notin Inserted
  BY <1>n, <1>p DEF NodesInv, Reported
<1>4. r \in Seq(Nodes) /\ \A i, j \in DOMAIN r : r[i] = r[j] => i = j
  <2>1. \A i \in DOMAIN order : order[i] # n
    BY <1>3 DEF Inserted
  <2>2. \A i, j \in DOMAIN order : order[i] = order[j] => i = j
    BY DEF TypeOK
  <2> QED
    BY <1>o, <1>h, <2>1, <2>2
<1>5. /\ lost' \subseteq Inserted \cup {n}
      /\ place' = [place EXCEPT ![t] = <<NoNode, NoNode>>]
      /\ pc' = [pc EXCEPT ![t] = "begin"]
      /\ UNCHANGED <<made, printed, step, race, msg, ended>>
  <2>1. Between(place[t][1], place[t][2]) \subseteq Inserted
    BY DEF Between, RacesSet
  <2>2. lost \subseteq Inserted
    BY DEF TypeOK
  <2>3. \/ lost' = lost \/ lost' = lost \cup Between(place[t][1], place[t][2])
        \/ lost' = lost \cup {n}
    BY DEF insertRace
  <2>4. /\ place' = [place EXCEPT ![t] = <<NoNode, NoNode>>]
        /\ pc' = [pc EXCEPT ![t] = "begin"]
        /\ UNCHANGED <<made, printed, step, race, msg, ended>>
    BY DEF insertRace, GoTo
  <2> QED
    BY <2>1, <2>2, <2>3, <2>4
<1>6. TypeOK'
  <2>1. place' \in [Threads -> (Inserted' \cup {NoNode}) \X (Inserted' \cup {NoNode})]
    BY <1>2, <1>5 DEF TypeOK
  <2>2. /\ race' \in [Threads -> Inserted' \cup {NoNode}] /\ made' \subseteq Inserted'
        /\ pc' \in [Threads -> {"run", "insert", "begin", "loop", "create", "print"}]
        /\ lost' \subseteq Inserted'
    BY <1>2, <1>5 DEF TypeOK
  <2>3. order' \in Seq(Nodes) /\ \A i, j \in DOMAIN order' : order'[i] = order'[j] => i = j
    BY <1>1, <1>4
  <2>4. UNCHANGED <<printed, made, step, msg, ended>>
    BY <1>5
  <2> QED
    BY <2>1, <2>2, <2>3, <2>4 DEF TypeOK
<1>7. NodesInv'
  <2>1. \A u \in Threads : \A i : Reported(u, i) => Reported(u, i)'
    BY <1>5 DEF Reported, TypeOK
  <2>2. \A m \in Inserted : m[1] \in Threads
    BY OrderHolds, NodeParts
  <2>3. Reported(n[1], n[2])'
    BY <1>p, <1>5 DEF Reported, TypeOK
  <2>4. \A m \in Inserted' : Reported(m[1], m[2])'
    BY <1>2, <2>1, <2>2, <2>3 DEF NodesInv
  <2>5. \A u \in Threads : /\ pc'[u] = "insert" => step[u] \in DOMAIN Found[u]
                           /\ pc'[u] = "create" => race[u] # NoNode
    BY <1>5 DEF NodesInv, TypeOK
  <2> QED
    BY <1>5, <2>4, <2>5 DEF NodesInv
<1>8. MessagesInv'
  BY <1>n, <1>5 DEF MessagesInv, CreatedIsDue, Printed, TypeOK
<1>9. TraversalInv'
  <2>1. pc'[t] = "begin"
    BY <1>5 DEF TypeOK
  <2> QED
    BY <2>1 DEF TraversalInv, WillReach
<1>10. HeldInv'
  <2>1. \A k \in DOMAIN order : \E l \in DOMAIN order' : order'[l] = order[k]
    BY <1>o, <1>1, <1>h
  <2> SUFFICES ASSUME NEW u \in Threads, NEW i \in DOMAIN Found[u], Reported(u, i)'
               PROVE  \E k \in DOMAIN order' : RaceOf(order'[k]) = Found[u][i]
    BY DEF HeldInv, RaceOf
  <2>2. CASE Reported(u, i)
    BY <2>1, <2>2 DEF HeldInv
  <2>3. CASE ~Reported(u, i)
    <3>1. u = t /\ i = step[t]
      BY <1>5, <2>3 DEF Reported, TypeOK
    <3>2. PICK k \in DOMAIN order' : order'[k] = n
      BY <1>o, <1>1, <1>h
    <3>3. RaceOf(n) = Found[u][i]
      BY <1>p, <3>1 DEF RaceOf
    <3> QED
      BY <3>2, <3>3
  <2> QED
    BY <2>2, <2>3
<1> QED
  BY <1>6, <1>7, <1>8, <1>9, <1>10

\* A loop starts at the first node and so reaches all.
LEMMA PrintRacesKeeps ==
  ASSUME IInv, NEW t \in Threads, printRaces(t)
  PROVE  IInv'
<1> USE DEF IInv
<1>0. /\ pc[t] = "begin" /\ race' = [race EXCEPT ![t] = First]
      /\ pc' = [pc EXCEPT ![t] = "loop"]
      /\ UNCHANGED <<order, lost, made, printed, step, place, msg, ended>>
  BY DEF printRaces, GoTo
<1>c. Inserted' = Inserted /\ RacesSet' = RacesSet /\ RacesSet \subseteq Inserted
  BY <1>0, SameSets DEF RacesSet
<1>1. TypeOK'
  <2>1. First \in Inserted \cup {NoNode}
    BY LedTo
  <2>2. /\ race' \in [Threads -> Inserted \cup {NoNode}]
        /\ pc' \in [Threads -> {"run", "insert", "begin", "loop", "create", "print"}]
    BY <1>0, <2>1 DEF TypeOK
  <2> QED
    BY <1>0, <1>c, <2>2 DEF TypeOK
<1>2. \A u \in Threads : \A i : Reported(u, i)' <=> Reported(u, i)
  BY <1>0 DEF TypeOK, Reported
<1>3. NodesInv'
  <2>1. \A n \in Inserted : n[1] \in Threads
    BY OrderHolds, NodeParts
  <2>2. \A u \in Threads : /\ pc'[u] = "insert" => step[u] \in DOMAIN Found[u]
                           /\ pc'[u] = "create" => race'[u] # NoNode
    BY <1>0 DEF NodesInv, TypeOK
  <2> QED
    BY <1>0, <1>c, <1>2, <2>1, <2>2 DEF NodesInv
<1>4. MessagesInv'
  BY <1>0 DEF MessagesInv, CreatedIsDue, Printed, TypeOK
<1>5. TraversalInv'
  <2> SUFFICES ASSUME NEW n \in RacesSet, n \notin made
               PROVE  \E u \in Threads : WillReach(u, n)'
    BY <1>0, <1>c DEF TraversalInv
  <2>1. PICK u \in Threads : WillReach(u, n)
    BY DEF TraversalInv
  <2>2. CASE u = t
    <3>1. /\ First # NoNode
          /\ \E i, j \in DOMAIN order : i <= j /\ order[i] = First /\ order[j] = n
      BY FirstReaches
    <3>2. pc'[t] = "loop" /\ race'[t] = First
      BY <1>0 DEF TypeOK
    <3>3. WillReach(t, n)'
      BY <1>0, <3>1, <3>2 DEF WillReach
    <3> QED
      BY <3>3
  <2>3. CASE u # t
    <3>1. WillReach(u, n)'
      BY <1>0, <2>1, <2>3 DEF WillReach, TypeOK
    <3> QED
      BY <3>1
  <2> QED
    BY <2>2, <2>3
<1>6. HeldInv'
  BY <1>0, <1>2 DEF HeldInv, RaceOf
<1> QED
  BY <1>1, <1>3, <1>4, <1>5, <1>6

\* The loop leaves a node for the next one when its message is made already.
LEMMA TestRaceKeeps ==
  ASSUME IInv, NEW t \in Threads, testRace(t)
  PROVE  IInv'
<1> USE DEF IInv
<1>0. /\ pc[t] = "loop"
      /\ UNCHANGED <<order, lost, made, printed, step, place, msg, ended>>
      /\ \/ race[t] = NoNode /\ pc' = [pc EXCEPT ![t] = "print"] /\ UNCHANGED race
         \/ race[t] # NoNode /\ race[t] \in made
            /\ race' = [race EXCEPT ![t] = After(race[t])] /\ UNCHANGED pc
         \/ race[t] # NoNode /\ race[t] \notin made
            /\ pc' = [pc EXCEPT ![t] = "create"] /\ UNCHANGED race
  BY DEF testRace, GoTo
<1>c. Inserted' = Inserted /\ RacesSet' = RacesSet /\ RacesSet \subseteq Inserted
  BY <1>0, SameSets DEF RacesSet
<1>1. TypeOK'
  <2>1. After(race[t]) \in Inserted \cup {NoNode}
    BY LedTo
  <2>2. /\ race' \in [Threads -> Inserted \cup {NoNode}]
        /\ pc' \in [Threads -> {"run", "insert", "begin", "loop", "create", "print"}]
    <3> HIDE DEF IInv
    <3>1. /\ race \in [Threads -> Inserted \cup {NoNode}]
          /\ pc \in [Threads -> {"run", "insert", "begin", "loop", "create", "print"}]
      BY DEF IInv, TypeOK
    <3>2. /\ \/ race' = race
             \/ race' = [race EXCEPT ![t] = After(race[t])]
          /\ \/ pc' = pc
             \/ pc' = [pc EXCEPT ![t] = "print"]
             \/ pc' = [pc EXCEPT ![t] = "create"]
      BY <1>0
    <3> QED
      BY <2>1, <3>1, <3>2
  <2> QED
    BY <1>0, <1>c, <2>2 DEF TypeOK
<1>2. \A u \in Threads : \A i : Reported(u, i)' <=> Reported(u, i)
  BY <1>0 DEF TypeOK, Reported
<1>3. NodesInv'
  <2>1. \A n \in Inserted : n[1] \in Threads
    BY OrderHolds, NodeParts
  <2>2. \A u \in Threads : pc'[u] = "insert" => step[u] \in DOMAIN Found[u]
    BY <1>0 DEF NodesInv, TypeOK
  <2>3. \A u \in Threads : pc'[u] = "create" => race'[u] # NoNode
    BY <1>0 DEF NodesInv, TypeOK
  <2> QED
    BY <1>0, <1>c, <1>2, <2>1, <2>2, <2>3 DEF NodesInv
<1>4. MessagesInv'
  BY <1>0 DEF MessagesInv, CreatedIsDue, Printed, TypeOK
<1>5. TraversalInv'
  <2> SUFFICES ASSUME NEW n \in RacesSet, n \notin made
               PROVE  \E u \in Threads : WillReach(u, n)'
    BY <1>0, <1>c DEF TraversalInv
  <2>1. PICK u \in Threads : WillReach(u, n)
    BY DEF TraversalInv
  <2>2. CASE u = t /\ race[t] \in made /\ race' = [race EXCEPT ![t] = After(race[t])] /\ UNCHANGED pc
    <3>0. \E i, j \in DOMAIN order : i <= j /\ order[i] = race[t] /\ order[j] = n
      BY <1>0, <2>1, <2>2 DEF WillReach
    <3>1. PICK m : m = race[t]
      OBVIOUS
    <3>2. m # n /\ \E i, j \in DOMAIN order : i <= j /\ order[i] = m /\ order[j] = n
      BY <2>2, <3>0, <3>1
    <3>3. /\ After(m) # NoNode
          /\ \E i, j \in DOMAIN order : i <= j /\ order[i] = After(m) /\ order[j] = n
      BY <3>2, AfterReaches
    <3>4. pc'[t] = "loop" /\ race'[t] = After(m)
      BY <1>0, <2>2, <3>1 DEF TypeOK
    <3>5. WillReach(t, n)'
      BY <1>0, <3>3, <3>4 DEF WillReach
    <3> QED
      BY <3>5
  <2>3. CASE u # t
    <3>1. WillReach(u, n)'
      BY <1>0, <2>1, <2>3 DEF WillReach, TypeOK
    <3> QED
      BY <3>1
  <2>4. CASE u = t /\ pc' = [pc EXCEPT ![t] = "create"] /\ UNCHANGED race
    <3>1. WillReach(u, n)'
      BY <1>0, <2>1, <2>4 DEF WillReach, TypeOK
    <3> QED
      BY <3>1
  <2>5. CASE u = t /\ race[t] = NoNode
    BY <1>0, <2>1, <2>5 DEF WillReach
  <2> QED
    BY <1>0, <2>2, <2>3, <2>4, <2>5
<1>6. HeldInv'
  BY <1>0, <1>2 DEF HeldInv, RaceOf
<1> QED
  BY <1>1, <1>3, <1>4, <1>5, <1>6

\* A message that is constructed is its thread's to print.
LEMMA CreateKeeps ==
  ASSUME IInv, NEW t \in Threads, createRaceMessage(t)
  PROVE  IInv'
<1> USE DEF IInv
<1>0. /\ pc[t] = "create"
      /\ msg' = [msg EXCEPT ![t] = msg[t] \cup {race[t]}]
      /\ made' = made \cup {race[t]}
      /\ race' = [race EXCEPT ![t] = After(race[t])]
      /\ pc' = [pc EXCEPT ![t] = "loop"]
      /\ UNCHANGED <<order, lost, printed, step, place, ended>>
  BY DEF createRaceMessage, GoTo
<1>c. Inserted' = Inserted /\ RacesSet' = RacesSet /\ RacesSet \subseteq Inserted
  BY <1>0, SameSets DEF RacesSet
<1>r. race[t] # NoNode /\ race[t] \in Inserted
  BY <1>0 DEF NodesInv, TypeOK
<1>1. TypeOK'
  <2>1. After(race[t]) \in Inserted \cup {NoNode}
    BY LedTo
  <2>2. /\ race' \in [Threads -> Inserted \cup {NoNode}]
        /\ pc' \in [Threads -> {"run", "insert", "begin", "loop", "create", "print"}]
    BY <1>0, <2>1 DEF TypeOK
  <2>3. msg' \in [Threads -> SUBSET made'] /\ made' \subseteq Inserted /\ made \subseteq made'
    BY <1>0, <1>r DEF TypeOK
  <2>4. printed' \subseteq Threads \X made'
    BY <1>0, <2>3 DEF TypeOK
  <2> QED
    BY <1>0, <1>c, <2>2, <2>3, <2>4 DEF TypeOK
<1>2. \A u \in Threads : \A i : Reported(u, i)' <=> Reported(u, i)
  BY <1>0 DEF TypeOK, Reported
<1>3. NodesInv'
  <2>1. \A n \in Inserted : n[1] \in Threads
    BY OrderHolds, NodeParts
  <2>2. \A u \in Threads : /\ pc'[u] = "insert" => step[u] \in DOMAIN Found[u]
                           /\ pc'[u] = "create" => race'[u] # NoNode
    BY <1>0 DEF NodesInv, TypeOK
  <2> QED
    BY <1>0, <1>c, <1>2, <2>1, <2>2 DEF NodesInv
<1>4. MessagesInv'
  <2>1. \A u \in Threads : msg[u] \subseteq msg'[u]
    BY <1>0 DEF TypeOK
  <2>2. race[t] \in msg'[t]
    BY <1>0 DEF TypeOK
  <2>3. CreatedIsDue'
    BY <1>0, <2>1, <2>2 DEF MessagesInv, CreatedIsDue, Printed
  <2>4. \A u \in Threads : pc'[u] \in {"run", "insert", "begin"} => msg'[u] = {}
    BY <1>0 DEF MessagesInv, TypeOK
  <2> QED
    BY <2>3, <2>4 DEF MessagesInv
<1>5. TraversalInv'
  <2> SUFFICES ASSUME NEW n \in RacesSet, n \notin made'
               PROVE  \E u \in Threads : WillReach(u, n)'
    BY <1>0, <1>c DEF TraversalInv
  <2>1. PICK u \in Threads : WillReach(u, n)
    BY <1>0 DEF TraversalInv
  <2>2. CASE u = t
    <3>0. \E i, j \in DOMAIN order : i <= j /\ order[i] = race[t] /\ order[j] = n
      BY <1>0, <2>1, <2>2 DEF WillReach
    <3>1. PICK m : m = race[t]
      OBVIOUS
    <3>2. m # n /\ \E i, j \in DOMAIN order : i <= j /\ order[i] = m /\ order[j] = n
      BY <1>0, <3>0, <3>1
    <3>3. /\ After(m) # NoNode
          /\ \E i, j \in DOMAIN order : i <= j /\ order[i] = After(m) /\ order[j] = n
      BY <3>2, AfterReaches
    <3>4. pc'[t] = "loop" /\ race'[t] = After(m)
      BY <1>0, <3>1 DEF TypeOK
    <3>5. WillReach(t, n)'
      BY <1>0, <3>3, <3>4 DEF WillReach
    <3> QED
      BY <3>5
  <2>3. CASE u # t
    <3>1. WillReach(u, n)'
      BY <1>0, <2>1, <2>3 DEF WillReach, TypeOK
    <3> QED
      BY <3>1
  <2> QED
    BY <2>2, <2>3
<1>6. HeldInv'
  BY <1>0, <1>2 DEF HeldInv, RaceOf
<1> QED
  BY <1>1, <1>3, <1>4, <1>5, <1>6

\* What a thread prints is what it has constructed.
LEMMA PrintKeeps ==
  ASSUME IInv, NEW t \in Threads, printMessage(t)
  PROVE  IInv'
<1> USE DEF IInv
<1>0. /\ pc[t] = "print"
      /\ printed' = printed \cup {<<t, n>> : n \in msg[t]}
      /\ msg' = [msg EXCEPT ![t] = {}]
      /\ pc' = [pc EXCEPT ![t] = "run"]
      /\ step' = [step EXCEPT ![t] = step[t] + 1]
      /\ ended' \in BOOLEAN
      /\ race' = [race EXCEPT ![t] = NoNode]
      /\ UNCHANGED <<order, lost, made, place>>
  BY DEF printMessage, GoTo
<1>c. Inserted' = Inserted /\ RacesSet' = RacesSet /\ RacesSet \subseteq Inserted
  BY <1>0, SameSets DEF RacesSet
<1>1. TypeOK'
  <2>2. /\ race' \in [Threads -> Inserted \cup {NoNode}]
        /\ pc' \in [Threads -> {"run", "insert", "begin", "loop", "create", "print"}]
        /\ msg' \in [Threads -> SUBSET made]
    BY <1>0 DEF TypeOK
  <2>3. step' \in [Threads -> Nat \ {0}]
    BY <1>0 DEF TypeOK
  <2>4. printed' \subseteq Threads \X made
    BY <1>0 DEF TypeOK
  <2> QED
    BY <1>0, <1>c, <2>2, <2>3, <2>4 DEF TypeOK
<1>2. \A u \in Threads : \A i \in Nat : Reported(u, i)' <=> Reported(u, i)
  BY <1>0 DEF TypeOK, Reported
<1>3. NodesInv'
  <2>1. \A n \in Inserted : n[1] \in Threads /\ n[2] \in Nat
    BY OrderHolds, NodeParts
  <2>2. \A u \in Threads : /\ pc'[u] = "insert" => step'[u] \in DOMAIN Found[u]
                           /\ pc'[u] = "create" => race'[u] # NoNode
    BY <1>0 DEF NodesInv, TypeOK
  <2> QED
    BY <1>0, <1>c, <1>2, <2>1, <2>2 DEF NodesInv
<1>4. MessagesInv'
  <2>1. \A n \in msg[t] : n \in Printed'
    <3>1. \A n \in msg[t] : <<t, n>> \in printed' /\ <<t, n>>[2] = n
      BY <1>0
    <3> QED
      BY <3>1 DEF Printed
  <2>2. \A n \in Printed : n \in Printed'
    <3>1. \A p \in printed : p \in printed'
      BY <1>0
    <3> QED
      BY <3>1 DEF Printed
  <2>3. \A u \in Threads : u # t => msg'[u] = msg[u]
    BY <1>0 DEF TypeOK
  <2>4. CreatedIsDue'
    <3> SUFFICES ASSUME NEW n \in made
                 PROVE  n \in Printed' \/ \E u \in Threads : n \in msg'[u]
      BY <1>0 DEF CreatedIsDue
    <3>1. n \in Printed \/ \E u \in Threads : n \in msg[u]
      BY DEF MessagesInv, CreatedIsDue
    <3> QED
      BY <2>1, <2>2, <2>3, <3>1
  <2>5. \A u \in Threads : pc'[u] \in {"run", "insert", "begin"} => msg'[u] = {}
    BY <1>0 DEF MessagesInv, TypeOK
  <2> QED
    BY <2>4, <2>5 DEF MessagesInv
<1>5. TraversalInv'
  <2>1. \A u \in Threads : \A n : WillReach(u, n) => u # t
    BY <1>0 DEF WillReach
  <2>2. \A u \in Threads : \A n : WillReach(u, n) => WillReach(u, n)'
    BY <1>0, <2>1 DEF WillReach, TypeOK
  <2> QED
    BY <1>0, <1>c, <2>2 DEF TraversalInv
<1>6. HeldInv'
  <2>1. \A u \in Threads : \A i \in DOMAIN Found[u] : i \in Nat
    BY FoundAssumption, LenProperties
  <2> QED
    BY <1>0, <1>2, <2>1 DEF HeldInv, RaceOf
<1> QED
  BY <1>1, <1>3, <1>4, <1>5, <1>6

\* main's last traversal.
LEMMA ExitKeeps ==
  ASSUME IInv, main_func_exit
  PROVE  IInv'
<1> USE DEF IInv
<1>0. /\ Main \in Threads /\ pc[Main] = "run" /\ step[Main] = Len(Found[Main]) + 1
      /\ pc' = [pc EXCEPT ![Main] = "begin"]
      /\ UNCHANGED <<order, lost, made, printed, step, place, race, msg, ended>>
  BY FoundAssumption DEF main_func_exit, GoTo
<1>c. Inserted' = Inserted /\ RacesSet' = RacesSet /\ RacesSet \subseteq Inserted
  BY <1>0, SameSets DEF RacesSet
<1>1. TypeOK'
  <2>1. pc' \in [Threads -> {"run", "insert", "begin", "loop", "create", "print"}]
    BY <1>0 DEF TypeOK
  <2> QED
    BY <1>0, <1>c, <2>1 DEF TypeOK
<1>2. \A u \in Threads : \A i : Reported(u, i) => Reported(u, i)'
  BY <1>0 DEF TypeOK, Reported
<1>3. NodesInv'
  <2>1. \A n \in Inserted : n[1] \in Threads
    BY OrderHolds, NodeParts
  <2>2. \A u \in Threads : /\ pc'[u] = "insert" => step[u] \in DOMAIN Found[u]
                           /\ pc'[u] = "create" => race[u] # NoNode
    BY <1>0 DEF NodesInv, TypeOK
  <2> QED
    BY <1>0, <1>c, <1>2, <2>1, <2>2 DEF NodesInv
<1>4. MessagesInv'
  BY <1>0 DEF MessagesInv, CreatedIsDue, Printed, TypeOK
<1>5. TraversalInv'
  <2>1. \A u \in Threads : \A n : WillReach(u, n) => WillReach(u, n)'
    BY <1>0 DEF WillReach, TypeOK
  <2> QED
    BY <1>0, <1>c, <2>1 DEF TraversalInv
<1>6. HeldInv'
  <2>1. \A u \in Threads : \A i \in DOMAIN Found[u] : i \in 1 .. Len(Found[u]) /\ Len(Found[u]) \in Nat
    BY FoundAssumption, LenProperties
  <2>2. \A u \in Threads : \A i \in DOMAIN Found[u] : Reported(u, i)' => Reported(u, i)
    BY <1>0, <2>1 DEF Reported, TypeOK
  <2> QED
    BY <1>0, <2>2 DEF HeldInv, RaceOf
<1> QED
  BY <1>1, <1>3, <1>4, <1>5, <1>6

-----------------------------------------------------------------------------
\* No step leaves the invariant.
LEMMA Step == IInv /\ [Next]_vars => IInv'
<1> SUFFICES ASSUME IInv, [Next]_vars PROVE IInv'
  OBVIOUS
<1>1. ASSUME NEW t \in Threads, ThreadStep(t) PROVE IInv'
  <2>1. CASE reportRace(t)
    BY <2>1, ReportKeeps
  <2>2. CASE insertRace(t)
    BY <2>2, InsertKeeps
  <2>3. CASE printRaces(t)
    BY <2>3, PrintRacesKeeps
  <2>4. CASE testRace(t)
    BY <2>4, TestRaceKeeps
  <2>5. CASE createRaceMessage(t)
    BY <2>5, CreateKeeps
  <2>6. CASE printMessage(t)
    BY <2>6, PrintKeeps
  <2>7. CASE main_func_exit
    BY <2>7, ExitKeeps
  <2> QED
    BY <1>1, <2>1, <2>2, <2>3, <2>4, <2>5, <2>6, <2>7 DEF ThreadStep
<1>2. CASE UNCHANGED vars
  <2>1. /\ Inserted' = Inserted /\ RacesSet' = RacesSet /\ Printed' = Printed
        /\ \A u, i : Reported(u, i)' = Reported(u, i)
        /\ \A u, n : WillReach(u, n)' = WillReach(u, n)
    BY <1>2 DEF vars, Inserted, RacesSet, Printed, Reported, WillReach
  <2>2. TypeOK' = TypeOK
    BY <1>2, <2>1 DEF vars, TypeOK
  <2>3. NodesInv'
    BY <1>2, <2>1 DEF IInv, vars, NodesInv
  <2>4. MessagesInv'
    BY <1>2, <2>1 DEF IInv, vars, MessagesInv, CreatedIsDue
  <2>5. TraversalInv'
    BY <1>2, <2>1 DEF IInv, vars, TraversalInv
  <2>6. HeldInv'
    BY <1>2, <2>1 DEF IInv, vars, HeldInv, RaceOf
  <2> QED
    BY <2>2, <2>3, <2>4, <2>5, <2>6 DEF IInv
<1> QED
  BY <1>1, <1>2 DEF Next, Terminated

\* The invariant of all that follows.
THEOREM Invariance == Spec => []IInv
<1> QED
  BY Initially, Step, PTL DEF Spec

\* Only inserted nodes are constructed and printed, no loop of printRaces
\* goes past races.end(): every variable has its type.
THEOREM TypeCorrect == Spec => []TypeOK
<1>1. IInv => TypeOK
  BY DEF IInv
<1> QED
  BY <1>1, Invariance, PTL

\* A message a thread has taken on by createRaceMessage is printed or still
\* in that thread's msg.
THEOREM CreatedDue == Spec => []CreatedIsDue
<1>1. IInv => CreatedIsDue
  BY DEF IInv, MessagesInv
<1> QED
  BY <1>1, Invariance, PTL

\* When no thread is in a report, whatever the set holds has been printed,
\* whichever insertions and traversals overlapped.
THEOREM QuietPrinted == Spec => []QuietMeansPrinted
<1>1. IInv => QuietMeansPrinted
  <2> SUFFICES ASSUME IInv, \A t \in Threads : pc[t] = "run", NEW n \in RacesSet
               PROVE  n \in Printed
    BY DEF QuietMeansPrinted
  <2>1. \A t \in Threads : ~WillReach(t, n)
    BY DEF WillReach
  <2>2. n \in made
    BY <2>1 DEF IInv, TraversalInv
  <2>3. \A t \in Threads : msg[t] = {}
    BY DEF IInv, MessagesInv
  <2> QED
    BY <2>2, <2>3 DEF IInv, MessagesInv, CreatedIsDue
<1> QED
  BY <1>1, Invariance, PTL

\* Every race a thread has reported has been put in the set, under its own
\* node or that of an equal race.
THEOREM Held == Spec => []EachIsHeld
<1>1. IInv => EachIsHeld
  <2> SUFFICES ASSUME IInv, NEW t \in Threads, NEW i \in 1 .. step[t] - 1, i <= Len(Found[t])
               PROVE  \E k \in DOMAIN order : RaceOf(order[k]) = Found[t][i]
    BY DEF EachIsHeld
  <2>1. step[t] \in Nat
    BY DEF IInv, TypeOK
  <2>2. i < step[t] /\ i \in DOMAIN Found[t]
    <3>1. Found[t] \in Seq(Race)
      BY FoundAssumption
    <3>2. DOMAIN Found[t] = 1 .. Len(Found[t]) /\ Len(Found[t]) \in Nat
      BY <3>1, LenProperties
    <3> QED
      BY <2>1, <3>2
  <2>3. Reported(t, i)
    BY <2>2 DEF Reported
  <2> QED
    BY <2>2, <2>3 DEF IInv, HeldInv
<1> QED
  BY <1>1, Invariance, PTL
=============================================================================
