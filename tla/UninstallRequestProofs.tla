----------------------- MODULE UninstallRequestProofs -----------------------
(***************************************************************************)
(* A request to uninstall, proved for any packages and any dependency      *)
(* graphs, and however the disk changes and the caches lag behind it.  The *)
(* lemmas are about the planner's set algebra; the theorems lift them      *)
(* along PlanInv, which says that asked is the planner's own answer for    *)
(* its input, that the announcement names what broke on the disk it was    *)
(* taken on, and that the dialog lists at least that.                      *)
(***************************************************************************)
EXTENDS UninstallRequest, TLAPS

SingleTarget(i) == \E name \in Package : i.targets = {name}

\* The disks, and caches filled from them.
CachesInv ==
    /\ past \in Seq(Graph) /\ past # <<>> /\ moves \in Nat
    /\ scan.at \in DOMAIN past /\ scan.names \subseteq Package
    /\ replies.scan \in DOMAIN past
    /\ DOMAIN replies.forward \cup DOMAIN replies.reverse \subseteq Package
    /\ \A p \in DOMAIN replies.forward : replies.forward[p] \in DOMAIN past
    /\ \A p \in DOMAIN replies.reverse : replies.reverse[p] \in DOMAIN past

AskedInv ==
    /\ in \in Input
    /\ asked = None \/ (SingleTarget(in) /\ asked = ComposeFrom(in))

GateInv ==
    gate # NoGate =>
      /\ gate.at \in DOMAIN past
      /\ gate.batch \subseteq Package /\ gate.dependents \subseteq Package
      /\ Broken(past[gate.at], gate.batch) \subseteq gate.dependents

ShownInv ==
    shown # None =>
      /\ gate # NoGate
      /\ shown.batch = gate.batch
      /\ gate.dependents \ gate.batch \subseteq shown.dependents
      /\ shown.dependents \subseteq Package \ gate.batch
      /\ DOMAIN shown.kept \subseteq Package \ gate.batch

PlanInv == CachesInv /\ AskedInv /\ GateInv /\ ShownInv

USE UninstallRequestAssumption DEF Input

-----------------------------------------------------------------------------
\* A batch or a kept package is in the closure of the targets, hence on disk
\* (UninstallPlan.cpp:52, 87).
LEMMA ClosureOnDisk ==
    ASSUME NEW i \in Input, NEW mode \in BOOLEAN
    PROVE  /\ Batch(i, mode) \subseteq Candidates(i)
           /\ Kept(i, mode) \subseteq Candidates(i)
           /\ Candidates(i) \subseteq i.installed
           /\ Dependents(i) \subseteq i.installed
  BY DEF Batch, Kept, Orphans, Candidates, Targets, ClosureOf, Dependents

\* An installed package outside the closure needs no orphan: orphans are what
\* no survivor wants (UninstallPlan.cpp:66-70, 87).
LEMMA RootsKeepTheirs ==
    ASSUME NEW i \in Input, NEW r \in Roots(i)
    PROVE  i.dependencies[r] \cap Orphans(i) = {}
  BY DEF Roots, Orphans, Survivors, ClosureOf, Candidates, Targets

\* A package that stays and is neither listed nor pinned keeps what it needs,
\* cycles through the target excepted.
LEMMA ComposeBreaksOnlyListed ==
    ASSUME NEW i, Coherent(i), SingleTarget(i),
           NEW p \in i.installed \ (Batch(i, TRUE) \cup Dependents(i)
                                      \cup i.embedded \cup i.protectedNames),
           NEW d \in i.dependencies[p] \cap Batch(i, TRUE)
    PROVE  p \in i.dependencies[d]
<1>1. i \in Input /\ Closed(i) /\ Inverse(i)
  BY DEF Coherent
<1>2. d \in i.installed
  BY <1>1, ClosureOnDisk
<1>3. d \in Targets(i) \/ d \in Orphans(i)
  BY DEF Batch
<1>4. CASE p \notin Candidates(i)
  <2>1. p \in Roots(i)
    BY <1>4 DEF Roots
  <2>2. d \in Targets(i)
    BY <1>1, <1>3, <2>1, RootsKeepTheirs
  <2>3. p \in i.dependents[d]
    BY <1>1, <1>2 DEF Inverse
  <2>4. p \in Dependents(i)
    BY <1>4, <2>2, <2>3 DEF Dependents
  <2>5. QED BY <2>4
<1>5. CASE p \in Candidates(i)
  <2>1. p \notin Targets(i) /\ p \notin Orphans(i)
    BY DEF Batch
  <2>2. PICK t \in Targets(i) : p \in i.dependencies[t]
    BY <1>5, <2>1 DEF Candidates, ClosureOf
  <2>3. CASE d \in Targets(i)
    <3>1. d = t
      BY <2>2, <2>3 DEF Targets, SingleTarget
    <3>2. QED BY <2>2, <3>1
  <2>4. CASE d \in Orphans(i)
    <3>1. p \in Survivors(i) \ Roots(i)
      BY <1>5, <2>1 DEF Orphans, Roots
    <3>2. PICK r \in Roots(i) : p \in i.dependencies[r]
      BY <3>1 DEF Survivors, ClosureOf
    <3>3. d \in i.dependencies[r]
      BY <1>1, <3>2 DEF Closed, Roots
    <3>4. FALSE
      BY <1>1, <2>4, <3>3, RootsKeepTheirs
    <3>5. QED BY <3>4
  <2>5. QED BY <1>3, <2>3, <2>4
<1>6. QED BY <1>4, <1>5

\* Compose sweeps every orphan, so what it keeps has a reason.
LEMMA ComposeKeepsForAReason ==
    ASSUME NEW i \in Input, NEW c \in Kept(i, TRUE)
    PROVE  KeptReason(i, c) # "unused"
<1>1. SUFFICES ASSUME c \notin i.embedded, c \notin i.protectedNames
               PROVE  RequiredByOf(i, c) # {}
  BY DEF KeptReason
<1>2. c \in Candidates(i) /\ c \notin Targets(i) /\ c \notin Orphans(i)
  BY DEF Kept, Batch
<1>3. c \in Survivors(i) /\ c \notin Roots(i)
  BY <1>1, <1>2 DEF Orphans, Roots
<1>4. PICK r \in Roots(i) : c \in i.dependencies[r]
  BY <1>3 DEF Survivors, ClosureOf
<1>5. QED BY <1>4 DEF RequiredByOf

-----------------------------------------------------------------------------
\* A disk that is appended leaves the earlier ones where they were.
LEMMA AppendKeeps ==
    ASSUME NEW S, NEW s \in Seq(S), NEW e \in S
    PROVE  /\ Append(s, e) \in Seq(S) /\ Append(s, e) # <<>>
           /\ DOMAIN s \subseteq DOMAIN Append(s, e)
           /\ \A i \in DOMAIN s : Append(s, e)[i] = s[i]
<1>1. Append(s, e) \in Seq(S)
  OBVIOUS
<1>2. Len(s) \in Nat /\ Len(Append(s, e)) = Len(s) + 1
  OBVIOUS
<1>3. DOMAIN s = 1..Len(s) /\ DOMAIN Append(s, e) = 1..(Len(s) + 1)
  BY <1>1, <1>2
<1>4. Append(s, e) # <<>>
  BY <1>2
<1>5. \A i \in DOMAIN s : Append(s, e)[i] = s[i]
  BY <1>2, <1>3
<1>6. QED BY <1>1, <1>2, <1>3, <1>4, <1>5

\* The disk now is one of those there have been.
LEMMA DiskIsLast == CachesInv => Len(past) \in DOMAIN past /\ Disk \in Graph
<1>1. SUFFICES ASSUME CachesInv
               PROVE  Len(past) \in DOMAIN past /\ Disk \in Graph
  OBVIOUS
<1>2. past \in Seq(Graph) /\ past # <<>>
  BY <1>1 DEF CachesInv
<1>3. Len(past) \in Nat /\ Len(past) # 0 /\ DOMAIN past = 1..Len(past)
  BY <1>2
<1>4. QED BY <1>2, <1>3 DEF Disk

\* An install or an upgrade leaves a disk.
LEMMA InstallIsGraph ==
    ASSUME NEW g \in Graph, NEW p \in Package, NEW needs \in SUBSET Package
    PROVE  [g EXCEPT !.installed = @ \cup {p}, !.needs[p] = needs] \in Graph
<1>1. /\ g \in [installed : SUBSET Package, embedded : SUBSET Package,
                needs : [Package -> SUBSET Package]]
      /\ g.embedded \subseteq g.installed
      /\ \A q \in Package \ g.installed : g.needs[q] = {}
  BY DEF Graph
<1> DEFINE h == [g EXCEPT !.installed = @ \cup {p}, !.needs[p] = needs]
<1>2. h \in [installed : SUBSET Package, embedded : SUBSET Package,
             needs : [Package -> SUBSET Package]]
  BY <1>1
<1>3. h.embedded \subseteq h.installed
  BY <1>1
<1>4. \A q \in Package \ h.installed : h.needs[q] = {}
  BY <1>1
<1>5. QED BY <1>2, <1>3, <1>4 DEF Graph

\* So does the removal of what is not embedded.
LEMMA RemoveIsGraph ==
    ASSUME NEW g \in Graph, NEW p \in g.installed \ g.embedded
    PROVE  [g EXCEPT !.installed = @ \ {p}, !.needs[p] = {}] \in Graph
<1>1. /\ g \in [installed : SUBSET Package, embedded : SUBSET Package,
                needs : [Package -> SUBSET Package]]
      /\ g.embedded \subseteq g.installed
      /\ \A q \in Package \ g.installed : g.needs[q] = {}
      /\ p \in Package
  BY DEF Graph
<1> DEFINE h == [g EXCEPT !.installed = @ \ {p}, !.needs[p] = {}]
<1>2. h \in [installed : SUBSET Package, embedded : SUBSET Package,
             needs : [Package -> SUBSET Package]]
  BY <1>1
<1>3. h.embedded \subseteq h.installed
  BY <1>1
<1>4. \A q \in Package \ h.installed : h.needs[q] = {}
  BY <1>1
<1>5. QED BY <1>2, <1>3, <1>4 DEF Graph

\* However stale the caches are, they make an input.
LEMMA InputOfCaches ==
    ASSUME CachesInv, NEW targets \in SUBSET Package
    PROVE  PlanInput(targets) \in Input /\ PlanInput(targets).targets = targets
<1>1. \A i \in DOMAIN past : \A p : /\ DependenciesOf(past[i], p) \subseteq Package
                                    /\ DependentsOf(past[i], p) \subseteq Package
  <2>1. SUFFICES ASSUME NEW i \in DOMAIN past, NEW p
                 PROVE  /\ DependenciesOf(past[i], p) \subseteq Package
                        /\ DependentsOf(past[i], p) \subseteq Package
    OBVIOUS
  <2>2. past \in Seq(Graph)
    BY DEF CachesInv
  <2>3. past[i] \in Graph
    BY <2>2
  <2>4. past[i].installed \subseteq Package
    BY <2>3 DEF Graph
  <2>5. QED BY <2>4 DEF DependenciesOf, DependentsOf
<1>2. /\ scan.names \subseteq Package
      /\ \A p \in DOMAIN replies.forward : replies.forward[p] \in DOMAIN past
      /\ \A p \in DOMAIN replies.reverse : replies.reverse[p] \in DOMAIN past
  BY DEF CachesInv
<1>3. QED BY <1>1, <1>2 DEF PlanInput

\* What a disk loses is on it.
LEMMA BrokenOnDisk ==
    ASSUME NEW g \in Graph, NEW batch
    PROVE  Broken(g, batch) \subseteq Package \ batch
  BY DEF Graph, Broken

\* The payload lists what was announced, and nothing of the batch.
LEMMA PayloadLists ==
    ASSUME NEW i \in Input, NEW announced, i.targets = announced.batch,
           announced.dependents \subseteq Package
    PROVE  LET s == Payload(ExplainOf(i), announced)
           IN /\ s.batch = announced.batch
              /\ announced.dependents \ announced.batch \subseteq s.dependents
              /\ s.dependents \subseteq Package \ announced.batch
              /\ DOMAIN s.kept \subseteq Package \ announced.batch
<1> DEFINE s == Payload(ExplainOf(i), announced)
<1>1. /\ s.batch = announced.batch
      /\ s.kept = ExplainOf(i).kept
      /\ s.dependents = (IF announced.dependents = {} THEN ExplainOf(i).dependents
                                                      ELSE announced.dependents)
                          \ announced.batch
  BY DEF Payload
<1>2. ExplainOf(i).dependents = Dependents(i) /\ DOMAIN ExplainOf(i).kept = Kept(i, FALSE)
  BY DEF ExplainOf, Plan
<1>3. Kept(i, FALSE) \subseteq i.installed /\ Dependents(i) \subseteq i.installed
  BY ClosureOnDisk
<1>4. Kept(i, FALSE) \cap i.targets = {}
  BY <1>3 DEF Kept, Batch, Targets
<1>5. i.installed \subseteq Package
  OBVIOUS
<1>6. DOMAIN s.kept = Kept(i, FALSE)
  BY <1>1, <1>2
<1>7. DOMAIN s.kept \subseteq Package \ announced.batch
  BY <1>3, <1>4, <1>5, <1>6
<1>8. s.dependents \subseteq Package \ announced.batch
  BY <1>1, <1>2, <1>3, <1>5
<1>9. announced.dependents \ announced.batch \subseteq s.dependents
  BY <1>1
<1>10. QED BY <1>1, <1>7, <1>8, <1>9

-----------------------------------------------------------------------------
\* The planner's part holds at the start.
LEMMA InitPlanInv == Init => PlanInv
<1>1. SUFFICES ASSUME Init
               PROVE  PlanInv
  OBVIOUS
<1>2. PICK g \in Graph : past = <<g>>
  BY <1>1 DEF Init
<1>3. past \in Seq(Graph) /\ past # <<>> /\ Disk = g /\ DOMAIN past = {1}
  BY <1>2 DEF Disk
<1>4. Disk.installed \subseteq Package
  BY <1>3 DEF Graph
<1>5. CachesInv
  BY <1>1, <1>3, <1>4 DEF Init, CachesInv
<1>6. AskedInv
  BY <1>1 DEF Init, AskedInv, NoCaches
<1>7. GateInv /\ ShownInv
  BY <1>1 DEF Init, GateInv, ShownInv
<1>8. QED BY <1>5, <1>6, <1>7 DEF PlanInv

\* A change of the disk only adds one.
LEMMA ChangePlanInv ==
    ASSUME PlanInv, NEW g \in Graph, Change(g)
    PROVE  PlanInv'
<1>1. /\ past' = Append(past, g) /\ moves' = moves + 1
      /\ scan' = scan /\ replies' = replies /\ in' = in /\ asked' = asked
      /\ gate' = gate /\ shown' = shown
  BY DEF Change, caches
<1>2. /\ past' \in Seq(Graph) /\ past' # <<>>
      /\ DOMAIN past \subseteq DOMAIN past'
      /\ \A i \in DOMAIN past : past'[i] = past[i]
  <2>1. past \in Seq(Graph)
    BY DEF PlanInv, CachesInv
  <2>2. QED BY <1>1, <2>1, AppendKeeps
<1>3. CachesInv'
  BY <1>1, <1>2 DEF PlanInv, CachesInv
<1>4. AskedInv' /\ ShownInv'
  BY <1>1 DEF PlanInv, AskedInv, ShownInv
<1>5. GateInv'
  <2>1. SUFFICES ASSUME gate # NoGate
                 PROVE  /\ gate.at \in DOMAIN past'
                        /\ gate.batch \subseteq Package /\ gate.dependents \subseteq Package
                        /\ Broken(past'[gate.at], gate.batch) \subseteq gate.dependents
    BY <1>1 DEF GateInv
  <2>2. /\ gate.at \in DOMAIN past
        /\ gate.batch \subseteq Package /\ gate.dependents \subseteq Package
        /\ Broken(past[gate.at], gate.batch) \subseteq gate.dependents
    BY <2>1 DEF PlanInv, GateInv
  <2>3. past'[gate.at] = past[gate.at]
    BY <1>2, <2>2
  <2>4. QED BY <1>2, <2>2, <2>3
<1>6. QED BY <1>3, <1>4, <1>5 DEF PlanInv

\* Every step of the request and of the caches keeps it.
LEMMA NextPlanInv == PlanInv /\ [Next]_vars => PlanInv'
<1>1. SUFFICES ASSUME PlanInv, [Next]_vars
               PROVE  PlanInv'
  OBVIOUS
<1>2. CachesInv /\ AskedInv /\ GateInv /\ ShownInv
  BY <1>1 DEF PlanInv
<1>3. Len(past) \in DOMAIN past /\ Disk \in Graph
  BY <1>2, DiskIsLast
<1>4. past \in Seq(Graph) /\ DOMAIN past = 1..Len(past) /\ Len(past) \in Nat
  BY <1>2 DEF CachesInv
<1>5. ASSUME NEW r \in Releases, Install(r.package, r.needs)
      PROVE  PlanInv'
  <2>1. r.package \in Package /\ r.needs \in SUBSET Package
    OBVIOUS
  <2> DEFINE g == [Disk EXCEPT !.installed = @ \cup {r.package}, !.needs[r.package] = r.needs]
  <2>2. g \in Graph
    BY <1>3, <2>1, InstallIsGraph
  <2>3. Change(g)
    BY <1>5 DEF Install
  <2> HIDE DEF g
  <2>4. QED BY <1>1, <2>2, <2>3, ChangePlanInv
<1>6. ASSUME NEW p \in Package, Remove(p)
      PROVE  PlanInv'
  <2>1. p \in Disk.installed \ Disk.embedded
    BY <1>6 DEF Remove
  <2> DEFINE g == [Disk EXCEPT !.installed = @ \ {p}, !.needs[p] = {}]
  <2>2. g \in Graph
    BY <1>3, <2>1, RemoveIsGraph
  <2>3. Change(g)
    BY <1>6 DEF Remove
  <2> HIDE DEF g
  <2>4. QED BY <1>1, <2>2, <2>3, ChangePlanInv
<1>7. CASE Scanned
  <2>1. PICK i \in scan.at .. Len(past) :
          \E names \in {past[i].installed, past[i].installed \cap Ui} :
             scan' = [at |-> i, names |-> names]
    BY <1>7 DEF Scanned
  <2>2. i \in DOMAIN past
    BY <1>2, <1>4, <2>1 DEF CachesInv
  <2>3. past[i].installed \subseteq Package
    <3>1. past[i] \in Graph
      BY <1>4, <2>2
    <3>2. QED BY <3>1 DEF Graph
  <2>4. scan'.at \in DOMAIN past /\ scan'.names \subseteq Package
    BY <2>1, <2>2, <2>3
  <2>5. UNCHANGED <<past, moves, replies, in, asked, gate, shown>>
    BY <1>7 DEF Scanned, disks
  <2>6. CachesInv'
    BY <1>2, <2>4, <2>5 DEF CachesInv
  <2>7. AskedInv' /\ GateInv' /\ ShownInv'
    BY <1>2, <2>5 DEF AskedInv, GateInv, ShownInv
  <2>8. QED BY <2>6, <2>7 DEF PlanInv
<1>8. CASE Resolved
  <2>1. PICK i \in replies.scan .. scan.at :
          \E forward, reverse \in [past[i].installed -> i .. Len(past)] :
             replies' = [scan |-> i, forward |-> forward, reverse |-> reverse]
    BY <1>8 DEF Resolved
  <2>2. PICK forward \in [past[i].installed -> i .. Len(past)],
             reverse \in [past[i].installed -> i .. Len(past)] :
             replies' = [scan |-> i, forward |-> forward, reverse |-> reverse]
    BY <2>1
  <2>3. i \in DOMAIN past /\ i .. Len(past) \subseteq DOMAIN past
    BY <1>2, <1>4, <2>1 DEF CachesInv
  <2>4. past[i].installed \subseteq Package
    <3>1. past[i] \in Graph
      BY <1>4, <2>3
    <3>2. QED BY <3>1 DEF Graph
  <2>5. /\ replies'.scan \in DOMAIN past
        /\ DOMAIN replies'.forward \cup DOMAIN replies'.reverse \subseteq Package
        /\ \A p \in DOMAIN replies'.forward : replies'.forward[p] \in DOMAIN past
        /\ \A p \in DOMAIN replies'.reverse : replies'.reverse[p] \in DOMAIN past
    BY <2>2, <2>3, <2>4
  <2>6. UNCHANGED <<past, moves, scan, in, asked, gate, shown>>
    BY <1>8 DEF Resolved, disks
  <2>7. CachesInv'
    BY <1>2, <2>5, <2>6 DEF CachesInv
  <2>8. AskedInv' /\ GateInv' /\ ShownInv'
    BY <1>2, <2>6 DEF AskedInv, GateInv, ShownInv
  <2>9. QED BY <2>7, <2>8 DEF PlanInv
<1>9. ASSUME NEW name \in Package, Compose(name)
      PROVE  PlanInv'
  <2>1. /\ in' = PlanInput({name}) /\ asked' = ComposeFrom(in')
        /\ UNCHANGED <<past, moves, scan, replies, gate, shown>>
    BY <1>9 DEF Compose, disks, caches
  <2>2. in' \in Input /\ in'.targets = {name}
    BY <1>2, <2>1, InputOfCaches
  <2>3. AskedInv'
    BY <2>1, <2>2 DEF AskedInv, SingleTarget
  <2>4. CachesInv' /\ GateInv' /\ ShownInv'
    BY <1>2, <2>1 DEF CachesInv, GateInv, ShownInv
  <2>5. QED BY <2>3, <2>4 DEF PlanInv
<1>10. ASSUME NEW batch, Request(batch)
       PROVE  PlanInv'
  <2>1. /\ gate = NoGate
        /\ batch \subseteq Disk.installed
        /\ UNCHANGED <<past, moves, scan, replies, in, asked, shown>>
    BY <1>10 DEF Request, disks, caches
  <2>2. PICK members \in {{}, batch} :
          gate' = [batch |-> batch, dependents |-> Broken(Disk, batch) \cup members,
                   at |-> Len(past)]
    BY <1>10 DEF Request
  <2>3. batch \subseteq Package
    BY <1>3, <2>1 DEF Graph
  <2>4. Broken(Disk, batch) \subseteq Package
    BY <1>3, BrokenOnDisk
  <2>5. /\ gate'.at \in DOMAIN past
        /\ gate'.batch \subseteq Package /\ gate'.dependents \subseteq Package
        /\ Broken(past[gate'.at], gate'.batch) \subseteq gate'.dependents
    BY <1>3, <2>2, <2>3, <2>4 DEF Disk
  <2>6. GateInv'
    BY <2>1, <2>5 DEF GateInv
  <2>7. ShownInv'
    BY <1>2, <2>1 DEF ShownInv
  <2>8. CachesInv' /\ AskedInv'
    BY <1>2, <2>1 DEF CachesInv, AskedInv
  <2>9. QED BY <2>6, <2>7, <2>8 DEF PlanInv
<1>11. CASE Explain
  <2>1. /\ gate # NoGate
        /\ shown' = Payload(ExplainOf(PlanInput(gate.batch)), gate)
        /\ UNCHANGED <<past, moves, scan, replies, in, asked, gate>>
    BY <1>11 DEF Explain, disks, caches
  <2>2. gate.batch \in SUBSET Package /\ gate.dependents \subseteq Package
    BY <1>2, <2>1 DEF GateInv
  <2>3. PlanInput(gate.batch) \in Input /\ PlanInput(gate.batch).targets = gate.batch
    BY <1>2, <2>2, InputOfCaches
  <2>4. /\ shown'.batch = gate.batch
        /\ gate.dependents \ gate.batch \subseteq shown'.dependents
        /\ shown'.dependents \subseteq Package \ gate.batch
        /\ DOMAIN shown'.kept \subseteq Package \ gate.batch
    BY <2>1, <2>2, <2>3, PayloadLists
  <2>5. ShownInv'
    BY <2>1, <2>4 DEF ShownInv
  <2>6. CachesInv' /\ AskedInv' /\ GateInv'
    BY <1>2, <2>1 DEF CachesInv, AskedInv, GateInv
  <2>7. QED BY <2>5, <2>6 DEF PlanInv
<1>12. CASE UNCHANGED vars
  BY <1>2, <1>12 DEF vars, disks, caches, PlanInv, CachesInv, AskedInv, GateInv, ShownInv
<1>13. QED
  BY <1>1, <1>5, <1>6, <1>7, <1>8, <1>9, <1>10, <1>11, <1>12 DEF Next

\* What is asked, announced and shown is always as described.
THEOREM PlanInvariant == Spec => []PlanInv
  BY InitPlanInv, NextPlanInv, PTL DEF Spec

\* The plan of either pass names packages the caches know, whatever state they
\* are in, and nothing both goes and stays.
THEOREM TypeCorrect == Spec => []TypeOK
<1>1. PlanInv => TypeOK
  <2>1. SUFFICES ASSUME PlanInv
                 PROVE  TypeOK
    OBVIOUS
  <2>2. CachesInv /\ AskedInv /\ GateInv /\ ShownInv /\ in \in Input
    BY <2>1 DEF PlanInv, AskedInv
  <2>3. asked.batch \cup DOMAIN asked.kept \cup asked.dependents \subseteq in.installed
    <3>1. CASE asked = None
      BY <3>1 DEF None
    <3>2. CASE asked = ComposeFrom(in)
      <4>1. /\ asked.batch = Batch(in, TRUE)
            /\ DOMAIN asked.kept = Kept(in, TRUE)
            /\ asked.dependents = Dependents(in)
        BY <3>2 DEF ComposeFrom, Plan
      <4>2. QED BY <2>2, <4>1, ClosureOnDisk
    <3>3. QED BY <2>2, <3>1, <3>2 DEF AskedInv
  <2>4. /\ shown.batch \cup DOMAIN shown.kept \cup shown.dependents \subseteq Package
        /\ shown.batch \cap (DOMAIN shown.kept \cup shown.dependents) = {}
    <3>1. CASE shown = None
      BY <3>1 DEF None
    <3>2. CASE shown # None
      BY <2>2, <3>2 DEF ShownInv, GateInv
    <3>3. QED BY <3>1, <3>2
  <2>5. QED BY <2>2, <2>3, <2>4 DEF TypeOK, CachesInv
<1>2. QED BY <1>1, PlanInvariant, PTL

\* Whatever the dependency graph, confirming breaks only what the planner
\* lists, when the caches it read agreed with each other.
THEOREM NothingElseBreaks == Spec => []BreaksOnlyListed
<1>1. PlanInv => BreaksOnlyListed
  <2>1. SUFFICES ASSUME PlanInv, Coherent(in),
                        NEW p \in in.installed \ (asked.batch \cup asked.dependents
                                                   \cup in.embedded \cup in.protectedNames),
                        NEW d \in in.dependencies[p] \cap asked.batch
                 PROVE  p \in in.dependencies[d]
    BY DEF BreaksOnlyListed
  <2>2. asked = ComposeFrom(in) /\ SingleTarget(in)
    BY <2>1 DEF PlanInv, AskedInv, None
  <2>3. asked.batch = Batch(in, TRUE) /\ asked.dependents = Dependents(in)
    BY <2>2 DEF ComposeFrom, Plan
  <2>4. QED BY <2>1, <2>2, <2>3, ComposeBreaksOnlyListed
<1>2. QED BY <1>1, PlanInvariant, PTL

\* Compose leaves nothing behind without a reason.
THEOREM NothingStranded == Spec => []NothingUselessStays
<1>1. PlanInv => NothingUselessStays
  <2>1. SUFFICES ASSUME PlanInv, NEW c \in DOMAIN asked.kept
                 PROVE  asked.kept[c].reason # "unused"
    BY DEF NothingUselessStays
  <2>2. in \in Input
    BY <2>1 DEF PlanInv, AskedInv
  <2>3. asked = ComposeFrom(in)
    BY <2>1 DEF PlanInv, AskedInv, None
  <2>4. c \in Kept(in, TRUE) /\ asked.kept[c].reason = KeptReason(in, c)
    BY <2>1, <2>3 DEF ComposeFrom, Plan
  <2>5. QED BY <2>2, <2>4, ComposeKeepsForAReason
<1>2. QED BY <1>1, PlanInvariant, PTL

\* The dialog lists whatever breaks on disk, however stale the caches are
\* that composed the batch and that explain it.
THEOREM BreakageShown == Spec => []BreakageIsShown
<1>1. PlanInv => BreakageIsShown
  <2>1. SUFFICES ASSUME PlanInv, shown # None,
                        NEW q \in Broken(Disk, shown.batch) \ ChangedSince(gate.at)
                 PROVE  q \in shown.dependents
    BY DEF BreakageIsShown
  <2>2. /\ shown.batch = gate.batch
        /\ gate.dependents \ gate.batch \subseteq shown.dependents
        /\ Broken(past[gate.at], gate.batch) \subseteq gate.dependents
    BY <2>1 DEF PlanInv, ShownInv, GateInv
  <2>3. q \in Package \ gate.batch
    BY <2>1, <2>2, DiskIsLast, BrokenOnDisk DEF PlanInv
  <2>4. /\ q \in past[gate.at].installed
        /\ DependenciesOf(past[gate.at], q) = DependenciesOf(Disk, q)
    BY <2>1, <2>3 DEF ChangedSince
  <2>5. q \in Broken(past[gate.at], gate.batch)
    BY <2>1, <2>2, <2>3, <2>4 DEF Broken
  <2>6. QED BY <2>2, <2>3, <2>5
<1>2. QED BY <1>1, PlanInvariant, PTL
=============================================================================
