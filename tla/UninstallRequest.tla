-------------------------- MODULE UninstallRequest --------------------------
(***************************************************************************)
(* One request to uninstall, from the caches it is composed of to the      *)
(* dialog that explains it.  performUninstallApp composes a batch from the *)
(* coordinator's caches; package_manager takes the request, its own or     *)
(* somebody else's, and announces it with the dependents it finds on its   *)
(* disk; buildPlanPayload explains the batch to the user from that         *)
(* announcement and from the caches as they are by then.                   *)
(*                                                                         *)
(* The disk changes meanwhile, and the caches lag behind it: the scan that *)
(* fills the installed set and the dependency queries it sets off are      *)
(* answered at different moments, each package's query at its own.         *)
(*                                                                         *)
(* A package is known by its artifact's name here, as in the caches the    *)
(* planner reads; the name of a module that is called otherwise is found   *)
(* nowhere.  Abstracted: the acknowledgement and the slots (PackageGate);  *)
(* removal after the user's answer; which rows the user picked; calls that *)
(* time out, whose empty answers leave a package out of the caches.        *)
(***************************************************************************)
EXTENDS UninstallPlan, Naturals, Sequences

CONSTANTS
  MainUi,      \* the package Basecamp never removes
  Ui,          \* the UI plugins
  Releases,    \* what somebody else may install, each [package, needs]
  Selections,  \* batches that are picked elsewhere than on an app's icon
  MaxMoves     \* bound: installs, upgrades and removals on disk

ASSUME UninstallRequestAssumption ==
    /\ MainUi \in Package /\ Ui \subseteq Package /\ MaxMoves \in Nat
    /\ Releases \subseteq [package : Package, needs : SUBSET Package]
    /\ Selections \subseteq SUBSET Package

VARIABLES
  past,        \* the disks there have been, package_manager's is the last
  scan,        \* m_installTypeByModule: its names, and of which disk
  replies,     \* the dependency queries published last: of which scan, and
               \* package -> the disk each of its two was answered from
  in,          \* what the request was composed of
  asked,       \* the composed plan, None if there is none
  gate,        \* the announcement; an empty batch if there is none
  shown,       \* the dialog's payload, None before
  moves        \* changes of the disk; some may be used up at first
disks == <<past, moves>>
caches == <<scan, replies>>
vars == <<disks, caches, in, asked, gate, shown>>
-----------------------------------------------------------------------------
(* package_manager's disk, as the coordinator learns of it *)

\* needs is what the manifests of the installed packages name.
Graph == {g \in [installed : SUBSET Package, embedded : SUBSET Package,
                 needs : [Package -> SUBSET Package]] :
            /\ g.embedded \subseteq g.installed
            /\ \A p \in Package \ g.installed : g.needs[p] = {}}

Disk == past[Len(past)]

\* What p needs, directly or through what is installed.
Reach(g, p) ==
    {d \in Package : \A S \in SUBSET Package :
        g.needs[p] \subseteq S /\ (\A q \in S \cap g.installed : g.needs[q] \subseteq S)
          => d \in S}

\* resolveFlatDependencies, less what it says is not installed, and
\* resolveFlatDependents.
DependenciesOf(g, p) == Reach(g, p) \cap g.installed
DependentsOf(g, p) == {q \in g.installed : p \in Reach(g, q)}

\* What stays and loses something if the batch goes.
Broken(g, batch) == {q \in g.installed \ batch : DependenciesOf(g, q) \cap batch # {}}

Change(g) ==
    /\ moves < MaxMoves /\ moves' = moves + 1
    /\ g # Disk
    /\ past' = Append(past, g)
    /\ UNCHANGED <<caches, in, asked, gate, shown>>

\* An install or an upgrade, and a removal, that somebody else asked for.
Install(p, needs) ==
    /\ p \notin Disk.embedded
    /\ Change([Disk EXCEPT !.installed = @ \cup {p}, !.needs[p] = needs])
Remove(p) ==
    /\ p \in Disk.installed \ Disk.embedded
    /\ Change([Disk EXCEPT !.installed = @ \ {p}, !.needs[p] = {}])

-----------------------------------------------------------------------------
(* The caches: answers come in the order of the calls, each from the disk   *)
(* there was when it was made.                                              *)

\* The chain's first scan leaves only the UI plugins in the map, its second
\* all packages.
Scanned ==
    /\ \E i \in scan.at .. Len(past) :
       \E names \in {past[i].installed, past[i].installed \cap Ui} :
          scan' = [at |-> i, names |-> names]
    /\ scan' # scan
    /\ UNCHANGED <<disks, replies, in, asked, gate, shown>>

\* A batch of queries is published: for each package of a full scan one for
\* its dependencies and then one for its dependents, all answered after those
\* of the batch before.
Resolved ==
    /\ \E i \in replies.scan .. scan.at :
       \E forward, reverse \in [past[i].installed -> i .. Len(past)] :
          /\ \A p \in DOMAIN forward : forward[p] <= reverse[p]
          /\ \A p \in DOMAIN forward, q \in DOMAIN replies.reverse :
                replies.reverse[q] <= forward[p]
          /\ replies' = [scan |-> i, forward |-> forward, reverse |-> reverse]
    /\ replies' # replies
    /\ UNCHANGED <<disks, scan, in, asked, gate, shown>>

\* planInput.
PlanInput(targets) ==
    LET Cached(at, List(_, _)) ==
            [p \in Package |-> IF p \in DOMAIN at THEN List(past[at[p]], p) ELSE {}]
    IN [targets        |-> targets,
        installed      |-> scan.names,
        dependencies   |-> Cached(replies.forward, DependenciesOf),
        dependents     |-> Cached(replies.reverse, DependentsOf),
        embedded       |-> scan.names \cap past[scan.at].embedded,
        protectedNames |-> {MainUi}]

-----------------------------------------------------------------------------
(* The request *)

NoCaches == [targets |-> {}, installed |-> {}, dependencies |-> [p \in Package |-> {}],
             dependents |-> [p \in Package |-> {}], embedded |-> {}, protectedNames |-> {MainUi}]
None == [batch |-> {}, kept |-> <<>>, dependents |-> {}]
NoGate == [batch |-> {}, dependents |-> {}, at |-> 0]

\* performUninstallApp.  An empty batch is not requested: the app is not
\* installed.
Compose(name) ==
    /\ asked = None /\ gate = NoGate
    /\ name # MainUi
    /\ in' = PlanInput({name})
    /\ ComposeFrom(in').batch # {}
    /\ asked' = ComposeFrom(in')
    /\ UNCHANGED <<disks, caches, gate, shown>>

\* package_manager takes a request, for packages that are there and not
\* embedded, and announces it.  Its dependents may name members of the batch.
Request(batch) ==
    /\ gate = NoGate
    /\ batch # {} /\ batch \subseteq Disk.installed \ Disk.embedded
    /\ \E members \in {{}, batch} :
          gate' = [batch |-> batch, dependents |-> Broken(Disk, batch) \cup members,
                   at |-> Len(past)]
    /\ UNCHANGED <<disks, caches, in, asked, shown>>

\* Mutant: the dependents are always worked out from the caches.
Payload_FromCaches(plan, announced) ==
    [batch |-> announced.batch, kept |-> plan.kept,
     dependents |-> plan.dependents \ announced.batch]

\* The announced dependents count; the planner's only if there are none.
Payload(plan, announced) ==
    [batch |-> announced.batch, kept |-> plan.kept,
     dependents |-> (IF announced.dependents = {} THEN plan.dependents ELSE announced.dependents)
                       \ announced.batch]

\* buildPlanPayload.  The batch is already fixed, so it is the target list.
Explain ==
    /\ gate # NoGate /\ shown = None
    /\ shown' = Payload(ExplainOf(PlanInput(gate.batch)), gate)
    /\ UNCHANGED <<disks, caches, in, asked, gate>>

\* The app's own batch is requested, or one from package_manager_ui or the
\* settings.
Next ==
    \/ \E r \in Releases : Install(r.package, r.needs)
    \/ \E p \in Package : Remove(p)
    \/ Scanned \/ Resolved
    \/ \E name \in Package : Compose(name)
    \/ asked # None /\ Request(asked.batch)
    \/ asked = None /\ \E batch \in Selections : Request(batch)
    \/ Explain

\* A refresh has filled the caches: until then uninstallApp waits.
Init ==
    /\ \E g \in Graph : past = <<g>>
    /\ scan = [at |-> 1, names |-> Disk.installed]
    /\ LET first == [p \in Disk.installed |-> 1]
       IN replies = [scan |-> 1, forward |-> first, reverse |-> first]
    /\ in = NoCaches
    /\ asked = None /\ gate = NoGate /\ shown = None
    /\ moves \in 0..MaxMoves

Spec == Init /\ [][Next]_vars
-----------------------------------------------------------------------------
\* Shapes.  Whatever state the caches are in, the planner's answers name
\* packages of the input's installed set (UninstallPlan.cpp:40-46, 52, 122),
\* and the dialog's lists of what goes and what breaks have nothing in common.
TypeOK ==
    /\ past \in Seq(Graph) /\ past # <<>> /\ moves \in Nat
    /\ scan.at \in DOMAIN past /\ scan.names \subseteq Package
    /\ in \in Input
    /\ asked.batch \cup DOMAIN asked.kept \cup asked.dependents \subseteq in.installed
    /\ shown.batch \cup DOMAIN shown.kept \cup shown.dependents \subseteq Package
    /\ shown.batch \cap (DOMAIN shown.kept \cup shown.dependents) = {}

\* Removing the batch breaks nothing the planner does not list, if the caches
\* it read agreed with each other: an installed package that stays, is not
\* listed as a dependent, and is not kept as embedded or protected, keeps
\* every dependency it had -- except on a cycle, where what stays and what
\* goes need each other (survivorSet, UninstallPlan.cpp:60-80).
BreaksOnlyListed ==
    Coherent(in) =>
      \A p \in in.installed \ (asked.batch \cup asked.dependents
                                 \cup in.embedded \cup in.protectedNames) :
         \A d \in in.dependencies[p] \cap asked.batch : p \in in.dependencies[d]

\* The removal the App Manager composes strands nothing it could have swept:
\* a dependency left behind is pinned by a package outside the closure, by
\* being embedded or by being protected (KeptReason::Unused never comes out
\* of compose, UninstallPlan.cpp:103-104).
NothingUselessStays ==
    \A c \in DOMAIN asked.kept : asked.kept[c].reason # "unused"

\* Whose dependencies are not what they were when the request was taken, or
\* that were not there.
ChangedSince(at) ==
    {p \in Package : p \notin past[at].installed
                       \/ DependenciesOf(past[at], p) # DependenciesOf(Disk, p)}

\* However stale the caches were that composed the batch, and those that
\* explain it: whatever breaks on disk if the user confirms now is listed in
\* the dialog, but for packages installed or changed since package_manager
\* took the request.
BreakageIsShown ==
    shown # None => Broken(Disk, shown.batch) \ ChangedSince(gate.at) \subseteq shown.dependents

\* UninstallPlan.cpp:82-83: an orphan is "brought in by a target, wanted by
\* nobody else, and legal to remove". Nobody else: no installed package that
\* is neither removed nor listed as broken still wants it.
OrphanWantedByNobodyElse ==
    Coherent(in) =>
      \A o \in asked.batch \ in.targets :
        \A p \in in.installed \ (asked.batch \cup asked.dependents) :
           o \notin in.dependencies[p]
=============================================================================
