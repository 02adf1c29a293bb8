----------------------------- MODULE PackageGate -----------------------------
(***************************************************************************)
(* The ack-gated package actions of PackageCoordinator: uninstall,         *)
(* upgrade, install and batch uninstall.                                   *)
(*                                                                         *)
(* Three actors take part.                                                 *)
(*   - The coordinator runs on Basecamp's GUI thread: one slot             *)
(*     (m_pendingAction), the dialogs of OverlayDialogs.qml, and handlers  *)
(*     that each run to completion between two turns of the event loop.    *)
(*   - package_manager is a process of its own, modelled from the calls    *)
(*     and events of the coordinator: one slot, a 3 s ack timer, and the   *)
(*     destructive work.  It outlives a crash of Basecamp.                 *)
(*   - package_manager_ui is another client of that process.               *)
(* Calls and the answers and events going back are two FIFO channels.      *)
(*                                                                         *)
(* Abstracted: release tags and upgrade modes (carried, never tested),     *)
(* the plan's rows (module UninstallPlan), log lines, and the replies the  *)
(* coordinator only logs.                                                  *)
(***************************************************************************)
EXTENDS Naturals, Sequences, Functions

CONSTANTS
  Package,        \* package names
  CoreModule,     \* the packages that are processes; the others are widgets
  Dependents,     \* package -> installed packages that need it
  MaxRequests,    \* bound: gated requests made in a behaviour
  MaxCrashes,     \* bound: crashes of Basecamp
  MaxLaunches,    \* bound: launches from the sidebar
  PatientClients  \* TRUE: nobody asks about a package while an earlier request
                  \* about it is unsettled

ASSUME PackageGateAssumption ==
    /\ CoreModule \subseteq Package
    /\ Dependents \in [Package -> SUBSET Package]
    /\ MaxRequests \in Nat /\ MaxCrashes \in Nat /\ MaxLaunches \in Nat
    /\ PatientClients \in BOOLEAN

VARIABLES
  slot,           \* package_manager: the pending request, whether it is acked, and
                  \* (history) whether this coordinator made it
  installed,      \* package_manager: packages on disk
  approved,       \* package_manager_ui: packages it may now copy to disk
  toPm,           \* calls under way to package_manager
  toGui,          \* answers and events under way to the coordinator
  subscribed,     \* m_packageManagerSubscribed
  pending,        \* m_pendingAction
  posted,         \* confirmations queued on the event loop, cascade to run
  plan,           \* UninstallDialog: what it shows, if open
  upgrade,        \* upgradeCascadeDialog: its package, if open
  gate,           \* installGateDialog: its package, if open
  depsReady,      \* m_dependencyDataReady
  waiting,        \* m_pendingUninstallAppName
  lastTargets,    \* m_lastRequestedTargets
  loaded,         \* packages running: core processes and mounted widgets
  relaunched,     \* history: loaded again since a cascade unloaded them
  requests, crashes, launches   \* bounded counters

pmVars   == <<slot, installed, approved>>
dialogs  == <<plan, upgrade, gate>>
appVars  == <<depsReady, waiting, lastTargets>>
guiVars  == <<subscribed, pending, posted, dialogs, appVars>>
running  == <<loaded, relaunched, launches>>
counters == <<requests, crashes>>
vars     == <<pmVars, toPm, toGui, guiVars, running, counters>>

-----------------------------------------------------------------------------
Batches == (SUBSET Package) \ {{}}

\* A gated request: a batch for "multi", one package otherwise.
Request ==
    [op : {"multi"}, names : Batches]
      \cup [op : {"uninstall", "upgrade", "install"}, names : {{p} : p \in Package}]

None == [op |-> "none", names |-> {}]

\* What m_pendingAction can hold: an install gate has no slot of its own.
Pending == {r \in Request : r.op # "install"} \cup {None}

Slot == [req : Request \cup {None}, acked : BOOLEAN, own : BOOLEAN]
Free == [req |-> None, acked |-> FALSE, own |-> FALSE]

\* A call whose caller has died is still handled, but its answer is lost.
Call == [type : {"request", "ack", "confirm", "cancel"}, req : Request, live : BOOLEAN]
          \cup [type : {"reset"}, req : {None}, live : BOOLEAN]

CallTo(t, r) == [type |-> t, req |-> r, live |-> TRUE]

Msg == [type : {"before", "ackOk", "ackFail", "rejected", "cancelled"}, req : Request]

\* UninstallDialog: closed, the spinner, or a plan labelled by its initiator.
Closed == [mode |-> "closed", req |-> None, kind |-> "none"]
Spinner(p) == [mode |-> "loading", req |-> [op |-> "multi", names |-> {p}], kind |-> "app"]
ShowPlan(r, k) == [mode |-> "plan", req |-> r, kind |-> k]

Dialog == {Closed} \cup {Spinner(p) : p \in Package}
            \cup {ShowPlan(r, k) : r \in Pending \ {None}, k \in {"app", "packages"}}

AtMostOne == {{}} \cup {{p} : p \in Package}

\* OverlayDialogs.anyDialogOpen: a modal layer over the whole window.
ModalOpen == plan # Closed \/ upgrade # {} \/ gate # {}

-----------------------------------------------------------------------------
(* package_manager, as the coordinator uses it *)

Holds(r) == slot.req = r /\ slot.acked

Overlaps(r, names) == r.names \cap names # {}

\* A request about names is still being decided somewhere.
Unsettled(names) ==
    \/ Overlaps(slot.req, names)
    \/ \E m \in Range(toPm) \cup Range(toGui) : Overlaps(m.req, names)

MayAsk(names) == PatientClients => ~Unsettled(names)

\* The module takes a request into its free slot, starts the ack timer and
\* announces it to whoever listens; a taken slot or an unknown package is an
\* immediate rejection.
Accepts(r) ==
    /\ slot = Free
    /\ r.op = "install" \/ r.names \subseteq installed

Take(r, own) == slot' = [req |-> r, acked |-> FALSE, own |-> own]

Announced(r) ==
    IF subscribed THEN Append(toGui, [type |-> "before", req |-> r]) ELSE toGui

\* package_manager_ui asks: catalog or trash-icon clicks, bulk selections.
PmuRequests(r) ==
    /\ requests < MaxRequests
    /\ MayAsk(r.names)
    /\ Accepts(r)
    /\ Take(r, FALSE)
    /\ toGui' = Announced(r)
    /\ requests' = requests + 1
    /\ UNCHANGED <<installed, approved, toPm, guiVars, running, crashes>>

PmTakesCall(type) ==
    /\ toPm # <<>>
    /\ Head(toPm).type = type
    /\ toPm' = Tail(toPm)

Answer(type) ==
    IF Head(toPm).live THEN Append(toGui, [type |-> type, req |-> Head(toPm).req]) ELSE toGui

PmHandlesRequest ==
    /\ PmTakesCall("request")
    /\ LET r == Head(toPm).req IN
         \/ /\ Accepts(r)
            /\ Take(r, Head(toPm).live)
            /\ toGui' = Announced(r)
         \/ /\ ~Accepts(r)
            /\ toGui' = Answer("rejected")
            /\ UNCHANGED slot
    /\ UNCHANGED <<installed, approved, guiVars, running, counters>>

\* An ack carries one package name and nothing else.  It stops the timer of
\* the request in the slot if that one is unacked and holds the name.
PmHandlesAck ==
    /\ PmTakesCall("ack")
    /\ LET r == Head(toPm).req IN
       \E name \in r.names :
         \/ /\ ~slot.acked
            /\ name \in slot.req.names
            /\ slot' = [slot EXCEPT !.acked = TRUE]
            /\ toGui' = Answer("ackOk")
         \/ /\ slot.acked \/ name \notin slot.req.names
            /\ toGui' = Answer("ackFail")
            /\ UNCHANGED slot
    /\ UNCHANGED <<installed, approved, guiVars, running, counters>>

\* Only a batch's cancellation is subscribed to.
Cancelled(r) ==
    IF subscribed /\ r.op = "multi"
      THEN Append(toGui, [type |-> "cancelled", req |-> r]) ELSE toGui

AckTimeout ==
    /\ slot # Free
    /\ ~slot.acked
    /\ slot' = Free
    /\ toGui' = Cancelled(slot.req)
    /\ UNCHANGED <<installed, approved, toPm, guiVars, running, counters>>

\* A confirmation that matches the acked slot frees it and does the work: a
\* removal deletes, an upgrade deletes and lets package_manager_ui copy the
\* new version, an install lets it copy.
PmHandlesConfirm ==
    /\ PmTakesCall("confirm")
    /\ LET r == Head(toPm).req IN
         \/ /\ Holds(r)
            /\ slot' = Free
            /\ installed' = IF r.op = "install" THEN installed ELSE installed \ r.names
            /\ approved' = IF r.op \in {"install", "upgrade"} THEN approved \cup r.names
                                                             ELSE approved
         \/ /\ ~Holds(r)
            /\ UNCHANGED pmVars
    /\ UNCHANGED <<toGui, guiVars, running, counters>>

PmHandlesCancel ==
    /\ PmTakesCall("cancel")
    /\ LET r == Head(toPm).req IN
         \/ /\ Holds(r)
            /\ slot' = Free
            /\ toGui' = Cancelled(r)
         \/ /\ ~Holds(r)
            /\ UNCHANGED <<slot, toGui>>
    /\ UNCHANGED <<installed, approved, guiVars, running, counters>>

PmHandlesReset ==
    /\ PmTakesCall("reset")
    /\ slot' = Free
    /\ UNCHANGED <<installed, approved, toGui, guiVars, running, counters>>

PmuCopies(p) ==
    /\ p \in approved
    /\ approved' = approved \ {p}
    /\ installed' = installed \cup {p}
    /\ UNCHANGED <<slot, toPm, toGui, guiVars, running, counters>>

-----------------------------------------------------------------------------
(* The coordinator's event loop.  A definition A_X is A with the plausible   *)
(* bug X; it is used only to show that the properties would notice.         *)

\* Teardown ahead of destructive work.  The dependents come from a cache that
\* the first scan of the packages fills.  The core cascade takes the package
\* and every core dependent with it, or leaves some behind when it fails, and
\* the flow goes on; the widgets go for certain.
Known(n) == IF depsReady THEN Dependents[n] ELSE {}

HasCoreWork(n) == n \in CoreModule \cap loaded \/ Known(n) \cap loaded # {}

CoreHit(names) ==
    UNION {({n} \cup Dependents[n]) \cap CoreModule : n \in {m \in names : HasCoreWork(m)}}

WidgetHit(names) == (names \cup UNION {Known(n) : n \in names}) \ CoreModule

Cascade(names) ==
    \E stopped \in SUBSET CoreHit(names) :
       /\ loaded' = loaded \ (stopped \cup WidgetHit(names))
       /\ relaunched' = relaunched \ (stopped \cup WidgetHit(names))

Subscribe_NoReset ==
    /\ ~subscribed
    /\ subscribed' = TRUE
    /\ UNCHANGED <<pmVars, toPm, toGui, pending, posted, dialogs, appVars, running, counters>>

\* The last lines of subscribeToPackageManagerEvents: a slot left over from
\* a crashed session is dropped before the gate events can arrive.
Subscribe ==
    /\ ~subscribed
    /\ subscribed' = TRUE
    /\ toPm' = Append(toPm, CallTo("reset", None))
    /\ UNCHANGED <<pmVars, toGui, pending, posted, dialogs, appVars, running, counters>>

GuiTakes(type) ==
    /\ toGui # <<>>
    /\ Head(toGui).type = type
    /\ toGui' = Tail(toGui)

\* onBeforeUninstall, onBeforeUpgrade, onBeforeInstall, onBeforeMultiUninstall:
\* ack at once; everything else waits for the answer.
HandleBefore ==
    /\ GuiTakes("before")
    /\ toPm' = Append(toPm, CallTo("ack", Head(toGui).req))
    /\ UNCHANGED <<pmVars, guiVars, running, counters>>

\* The batch is labelled as an app's only if the remembered target is in it.
KindOf(names) ==
    IF lastTargets # {} /\ lastTargets \subseteq names THEN "app" ELSE "packages"

AskUser_InstallClaims(r) ==
    /\ pending' = r
    /\ IF r.op = "install" THEN gate' = r.names /\ UNCHANGED <<plan, upgrade>>
       ELSE IF r.op = "upgrade" THEN upgrade' = r.names /\ UNCHANGED <<plan, gate>>
       ELSE plan' = ShowPlan(r, "packages") /\ UNCHANGED <<upgrade, gate>>
    /\ lastTargets' = {}

\* Claim the slot and open the dialog; an install gate claims nothing.
AskUser(r) ==
    \/ /\ r.op \in {"uninstall", "multi"}
       /\ pending' = r
       /\ plan' = ShowPlan(r, IF r.op = "multi" THEN KindOf(r.names) ELSE "packages")
       /\ lastTargets' = {}
       /\ UNCHANGED <<upgrade, gate>>
    \/ /\ r.op = "upgrade"
       /\ pending' = r
       /\ upgrade' = r.names
       /\ UNCHANGED <<plan, gate, lastTargets>>
    \/ /\ r.op = "install"
       /\ gate' = r.names
       /\ UNCHANGED <<pending, plan, upgrade, lastTargets>>

HandleAckOk_OrNot ==
    /\ GuiTakes("ackOk") \/ GuiTakes("ackFail")
    /\ AskUser(Head(toGui).req)
    /\ UNCHANGED <<pmVars, toPm, subscribed, posted, depsReady, waiting, running, counters>>

\* Only a successful ack puts the request to the user.
HandleAckOk ==
    /\ GuiTakes("ackOk")
    /\ AskUser(Head(toGui).req)
    /\ UNCHANGED <<pmVars, toPm, subscribed, posted, depsReady, waiting, running, counters>>

\* A refused ack shows nothing; a refused or cancelled batch also drops the
\* remembered target, so that it cannot mislabel the next one.
HandleRefusal ==
    /\ \E type \in {"ackFail", "rejected", "cancelled"} : GuiTakes(type)
    /\ lastTargets' = IF Head(toGui).req.op = "multi" THEN {} ELSE lastTargets
    /\ UNCHANGED <<pmVars, toPm, subscribed, pending, posted, dialogs, depsReady, waiting,
                   running, counters>>

\* performUninstallApp: compose a batch around the app and request it, or
\* give up because the app is not in the cache any more.
PerformUninstallApp(name) ==
    \/ /\ name \notin installed
       /\ UNCHANGED <<toPm, lastTargets>>
    \/ \E batch \in Batches :
          /\ name \in batch
          /\ MayAsk(batch)
          /\ lastTargets' = {name}
          /\ toPm' = Append(toPm, CallTo("request", [op |-> "multi", names |-> batch]))

UserCanClick == ~ModalOpen

\* uninstallApp: at once, or behind a spinner until the caches are filled.
UninstallApp(name) ==
    /\ UserCanClick
    /\ requests < MaxRequests
    /\ requests' = requests + 1
    /\ \/ /\ depsReady
          /\ PerformUninstallApp(name)
          /\ UNCHANGED <<waiting, plan>>
       \/ /\ ~depsReady
          /\ waiting' = {name}
          /\ plan' = Spinner(name)
          /\ UNCHANGED <<toPm, lastTargets>>
    /\ UNCHANGED <<pmVars, toGui, subscribed, pending, posted, upgrade, gate, depsReady,
                   running, crashes>>

\* The first refreshDependencyInfo completed; the parked app goes ahead.
DependencyDataReady ==
    /\ ~depsReady
    /\ depsReady' = TRUE
    /\ waiting' = {}
    /\ \/ \E name \in waiting : PerformUninstallApp(name)
       \/ waiting = {} /\ UNCHANGED <<toPm, lastTargets>>
    /\ UNCHANGED <<pmVars, toGui, subscribed, pending, posted, dialogs, running, counters>>

UninstallModule_Ungated(name) ==
    /\ UserCanClick
    /\ requests < MaxRequests
    /\ MayAsk({name})
    /\ requests' = requests + 1
    /\ toPm' = Append(toPm, CallTo("confirm", [op |-> "uninstall", names |-> {name}]))
    /\ UNCHANGED <<pmVars, toGui, guiVars, running, crashes>>

\* uninstallUiModule, uninstallCoreModule (Settings).
UninstallModule(name) ==
    /\ UserCanClick
    /\ requests < MaxRequests
    /\ MayAsk({name})
    /\ requests' = requests + 1
    /\ toPm' = Append(toPm, CallTo("request", [op |-> "uninstall", names |-> {name}]))
    /\ UNCHANGED <<pmVars, toGui, guiVars, running, crashes>>

ConfirmUninstallCascade_KeepsSlot(names) ==
    /\ pending.names = names
    /\ posted' = Append(posted, pending)
    /\ UNCHANGED pending

\* confirmUninstallCascade: clear the slot, run the cascade off the click.
\* A name that is not the pending one is ignored.
ConfirmUninstallCascade(names) ==
    \/ /\ pending.op \in {"uninstall", "upgrade"}
       /\ pending.names = names
       /\ pending' = None
       /\ posted' = Append(posted, pending)
    \/ /\ ~(pending.op \in {"uninstall", "upgrade"} /\ pending.names = names)
       /\ UNCHANGED <<pending, posted>>

CancelPendingAction_Silent(names) ==
    /\ pending' = IF pending.op # "multi" /\ pending.names = names THEN None ELSE pending
    /\ UNCHANGED toPm

CancelPendingAction_KeepsSlot(names) ==
    /\ UNCHANGED pending
    /\ toPm' = Append(toPm, CallTo("cancel", pending))

\* cancelPendingAction: clear the slot and free the module's.
CancelPendingAction(names) ==
    \/ /\ pending # None
       /\ pending.op # "multi"
       /\ pending.names = names
       /\ pending' = None
       /\ toPm' = Append(toPm, CallTo("cancel", pending))
    \/ /\ pending = None \/ pending.op = "multi" \/ pending.names # names
       /\ UNCHANGED <<pending, toPm>>

ConfirmPlan ==
    /\ plan.mode = "plan"
    /\ plan' = Closed
    /\ \/ /\ plan.req.op = "multi"              \* confirmUninstallMultiCascade
          /\ pending = plan.req
          /\ pending' = None
          /\ Cascade(plan.req.names)
          /\ toPm' = Append(toPm, CallTo("confirm", plan.req))
          /\ UNCHANGED posted
       \/ /\ plan.req.op = "multi"
          /\ pending # plan.req
          /\ UNCHANGED <<pending, posted, toPm, loaded, relaunched>>
       \/ /\ plan.req.op # "multi"
          /\ ConfirmUninstallCascade(plan.req.names)
          /\ UNCHANGED <<toPm, loaded, relaunched>>
    /\ UNCHANGED <<pmVars, toGui, subscribed, upgrade, gate, appVars, launches, counters>>

CancelPlan ==
    /\ plan.mode = "plan"
    /\ plan' = Closed
    /\ \/ /\ plan.req.op = "multi"              \* cancelMultiUninstall
          /\ pending = plan.req
          /\ pending' = None
          /\ toPm' = Append(toPm, CallTo("cancel", plan.req))
       \/ /\ plan.req.op = "multi"
          /\ pending # plan.req
          /\ UNCHANGED <<pending, toPm>>
       \/ /\ plan.req.op # "multi"
          /\ CancelPendingAction(plan.req.names)
    /\ UNCHANGED <<pmVars, toGui, subscribed, posted, upgrade, gate, appVars, running, counters>>

\* cancelPendingUninstallApp
CancelSpinner ==
    /\ plan.mode = "loading"
    /\ plan' = Closed
    /\ waiting' = waiting \ plan.req.names
    /\ UNCHANGED <<pmVars, toPm, toGui, subscribed, pending, posted, upgrade, gate, depsReady,
                   lastTargets, running, counters>>

AnswerUpgrade ==
    /\ upgrade # {}
    /\ upgrade' = {}
    /\ \/ ConfirmUninstallCascade(upgrade) /\ UNCHANGED toPm
       \/ CancelPendingAction(upgrade) /\ UNCHANGED posted
    /\ UNCHANGED <<pmVars, toGui, subscribed, plan, gate, appVars, running, counters>>

\* confirmInstallGate, cancelInstallGate: straight to the module.
AnswerInstallGate ==
    /\ gate # {}
    /\ gate' = {}
    /\ \E type \in {"confirm", "cancel"} :
          toPm' = Append(toPm, CallTo(type, [op |-> "install", names |-> gate]))
    /\ UNCHANGED <<pmVars, toGui, subscribed, pending, posted, plan, upgrade, appVars,
                   running, counters>>

RunPosted_NoTeardown ==
    /\ posted # <<>>
    /\ posted' = Tail(posted)
    /\ toPm' = Append(toPm, CallTo("confirm", Head(posted)))
    /\ UNCHANGED <<pmVars, toGui, subscribed, pending, dialogs, appVars, running, counters>>

\* The queued half of confirmUninstallCascade.
RunPosted ==
    /\ posted # <<>>
    /\ posted' = Tail(posted)
    /\ Cascade(Head(posted).names)
    /\ toPm' = Append(toPm, CallTo("confirm", Head(posted)))
    /\ UNCHANGED <<pmVars, toGui, subscribed, pending, dialogs, appVars, launches, counters>>

\* A click in the sidebar loads a package again (module PluginLifecycle).
Launch(p) ==
    /\ UserCanClick
    /\ launches < MaxLaunches
    /\ p \in installed \ loaded
    /\ launches' = launches + 1
    /\ loaded' = loaded \cup {p}
    /\ relaunched' = relaunched \cup {p}
    /\ UNCHANGED <<pmVars, toPm, toGui, guiVars, counters>>

\* Basecamp dies with its dialogs, its event loop and package_manager_ui; it
\* starts again with what is on disk.  package_manager keeps its slot and
\* still receives the calls that had left Basecamp.
GuiCrash ==
    /\ crashes < MaxCrashes
    /\ crashes' = crashes + 1
    /\ \E left \in 0..Len(toPm) :
          toPm' = [i \in 1..left |-> [toPm[i] EXCEPT !.live = FALSE]]
    /\ toGui' = <<>>
    /\ subscribed' = FALSE
    /\ pending' = None /\ posted' = <<>>
    /\ plan' = Closed /\ upgrade' = {} /\ gate' = {}
    /\ depsReady' = FALSE /\ waiting' = {} /\ lastTargets' = {}
    /\ loaded' = {} /\ relaunched' = {}
    /\ approved' = {}
    /\ UNCHANGED <<slot, installed, requests, launches>>

-----------------------------------------------------------------------------
Init ==
    /\ installed \in SUBSET Package
    /\ loaded \in SUBSET installed
    /\ slot = Free /\ approved = {}
    /\ toPm = <<>> /\ toGui = <<>>
    /\ subscribed = FALSE
    /\ pending = None /\ posted = <<>>
    /\ plan = Closed /\ upgrade = {} /\ gate = {}
    /\ depsReady = FALSE /\ waiting = {} /\ lastTargets = {}
    /\ relaunched = {}
    /\ requests = 0 /\ crashes = 0 /\ launches = 0

PackageManager ==
    \/ PmHandlesRequest \/ PmHandlesAck \/ PmHandlesConfirm
    \/ PmHandlesCancel \/ PmHandlesReset \/ AckTimeout

PackageManagerUi ==
    \/ \E r \in Request : PmuRequests(r)
    \/ \E p \in Package : PmuCopies(p)

EventLoop ==
    \/ Subscribe \/ HandleBefore \/ HandleAckOk \/ HandleRefusal
    \/ RunPosted \/ DependencyDataReady

User ==
    \/ \E p \in Package : UninstallApp(p) \/ UninstallModule(p) \/ Launch(p)
    \/ ConfirmPlan \/ CancelPlan \/ CancelSpinner
    \/ AnswerUpgrade \/ AnswerInstallGate

Next == PackageManager \/ PackageManagerUi \/ EventLoop \/ User \/ GuiCrash

\* Both processes keep turning and the timer is one of theirs; the user, the
\* other client, the first scan of the packages and crashes owe nothing.
Fairness ==
    /\ WF_vars(PackageManager)
    /\ WF_vars(Subscribe \/ HandleBefore \/ HandleAckOk \/ HandleRefusal \/ RunPosted)

Spec == Init /\ [][Next]_vars /\ Fairness
-----------------------------------------------------------------------------
(* Properties *)

\* The dialogs, calls and answers have the shapes above.
TypeOK ==
    /\ slot \in Slot /\ (slot.req = None => slot = Free)
    /\ installed \in SUBSET Package /\ approved \in SUBSET Package
    /\ toPm \in Seq(Call) /\ toGui \in Seq(Msg)
    /\ subscribed \in BOOLEAN /\ depsReady \in BOOLEAN
    /\ pending \in Pending /\ posted \in Seq(Pending \ {None})
    /\ plan \in Dialog
    /\ upgrade \in AtMostOne /\ gate \in AtMostOne
    /\ waiting \in AtMostOne /\ lastTargets \in AtMostOne
    /\ loaded \in SUBSET Package /\ relaunched \in SUBSET Package
    /\ requests \in 0..MaxRequests /\ crashes \in 0..MaxCrashes
    /\ launches \in 0..MaxLaunches

\* The questions on screen, as requests.
AskedNow ==
    {r \in Request : \/ (plan.mode = "plan" /\ plan.req = r)
                    \/ (r.op = "upgrade" /\ r.names = upgrade)
                    \/ (r.op = "install" /\ r.names = gate)}

InPm(type, r)  == \E c \in Range(toPm)  : c.type = type /\ c.req = r
InGui(type, r) == \E m \in Range(toGui) : m.type = type /\ m.req = r

GrantedNow ==
    {r \in Request : r \in Range(posted) \/ InPm("confirm", r)}

\* Someone is going to free an acked slot: the answer to the ack, the
\* question, its answer, or the reset of a new session.
OnItsWay(r) ==
    \/ InGui("ackOk", r) \/ r \in AskedNow \/ r \in GrantedNow
    \/ InPm("cancel", r) \/ InPm("reset", None)

\* A slot the coordinator acked is never orphaned: without somebody to
\* confirm or cancel it, package_manager refuses every later request.
SlotHasAnOwner == subscribed /\ slot.acked => OnItsWay(slot.req)

\* A question on screen, and a confirmation on its way, is about the request
\* package_manager holds: "Continue" never lands in a dead request.
AskedIsLive == \A r \in AskedNow \cup GrantedNow : Holds(r)

\* m_pendingAction and the screen agree, so the user's answer is never
\* dropped by the guards of confirm and cancel.
PendingIsAnswerable ==
    {r \in AskedNow : r.op # "install"} = {pending} \ {None}

\* One confirmation is never replaced by another before it is answered.
PendingNotOverwritten == [][pending # None => pending' \in {pending, None}]_vars

\* When a package leaves the disk its widget is gone, unless the user opened
\* it again after the teardown.
RemovedWasTornDown ==
    [][(installed \ installed') \cap loaded \subseteq CoreModule \cup relaunched]_vars

\* A request that entered the slot is either put to the user or dropped.
RequestIsAnswered ==
    \A r \in Request : (slot.req = r) ~> (slot.req # r \/ r \in AskedNow)

Consent == INSTANCE PackageConsent WITH asked <- AskedNow, granted <- GrantedNow,
                                       session <- crashes

\* The protocol keeps the promise of PackageConsent: nothing leaves or enters
\* the disk unless the user was asked about exactly that request and granted it.
ImplementsConsent == Consent!Spec
=============================================================================
