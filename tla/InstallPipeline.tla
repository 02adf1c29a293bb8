--------------------------- MODULE InstallPipeline ---------------------------
(***************************************************************************)
(* The App Manager's own installs: confirmCatalogInstall, the row by row   *)
(* installation behind it, the InstallRegistry every tile and dialog reads,*)
(* and the two-step rescan that refills the installed-package caches after *)
(* each change on disk.                                                    *)
(*                                                                         *)
(* Sessions for different apps run side by side and may share a dependency.*)
(* package_manager works through its calls in order; an install can hold   *)
(* it for minutes, and the calls queued behind it then miss their 20 s     *)
(* deadline: the caller gets an empty answer and the work is still done.   *)
(*                                                                         *)
(* Abstracted: a root hash is one with its version; the catalog plan that  *)
(* precedes the download; the rows' effect on AppsModel; the teardown of   *)
(* running widgets before a removal (PackageGate, PluginLifecycle);        *)
(* main_ui, which is installed over like an embedded package whatever the  *)
(* caches say.                                                             *)
(***************************************************************************)
EXTENDS Naturals, Sequences, FiniteSets

CONSTANTS
  Package,       \* package names
  Ui,            \* the UI plugins among them
  Embedded,      \* shipped with Basecamp: installed over, never removed
  App,           \* packages the user installs from the catalog
  Rows,          \* app -> its closure, in the order it is installed
  Versions,      \* package -> versions its repository offers
  MaxSessions,   \* bound: confirmed installs
  MaxScans       \* bound: scans of the disk under way at once

ASSUME InstallPipelineAssumption ==
    /\ Ui \subseteq Package /\ Embedded \subseteq Package /\ App \subseteq Package
    /\ Rows \in [App -> Seq(Package)]
    /\ \A a \in App : \E i \in DOMAIN Rows[a] : Rows[a][i] = a
    /\ \A a \in App : \A i, j \in DOMAIN Rows[a] : Rows[a][i] = Rows[a][j] => i = j
    /\ Versions \in [Package -> SUBSET (Nat \ {0})]
    /\ MaxSessions \in Nat /\ MaxScans \in Nat

VARIABLES
  disk,       \* package_manager: package -> version on disk, 0 for none
  toPm,       \* calls under way to package_manager
  toGui,      \* its answers under way to the coordinator
  rescans,    \* 100 ms timers set by installed and uninstalled events
  typed,      \* m_installTypeByModule: the packages whose type is known
  names,      \* m_installedNameSet
  version,    \* m_installedVersionByName, 0 for none
  session,    \* the confirmed installs
  sessions,   \* how many there were
  registry    \* m_installRegistry: package -> stage and startedByTopLevel

caches == <<typed, names, version>>
vars   == <<disk, toPm, toGui, rescans, caches, session, sessions, registry>>
-----------------------------------------------------------------------------
Id == 1..MaxSessions
SomeVersion == {0} \cup UNION {Versions[p] : p \in Package}
Disk == [Package -> SomeVersion]
OnDisk == {p \in Package : disk[p] # 0}
Nothing == [p \in Package |-> 0]

InFlight == {"downloading", "queued", "installing"}
NoEntry == [stage |-> "none", owner |-> {}]
Entry == [stage : InFlight \cup {"installed", "failed"}, owner : {{a} : a \in App}]

\* alone is history: nothing else has been going on since the session began,
\* and it began with caches that claim nothing that is not on disk.
NoSession == [app |-> {}, stage |-> "none", want |-> Nothing, todo |-> <<>>,
              ok |-> FALSE, alone |-> FALSE]

Active(i) == session[i].stage \notin {"none", "over"}

\* A call for session 0 is a scan.  A call that is not live has blown its
\* deadline: it is carried out, its answer is dropped.
Call == [type : {"uiScan", "scan"}, who : {0}, row : {{}}, put : {0}, live : BOOLEAN]
          \cup [type : {"remove", "install"}, who : Id, row : {{p} : p \in Package},
                put : SomeVersion, live : BOOLEAN]

ScanCall(type) == [type |-> type, who |-> 0, row |-> {}, put |-> 0, live |-> TRUE]
RowCall(type, i, p, v) == [type |-> type, who |-> i, row |-> {p}, put |-> v, live |-> TRUE]

Answer == [type : {"uiScan", "scan"}, found : Disk]
            \cup [type : {"remove", "install"}, who : Id, ok : BOOLEAN]

-----------------------------------------------------------------------------
(* InstallRegistry *)

\* The first session to name a package owns its entry.
BeginOrTrack(reg, p, top) ==
    [reg EXCEPT ![p] = IF @ = NoEntry THEN [stage |-> "downloading", owner |-> {top}] ELSE @]

SetStage(reg, p, stage) ==
    [reg EXCEPT ![p].stage = IF reg[p] = NoEntry THEN @ ELSE stage]

ClearByTopLevel_ByName(top) ==
    [p \in Package |-> IF p = top THEN NoEntry ELSE registry[p]]

ClearByTopLevel(top) ==
    [p \in Package |-> IF registry[p].owner = {top} THEN NoEntry ELSE registry[p]]

-----------------------------------------------------------------------------
(* The coordinator: install sessions.  A definition A_X is A with the       *)
(* plausible bug X; it is used only to show that the properties notice.     *)

Quiet == /\ toPm = <<>> /\ toGui = <<>> /\ rescans = 0
         /\ \A i \in Id : session[i].stage \in {"none", "clearing", "over"}

Honest == \A p \in Package : version[p] \in {0, disk[p]}

ConfirmCatalogInstall_InFlightOnly(a) ==
    /\ sessions < MaxSessions
    /\ registry[a].stage \notin InFlight
    /\ sessions' = sessions + 1
    /\ session' = [i \in Id |->
                     IF i = sessions + 1
                       THEN [NoSession EXCEPT !.app = {a}, !.stage = "downloading",
                                              !.alone = Quiet /\ Honest]
                       ELSE [session[i] EXCEPT !.alone = FALSE]]
    /\ registry' = [registry EXCEPT ![a] = [stage |-> "downloading", owner |-> {a}]]
    /\ UNCHANGED <<disk, toPm, toGui, rescans, caches>>

\* Ignored while the app has an entry, its own or as somebody's dependency.
ConfirmCatalogInstall(a) ==
    /\ sessions < MaxSessions
    /\ registry[a] = NoEntry
    /\ sessions' = sessions + 1
    /\ session' = [i \in Id |->
                     IF i = sessions + 1
                       THEN [NoSession EXCEPT !.app = {a}, !.stage = "downloading",
                                              !.alone = Quiet /\ Honest]
                       ELSE [session[i] EXCEPT !.alone = FALSE]]
    /\ registry' = [registry EXCEPT ![a] = [stage |-> "downloading", owner |-> {a}]]
    /\ UNCHANGED <<disk, toPm, toGui, rescans, caches>>

Finish_KeepsRows(i, a, s, reg, ok) ==
    /\ session' = [session EXCEPT ![i] = [s EXCEPT !.stage = "clearing", !.ok = ok]]
    /\ registry' = SetStage(reg, a, IF ok THEN "installed" ELSE "failed")

\* setOpStage and the clear timer, 2.5 s after a failure, 1.5 s otherwise.
Finish(i, a, s, reg, ok) ==
    /\ session' = [session EXCEPT ![i] = [s EXCEPT !.stage = "clearing", !.todo = <<>>,
                                                   !.ok = ok]]
    /\ registry' = SetStage(reg, a, IF ok THEN "installed" ELSE "failed")

\* installResultsSequential and installOnePackage for the first row left.
\* What is on disk already is removed first, except for what the cached types
\* say is embedded.
StartRow(i, a, s, reg) ==
    LET p == Head(s.todo)
        shown == SetStage(BeginOrTrack(reg, p, a), p, "installing")
        Send(call) == /\ toPm' = Append(toPm, RowCall(call, i, p, s.want[p]))
                      /\ session' = [session EXCEPT ![i] = [s EXCEPT !.stage = call]]
                      /\ registry' = shown
    IN
    \/ p \in names \ (Embedded \cap typed) /\ Send("remove")
    \/ p \notin names \ (Embedded \cap typed) /\ Send("install")
    \/ /\ Finish(i, a, s, SetStage(shown, p, "failed"), FALSE)  \* no file was downloaded
       /\ UNCHANGED toPm

\* A row the caches show at the wanted version is skipped.
Stale(want) == {p \in Package : want[p] # 0 /\ version[p] # want[p]}

\* Every package of the closure gets an entry: installed if it is skipped,
\* queued otherwise.
Tracked(a, want) ==
    [p \in Package |->
        IF want[p] = 0 THEN registry[p]
        ELSE [BeginOrTrack(registry, p, a)[p] EXCEPT
                 !.stage = IF p \in Stale(want) THEN "queued" ELSE "installed"]]

Closure(a) == {Rows[a][k] : k \in DOMAIN Rows[a]}

\* A plan the resolver may return: one version for each package of the closure.
Resolved(a, want) ==
    \A p \in Package : want[p] \in IF p \in Closure(a) THEN Versions[p] ELSE {0}

\* The rows of a closure that are in some set of it, in their order.
RowsIn(rows, some) ==
    {todo \in UNION {[1..n -> some] : n \in 0..Len(rows)} :
       /\ some \subseteq {todo[i] : i \in DOMAIN todo}
       /\ \A i, j \in DOMAIN todo : i < j =>
             \E m, n \in DOMAIN rows : m < n /\ rows[m] = todo[i] /\ rows[n] = todo[j]}

\* The rows come with their files, or validateResolvedRows refuses them.
DownloadAnswered(i) ==
    /\ session[i].stage = "downloading"
    /\ \E a \in session[i].app :
         \/ Finish(i, a, session[i], registry, FALSE) /\ UNCHANGED toPm
         \/ \E want \in Disk : \E todo \in RowsIn(Rows[a], Stale(want)) :
              /\ Resolved(a, want)
              /\ LET s == [session[i] EXCEPT !.want = want, !.todo = todo] IN
                 \/ /\ s.todo = <<>>
                    /\ Finish(i, a, s, Tracked(a, want), TRUE)
                    /\ UNCHANGED toPm
                 \/ /\ s.todo # <<>>
                    /\ StartRow(i, a, s, SetStage(Tracked(a, want), a, "installing"))
    /\ UNCHANGED <<disk, toGui, rescans, caches, sessions>>

FailRow(i) ==
    \E a \in session[i].app :
       Finish(i, a, session[i], SetStage(registry, Head(session[i].todo), "failed"), FALSE)

\* The callback of installOnePackage.  The first failure ends the session.
RowDone(i, ok) ==
    /\ \/ ~ok /\ FailRow(i) /\ UNCHANGED <<toPm, version>>
       \/ /\ ok
          /\ \E a \in session[i].app :
               LET s == [session[i] EXCEPT !.todo = Tail(@)]
                   p == Head(session[i].todo)
                   reg == SetStage(registry, p, "installed") IN
               /\ version' = [version EXCEPT ![p] = s.want[p]]
               /\ \/ s.todo = <<>> /\ Finish(i, a, s, reg, TRUE) /\ UNCHANGED toPm
                  \/ s.todo # <<>> /\ StartRow(i, a, s, reg)
    /\ UNCHANGED <<typed, names>>

\* The removal's answer: go on to installDownloadedFile, or give up.
Removed(i, ok) ==
    \/ /\ ok
       /\ LET p == Head(session[i].todo) IN
            toPm' = Append(toPm, RowCall("install", i, p, session[i].want[p]))
       /\ session' = [session EXCEPT ![i].stage = "install"]
       /\ UNCHANGED <<caches, registry>>
    \/ ~ok /\ RowDone(i, FALSE)

ClearTimer(i) ==
    /\ session[i].stage = "clearing"
    /\ \E a \in session[i].app : registry' = ClearByTopLevel(a)
    /\ session' = [session EXCEPT ![i] = [NoSession EXCEPT !.stage = "over"]]
    /\ UNCHANGED <<disk, toPm, toGui, rescans, caches, sessions>>

-----------------------------------------------------------------------------
(* The coordinator: rescans and answers *)

Scans == Cardinality({k \in DOMAIN toPm : toPm[k].who = 0})
           + Cardinality({k \in DOMAIN toGui : toGui[k].type \in {"uiScan", "scan"}})

\* The 100 ms timer of an event: fetchUiPluginMetadata.
Rescan ==
    /\ rescans > 0 /\ rescans' = rescans - 1
    /\ Scans < MaxScans
    /\ toPm' = Append(toPm, ScanCall("uiScan"))
    /\ UNCHANGED <<disk, toGui, caches, session, sessions, registry>>

\* getInstalledUiPlugins answers: the type map starts again from the UI
\* plugins, then refreshDependencyInfo asks for everything.
UiScanned(found) ==
    /\ typed' = {p \in Ui : found[p] # 0}
    /\ toPm' = Append(toPm, ScanCall("scan"))
    /\ UNCHANGED <<names, version, session, registry>>

Scanned_MergesNames(found) ==
    /\ typed' = {p \in Package : found[p] # 0}
    /\ names' = names \cup typed'
    /\ version' = found
    /\ UNCHANGED <<session, registry>>

\* getInstalledPackages answers.
Scanned(found) ==
    /\ typed' = {p \in Package : found[p] # 0}
    /\ names' = typed'
    /\ version' = found
    /\ UNCHANGED <<session, registry>>

GuiTakes ==
    /\ toGui # <<>>
    /\ toGui' = Tail(toGui)
    /\ LET m == Head(toGui) IN
         \/ m.type = "uiScan" /\ UiScanned(m.found)
         \/ m.type = "scan" /\ Scanned(m.found) /\ UNCHANGED toPm
         \/ m.type = "remove" /\ Removed(m.who, m.ok)
         \/ m.type = "install" /\ RowDone(m.who, m.ok)
    /\ UNCHANGED <<disk, rescans, sessions>>

Late(k) == [toPm EXCEPT ![k].live = FALSE]

AfterInstall(k) == \E j \in 1..(k - 1) : toPm[j].type = "install"

Deadline_AsSuccess(k) ==
    /\ toPm[k].live
    /\ toPm[k].type = "install"
    /\ toPm' = Late(k)
    /\ \E a \in session[toPm[k].who].app :
          Finish(toPm[k].who, a, session[toPm[k].who], registry, TRUE)
    /\ UNCHANGED <<disk, toGui, rescans, caches, sessions>>

\* The k-th call blows its deadline: the callback of a row gets a failure,
\* that of a scan an empty list.  Only an install makes a scan wait that long.
Deadline(k) ==
    /\ toPm[k].live
    /\ \/ /\ toPm[k].type \in {"remove", "install"}
          /\ FailRow(toPm[k].who)
          /\ toPm' = Late(k)
          /\ UNCHANGED caches
       \/ /\ toPm[k].type = "uiScan" /\ AfterInstall(k)
          /\ typed' = {}
          /\ toPm' = Append(Late(k), ScanCall("scan"))
          /\ UNCHANGED <<names, version, session, registry>>
       \/ /\ toPm[k].type = "scan" /\ AfterInstall(k)
          /\ Scanned(Nothing)
          /\ toPm' = Late(k)
    /\ UNCHANGED <<disk, toGui, rescans, sessions>>

-----------------------------------------------------------------------------
(* package_manager, as the coordinator uses it *)

Reply(answer) == toGui' = IF Head(toPm).live THEN Append(toGui, answer) ELSE toGui

PmScans ==
    /\ toPm # <<>> /\ toPm' = Tail(toPm)
    /\ Head(toPm).type \in {"uiScan", "scan"}
    /\ Reply([type |-> Head(toPm).type, found |-> disk])
    /\ UNCHANGED <<disk, rescans, caches, session, sessions, registry>>

\* Either step that changes the disk is announced by an event.
PmRemoves ==
    /\ toPm # <<>> /\ toPm' = Tail(toPm)
    /\ Head(toPm).type = "remove"
    /\ \E p \in Head(toPm).row, ok \in BOOLEAN :
         /\ ok => disk[p] # 0 /\ p \notin Embedded
         /\ disk' = IF ok THEN [disk EXCEPT ![p] = 0] ELSE disk
         /\ rescans' = IF ok THEN rescans + 1 ELSE rescans
         /\ Reply([type |-> "remove", who |-> Head(toPm).who, ok |-> ok])
    /\ UNCHANGED <<caches, session, sessions, registry>>

\* The file carries the version its download resolved to.
PmInstalls ==
    /\ toPm # <<>> /\ toPm' = Tail(toPm)
    /\ Head(toPm).type = "install"
    /\ \E p \in Head(toPm).row, ok \in BOOLEAN :
         /\ disk' = IF ok THEN [disk EXCEPT ![p] = Head(toPm).put] ELSE disk
         /\ rescans' = IF ok THEN rescans + 1 ELSE rescans
         /\ Reply([type |-> "install", who |-> Head(toPm).who, ok |-> ok])
    /\ UNCHANGED <<caches, session, sessions, registry>>

-----------------------------------------------------------------------------
Init ==
    /\ disk \in {d \in Disk : \A p \in Package : d[p] \in Versions[p] \cup {0}}
    /\ toPm = <<>> /\ toGui = <<>> /\ rescans = 0
    /\ typed = OnDisk /\ names = OnDisk /\ version = disk
    /\ session = [i \in Id |-> NoSession] /\ sessions = 0
    /\ registry = [p \in Package |-> NoEntry]

Pm == PmScans \/ PmRemoves \/ PmInstalls

Next ==
    \/ \E a \in App : ConfirmCatalogInstall(a)
    \/ \E i \in Id : DownloadAnswered(i) \/ ClearTimer(i)
    \/ \E k \in DOMAIN toPm : Deadline(k)
    \/ Rescan \/ GuiTakes \/ Pm

\* Both processes keep turning, timers fire, and a download answers or blows
\* its five minutes.  A deadline need not be blown.
Fairness ==
    /\ WF_vars(Pm) /\ WF_vars(GuiTakes) /\ WF_vars(Rescan)
    /\ \A i \in Id : WF_vars(DownloadAnswered(i)) /\ WF_vars(ClearTimer(i))

Spec == Init /\ [][Next]_vars /\ Fairness

-----------------------------------------------------------------------------
(* Properties *)

\* Shapes, and a session that waits for package_manager has a row to wait for.
TypeOK ==
    /\ disk \in Disk /\ rescans \in Nat
    /\ toPm \in Seq(Call) /\ toGui \in Seq(Answer)
    /\ typed \in SUBSET Package /\ names \in SUBSET Package /\ version \in Disk
    /\ \A i \in Id :
         /\ session[i].app \in {{}} \cup {{a} : a \in App}
         /\ session[i].stage \in
              {"none", "downloading", "remove", "install", "clearing", "over"}
         /\ session[i].want \in Disk /\ session[i].todo \in Seq(Package)
         /\ session[i].todo # <<>> <=> session[i].stage \in {"remove", "install"}
    /\ sessions \in 0..MaxSessions
    /\ registry \in [Package -> Entry \cup {NoEntry}]

\* Until its clear timer has fired a session owns the entry of its app, so
\* the app is never installed twice at once and no timer of one session wipes
\* the entries of another one for the same app.
SessionsAreRegistered ==
    \A i \in Id : Active(i) =>
       /\ registry[CHOOSE a \in App : a \in session[i].app].owner = session[i].app
       /\ \A j \in Id \ {i} : session[j].app # session[i].app

\* Every entry goes in the end: no tile shows an install for ever.
EntriesDrain == \A p \in Package : (registry[p] # NoEntry) ~> (registry[p] = NoEntry)

\* A session that reports success and that nothing interfered with has put
\* the whole closure on disk, at the versions that were resolved.
ReportedIsOnDisk ==
    [][\A i \in Id :
          session'[i].stage = "clearing" /\ session'[i].ok /\ session[i].alone
             => \A p \in Package : session'[i].want[p] \in {0, disk[p]}]_vars

ScanAbandoned == \E k \in DOMAIN toPm : toPm[k].who = 0 /\ ~toPm[k].live

CachesAgree == typed = OnDisk /\ names = OnDisk /\ version = disk

\* Once the installs are over the caches agree with the disk for good,
\* if no scan blew its deadline on the way.
CachesConverge == <>ScanAbandoned \/ <>[]CachesAgree
=============================================================================
