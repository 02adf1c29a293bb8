--------------------------- MODULE AddApplication ---------------------------
(***************************************************************************)
(* The Add Application dialog: opening an app's tile, resolving what it    *)
(* needs from the tile's repository, picking other versions, installing,   *)
(* and what the dialog shows while answers come in late, time out, or      *)
(* belong to a dialog that is gone.                                        *)
(*                                                                         *)
(* The dialog is modal: tiles are clicked while it is closed.  Its rows    *)
(* are AppsModel's, with an overlay of what the install would do, filtered *)
(* to the required packages.  package_downloader takes its calls in order; *)
(* an overdue call is answered with an empty list.                         *)
(*                                                                         *)
(* Abstracted: the rows of an install one by one (InstallPipeline; here    *)
(* they land together); the scans that follow it (PackageRefresh; here a   *)
(* local row is there as soon as its package is); what a tile's status     *)
(* says of dependencies; names, icons and descriptions.                    *)
(***************************************************************************)
EXTENDS CatalogPlan

CONSTANTS
  App,         \* the packages with tiles
  Catalogs,    \* the catalogs the downloader may serve
  MaxClicks,   \* bound: clicks on tiles, versions and Install
  MaxRefreshes \* bound: changes of the catalog

ASSUME AddApplicationAssumption ==
    /\ App \subseteq Package /\ "none" \notin Package \cup Repo /\ Local \notin Repo
    /\ \A c \in Catalogs :
          /\ DOMAIN c \subseteq Repo \X Package
          /\ \A k \in DOMAIN c :
                c[k] \in Seq([version : Nat \ {Any}, needs : SUBSET Package]) \ {<<>>}
    /\ MaxClicks \in Nat /\ MaxRefreshes \in Nat

VARIABLES
  catalog,     \* m_catalogRows and the catalog's rows of m_appsModel
  installed,   \* m_installedVersionByName
  active,      \* m_activeAddDialogName
  epochs,      \* m_dialogResolveEpoch
  selected,    \* m_selectedRepositoryByTopLevel
  required,    \* m_requiredPackagesByTopLevel
  raw, changes,     \* m_lastResolvedRawByName, m_lastResolvedChangesByName
  overlay,     \* the action and version of m_appsModel's rows that have one
  listed,      \* m_requiredPackagesModel's entries
  ops,         \* m_installRegistry: name -> stage and startedByTopLevel
  sessions,    \* installs under way: the closures of confirmCatalogInstall
  clearing,    \* names with a clearByTopLevel timer
  dialog,      \* OverlayDialogs' addApplicationDialog
  toDl,        \* calls package_downloader has not answered
  clicks, refreshes,
  asked,       \* history: the last request the user made of the dialog
  crossed,     \* history: an install of the app was under way at that moment
               \* that began otherwise, or whose last changes are from elsewhere
  replaced     \* history: the catalog has brought the app another row since

resolving == <<active, epochs>>
resolved  == <<selected, required, raw, changes>>
shown     == <<overlay, listed, dialog>>
installs  == <<ops, sessions, clearing>>
history   == <<asked, crossed, replaced>>
bounds    == <<clicks, refreshes>>
vars == <<catalog, installed, resolving, resolved, shown, installs, toDl, bounds, history>>
-----------------------------------------------------------------------------
None == "none"
NoOp == [stage |-> None, owner |-> None]
NoSession == [repo |-> None, pins |-> NoPins, needs |-> {}, rows |-> <<>>]
Closed == [visible |-> FALSE, name |-> None, repo |-> None, version |-> Any,
           picks |-> NoPins, launch |-> FALSE, stage |-> None]

InFlight(p) == ops[p].stage = "busy"   \* Downloading, Queued or Installing

NamesOf(keys) == {k[2] : k \in keys}

RowsOf(c, known) ==
    DOMAIN c \cup {<<Local, p>> : p \in {p \in Package : known[p] # Any} \ NamesOf(DOMAIN c)}
Rows == RowsOf(catalog, installed)

\* rowOf, as a set.  Without a repository the first row of the name counts.
RowOf(rows, name, repo) ==
    LET named == {k \in rows : k[2] = name}
    IN IF repo # Local THEN named \cap {<<repo, name>>}
       ELSE IF named = {} THEN {} ELSE {CHOOSE k \in named : TRUE}

\* A row with the tile status Installed.
TileInstalled(c, known, name, repo) ==
    \E k \in RowOf(RowsOf(c, known), name, repo) :
       /\ known[name] # Any
       /\ k \in DOMAIN c => known[name] = c[k][1].version

-----------------------------------------------------------------------------
(* What the dialog is told *)

\* setResolverOverlay: the rows that have a change.
OverlayOf(rows, ch) ==
    LET Hit(k) == {x \in DOMAIN ch : k \in RowOf(rows, x[2], x[1])}
    IN [k \in {k \in rows : Hit(k) # {}} |-> ch[CHOOSE x \in Hit(k) : TRUE]]

\* emitDialogMetadata's required packages: the app, then the changes, then the
\* plan; the first entry of a name counts.
RequiredEntries(name, repo, ch, plan) ==
    LET first == {<<repo, name>>} \cup {x \in DOMAIN ch : x[2] # name}
    IN first \cup {x \in plan : x[2] \notin NamesOf(first)}

\* requestOpenAddApplicationDialog (how is "open") and addApplicationDataUpdated
\* (how is "update") at the dialog d.
WithMetadata(d, name, repo, version, how) ==
    LET told == [visible |-> TRUE, name |-> name, repo |-> repo, version |-> version,
                 picks |-> d.picks, launch |-> TileInstalled(catalog, installed', name, repo),
                 stage |-> ops'[name].stage]
    IN IF ~d.visible THEN IF how = "open" THEN [told EXCEPT !.picks = NoPins] ELSE d
       ELSE IF d.name = name THEN told ELSE d

\* catalogInstallStageChanged, and catalogInstallFailed with stage "failed".
WithStage(d, name, stage) ==
    IF d.visible /\ d.name = name THEN [d EXCEPT !.stage = stage] ELSE d

\* catalogInstallFinished.
Completed(d, name) ==
    IF d.visible /\ d.name = name THEN [d EXCEPT !.launch = TRUE] ELSE d

\* presentCatalogResolutionError's callers may go on with catalogInstallFailed:
\* how is "failed" then, and an update otherwise.
AndThen(how, d, name) == IF how = "failed" THEN WithStage(d, name, "failed") ELSE d

\* emitDialogMetadata, after the rest of its caller; d is the dialog by then.
EmitDialogMetadata(name, repo, version, ch, how, d) ==
    IF name = active'
      THEN /\ overlay' = OverlayOf(RowsOf(catalog, installed'), ch)
           /\ listed' = RequiredEntries(name, repo, ch, required'[name])
           /\ dialog' = AndThen(how, WithMetadata(d, name, repo, version, how), name)
      ELSE dialog' = AndThen(how, d, name) /\ UNCHANGED <<overlay, listed>>

Forgotten(name, repo) ==
    /\ raw' = [raw EXCEPT ![name] = <<>>]
    /\ changes' = [changes EXCEPT ![name] = <<>>]
    /\ required' = [required EXCEPT ![name] = {}]
    /\ selected' = [selected EXCEPT ![name] = repo]

\* presentCatalogResolutionError.
PresentCatalogResolutionError(name, repo, version, how, d) ==
    /\ Forgotten(name, repo)
    /\ EmitDialogMetadata(name, repo, version, ErrorChange(<<repo, name>>), how, d)

-----------------------------------------------------------------------------
(* Opening and closing *)

ResolveCall(name, repo, pins, plan, epoch) ==
    [op |-> "resolve", name |-> name, repo |-> repo, pins |-> pins, names |-> plan.names,
     epoch |-> epoch]

Request(name, repo, pins) ==
    /\ asked' = [name |-> name, repo |-> repo, version |-> pins[name]]
    /\ crossed' = \/ /\ sessions[name] # NoSession
                     /\ <<sessions[name].repo, sessions[name].pins>> # <<repo, pins>>
                  \/ /\ sessions[name] # NoSession \/ InFlight(name)
                     /\ \E k \in DOMAIN changes[name] : k[1] # repo
    /\ replaced' = FALSE

\* What the dialog shows before the answer.
InitialChanges(name) == IF InFlight(name) THEN changes[name] ELSE <<>>

\* runResolverAndOpenDialog.
RunResolverAndOpenDialog(name, repo, pins, d) ==
    LET epoch == epochs[name] + 1
        plan == BuildPlan(name, repo, pins, catalog)
    IN /\ epochs' = [epochs EXCEPT ![name] = epoch]
       /\ active' = name
       /\ UNCHANGED <<catalog, installed, installs, refreshes>>
       /\ \/ /\ ~plan.valid
             /\ PresentCatalogResolutionError(name, repo, pins[name], "open", d)
             /\ UNCHANGED toDl
          \/ /\ plan.valid
             /\ selected' = [selected EXCEPT ![name] = repo]
             /\ required' = [required EXCEPT ![name] = {repo} \X plan.names]
             /\ EmitDialogMetadata(name, repo, pins[name], InitialChanges(name), "open", d)
             /\ toDl' = Append(toDl, ResolveCall(name, repo, pins, plan, epoch))
             /\ UNCHANGED <<raw, changes>>
       /\ Request(name, repo, pins)

Click == clicks < MaxClicks /\ clicks' = clicks + 1

\* openApp from a tile or its menu.  The fast launch of an installed app opens
\* no dialog; the menu does not use it.
OpenApp(k) ==
    /\ Click
    /\ ~dialog.visible /\ k[2] \in App
    /\ RunResolverAndOpenDialog(k[2], k[1], NoPins, dialog)

\* The list's rows, and how each shows.
ListedRows == {k \in Rows : \E x \in listed : x[2] = k[2] /\ x[1] \in {k[1], Local}}
Action(k) == CASE InFlight(k[2]) -> "installing"
               [] ops[k[2]].stage = "installed" -> "installed"
               [] OTHER -> IF k \in DOMAIN overlay THEN overlay[k].action ELSE None

\* buildVersionPins.
Pins(d) == [p \in Package |-> IF p = d.name /\ d.picks[p] = Any THEN d.version ELSE d.picks[p]]

\* Another version of a listed package: openApp again, with the picks so far.
PickVersion(k, version) ==
    /\ Click
    /\ dialog.visible /\ dialog.stage # "busy"
    /\ k \in ListedRows \cap DOMAIN catalog /\ Action(k) # "error"
    /\ \E i \in DOMAIN catalog[k] : catalog[k][i].version = version
    /\ k \in DOMAIN overlay => overlay[k].to # version
    /\ LET d == [dialog EXCEPT !.picks = [@ EXCEPT ![k[2]] = version]]
       IN RunResolverAndOpenDialog(d.name, d.repo, Pins(d), d)

\* The user closes the dialog, launches or uninstalls the app from it:
\* notifyAddApplicationDialogClosed.
CloseDialog ==
    /\ dialog.visible
    /\ dialog' = Closed
    /\ active' = None
    /\ epochs' = IF active = None THEN epochs ELSE [epochs EXCEPT ![active] = @ + 1]
    /\ UNCHANGED <<catalog, installed, resolved, overlay, listed, installs, toDl, bounds,
                   history>>

-----------------------------------------------------------------------------
(* Installing *)

ActionEnabled ==
    /\ dialog.visible /\ dialog.stage # "busy" /\ ~dialog.launch
    /\ \A k \in ListedRows : Action(k) \notin {"installing", "error"}

\* confirmCatalogInstall, once the dialog shows "Downloading...".  It does not
\* answer if the app is still registered.
ConfirmCatalogInstall(name, repo, pins, d) ==
    LET plan == BuildPlan(name, repo, pins, catalog)
    IN \/ /\ ops[name].stage # None
          /\ dialog' = d
          /\ UNCHANGED <<resolved, overlay, listed, ops, sessions, toDl>>
       \/ /\ ops[name].stage = None /\ ~plan.valid
          /\ UNCHANGED <<ops, sessions, toDl>>
          /\ PresentCatalogResolutionError(name, repo, pins[name], "failed", d)
       \/ /\ ops[name].stage = None /\ plan.valid
          /\ selected' = [selected EXCEPT ![name] = repo]
          /\ required' = [required EXCEPT ![name] = {repo} \X plan.names]
          /\ ops' = [ops EXCEPT ![name] = [stage |-> "busy", owner |-> name]]
          /\ sessions' = [sessions EXCEPT ![name] =
                            [repo |-> repo, pins |-> pins, rows |-> <<>>,
                             needs |-> Closure(name, repo, pins, catalog)]]
          /\ dialog' = d
          /\ toDl' = Append(toDl, [op |-> "download", name |-> name, repo |-> repo,
                                   pins |-> pins, names |-> plan.names])
          /\ UNCHANGED <<raw, changes, overlay, listed>>

\* The dialog's Install (or Update, Downgrade, Reinstall) button.
Install ==
    /\ Click
    /\ ActionEnabled
    /\ UNCHANGED <<catalog, installed, resolving, clearing, refreshes, history>>
    /\ ConfirmCatalogInstall(dialog.name, dialog.repo, Pins(dialog),
                             [dialog EXCEPT !.stage = "busy"])

\* beginOrTrack and setStage for several names.
Tracked(o, names, stage, owner) ==
    [p \in Package |->
       IF p \in names THEN [stage |-> stage,
                            owner |-> IF o[p].stage = None THEN owner ELSE o[p].owner]
                      ELSE o[p]]

\* setOpStage, the registry and the dialog: nothing is told of a stage that is
\* there already.
StagedOps(o, name, stage) == IF o[name].stage = None THEN o ELSE [o EXCEPT ![name].stage = stage]
StagedDialog(d, o, name, stage) ==
    IF o[name].stage \in {None, stage} THEN d ELSE WithStage(d, name, stage)

\* refreshOverlayAfterInstall, after the rest of its caller.
RefreshOverlayAfterInstall(name, d) ==
    LET ch == ComputeDepChanges(raw'[name], installed')
    IN \/ /\ raw'[name] = <<>>
          /\ dialog' = d
          /\ UNCHANGED <<changes, overlay, listed>>
       \/ /\ raw'[name] # <<>>
          /\ changes' = [changes EXCEPT ![name] = ch]
          /\ EmitDialogMetadata(name, selected[name], Any, ch, "update", d)

SessionOver_NoTimer(name) ==
    /\ sessions' = [sessions EXCEPT ![name] = NoSession]
    /\ UNCHANGED clearing

\* The session is done; its timer starts.
SessionOver(name) ==
    /\ sessions' = [sessions EXCEPT ![name] = NoSession]
    /\ clearing' = clearing \cup {name}

Finished_NoRefresh(name, o) ==
    /\ ops' = StagedOps(o, name, "installed")
    /\ SessionOver(name)
    /\ dialog' = Completed(StagedDialog(dialog, o, name, "installed"), name)
    /\ UNCHANGED <<changes, overlay, listed>>

\* The end of a successful install; o is the registry after its rows.
Finished(name, o) ==
    /\ ops' = StagedOps(o, name, "installed")
    /\ SessionOver(name)
    /\ RefreshOverlayAfterInstall(name, Completed(StagedDialog(dialog, o, name, "installed"),
                                                  name))

\* The rows of an answer that are in some set of them, in their order.
RowsIn(answer, some) ==
    {todo \in UNION {[1..n -> some] : n \in 0..Len(answer)} :
       /\ some \subseteq Range(todo)
       /\ \A i, j \in DOMAIN todo : i < j =>
             \E m, n \in DOMAIN answer : m < n /\ answer[m] = todo[i] /\ answer[n] = todo[j]}

\* downloadResolvedDependencies: the answer's rows are installed, but for those
\* that are there already.
DownloadAnswered(call, answer) ==
    LET name == call.name
        names == NamesIn(answer)
        absent == {row \in Range(answer) : installed[row.name] # row.version}
        there == Tracked(ops, names \ {row.name : row \in absent}, "installed", name)
        queued == Tracked(there, {row.name : row \in absent}, "busy", name)
    IN /\ UNCHANGED <<installed, active, epochs>>
       /\ \/ /\ ~Validated(answer, call.repo, call.names)
             /\ ops' = StagedOps(ops, name, "failed")
             /\ SessionOver(name)
             /\ PresentCatalogResolutionError(name, call.repo, call.pins[name], "failed",
                                              WithStage(dialog, name, "failed"))
          \/ /\ Validated(answer, call.repo, call.names)
             /\ raw' = [raw EXCEPT ![name] = answer]
             /\ UNCHANGED <<selected, required>>
             /\ \/ absent = {} /\ Finished(name, there)
                \/ /\ absent # {}
                   /\ ops' = StagedOps(queued, name, "busy")
                   /\ dialog' = StagedDialog(dialog, queued, name, "busy")
                   /\ \E todo \in RowsIn(answer, absent) :
                         sessions' = [sessions EXCEPT ![name].rows = todo]
                   /\ UNCHANGED <<changes, overlay, listed, clearing>>

\* installResultsSequential: the first n rows are installed, the next one, if
\* there is one, fails and ends the install.
InstallResults(name, n) ==
    LET rows == sessions[name].rows
        Row(p) == rows[CHOOSE i \in 1..n : rows[i].name = p]
        done == {rows[i].name : i \in 1..n}
        marked == Tracked(ops, done, "installed", name)
    IN /\ rows # <<>> /\ n <= Len(rows)
       /\ installed' = [p \in Package |-> IF p \in done THEN Row(p).version ELSE installed[p]]
       /\ UNCHANGED <<catalog, active, epochs, selected, required, raw, toDl, bounds, history>>
       /\ \/ n = Len(rows) /\ Finished(name, marked)
          \/ /\ n < Len(rows)
             /\ ops' = StagedOps(StagedOps(marked, rows[n+1].name, "failed"), name, "failed")
             /\ SessionOver(name)
             /\ dialog' = WithStage(dialog, name, "failed")
             /\ UNCHANGED <<changes, overlay, listed>>

\* The 1.5 s or 2.5 s timer: clearByTopLevel.
ClearTimer(name) ==
    /\ name \in clearing
    /\ clearing' = clearing \ {name}
    /\ ops' = [p \in Package |-> IF ops[p].owner = name THEN NoOp ELSE ops[p]]
    /\ UNCHANGED <<catalog, installed, resolving, resolved, shown, sessions, toDl, bounds,
                   history>>

-----------------------------------------------------------------------------
(* Answers and refreshes *)

ResolveAnswered_IgnoresEmpty(call, answer) ==
    LET ch == ComputeDepChanges(answer, installed)
    IN /\ UNCHANGED <<installed, active, epochs, installs>>
       /\ \/ /\ epochs[call.name] # call.epoch \/ answer = <<>>
             /\ UNCHANGED <<resolved, shown>>
          \/ /\ epochs[call.name] = call.epoch /\ answer # <<>>
             /\ ~Validated(answer, call.repo, call.names)
             /\ PresentCatalogResolutionError(call.name, call.repo, call.pins[call.name],
                                              "update", dialog)
          \/ /\ epochs[call.name] = call.epoch /\ Validated(answer, call.repo, call.names)
             /\ raw' = [raw EXCEPT ![call.name] = answer]
             /\ changes' = [changes EXCEPT ![call.name] = ch]
             /\ UNCHANGED <<selected, required>>
             /\ EmitDialogMetadata(call.name, call.repo, call.pins[call.name], ch, "update",
                                   dialog)

ResolveAnswered_AnyEpoch(call, answer) ==
    LET ch == ComputeDepChanges(answer, installed)
    IN /\ UNCHANGED <<installed, active, epochs, installs>>
       /\ \/ /\ ~Validated(answer, call.repo, call.names)
             /\ PresentCatalogResolutionError(call.name, call.repo, call.pins[call.name],
                                              "update", dialog)
          \/ /\ Validated(answer, call.repo, call.names)
             /\ raw' = [raw EXCEPT ![call.name] = answer]
             /\ changes' = [changes EXCEPT ![call.name] = ch]
             /\ UNCHANGED <<selected, required>>
             /\ EmitDialogMetadata(call.name, call.repo, call.pins[call.name], ch, "update",
                                   dialog)

\* resolveDependencies: an answer to another request than the last one for the
\* app is dropped.
ResolveAnswered(call, answer) ==
    LET ch == ComputeDepChanges(answer, installed)
    IN /\ UNCHANGED <<installed, active, epochs, installs>>
       /\ \/ /\ epochs[call.name] # call.epoch
             /\ UNCHANGED <<resolved, shown>>
          \/ /\ epochs[call.name] = call.epoch /\ ~Validated(answer, call.repo, call.names)
             /\ PresentCatalogResolutionError(call.name, call.repo, call.pins[call.name],
                                              "update", dialog)
          \/ /\ epochs[call.name] = call.epoch /\ Validated(answer, call.repo, call.names)
             /\ raw' = [raw EXCEPT ![call.name] = answer]
             /\ changes' = [changes EXCEPT ![call.name] = ch]
             /\ UNCHANGED <<selected, required>>
             /\ EmitDialogMetadata(call.name, call.repo, call.pins[call.name], ch, "update",
                                   dialog)

\* What package_downloader may answer: what was asked for, resolved against its
\* own catalog; that with a row missing or failed, from elsewhere or not asked
\* for; or, overdue, nothing.
Resolve(call, c) ==
    LET Newest(p) == IF <<call.repo, p>> \in DOMAIN c THEN c[<<call.repo, p>>][1].version ELSE 1
        Row(p) == [name |-> p, repo |-> call.repo, ok |-> TRUE,
                   version |-> IF call.pins[p] = Any THEN Newest(p) ELSE call.pins[p]]
        order == CHOOSE s \in [1..Cardinality(call.names) -> call.names] : IsInjective(s)
    IN [i \in DOMAIN order |-> Row(order[i])]

Answers(call) ==
    LET good == Resolve(call, catalog)
        Extra(p) == [good[1] EXCEPT !.name = p]
    IN {good, Tail(good), [good EXCEPT ![1].ok = FALSE]}
         \cup {[good EXCEPT ![1].repo = r] : r \in Repo \ {call.repo}}
         \cup {Append(good, Extra(p)) : p \in Package}

Answered(call, answer) ==
    \/ call.op = "resolve" /\ ResolveAnswered(call, answer)
    \/ call.op = "download" /\ DownloadAnswered(call, answer)

DlAnswers ==
    /\ toDl # <<>>
    /\ toDl' = Tail(toDl)
    /\ \E answer \in Answers(Head(toDl)) : Answered(Head(toDl), answer)
    /\ UNCHANGED <<catalog, bounds, history>>

\* The deadline of a call, 20 s or, for a download, 5 min.
Deadline(i) ==
    /\ i \in DOMAIN toDl
    /\ toDl' = [j \in 1..(Len(toDl) - 1) |-> IF j < i THEN toDl[j] ELSE toDl[j+1]]
    /\ Answered(toDl[i], <<>>)
    /\ UNCHANGED <<catalog, bounds, history>>

\* buildCatalogIndexes and populateAppsModel: rows that stay keep their overlay.
CatalogRefreshed(c) ==
    /\ refreshes < MaxRefreshes /\ refreshes' = refreshes + 1
    /\ catalog' = c
    /\ overlay' = [k \in DOMAIN overlay \cap RowsOf(c, installed) |-> overlay[k]]
    /\ replaced' = \/ replaced
                    \/ /\ dialog.visible
                       /\ ~ RowOf(RowsOf(c, installed), dialog.name, dialog.repo) \subseteq Rows
    /\ UNCHANGED <<installed, resolving, resolved, listed, dialog, installs, toDl, clicks,
                   asked, crossed>>

-----------------------------------------------------------------------------
Init ==
    /\ catalog \in Catalogs
    /\ installed \in {[p \in Package |-> IF p \in S THEN 1 ELSE Any] : S \in {{}, Package \ App, Package}}
    /\ active = None /\ epochs = [p \in Package |-> 0]
    /\ selected = [p \in Package |-> None] /\ required = [p \in Package |-> {}]
    /\ raw = [p \in Package |-> <<>>] /\ changes = [p \in Package |-> <<>>]
    /\ overlay = <<>> /\ listed = {} /\ dialog = Closed
    /\ ops = [p \in Package |-> NoOp] /\ sessions = [p \in Package |-> NoSession]
    /\ clearing = {} /\ toDl = <<>>
    /\ clicks = 0 /\ refreshes = 0
    /\ asked = [name |-> None, repo |-> None, version |-> Any]
    /\ crossed = FALSE /\ replaced = FALSE

Next ==
    \/ \E k \in Rows : OpenApp(k)
    \/ \E k \in DOMAIN catalog : \E i \in DOMAIN catalog[k] : PickVersion(k, catalog[k][i].version)
    \/ CloseDialog \/ Install
    \/ DlAnswers \/ \E i \in DOMAIN toDl : Deadline(i)
    \/ \E name \in Package : ClearTimer(name) \/ \E n \in 0..Cardinality(Package) :
                                                     InstallResults(name, n)
    \/ \E c \in Catalogs : CatalogRefreshed(c)

\* Every call has a deadline, installs end (each row has one) and timers fire.
\* The user and refreshes are not fair.
Fairness ==
    /\ WF_toDl(toDl # <<>> /\ toDl' = Tail(toDl))
    /\ \A name \in Package :
          /\ WF_sessions(/\ sessions[name].rows # <<>>
                         /\ sessions' = [sessions EXCEPT ![name] = NoSession])
          /\ WF_clearing(name \in clearing /\ clearing' = clearing \ {name})

Spec == Init /\ [][Next]_vars /\ Fairness
-----------------------------------------------------------------------------
(* Properties *)

\* Shapes; a registered install has its entry, and a timer if it has ended.
TypeOK ==
    /\ active \in App \cup {None} /\ dialog.visible \in BOOLEAN
    /\ DOMAIN overlay \subseteq Rows
    /\ \A p \in Package :
          /\ sessions[p] # NoSession => ops[p].owner = p
          /\ ops[p].owner = p => sessions[p] # NoSession \/ p \in clearing

\* The dialog on screen is the one the coordinator answers; whatever answers
\* are late or overdue, it shows the app, repository and version the user
\* asked for last, and only rows of that repository.
ShowsWhatWasAsked ==
    /\ active = dialog.name
    /\ dialog.visible /\ ~crossed =>
         /\ dialog.name = asked.name /\ dialog.repo = asked.repo
         /\ dialog.version \in {asked.version, Any}
         /\ \A k \in listed \cup DOMAIN overlay :
               k[1] = asked.repo \/ (asked.repo = Local /\ k[2] = asked.name)

\* When an install ends, a dialog that is open on its app stops showing it as
\* under way, although the registry has told of the last row by then and nothing
\* is told twice: as long as there is a resolution to show again.
EndIsShown ==
    [][\A p \in Package :
          sessions[p] # NoSession /\ sessions'[p] = NoSession /\ dialog'.name = p
            => dialog'.stage # "busy" \/ raw'[p] = <<>>]_vars

\* A successful install leaves on disk everything its app needed, in any number
\* of steps, when it was confirmed.
SuccessIsComplete ==
    [][\A p \in Package :
          /\ sessions[p] # NoSession /\ sessions'[p] = NoSession
          /\ ops'[p].stage = "installed"
          => \A q \in sessions[p].needs : installed'[q] # Any]_vars

\* A dialog that is open ends up with the app's row showing what would be done,
\* or that it cannot be: the resolver is slow, fails, or is busy downloading.
\* Nothing is resolved again for a row that a refresh brings.
ResolutionEnds ==
    \A p \in App :
       dialog.name = p /\ ~crossed /\ ~replaced
         ~> \/ dialog.name # p \/ crossed \/ replaced
            \/ RowOf(Rows, p, dialog.repo) \subseteq DOMAIN overlay
=============================================================================
