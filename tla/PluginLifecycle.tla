--------------------------- MODULE PluginLifecycle ---------------------------
(***************************************************************************)
(* Loading and unloading widgets and core modules: UIPluginManager,        *)
(* PluginLoader and the C-API wrappers of CoreModuleManager.               *)
(*                                                                         *)
(* A load is a job that passes through the event loop several times: it is *)
(* queued, loads its core dependencies one by one (each call spins a       *)
(* nested event loop, so anything may run in between), then waits for a    *)
(* thread, a ui-host process or the QML compiler.  An unload runs off the  *)
(* click that asked for it, asks first when something it knows to be       *)
(* loaded depends on the module, and calls liblogos, which spins a nested  *)
(* event loop too: a call under way is a frame on a stack, and any turn    *)
(* may run between its beginning, its effect and its return.               *)
(*                                                                         *)
(* Abstracted: paths, icons, tokens, window titles; a refusal that changes *)
(* nothing (missing dependencies, bad metadata); the reason of a failure.  *)
(***************************************************************************)
EXTENDS Naturals, Sequences, Functions

CONSTANTS
  Core,         \* core modules: processes run by liblogos
  Ui,           \* UI plugins: widgets in this process
  Legacy,       \* UI plugins of type "ui" (a C++ library)
  Hosted,       \* UI plugins of type "ui_qml" with a backend in a ui-host
  Needs,        \* package -> the core modules it depends on, transitively
  Scans,        \* bound: what a query for dependents may have found installed
  MaxJobs,      \* bound: loads of UI plugins
  MaxClicks,    \* bound: load and unload clicks
  PatientUser   \* TRUE: nobody clicks Unload again before the first click on
                \* the module is dealt with

Package == Core \cup Ui

ASSUME PluginLifecycleAssumption ==
    /\ Core \cap Ui = {}
    /\ Legacy \subseteq Ui /\ Hosted \subseteq Ui /\ Legacy \cap Hosted = {}
    /\ Needs \in [Package -> SUBSET Core]
    /\ \A p \in Package : \A c \in Needs[p] : Needs[c] \subseteq Needs[p] /\ c \notin Needs[c]
    /\ Scans \subseteq SUBSET Package
    /\ MaxJobs \in Nat /\ MaxClicks \in Nat
    /\ PatientUser \in BOOLEAN

VARIABLES
  running,       \* core modules liblogos reports as loaded
  job,           \* the loads: the plugin, how far it is, dependencies to go
  jobs,          \* how many there were
  loading,       \* PluginLoader::m_loading
  mounted,       \* m_uiModuleWidgets and its siblings: plugin -> the job it came from
  hosts,         \* the jobs whose ui-host process is alive
  posted,        \* closures queued on the event loop by clicks
  pendingUnload, \* m_pendingUnload
  dialog,        \* unloadCascadeDialog: its module, if open
  clicks,        \* bounded counter
  dependents,    \* PackageCoordinator::m_dependentsByModule
  calls,         \* the calls into liblogos under way, innermost last
  excused        \* history: packages that lost a dependency to an unload that
                 \* could not know of them, or to a cascade that failed halfway

vars == <<running, job, jobs, loading, mounted, hosts, posted, pendingUnload, dialog,
          clicks, dependents, calls, excused>>
unloadVars == <<posted, pendingUnload, dialog, clicks, dependents, calls>>

Job == 1..MaxJobs
Stage == {"none", "dependencies", "thread", "host", "compiling", "over"}
Work == [do : {"load", "unload", "unloadUi", "cascade"}, name : Package]
Call == [do : {"load", "unload", "cascade", "package"}, name : Package,
         deps : SUBSET Package, done : BOOLEAN]
AtMostOne == {{}} \cup {{p} : p \in Package}

Idle == [name |-> {}, stage |-> "none", todo |-> {}]
Over == [name |-> {}, stage |-> "over", todo |-> {}]

InFlight(j) == job[j].stage \notin {"none", "over"}

Mounted == {u \in Ui : mounted[u] # 0}
Loaded  == running \cup Mounted
Loading == UNION {job[j].name : j \in Job}

Dependents(p) == {q \in Package : p \in Needs[q]}

\* loadedDependentsOf, intersectWithLoaded: of the dependents the coordinator
\* has cached, those loaded now, not those about to be.
LoadedDependents(p) == dependents[p] \cap Loaded

\* What a refreshDependencyInfo brings: each query is answered with what was
\* installed at its own moment.  What was installed since is not in it.
Answers == {[p \in Package |-> Dependents(p) \cap found[p]] : found \in [Package -> Scans]}

DependencyDataRefreshed ==
    /\ dependents' \in Answers
    /\ UNCHANGED <<running, job, jobs, loading, mounted, hosts, posted, pendingUnload, dialog,
                   clicks, calls, excused>>

-----------------------------------------------------------------------------
(* PluginLoader *)

\* loadUiModule, onAppLauncherClicked: a plugin that is mounted is brought to
\* the front, one that is loading is left alone.
LoadUiModule_NoCheck(u) ==
    /\ dialog = {}
    /\ clicks < MaxClicks /\ clicks' = clicks + 1
    /\ \/ /\ mounted[u] = 0
          /\ jobs < MaxJobs /\ jobs' = jobs + 1
          /\ job' = [job EXCEPT ![jobs + 1] =
                        [name |-> {u}, stage |-> "dependencies", todo |-> Needs[u]]]
          /\ loading' = loading \cup {u}
          /\ excused' = excused \ {u}
       \/ mounted[u] # 0 /\ UNCHANGED <<job, jobs, loading, excused>>
    /\ UNCHANGED <<running, mounted, hosts, posted, pendingUnload, dialog, dependents, calls>>

LoadUiModule(u) ==
    /\ dialog = {}
    /\ clicks < MaxClicks /\ clicks' = clicks + 1
    /\ \/ /\ mounted[u] = 0 /\ u \notin loading
          /\ jobs < MaxJobs /\ jobs' = jobs + 1
          /\ job' = [job EXCEPT ![jobs + 1] =
                        [name |-> {u}, stage |-> "dependencies", todo |-> Needs[u]]]
          /\ loading' = loading \cup {u}
          /\ excused' = excused \ {u}
       \/ /\ mounted[u] # 0 \/ u \in loading
          /\ UNCHANGED <<job, jobs, loading, excused>>
    /\ UNCHANGED <<running, mounted, hosts, posted, pendingUnload, dialog, dependents, calls>>

\* Every way out of a load that ends with pluginLoadFailed.
Fail(j) ==
    /\ job' = [job EXCEPT ![j] = Over]
    /\ loading' = loading \ job[j].name
    /\ hosts' = hosts \ {j}
    /\ UNCHANGED mounted

\* setLoading(false), then UIPluginManager::onPluginLoaded in the same turn.
Mount(j) ==
    /\ job' = [job EXCEPT ![j] = Over]
    /\ loading' = loading \ job[j].name
    /\ mounted' = [u \in Ui |-> IF u \in job[j].name THEN j ELSE mounted[u]]
    /\ UNCHANGED hosts

Advance(j, stage) ==
    /\ job' = [job EXCEPT ![j].stage = stage]
    /\ UNCHANGED <<loading, mounted>>

LoadDependency(j) ==
    /\ job[j].stage = "dependencies"
    /\ \E c \in job[j].todo :
          \/ /\ running' = running \cup {c} \cup Needs[c]
             /\ job' = [job EXCEPT ![j].todo = @ \ {c}]
             /\ UNCHANGED <<loading, mounted, hosts>>
          \/ Fail(j) /\ UNCHANGED running
    /\ UNCHANGED <<jobs, unloadVars, excused>>

\* loadCppPluginAsync or loadUiQmlModule.  A process that cannot be spawned
\* or a missing QML file ends the load.
Continue(j) ==
    /\ job[j].stage = "dependencies"
    /\ job[j].todo = {}
    /\ \/ job[j].name \subseteq Legacy /\ Advance(j, "thread") /\ UNCHANGED hosts
       \/ job[j].name \subseteq Hosted /\ Advance(j, "host") /\ hosts' = hosts \cup {j}
       \/ /\ job[j].name \cap (Legacy \cup Hosted) = {}
          /\ Advance(j, "compiling") /\ UNCHANGED hosts
       \/ job[j].name \cap Legacy = {} /\ Fail(j)
    /\ UNCHANGED <<running, jobs, unloadVars, excused>>

\* finishCppPluginLoad, on QThread::finished.
ThreadFinished(j) ==
    /\ job[j].stage = "thread"
    /\ Mount(j) \/ Fail(j)
    /\ UNCHANGED <<running, jobs, unloadVars, excused>>

HostReady(j) ==
    /\ job[j].stage = "host"
    /\ Advance(j, "compiling")
    /\ UNCHANGED <<hosts, running, jobs, unloadVars, excused>>

HostTimeout_LeavesHost(j) ==
    /\ job[j].stage = "host"
    /\ job' = [job EXCEPT ![j] = Over]
    /\ loading' = loading \ job[j].name
    /\ UNCHANGED <<mounted, hosts, running, jobs, unloadVars, excused>>

HostTimeout_KeepsLoading(j) ==
    /\ job[j].stage = "host"
    /\ job' = [job EXCEPT ![j] = Over]
    /\ hosts' = hosts \ {j}
    /\ UNCHANGED <<mounted, loading, running, jobs, unloadVars, excused>>

HostTimeout_Never(j) == FALSE

\* 30 s without READY.
HostTimeout(j) ==
    /\ job[j].stage = "host"
    /\ Fail(j)
    /\ UNCHANGED <<running, jobs, unloadVars, excused>>

\* finishOrCleanup, finishUiQmlLoad.
Compiled(j) ==
    /\ job[j].stage = "compiling"
    /\ Mount(j) \/ Fail(j)
    /\ UNCHANGED <<running, jobs, unloadVars, excused>>

-----------------------------------------------------------------------------
(* UIPluginManager: unloading *)

Click(work) ==
    /\ dialog = {}
    /\ clicks < MaxClicks /\ clicks' = clicks + 1
    /\ posted' = Append(posted, work)
    /\ UNCHANGED <<running, job, jobs, loading, mounted, hosts, pendingUnload, dialog,
                   dependents, calls, excused>>

UnloadUnderWay(p) ==
    p \in pendingUnload \/ \E w \in Range(posted) : w.name = p /\ w.do # "load"

MayUnload(p) == PatientUser => ~UnloadUnderWay(p)

LoadCoreModule(c) == c \notin running /\ Click([do |-> "load", name |-> c])

UnloadCoreModule(c) == c \in running /\ MayUnload(c) /\ Click([do |-> "unload", name |-> c])

\* The Unload button, or the tab's close button (MainContainer).
UnloadUiModule(u) == u \in Mounted /\ MayUnload(u) /\ Click([do |-> "unloadUi", name |-> u])

\* unloadUiModuleImpl and teardownUiPluginWidget: the widget and its host go.
Teardown(names) ==
    /\ mounted' = [u \in Ui |-> IF u \in names THEN 0 ELSE mounted[u]]
    /\ hosts' = hosts \ {mounted[u] : u \in names \cap Ui}

\* Packages, loaded or loading, with a dependency in gone.
Needing(gone) == {p \in Loaded \cup Loading : Needs[p] \cap gone # {}}

\* Keep the excuses of what is still there, and add to them.
Excuse(more) ==
    excused' = (excused \cup more) \cap (running' \cup {u \in Ui : mounted'[u] # 0} \cup Loading)

AskFirst(p) ==
    LoadedDependents(p) # {} /\ p \notin pendingUnload

\* The confirmation replaces whatever the slot and the dialog held.
Ask(p) ==
    /\ pendingUnload' = {p}
    /\ dialog' = {p}
    /\ UNCHANGED <<mounted, hosts, calls, excused>>

\* A call into liblogos, with the dependents as they are when it is decided.
BeginCall(what, p, deps) ==
    /\ calls' = Append(calls, [do |-> what, name |-> p, deps |-> deps, done |-> FALSE])
    /\ UNCHANGED <<mounted, hosts, pendingUnload, dialog, excused>>

RunUnload(c) ==
    \/ AskFirst(c) /\ Ask(c)
    \/ ~AskFirst(c) /\ BeginCall("unload", c, LoadedDependents(c))

\* The check for dependents is the code's; only a plugin that doubles as a core
\* module could have any.
RunUnloadUi(u) ==
    \/ u \in Mounted /\ AskFirst(u) /\ Ask(u)
    \/ /\ u \in Mounted /\ ~AskFirst(u)
       /\ Teardown({u})
       /\ UNCHANGED <<running, pendingUnload, dialog, calls>>
       /\ Excuse({})
    \/ u \notin Mounted /\ UNCHANGED <<mounted, hosts, pendingUnload, dialog, calls, excused>>

RunPosted ==
    /\ posted # <<>>
    /\ posted' = Tail(posted)
    /\ LET w == Head(posted) IN
         \/ w.do = "load" /\ BeginCall("load", w.name, {})
         \/ w.do = "unload" /\ RunUnload(w.name)
         \/ w.do = "unloadUi" /\ RunUnloadUi(w.name)
         \/ w.do = "cascade" /\ BeginCall("cascade", w.name, LoadedDependents(w.name))
    /\ UNCHANGED <<running, job, jobs, loading, clicks, dependents>>

-----------------------------------------------------------------------------
(* The calls into liblogos: only the innermost one gets on *)

Innermost == calls[Len(calls)]
Return == calls' = SubSeq(calls, 1, Len(calls) - 1)

CallLoads ==
    /\ Innermost.do = "load"
    /\ running' \in {running, running \cup {Innermost.name} \cup Needs[Innermost.name]}
    /\ Return
    /\ UNCHANGED <<mounted, hosts, excused>>

\* What was loaded since the call was decided, or is no dependent as far as the
\* coordinator knows, goes on without what it needs.
Surprised(gone) == Needing(gone) \ (Innermost.deps \ Loading)

CallUnloads ==
    /\ Innermost.do = "unload"
    /\ \/ /\ Innermost.name \in running
          /\ running' = running \ {Innermost.name}
       \/ UNCHANGED running
    /\ Return
    /\ UNCHANGED <<mounted, hosts>>
    /\ Excuse(IF running' = running THEN {} ELSE Surprised({Innermost.name}))

\* logos_core_unload_module(name, with dependents): by liblogos' own graph all
\* of them go, or only some of the dependents when it fails.
CascadeSet(p) == {p} \cup (Dependents(p) \cap running)

CallUnloadsAll ==
    /\ Innermost.do \in {"cascade", "package"} /\ ~Innermost.done
    /\ Innermost.name \in running
    /\ running' = running \ CascadeSet(Innermost.name)
    /\ calls' = [calls EXCEPT ![Len(calls)].done = TRUE]
    /\ UNCHANGED <<mounted, hosts>>
    /\ Excuse(Surprised(CascadeSet(Innermost.name)))

\* The unload dialog's cascade gives up here, the removal of a package goes on.
CallFails ==
    /\ Innermost.do \in {"cascade", "package"} /\ ~Innermost.done
    /\ \E some \in SUBSET (CascadeSet(Innermost.name) \ {Innermost.name}) :
          /\ Innermost.name \in running \/ some = {}
          /\ running' = running \ some
          /\ UNCHANGED <<mounted, hosts>>
          /\ Excuse(Needing(some))
    /\ \/ Innermost.do = "cascade" /\ Return
       \/ Innermost.do = "package" /\ calls' = [calls EXCEPT ![Len(calls)].done = TRUE]

CallReturns_TargetOnly ==
    /\ Innermost.done
    /\ UNCHANGED running
    /\ Teardown({Innermost.name})
    /\ Return
    /\ Excuse({})

\* The dependents listed before the call go with the module.
CallReturns ==
    /\ Innermost.done
    /\ UNCHANGED running
    /\ Teardown(Innermost.deps \cup {Innermost.name})
    /\ Return
    /\ Excuse({})

RunCall ==
    /\ calls # <<>>
    /\ CallLoads \/ CallUnloads \/ CallUnloadsAll \/ CallFails \/ CallReturns
    /\ UNCHANGED <<job, jobs, loading, posted, pendingUnload, dialog, clicks, dependents>>

-----------------------------------------------------------------------------
(* The dialogs, and the removal of a package *)

\* The dialog's module is the pending one or the answer is ignored.
ConfirmUnloadCascade(p) ==
    /\ dialog = {p} /\ dialog' = {}
    /\ \/ /\ p \in pendingUnload
          /\ pendingUnload' = {}
          /\ posted' = Append(posted, [do |-> "cascade", name |-> p])
       \/ p \notin pendingUnload /\ UNCHANGED <<pendingUnload, posted>>
    /\ UNCHANGED <<running, job, jobs, loading, mounted, hosts, clicks, dependents, calls,
                   excused>>

CancelUnloadCascade_KeepsSlot(p) ==
    /\ dialog = {p} /\ dialog' = {}
    /\ UNCHANGED <<running, job, jobs, loading, mounted, hosts, posted, pendingUnload, clicks,
                   dependents, calls, excused>>

CancelUnloadCascade(p) ==
    /\ dialog = {p} /\ dialog' = {}
    /\ pendingUnload' = pendingUnload \ {p}
    /\ UNCHANGED <<running, job, jobs, loading, mounted, hosts, posted, clicks, dependents,
                   calls, excused>>

\* MainUIBackend::cancelPendingAction gives every Cancel to both managers: that
\* of a package dialog about p drops the unload under the other dialog.
CancelPackageDialog(p) ==
    /\ p \in pendingUnload
    /\ pendingUnload' = pendingUnload \ {p}
    /\ UNCHANGED <<running, job, jobs, loading, mounted, hosts, posted, dialog, clicks,
                   dependents, calls, excused>>

\* cascadeUnloadForPackage, called by PackageCoordinator before a removal the
\* user confirmed there (module PackageGate).
CascadeUnloadForPackage(p) ==
    /\ clicks < MaxClicks /\ clicks' = clicks + 1
    /\ UNCHANGED running
    /\ \/ /\ p \in running \/ LoadedDependents(p) # {}
          /\ BeginCall("package", p, LoadedDependents(p))
       \/ /\ p \notin running /\ LoadedDependents(p) = {}
          /\ Teardown({p})
          /\ Excuse({})
          /\ UNCHANGED <<pendingUnload, dialog, calls>>
    /\ UNCHANGED <<job, jobs, loading, posted, dependents>>

-----------------------------------------------------------------------------
Init ==
    /\ running = {}
    /\ job = [j \in Job |-> Idle] /\ jobs = 0
    /\ loading = {}
    /\ mounted = [u \in Ui |-> 0] /\ hosts = {}
    /\ posted = <<>> /\ pendingUnload = {} /\ dialog = {}
    /\ dependents = [p \in Package |-> {}] /\ calls = <<>>
    /\ clicks = 0 /\ excused = {}

Loader ==
    \E j \in Job : \/ LoadDependency(j) \/ Continue(j) \/ ThreadFinished(j)
                   \/ HostReady(j) \/ HostTimeout(j) \/ Compiled(j)

User ==
    \/ \E u \in Ui : LoadUiModule(u) \/ UnloadUiModule(u)
    \/ \E c \in Core : LoadCoreModule(c) \/ UnloadCoreModule(c)
    \/ \E p \in Package : \/ ConfirmUnloadCascade(p) \/ CancelUnloadCascade(p)
                          \/ CancelPackageDialog(p) \/ CascadeUnloadForPackage(p)

Next == Loader \/ User \/ RunPosted \/ RunCall \/ DependencyDataRefreshed

\* A load's own calls into liblogos return, threads and the compiler finish, the
\* 30 s timer fires.  A ui-host need not ever become ready, and no unload, nor
\* any closure queued by a click, is assumed to get on.
Fairness ==
    \A j \in Job : WF_vars(\/ LoadDependency(j) \/ Continue(j)
                           \/ ThreadFinished(j) \/ HostTimeout(j) \/ Compiled(j))

Spec == Init /\ [][Next]_vars /\ Fairness

-----------------------------------------------------------------------------
(* Properties *)

\* Shapes, and the bookkeeping of the loader: m_loading names exactly the
\* plugins that have a load under way.
TypeOK ==
    /\ running \in SUBSET Core
    /\ job \in [Job -> [name : AtMostOne, stage : Stage, todo : SUBSET Core]]
    /\ jobs \in 0..MaxJobs
    /\ loading = Loading
    /\ mounted \in [Ui -> 0..MaxJobs]
    /\ hosts \in SUBSET Job
    /\ posted \in Seq(Work)
    /\ pendingUnload \in AtMostOne /\ dialog \in AtMostOne
    /\ clicks \in 0..MaxClicks
    /\ dependents \in [Package -> SUBSET Package] /\ calls \in Seq(Call)
    /\ excused \in SUBSET Package

\* A plugin has one widget or one load, never two of either: onPluginLoaded
\* never overwrites a live widget in its maps.
OneWidgetPerPlugin ==
    /\ \A i, j \in Job : i # j => job[i].name \cap job[j].name = {}
    /\ Loading \cap Mounted = {}

\* No ui-host process outlives its plugin: each one belongs to a load still
\* under way or to a mounted widget.
HostsAreOwned ==
    hosts = {j \in Job : \/ job[j].stage \in {"host", "compiling"} /\ job[j].name \subseteq Hosted
                         \/ \E u \in Hosted : mounted[u] = j}

\* An unload is pending only under the dialog that asks about it, whoever is
\* cancelled from where: a slot left behind would let the next unload of the
\* module through unasked.
PendingUnloadIsAsked == pendingUnload \subseteq dialog

\* The widgets a cascade is about to tear down.
Leaving == UNION {(f.deps \cup {f.name}) \cap Ui : f \in {g \in Range(calls) : g.done}}

\* Whatever is loaded has its dependencies, but for the widgets about to be torn
\* down and what lost one to an unload that could not know of it (it was being
\* loaded, or the coordinator's cache did not have it) or to a failed cascade.
NothingStrandedSilently ==
    \A p \in Loaded \ (excused \cup Leaving) : Needs[p] \subseteq running

\* Every load ends: the plugin's spinner stops.
LoadSettles == \A u \in Ui : (u \in loading) ~> (u \notin loading)
=============================================================================
