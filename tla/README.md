# A verification project for Basecamp

TLA+ models of the parts of Basecamp that decide which packages are installed,
loaded and running, checked with TLC on small instances, and theorems about
them proved with TLAPS for instances of every size. Paths below are relative to
the repository; `PackageCoordinator.cpp` and the like are under its `src/`.

## 1. The system

Basecamp is a Qt shell. Its backend runs on **one GUI thread**: every slot,
timer and answer callback is one turn of the event loop and runs to completion,
except where a call into liblogos spins a *nested* event loop (loading and
unloading core modules), in which other turns run. The package work is done in
other processes (`package_manager`, `package_downloader`), reached by
asynchronous calls whose answers and events come back as later turns. So the
behaviours that are hard here are not data races but *orders of turns*: what a
callback assumes may have changed since the call was made.

| Component | State | Operations | Talks to |
|---|---|---|---|
| Gated package actions (`PackageCoordinator`) | `m_pendingAction`, `m_lastRequestedTargets`, `m_pendingUninstallAppName`, `m_packageManagerSubscribed`; the dialogs | `uninstall*`, `onBefore*`, `confirm*`, `cancel*`, the teardown before a removal | `package_manager` (calls, events), `UIPluginManager` (teardown), QML dialogs |
| Uninstall planner (`UninstallPlan`) | none | `composeFrom`, `explainOf` | caches of the coordinator |
| Catalog install pipeline (`PackageCoordinator`, `InstallRegistry`) | registry entries and their owners, rows to go | `confirmCatalogInstall`, `installResultsSequential`, clear timers | `package_downloader`, `package_manager` |
| Package-state caches (`PackageCoordinator`) | type, name, version, dependency and display-name maps | `fetchUiPluginMetadata`, `refreshDependencyInfo`, `refreshApprovedInstallUi` | `package_manager`, `AppsModel` |
| UI plugin lifecycle (`UIPluginManager`) | widget, host and component maps, `m_pendingUnload` | load, unload, unload cascade, teardown | `PluginLoader`, `CoreModuleManager`, workspace |
| Plugin loader (`PluginLoader`) | `m_loading`, one closure chain per load | dependencies, library thread, ui-host, QML compiler | liblogos, ui-host processes |
| Core module manager (`CoreModuleManager`) | what liblogos reports as loaded; instance subscriptions | load, unload with dependents, instances | liblogos |
| Add Application dialog, `CatalogResolution` | resolver epochs, resolved changes by name | `openApp`, `runResolverAndOpenDialog` | `package_downloader`, `AppsModel`, QML dialog |
| Repositories (`PackageCoordinator`) | list, seed-in-flight flag, loading counter | add, remove, enable, ensure maintained | `package_downloader` |
| Rows (`AppsModel`, `AppsFilterProxy`) | a row per repository and package: build, installed build, missing dependencies, status; an overlay of planned changes | `replaceCatalog`, `replaceInstalledSet`, `markInstalled`, dependency updates | the caches, the dialog |
| Scoped event relay (`BasecampCoreService`, `MainUIPlugin`) | subscriptions, listener, closed | load, unload, subscribe, unsubscribe, deliver, start, stop | `CoreModuleManager`, callers in other processes |
| Workspace (`MainContainer`, `WorkspaceArea`) | docks and their order, phantom tab, layout, content stack, `m_pmuiWidget` | show, activate and remove a plugin, toggle the layout, select a section | `UIPluginManager`, sidebar |
| QML sandbox, QML views | allow-lists | painting and filtering | the above |

### What makes each part correct

* **Gated actions**: a package leaves or enters the disk only after the user was
  asked about exactly that and agreed; `package_manager`'s single slot is never
  left taken with nobody to free it; the answer given in a dialog reaches the
  request it was about; whatever is removed is not running.
* **Planner**: the batch breaks nothing unlisted, strands nothing it could have
  swept, and the user is told what breaks on disk though the caches lag.
* **Install pipeline**: an app is not installed twice at once; success is only
  reported for what is on disk; entries go away in the end.
* **Caches**: they converge to the disk.
* **Lifecycle**: one widget or one load per plugin, no leaked ui-host, no
  dependency taken unasked from under a loaded plugin that the caches know to
  need it, every load ends.
* **Refresh and repositories**: however chains of calls overlap, the tiles and
  the repository list end up at what the disk, the catalog and the downloader
  say; no status is stale in between; the overlay ends; the events are
  subscribed to.
* **Add Application dialog**: it shows what the user asked for last, whatever
  answers come in; the end of an install reaches it; success means the whole
  closure is there.
* **Relay**: who was told "ok" is served, by the process that runs now; nobody
  gets events he did not ask for or no longer wants.
* **Workspace**: every mounted widget is in exactly one place and reachable, the
  page on screen is the section's, and the layout follows the docks.

`PROJECT.json` lists the hazards behind these properties, each at its line.

## 2. The modules

### `UninstallPlan`, `UninstallRequest`

`UninstallPlan` is `UninstallPlan.cpp` as operators on sets: closure, survivors,
orphans, batch, kept with its reasons, dependents. Lists become sets because
only membership matters; rows' names, versions and load flags are decoration.
`UninstallRequest` is a request from its composition to its dialog. The disk
belongs to `package_manager`, and `past` keeps the disks there have been, because
the coordinator's caches are answers given at different moments: `Scanned` takes
the installed set, first of the UI plugins alone and then of everything;
`Resolved` publishes a batch of dependency queries, each package's two answered
on their own. `PlanInput` is what `planInput` (`PackageCoordinator.cpp:528-559`)
makes of them at any time. `Compose` is `performUninstallApp` (450-480).
`Request` is `package_manager` taking a batch, this one or one picked in
`package_manager_ui` or the settings, and announcing it with the dependents it
finds on its own disk. `Explain` is `buildPlanPayload` (593-656): the batch is
the announced one, what is kept comes from a second pass over the caches of that
moment, and the dependents are the announced ones without the batch, or those of
the second pass when none were announced (629-635). `Install` and `Remove` are
other clients. The planner knows packages by the names of their artifacts; a
module with another name is found by none of its lookups, and `uninstallApp` for
it is ignored.

`Coherent` says what the caches hold when one refresh has filled them all: the
forward closures are transitive and the reverse closures are their inverse. The
two properties about the composition suppose it where the caches' agreement is
what they rest on; the others do not.

### `PackageGate`, `PackageConsent`

Three actors. The coordinator's handlers are one action each: `HandleBefore`
(the `onBefore*` handlers up to the ack), `HandleAckOk` and `HandleRefusal`
(their callbacks), `UninstallApp`, `DependencyDataReady`, `UninstallModule`,
`ConfirmPlan`, `CancelPlan`, `CancelSpinner`, `AnswerUpgrade`,
`AnswerInstallGate` and `RunPosted` (the queued half of
`confirmUninstallCascade`). `package_manager` is outside this repository: its
slot, its 3 s ack timer and the rules of the slot are modelled from how the
coordinator and its comments use them (names beginning with `Pm`), and marked
external. `package_manager_ui` is another client of it (`Pmu...`). Calls and
answers are two FIFO channels. `GuiCrash` kills Basecamp with all that lives in
its process; `package_manager` keeps its slot and still receives the calls that
had left, but their answers go nowhere.

The dialogs are state: what is on screen decides which answers the user can
give, and the overlay is modal (`OverlayDialogs.qml:35-41`), so no click
elsewhere happens while one is open. The plan's rows are left to
`UninstallPlan`: here a batch is any set with the app in it. `main_ui`, which
the handlers refuse to touch, is simply not among `Package`.

`PackageConsent` is the abstract promise: ask, grant, refuse, perform, copy, and
the loss of everything unanswered when Basecamp dies. `PackageGate` maps the
questions on screen to `asked` and the confirmations queued or under way to
`granted`.

### `PluginLifecycle`

A load is a job with a stage (`PluginLoader`): dependencies one at a time, each
in a nested event loop, then a thread (C++ plugins), a ui-host process (QML with
a backend) or the compiler; each way out that fails is `Fail`. Clicks are posted
to the event loop (`posted`) and run by `RunPosted`. Which loaded packages a
module has under it is asked of the coordinator's cache, `dependents`: empty
until `DependencyDataRefreshed` fills it, each package's entry as `package_manager`
knew it at some moment (`Scans` bounds what was installed by then), and filled
again at any time. An unload with no loaded dependents in the cache, a confirmed
cascade, the load of a core module and the teardown before a removal each call
into liblogos, and while such a call lasts everything else goes on: `calls` is
the stack of those under way, `BeginCall` pushes one with the dependents as they
were listed then, and only the innermost gets on (`RunCall`). A cascade tells
apart the moment the core modules stop (`CallUnloadsAll`, or `CallFails` half way)
from the one its widgets go (`CallReturns`), since the event loop runs in between
(`UIPluginManager.cpp:622-644`). liblogos works from its own graph, which is the
true one. `CascadeUnloadForPackage` is the teardown that `PackageGate` performs
before a removal, and `CancelPackageDialog` what the Cancel of one of its dialogs
does here: `MainUIBackend` gives every Cancel to both managers (299-302).

`mounted` stands for the four maps of `UIPluginManager` that always change
together, and names the job a widget came from, so that its ui-host can be told
from another's. `excused` is history: the packages that lost a dependency in a
way the code accepts or cannot know of, that is what a failed cascade left, what
was loading, and what is not among the dependents that the unload listed.
`Leaving` is what a cascade has listed and is about to tear down.

### `InstallPipeline`

Up to `MaxSessions` catalog installs. A session downloads its closure, skips the
rows the caches show at the wanted version, then removes and installs the rest
row by row; the first failure ends it. The registry has a stage and an owner
(`startedByTopLevel`) per package. `package_manager` handles its calls in order.
Any call may blow its deadline (`Deadline`): the callback sees a failure, the
work is still done and its answer is dropped. A scan has only the default 20 s
and is called late only when an install (up to 5 min) is ahead of it. Every
change on disk schedules the two-step rescan: `UiScanned` (the type map is
rebuilt from the UI plugins) and `Scanned` (all caches). `alone` is history: no
other session, call or rescan has been under way since the session began, and
the caches claimed nothing then that was not on disk (`Honest`). An
app's closure is a list that names each package once.

A root hash is taken to be one with its version, so the skip test
(`PackageCoordinator.cpp:2034-2042`) is one comparison.

### `AppRows`, `PackageRefresh`

`AppRows` is `AppsModel.cpp` on functions from (repository, name) to a row.
`InstallStatus` is `computeInstallStatus`, which looks at the rows a row depends
on; the other operators are the model's setters, each with the recomputation the
code ends it with.

`PackageRefresh` is the refresh chain around it: `StartSetup` and
`Subscribe` for the subscription to `package_manager`'s events, the answers of `getInstalledUiPlugins` and `getInstalledPackages`, one dependency
query per installed package (`batches` are the joins of the callbacks in
`refreshDependencyInfo`), `TryFetchCatalog` with its retries and the loading
overlay, the list of repositories with its counter, and the seeding of the
maintained one. Chains overlap freely and carry no number. The services are two
FIFO channels each; a service stops answering when `MaxAnswers` of its answers
wait, which only delays it. `disk`, `served` and `repos` are the truth the rows
are to follow, moved by installs, withdrawals and repository changes, up to
`MaxMoves`. A repository's catalog is assumed to list a package once, with a
version and a hash that are not empty: `AppsModel` keys its rows so.

An artifact has a name of its own, and its module may be called otherwise
(`PackageCoordinator.cpp:1483-1492`). `Renamed` are those packages. A package
stands for its module's name here, which keys rows, versions and hashes; what is
keyed by the artifact's name is looked up through `FoundByRows`: the rows of a
renamed package find no missing dependencies (1549-1550, 1289-1291), its hash is
not among those the UI scan adds (1159-1167), and the fallback of
`populateAppsModel` has no version of it.

`blind` is history: what nothing asks for any more although it was
missed, so that the properties about catching up say where they do not hold.

### `CatalogPlan`, `AddApplication`

`CatalogPlan` is `CatalogResolution.cpp`: `BuildPlan` (the closure of an app
within its repository, with the user's pins), `ComputeDepChanges` and
`Validated`. `AddApplication` is the dialog: opening an app's tile
(with the fast launch of what is installed), resolving with an epoch per name,
picking versions, closing and opening again, also from another repository,
confirming, and the end of an
install with its clear timer. What the dialog
shows is computed as the code does it: rows of `AppsModel`, an overlay of the
planned changes, and the required-packages filter. The rows of an install are
`InstallPipeline`'s; here they land together. Overdue calls are answered with an
empty list. A package in a catalog has at least one release, the newest first.
Three variables are history. `asked` is the user's last request. `crossed` says
that at that moment an install of the app was under way that had begun
otherwise, or that the resolved changes kept for an install were from elsewhere.
`replaced` says that a catalog refresh has brought the app another row since the
dialog was opened; only `ResolutionEnds` makes an exception of it.

### `ScopedRelay`

Calls to the core service run on the GUI thread and each call into the runtime
spins an event loop; so calls nest, and `stack` holds those that wait, the
newest returning first. Load, unload, subscribe, the events of the instances and
the creation and destruction of the main widget (which starts and stops the
service) happen in any loop. Two tables must agree: `subs` of the relay and
`held` of `CoreModuleManager`. `promise` is history: what the callers of
subscribe were told. `crossed` is history: instances with two overlapping calls
about them.

### `Workspace`

`Mount`, `ActivateApp`, `Unmount` follow the signals of `UIPluginManager`;
`AddPluginDock`, `RemovePluginDock`, `EnsurePhantomTab` and `RunToggle` are
`WorkspaceArea`'s, the last in a later turn than its key press. Widgets are
addresses that may be used again, because `m_pmuiWidget` and `m_firstDock` are
plain pointers. Titles are taken to be one to one with plugins.

### Conventions

A definition `A_X` is the definition `A` with the plausible bug X. No
specification uses it: it exists to show that the property it is meant for
would notice. The `MC...` modules give the constants their values. A constant
called `Patient...` tells whether clients or users wait for an answer before
they ask again about the same thing, and `ManagerStays` whether
`package_manager_ui` is left loaded; FALSE allows all that the code allows, and
section 4 says what then happens. Variables marked *history* only serve the
properties: no guard of the code's own steps reads them.

## 3. The runs

| Run | Question | Properties |
|---|---|---|
| `uninstall_plan` | every dependency graph over four packages, one of which may be embedded and one of which is `main_ui`; over the three others, an install, an upgrade or a removal at any moment and every lag of the caches behind it | `BreaksOnlyListed`, `NothingUselessStays`, `BreakageIsShown` |
| `uninstall_orphans` | is an orphan really "wanted by nobody else"? **No** | `OrphanWantedByNobodyElse` |
| `package_gate` | all orders of three requests, one crash and one launch | `SlotHasAnOwner`, `AskedIsLive`, `PendingIsAnswerable`, `PendingNotOverwritten`, `RemovedWasTornDown` |
| `package_gate_live` | two requests and a crash, under fairness | `RequestIsAnswered`, `ImplementsConsent` |
| `plugin_lifecycle` | two loads and four clicks over two core modules and two widgets, with calls into liblogos nested and a cache that lags | `OneWidgetPerPlugin`, `HostsAreOwned`, `PendingUnloadIsAsked`, `NothingStrandedSilently`, `LoadSettles` |
| `unload_double_click` | is the cascade dialog ever bypassed? **Yes**, by a second click | `NothingStrandedSilently` |
| `install_pipeline` | two sessions sharing a library that has two versions | `SessionsAreRegistered`, `ReportedIsOnDisk`, `EntriesDrain`, `CachesConverge` |
| `package_refresh` | an app, a library whose module has another name than its artifact and an embedded package, two repositories, one of which withdraws an app; two moves, or one while the downloader connects late | `StatusIsFresh`, `RowsCatchUp`, `RepositoriesCatchUp`, `LoadingEnds`, `SetupCompletes` |
| `add_application` | two apps and a library, one app in two repositories; four clicks, a change of the catalog, late and overdue answers | `ShowsWhatWasAsked`, `EndIsShown`, `SuccessIsComplete`, `ResolutionEnds` |
| `scoped_relay` | two instances, seven nested calls, three processes, two main widgets | `PromisedIsRelayed`, `OnlyWantedIsRelayed` |
| `workspace` | three apps and the package manager's pane, five addresses, two queued toggles | `WidgetsAreShown` |
| `manager_reload` | is the Package Manager section always shown? **No**, once its plugin was unloaded | `SectionIsShown` |

Each passing run but `package_gate_live` also checks its module's `TypeOK`.

### Why the bounds are enough

* Four packages make every shape the planner distinguishes: a target, a shared
  dependency, an embedded one and a protected one, on and off cycles. The disk
  changes once, before or after any step of the request: two disks are the least
  for two answers that disagree, and more would only let answers disagree about
  more packages. What is installed meanwhile is an app with or without its
  dependency, or the dependency (`MCReleases`); what others request is one
  package or all they may (`MCSelections`). Graphs in which the embedded package
  is there are taken with a disk that stands still.
* `package_manager` has one slot, so two requests are the least that can
  compete; three let a third one find what the first two left behind. One crash
  at any point leaves every kind of debris a second one could. One core module
  and one widget that needs it are all the teardown distinguishes: the package,
  its core dependents, its widgets.
* Two core modules on top of each other and two widgets, one with a ui-host and
  one from a library, cover all the loader's stages; two loads let a plugin be
  loaded, unloaded and loaded again, or two plugins at once; four clicks are two
  loads of core modules or widgets and two unloads, or a removal, of what they
  loaded, each of which may run inside the call of another. The cache has been
  filled from a disk with or without the one plugin (`MCScans`).
* Two sessions share the library, or are for one app in succession. The library
  has two versions, one of them on disk, so that a row can be skipped, replaced
  or downgraded. One scan under way at a time (`MaxScans`): rescans beyond it
  wait in `rescans`. Overlapping scans are `PackageRefresh`'s.
* An app with a library is the least for a status that depends on another row;
  two repositories are the least for two rows of one name, and the maintained
  one must be told from another. Two moves during one chain put two snapshots
  under way at once, the case the missing chain number is about. One poll of
  ten shows both ends of the retry budget. The embedded package stands for those
  Basecamp ships with: no catalog lists it and nothing removes it, so the scans
  always find something (`SomethingEmbedded`). The library is the renamed
  package and needs the app in one of its releases, so a row of each kind has
  something to miss.
* Four clicks are: open, pick or confirm, close or reopen elsewhere, and one
  more. One app needs the other and, through it, the library, so the closure
  has two steps. The other app is in both repositories. `home` can withdraw the
  app and the library in between: a plan becomes broken, a row vanishes under
  its dialog, and what is installed is left without a repository.
* Two instances tell "this one's" from "another's"; three processes let one
  instance be loaded again; seven calls are a subscribe, an unload and a load
  for each, and one more to nest.
* Three docks are the least in which removing the first, the middle and the
  last differ, both layouts included; one more address than plugins lets one be
  free for reuse at any time.

Deadlock is not checked where the bounds are used up: the system then stops
because the model does.

### Fairness

Both processes keep turning, so taken calls and answers are handled, queued
closures run and timers fire (`WF` on those actions). `PluginLifecycle` needs
this of its loads only, one `WF` per load: an unload, a queued click or somebody
else's call into liblogos may take for ever. Nothing is assumed of the
user, of `package_manager_ui`, of crashes, of a first scan completing
(`DependencyDataReady`), of a ui-host becoming ready (its 30 s timer is what
ends the wait), or of a deadline being blown. A download answers or blows its
five minutes (`DownloadAnswered`), calls into liblogos return. `PackageRefresh`
and `AddApplication` assume the same of their timers, and that a service takes
the next call and the GUI the next answer; an answer that never came would be
one the deadline of the IPC call ends. `ScopedRelay` and `Workspace` have safety
properties only and no fairness.

## 4. What the runs found

1. **Orphans that something kept still needs** (`uninstall_orphans`,
   `UninstallPlan.cpp:87`). Survivors' roots are only the packages *outside* the
   closure. A closure member that is kept because it is embedded or protected is
   no root, so what only it still needs is swept. The comment at 82-83 promises
   "wanted by nobody else".
2. **A second Unload click skips the dialog** (`unload_double_click`,
   `UIPluginManager.cpp:517`). Unload clicks are queued. The first one opens the
   dialog and sets `m_pendingUnload`; the second one, already queued, finds the
   slot set to its own module, takes itself for the confirmed re-entry and
   unloads at once. The confirmed path clears the slot before it comes back
   (620), so nothing needs the exemption.
3. **The Package Manager section stays empty** (`manager_reload`,
   `MainContainer.cpp:373`). `m_pmuiWidget` is set once (109) and never cleared.
   When `package_manager_ui` is unloaded (from the module inspector, by the
   unload cascade of `package_manager`, by the teardown before its own upgrade)
   its widget is deleted and the stack loses the page. Selecting the section
   afterwards does not load it, because the pointer is still set, and shows
   whatever page was on screen. The comment at 367 promises the preloaded
   plugin. A reload by other means puts the plugin into a dock; another plugin
   whose widget comes to lie at the old address is taken for the pane and its
   dock is not removed (401-406); and
   `onPackageManagerUiRefreshRequested` (415-417) casts the dangling pointer.

### Met while modelling, without a run

These are visible in the models' assumptions or history variables, which is why
the properties leave them out.

* **Dependents the cache does not know** (`UIPluginManager.cpp:786-791`). Who
  needs a module is asked of the coordinator's cache, which is empty before the
  first `refreshDependencyInfo` has come back and does not know a plugin that was
  installed since the last. An unload then finds no dependents, asks nothing and
  leaves the plugin on top of nothing, which the comment at 510-513 means to
  prevent. `NothingStrandedSilently` is about what the cache knew when the unload
  was decided (`excused`).
* **Dependents made up from stale caches** (`PackageCoordinator.cpp:629-635`). An
  announcement with no dependents cannot be told from one that did not carry
  any, so the planner's list is shown instead; caches that lag may then name
  packages that are gone or need the batch no longer. `BreakageIsShown` is about
  what is missing from the list, not about what is too much. The reasons and
  the list of what is kept always come from the caches.
* **A package with two names** (1478-1492, 1549-1550). Versions, hashes and rows
  go by the module's name, missing dependencies, types and dependents by the
  artifact's. `setMissingDeps` finds no row under the artifact's name, so a
  renamed package with a missing dependency shows none; and `uninstallApp`, given
  the row's name, finds it neither installed nor a target and ignores the click.
  That both names occur is what `tests/apps_model_test.cpp`
  (`mergeLocalOnly_uses_runtime_module_identity`) tests. `RowsCatchUp` says what
  the code does: such a row shows nothing missing.
* **A batch's label** (`PackageCoordinator.cpp:1019`). `m_lastRequestedTargets`
  is cleared only by an event that is heard. A batch of the App Manager that the
  reset of the subscription drops unheard (219-220) leaves it set, and a later
  batch of `package_manager_ui` that contains the app is labelled as the App
  Manager's, contrary to the comment at 1012-1014.
* **A late ack** (1000) carries only a name: if the request it is for timed out
  and another about the same package has the slot, it claims that one. This
  takes a client that asks again within the round trip (`PatientClients`).
* **A scan that timed out** (1511) is taken for an empty disk. If the install it
  waited behind then fails, nothing scans again. `CachesConverge` speaks of
  scans that were not abandoned.
* **A set-up that is abandoned** (140-145) because `package_manager` drops out
  while it is subscribed to is not taken up again: `m_packageManagerSetupStarted`
  stays set, contrary to the comment at 42-45. Nor does anything refresh the
  catalog when `package_manager` or the downloader come late and no event
  follows (`blind`).
* **The dialog** (1961-2265): Install clicked again within 1.5 s or 2.5 s of an
  ended install is ignored (1969) but shows as under way for good; a dialog
  opened on an app that is a row of somebody else's install hears no end of it;
  one whose resolution went away during the install stays busy, since
  `setOpStage` tells nobody of a stage that is already there (1736); reopening
  from another repository during an install mixes the rows of both, contrary to
  the comment at 1920-1922.
* **An entry taken over** (2044, 2071): the registry is keyed by name, so an
  install that has an app among its rows sets the stage of the entry of that
  app's own install. The app then looks under way when it is not, or the other
  way round, and reopening it from another repository mixes the rows of both
  (`crossed`; an attempt to prove `ShowsWhatWasAsked` without it showed this).
* **A row replaced under its dialog** (`AppsModel.cpp:248-330`): a catalog
  refresh that gives the app a new row, or takes it away and brings it back,
  drops the row's overlay, and nothing resolves again for the open dialog
  (`replaced`).
* **An empty disk** (1270-1272). `populateAppsModel` takes an empty
  `m_installedVersionByName` for one that was not filled yet and marks what its
  own chain's UI scan saw, which may be older than the scan that filled the
  cache. With nothing embedded, a UI plugin that is removed between the two
  stays marked as installed for good (a trace of twenty steps; the attempt to
  prove `RowsCatchUp` led to it). Basecamp ships embedded packages, which the
  scan lists, so the theorem and the run have one.
* **Caches that claim too much** (2221): a finished row writes its version into
  the caches. If the rescan behind it and the next one are both abandoned at
  their deadline while an older install's answer is still waiting, the caches go
  on claiming a version that is not on disk, and a later install skips its row.
  So `ReportedIsOnDisk` speaks of installs that began with honest caches.
* **Overlapping calls of the relay**: an unload that runs while a subscribe
  waits for the instance's object (`CoreModuleManager.cpp:323`) leaves an entry
  that makes later subscribes answer ok without events; a second subscribe that
  overlaps the first is told it is subscribed already although the first then
  fails, or ends up with events twice (`crossed`).
* **One Cancel, two actions** (`MainUIBackend.cpp:299`). The comment (295-297)
  has a pending action live in one of the two managers "but not both". A removal
  asked for in `package_manager_ui` takes a round trip before its dialog opens;
  an Unload of the same module clicked meanwhile opens the other dialog. Cancel
  in either then cancels both, and Continue in the one that is left is ignored.
  `CancelPackageDialog` shows that nothing is stranded by it on the side of
  `UIPluginManager`; `PackageGate` has no unload dialog, so `PendingIsAnswerable`
  speaks of a screen without one.
* **Tabs with one title** (`WorkspaceArea.cpp:494`): with two apps of one display
  name, closing one tab closes the other app.

Not findings, but visible in the properties: a package can be relaunched between
its teardown and its removal (`relaunched`), a core process may survive a
failed cascade before its removal (`RemovedWasTornDown` speaks of widgets only,
because the code goes on at 691-694), and with two sessions sharing a package a
success may be reported over a version the other one is just replacing
(`ReportedIsOnDisk` is about sessions that ran alone).

## 5. What is proved

Each specification but the abstract one has a module of proofs, named after it:
`UninstallRequestProofs`, `PackageGateProofs`, `PluginLifecycleProofs`,
`InstallPipelineProofs`, `PackageRefreshProofs`, `AddApplicationProofs`,
`ScopedRelayProofs`, `WorkspaceProofs`. `tlapm` checks them without any
assumption but those named in the modules (`...Assumption`). Every invariant
that a passing run checks is a theorem; some are so only for patient clients or
users, one only where something is embedded, as said below.

**A request, for any packages, graphs and number of changes of the disk.** The
planner's part is set algebra over one input. `NothingElseBreaks`: a package that
loses something is outside the closure, hence a survivors' root, hence protects
it (`RootsKeepTheirs`); or it is in the closure, hence swept, kept, or on a
cycle. This needs the input's caches to agree, which the property says.
`NothingStranded` and `TypeCorrect` do not: whatever the caches hold, `asked` is
the composition of `in` and `in` has the shape of an input (`PlanInv`). For
`BreakageShown` the invariant also carries what the announcement listed on the
disk it was made from, `past[gate.at]`, which later changes leave in place
(`AppendKeeps`), and that the dialog lists at least that (`PayloadLists`): so a
package that breaks now and has the dependencies it had then is listed, however
old the caches of either pass are.

**The gate, for any packages, dependents and bounds.** `TypeCorrect` is the
shape of slots, channels and dialogs. `TornDownFirst` (`RemovedWasTornDown`)
needs a stronger invariant, `TeardownInv`: a package whose removal has been
confirmed, the call being under way to `package_manager`, has no widget loaded
unless it was launched since its teardown. Confirmations get onto the channel only after the cascade
(`CascadeTearsDown`), nothing but `Launch` loads a package, and `Launch` records
it in `relaunched`; a crash unloads everything.

**Who decides, for any packages and bounds, when requests about a package do not
overlap** (`PatientClients`; the assumption stands in the theorems, and
the end of section 4 says why it is needed). `GateInv` says that the right to decide about the acked slot
is a token with one holder (`OnePlace`): the answer to the ack, the question, the
queued confirmation, or the call back; that it is about the request in the slot
(`TokensHold`); and that an acked slot of a session that is not about to reset it
has one (`Owned`). An ack carries a package name and nothing else, so the token
is for the right request only because no two unsettled requests name one package
(`OneRequest`). A crash is where it gets delicate: calls of the dead session are
still handled, so the order of the channel matters (`PmOrder`: no decision
behind a reset, no live call but requests ahead of one) and each session starts
with a reset behind all that the last one left (`Sessions`). From it follow
`SlotOwned`, `QuestionLive`, `AnswerNotDropped`, `OneAtATime`, and `ConsentKept`:
initial states and steps of the gate are initial states, steps or stutters of
`PackageConsent`.

**Installs, for any packages, catalogs and number of sessions.** `IInv` is the
shape of everything (`Shapes`) and, for each session, that it is well formed,
that its app's registry entry is its own (`Registered`), and that there is at
most one call or answer of it under way and that it is about the row the session
waits for (`TokenIn`): so an answer is never taken for another row's.
`TypeCorrect` and `SessionsRegistered` follow. `ReportedOnDisk` adds what a
session that is alone can count on: nobody else has a step to take
(`Undisturbed`), and of its closure everything but the rows left is on disk
(`DoneOnDisk`).

**Refresh and repositories, for any packages, repositories and number of
overlapping chains.** `IInv` has four parts: the world is what the assumptions
allow (`WorldOk`); each row's status is the one its own data give (`RowsInv`);
each dependency query under way, or its answer, is expected by a batch (`PmOk`);
and the loading counter is the number of list calls and answers under way, a
seeding has its message under way, and somebody knows the right list (`DlOk`).
That somebody (`Known`) is a list call or a change event still to be handled, or
else the last answer under way, or else the list shown. From it follow
`TypeCorrect`, `FreshStatuses` and `RepositoriesFollow`.

**The rows, where something is embedded** (`RowsFollow`, for `RowsCatchUp`).
`CInv` is `Known` again, with chains of calls for the single call and rows that
are pieced together from several answers. While nothing is missed for good
(`Up`), one of three is true of the disk (`DiskOk`): a scan of it is still to
be made (`DiskAsked`); or its answer, of the disk as it is now, is under way
with nothing older behind it (`ScanComing`); or caches and rows show it, and
the youngest batch of dependency queries has, or will get, the right closure of
each package (`DiskShown`). Of the catalog likewise (`CatalogOk`):
`CatalogAsked`, `CatalogComing`, `CatalogShown`. The two go separately because
either kind of answer rewrites the rows: an older catalog does not disturb
`DiskShown`, since `populateAppsModel` marks the rows anew from the caches, and
an older scan does not disturb `CatalogShown`, since the installed set touches
no build of a catalog row. `LocalRows` says which rows without a repository
there are, from the scan that was taken last. That the youngest batch is the
right one needs `Expect`: the batches share the queries under way in order,
each waiting for at least one, so an older batch is over before the next gets
an answer, and with none under way no batch waits.

**The dialog, for any apps, repositories and catalogs.** `PlanIsTheClosure` says
that what `BuildPlan` collects in as many rounds as there are packages is closed
under the manifests, and is the least such set with the app in it. A round
either adds something or changes nothing; that there are enough rounds is an
argument by the least counterexample, since the subsets of a finite set are well
founded under strict inclusion (`Least`). `IInv` is the shape of everything,
that an install keeps its registry entry and that its rows suffice for what it
needs (`Installs`), that the calls under way fit what they were made for
(`DownloadsFit`, `ResolvesFit`: an epoch that is current belongs to the user's
last request), and that dialog, resolved changes and install agree with that
request unless it was crossed (`AskedFits`). Together with `Chosen`, that the
dialog's app has a repository, it gives `TypeCorrect` and `AskedIsShown`;
`EndShown` and `CompleteOnSuccess` are about the steps that end an install.

**The relay, for any instances, nesting and number of calls.** `TypeCorrect`
needs `StartBelow`: while the capability module's answer is awaited, its call is
the oldest on the stack, so a stop in that handler leaves no call behind a
service that is gone. `PromiseKept` and `OnlyWantedReach` rest on `RelayInv`:
calls about an instance that has not been crossed do not overlap (`OneCall`), a
waiting subscribe is for the process that runs (`Asking`), and what is held
follows what the caller was told (`Agrees`); a subscription without a promise
never exists (`Wanted`). Nearly every step is one call about one instance, so
`OthersKept` disposes of the other instances once and for all.

**Loads and unloads, for any plugins, modules and depth of nested calls.**
`Books` is inductive: a load under way names one plugin (`JobsFit`), each host
number is handed out once and goes from its load to at most one widget, so a host
that is neither is a host that was stopped (`OneOfEach`, `NoStrayHost`). `Rest`
ties the pending unload to its dialog (`SlotIsAsked`). `NothingStranded` needs
three more facts, and holds for a patient user only: what a load has behind it so
far is running (`Supplied`), unless a call took it meanwhile, which the property
excepts by name; at most one of the queued clicks, the calls under way and the
open dialog is about a given module (`AskedOnce`), so an unload never finds its
question already asked and skips it; and a call that unloads without a cascade
was begun with no dependents listed (`NobodyLeft`), so whom it strands the code
did not know of. Between the two halves of a cascade its listed widgets are
excepted (`Leaving`); when it ends they are gone. `Stopping` is the one argument
behind all the calls that stop a module. `unload_double_click` shows what an
impatient user gets.

**The workspace, for any plugins and any number of queued switches.** That the
dock order lists each dock once, that the anchor exists, and that the phantom
tab, the pinned dock and group dragging go together is inductive as it stands,
on lemmas about appending to and removing from a sequence without repetitions.
`EverythingShown` adds `Places`: the manager's widget is the pane, its page is
in the stack and no two plugins share an address, which is why an address alone
tells a dock from the pane. It holds as long as the manager is never unloaded
(`ManagerStays`); `manager_reload` shows what happens otherwise.

**Only model-checked**: liveness (`RequestIsAnswered`, `LoadSettles`,
`EntriesDrain`, `CachesConverge`, `LoadingEnds`, `SetupCompletes`,
`ResolutionEnds`) and the fairness half of `ImplementsConsent`, which the prover
cannot treat.

## 6. Not modelled, and the plan

Not modelled on purpose: layout, painting, tray and shortcuts' wording, start-up
and logging (straight-line set-up and I/O), the iOS port, URL and path checks of
the QML sandbox (pure decisions on one value), `AppsFilterProxy` and
`ModulesFilterProxy` (pure predicates), shutdown (synchronous, with no event
loop left to interleave with).

What is left, in this order:

1. The unload dialog's Cancel in `PackageGate`: `PackageCoordinator`'s pending
   action dropped under a question that stays on screen.
2. The poll of `refreshApprovedInstallUi` (1182-1210), which keeps no state;
   `ModuleInstanceModel::replaceRows`, a diff of two lists; the statistics poll
   of `CoreModuleManager`; mirrored shortcuts.
