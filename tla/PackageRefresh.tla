--------------------------- MODULE PackageRefresh ---------------------------
(***************************************************************************)
(* How the App Manager follows package_manager's disk and                  *)
(* package_downloader's repositories: the set-up of the subscription, the  *)
(* refresh chain (UI plugins, then all packages, then a dependency query   *)
(* for each, and the catalog beside them), the rows it fills (AppRows),    *)
(* the repository list and the seeding of the maintained repository.       *)
(*                                                                         *)
(* Every call is answered in a callback; chains overlap and carry no       *)
(* number.  Each service answers its calls in the order they were made.    *)
(*                                                                         *)
(* A package has two names, its artifact's and its module's.  It stands    *)
(* here for both: rows and most caches are keyed by the module's name, and *)
(* what is keyed by the artifact's finds the rows of a package only if it  *)
(* is not Renamed.  No artifact has the name of another package's module.  *)
(*                                                                         *)
(* Abstracted: deadlines once subscribed (InstallPipeline); the dependents *)
(* query beside each dependency query; display names; a disabled           *)
(* repository, which is as good as a removed one; the polling after an     *)
(* approved install.                                                       *)
(***************************************************************************)
EXTENDS AppRows, Sequences, SequencesExt

CONSTANTS
  Builds,      \* package -> its builds: records of a version and a root hash
  User,        \* the packages that can be installed; the others are embedded
  Ui,          \* the UI plugins
  Needs,       \* package -> its dependencies, all of them
  Renamed,     \* the packages whose artifact has another name than the module
  Maintained,  \* the maintained repository
  Offers,      \* repository -> the catalogs it may serve, sets of releases
  Retries,     \* bound: 200 ms polls of tryFetchCatalog (10 in the code)
  MaxAnswers,  \* bound: a service waits while so many of its answers are on the way
  MaxLag,      \* bound: the downloader waits while package_manager has more
               \* calls queued
  MaxMoves     \* bound: the user's reloads, installs, repository changes and
               \* unloads, and changes on disk asked for elsewhere

ASSUME PackageRefreshAssumption ==
    /\ IsFiniteSet(Package) /\ User \subseteq Package /\ Ui \subseteq Package
    /\ \A p \in Package :
          Builds[p] \subseteq [version : Nat \ {0}, hash : STRING \ {NoHash}]
    /\ Needs \in [Package -> SUBSET Package] /\ Renamed \subseteq Package
    /\ Maintained \in Repo /\ Local \notin Repo
    /\ \A r \in Repo : \A c \in Offers[r] : \A x \in c :
          /\ x \in [repo : {r}, name : Package, build : Builds[x.name],
                   needs : SUBSET Package]
          /\ \A y \in c : x.name = y.name => x = y
    /\ Retries \in Nat /\ MaxAnswers \in Nat \ {0} /\ MaxLag \in Nat /\ MaxMoves \in Nat

VARIABLES
  disk,       \* package_manager: package -> build, None if absent
  pmLoaded,   \* moduleIsLoaded("package_manager")
  repos,      \* package_downloader: the configured repositories
  served,     \* package_downloader: repository -> the catalog it holds
  toPm, fromPm, toDl, fromDl,   \* calls, answers and events under way
  setup,      \* m_packageManagerSetupStarted, m_packageManagerSubscribed
  dlReady,    \* package_downloader is connected and subscribed to
  rescans,    \* 100 ms timers of package_manager's events
  retries,    \* 200 ms timers of tryFetchCatalog
  batches,    \* refreshDependencyInfo's queries under way
  packages,   \* m_installedPackagesCache
  version, hash,   \* the caches by module name (UiScanned: by artifact name)
  missing,    \* m_missingDepsByModule: by artifact name, whatever it is called
  rows,       \* m_appsModel
  repositories, listing, seeding, appsLoading,   \* members of those names
  moves,      \* how many of them there were; any number may be used up at first
  blind       \* history: "disk", "catalog", "repositories": what nobody asks for
              \* (again) although it was missed

world  == <<disk, pmLoaded, repos, served, blind>>
wires  == <<toPm, fromPm, toDl, fromDl>>
arming == <<setup, dlReady, rescans, retries>>
caches == <<packages, version, hash, missing, batches>>
store  == <<repositories, listing, seeding>>
vars   == <<world, wires, arming, caches, rows, store, appsLoading, moves>>
-----------------------------------------------------------------------------
Disk == {d \in [Package -> (UNION {Builds[p] : p \in Package}) \cup {None}] :
           \A p \in Package : d[p] \in Builds[p] \cup {None}}
OnDisk == {p \in Package : disk[p] # None}
Nothing == [p \in Package |-> None]

\* The dependencies resolveFlatDependencies reports as not installed.
MissingOf(p) == Needs[p] \ OnDisk

\* What the configured repositories offer.
Catalog == UNION {served[r] : r \in repos}

\* What the rows find in a map keyed by artifact names.
FoundByRows(map) == [p \in DOMAIN map \ Renamed |-> map[p]]

Msg(type, body) == [type |-> type, body |-> body]

-----------------------------------------------------------------------------
(* The coordinator: asking.  A definition A_X is A with the plausible bug X; *)
(* it is used only to show that the properties notice.                        *)

\* fetchUiPluginMetadata.
Fetch == /\ toPm' = IF pmLoaded THEN Append(toPm, Msg("uiScan", {})) ELSE toPm
         /\ appsLoading' = (appsLoading /\ pmLoaded)

ListCalls == IF dlReady THEN <<Msg("list", {})>> ELSE <<>>
SeedCalls == IF dlReady /\ ~seeding THEN <<Msg("seedList", {})>> ELSE <<>>

\* refresh, after calls that went out just before: fetchUiPluginMetadata,
\* refreshRepositories, ensureMaintainedRepository.
RefreshAfter(lists) ==
    /\ Fetch
    /\ toDl' = toDl \o lists \o ListCalls \o SeedCalls
    /\ listing' = listing + Len(lists) + Len(ListCalls)
    /\ seeding' = (seeding \/ SeedCalls # <<>>)

\* A repository change sets off several chains at once and counts as two.
Move(n) == moves + n <= MaxMoves /\ moves' = moves + n

\* The user's Reload: the downloader's refreshCatalog, or a local refresh.
RemoteRefresh ==
    /\ Move(1)
    /\ \/ /\ dlReady
          /\ appsLoading' = TRUE
          /\ toDl' = Append(toDl, Msg("refreshCatalog", {}))
          /\ UNCHANGED <<toPm, listing, seeding>>
       \/ ~dlReady /\ RefreshAfter(<<>>)
    /\ UNCHANGED <<world, fromPm, fromDl, arming, caches, rows, repositories>>

\* addRepository and removeRepository.
ChangeRepository(op, r) ==
    /\ Move(2)
    /\ dlReady
    /\ toDl' = Append(toDl, Msg(op, r))
    /\ UNCHANGED <<world, toPm, fromPm, fromDl, arming, caches, rows, store, appsLoading>>

\* One package of the App Manager's own install (InstallPipeline).
InstallPackage(p, build) ==
    /\ Move(1)
    /\ pmLoaded
    /\ toPm' = Append(toPm, Msg("install", [name |-> p, build |-> build]))
    /\ UNCHANGED <<world, fromPm, toDl, fromDl, arming, caches, rows, store, appsLoading>>

\* The 100 ms timer of an installed or uninstalled event.
Rescan ==
    /\ rescans > 0 /\ rescans' = rescans - 1
    /\ Fetch
    /\ UNCHANGED <<world, fromPm, toDl, fromDl, setup, dlReady, retries, caches, rows, store,
                   moves>>

TryFetchCatalog_ForgetsOverlay(found, left, timers) ==
    \/ /\ dlReady
       /\ toDl' = Append(toDl, Msg("getCatalog", found))
       /\ retries' = timers
       /\ UNCHANGED <<appsLoading, blind>>
    \/ /\ ~dlReady
       /\ IF left > 0 THEN retries' = Append(timers, [found |-> found, left |-> left])
                      ELSE retries' = timers
       /\ blind' = IF left > 0 THEN blind ELSE blind \cup {"catalog"}
       /\ UNCHANGED <<toDl, appsLoading>>

\* tryFetchCatalog.  found is what this chain's UI scan saw.
TryFetchCatalog(found, left, timers) ==
    \/ /\ dlReady
       /\ toDl' = Append(toDl, Msg("getCatalog", found))
       /\ retries' = timers
       /\ UNCHANGED <<appsLoading, blind>>
    \/ /\ ~dlReady /\ left > 0
       /\ retries' = Append(timers, [found |-> found, left |-> left])
       /\ UNCHANGED <<toDl, appsLoading, blind>>
    \/ /\ ~dlReady /\ left = 0
       /\ appsLoading' = FALSE
       /\ blind' = blind \cup {"catalog"}
       /\ retries' = timers
       /\ UNCHANGED toDl

RetryCatalog ==
    /\ retries # <<>>
    /\ TryFetchCatalog(Head(retries).found, Head(retries).left - 1, Tail(retries))
    /\ UNCHANGED <<disk, pmLoaded, repos, served, toPm, fromPm, fromDl,
                   setup, dlReady, rescans, caches, rows, store, moves>>

-----------------------------------------------------------------------------
(* The coordinator: package_manager's answers *)

\* getInstalledUiPlugins: only the hashes are kept, by artifact name, then two
\* more questions.
UiScanned(found) ==
    /\ hash' = [p \in Package |->
                  IF found[p] # None /\ p \notin Renamed THEN found[p].hash ELSE hash[p]]
    /\ toPm' = IF pmLoaded THEN Append(toPm, Msg("scan", {})) ELSE toPm
    /\ TryFetchCatalog(found, Retries, retries)
    /\ UNCHANGED <<packages, version, missing, batches, rows>>

Queries(found) ==
    LET Query(p) == Msg("deps", p)
        names == SetToSeq({p \in Package : found[p] # None})
    IN [i \in DOMAIN names |-> Query(names[i])]

\* getInstalledPackages: the caches by module name, the rows, and a question
\* for each package, by its artifact's name.
Scanned(found) ==
    /\ packages' = found
    /\ version' = [p \in Package |-> found[p].version]
    /\ hash' = [p \in Package |-> found[p].hash]
    /\ rows' = ReplaceInstalledSet(MergeLocalOnlyInstalled(rows, found, User),
                                   version', hash')
    /\ \/ /\ Queries(found) = <<>>
          /\ missing' = <<>>
          /\ UNCHANGED <<toPm, batches>>
       \/ /\ Queries(found) # <<>>
          /\ toPm' = toPm \o Queries(found)
          /\ batches' = Append(batches, [left |-> Len(Queries(found)), missing |-> <<>>])
          /\ UNCHANGED missing
    /\ UNCHANGED <<toDl, retries, appsLoading, blind>>

\* resolveFlatDependencies: the last answer of a batch publishes all of it, by
\* artifact name.
DependenciesAnswered(p, absent) ==
    LET all == [x \in DOMAIN batches[1].missing \cup {p} |->
                  IF x = p THEN absent ELSE batches[1].missing[x]]
    IN /\ \/ /\ batches[1].left > 1
             /\ batches' = [batches EXCEPT ![1] = [left |-> @.left - 1, missing |-> all]]
             /\ UNCHANGED <<missing, rows>>
          \/ /\ batches[1].left = 1
             /\ batches' = Tail(batches)
             /\ missing' = all
             /\ rows' = SetMissingDeps(rows, FoundByRows(all))
       /\ UNCHANGED <<packages, version, hash, toPm, toDl, retries, appsLoading, blind>>

\* A row of an install is done.
RowInstalled(p, build) ==
    /\ version' = [version EXCEPT ![p] = build.version]
    /\ hash' = [hash EXCEPT ![p] = build.hash]
    /\ rows' = MarkInstalled(rows, p, build)
    /\ UNCHANGED <<packages, missing, batches, toPm, toDl, retries, appsLoading, blind>>

TakePmAnswer ==
    /\ fromPm # <<>>
    /\ fromPm' = Tail(fromPm)
    /\ LET m == Head(fromPm) IN
         \/ m.type = "uiScan" /\ UiScanned(m.body)
         \/ m.type = "scan" /\ Scanned(m.body)
         \/ m.type = "deps" /\ DependenciesAnswered(m.body.name, m.body.missing)
         \/ m.type = "install" /\ RowInstalled(m.body.name, m.body.build)
    /\ UNCHANGED <<disk, pmLoaded, repos, served, fromDl, setup, dlReady,
                   rescans, store, moves>>

-----------------------------------------------------------------------------
(* The coordinator: package_downloader's answers and its event *)

\* populateAppsModel.  With an empty version cache the chain's own scan counts,
\* which is by artifact name.
PopulateAppsModel(catalog, found) ==
    LET known == IF \A p \in Package : version[p] = 0
                   THEN [p \in Package |-> IF p \in Renamed THEN 0 ELSE found[p].version]
                   ELSE version
        merged == MergeLocalOnlyInstalled(ReplaceCatalog(rows, catalog), packages, User)
        marked == MarkAllInstalled(merged, known, hash)
    IN /\ rows' = EndBulkInstalledUpdate(SetMissingDeps(marked, FoundByRows(missing)))
       /\ appsLoading' = FALSE
       /\ UNCHANGED <<toPm, toDl, store>>

Listed(list) ==
    /\ repositories' = list
    /\ listing' = listing - 1
    /\ UNCHANGED <<rows, appsLoading, toPm, toDl, seeding>>

\* ensureMaintainedRepository, its first answer.
SeedListed(list) ==
    /\ repositories' = list
    /\ seeding' = (Maintained \notin list)
    /\ toDl' = IF seeding' THEN Append(toDl, Msg("seedAdd", Maintained)) ELSE toDl
    /\ UNCHANGED <<rows, appsLoading, toPm, listing>>

SeedAdded_StuckOnError(ok) ==
    /\ seeding' = ~ok
    /\ toDl' = IF ok THEN toDl \o <<Msg("list", {}), Msg("refreshCatalog", {})>> ELSE toDl
    /\ listing' = IF ok THEN listing + 1 ELSE listing
    /\ appsLoading' = (appsLoading \/ ok)
    /\ UNCHANGED <<rows, toPm, repositories>>

\* Its second: refreshRepositories and remoteRefresh if the seed was added.
SeedAdded(ok) ==
    /\ seeding' = FALSE
    /\ toDl' = IF ok THEN toDl \o <<Msg("list", {}), Msg("refreshCatalog", {})>> ELSE toDl
    /\ listing' = IF ok THEN listing + 1 ELSE listing
    /\ appsLoading' = (appsLoading \/ ok)
    /\ UNCHANGED <<rows, toPm, repositories>>

RepositoryChanged_NotCounted(ok) ==
    /\ toDl' = IF ok THEN toDl \o ListCalls ELSE toDl
    /\ UNCHANGED <<rows, appsLoading, toPm, store>>

\* invokeRepositoryMutation.
RepositoryChanged(ok) ==
    /\ toDl' = IF ok THEN toDl \o ListCalls ELSE toDl
    /\ listing' = IF ok THEN listing + 1 ELSE listing
    /\ UNCHANGED <<rows, appsLoading, toPm, repositories, seeding>>

TakeDlAnswer ==
    /\ fromDl # <<>>
    /\ fromDl' = Tail(fromDl)
    /\ LET m == Head(fromDl) IN
         \/ m.type = "getCatalog" /\ PopulateAppsModel(m.body.catalog, m.body.found)
         \/ m.type = "list" /\ Listed(m.body)
         \/ m.type = "seedList" /\ SeedListed(m.body)
         \/ m.type = "seedAdd" /\ SeedAdded(m.body)
         \/ m.type \in {"add", "remove"} /\ RepositoryChanged(m.body)
         \/ m.type = "refreshCatalog" /\ RefreshAfter(<<>>) /\ UNCHANGED <<rows, repositories>>
         \/ m.type = "catalogChanged" /\ RefreshAfter(ListCalls)
                                      /\ UNCHANGED <<rows, repositories>>
    /\ UNCHANGED <<world, fromPm, arming, caches, moves>>

-----------------------------------------------------------------------------
(* The coordinator: subscribing to package_manager *)

StartSetup_ConstructorOnly == FALSE /\ UNCHANGED vars

\* subscribeToPackageInstallationEvents, from the constructor and again on
\* every coreModulesChanged, but only once past its guard.
StartSetup ==
    /\ setup = "none" /\ pmLoaded
    /\ setup' = "waiting"
    /\ UNCHANGED <<world, wires, dlReady, rescans, retries, caches, rows, store, appsLoading,
                   moves>>

\* subscribeToPackageManagerEvents, polled until the replica is there.  It
\* returns for good if package_manager is gone by then.
Subscribe ==
    /\ setup = "waiting"
    /\ setup' = IF pmLoaded THEN "subscribed" ELSE "abandoned"
    /\ UNCHANGED <<world, wires, dlReady, rescans, retries, caches, rows, store, appsLoading,
                   moves>>

-----------------------------------------------------------------------------
(* package_manager, as the coordinator uses it *)

\* Each change on disk is announced.
Announce == IF setup = "subscribed" THEN rescans' = rescans + 1 /\ UNCHANGED blind
                                    ELSE blind' = blind \cup {"disk"} /\ UNCHANGED rescans

PmAnswer ==
    /\ pmLoaded /\ toPm # <<>> /\ Len(fromPm) < MaxAnswers
    /\ toPm' = Tail(toPm)
    /\ LET m == Head(toPm)
           Answer(body) == fromPm' = Append(fromPm, Msg(m.type, body)) IN
         \/ /\ m.type = "uiScan"
            /\ Answer([p \in Package |-> IF p \in Ui THEN disk[p] ELSE None])
            /\ UNCHANGED <<disk, rescans, blind>>
         \/ m.type = "scan" /\ Answer(disk) /\ UNCHANGED <<disk, rescans, blind>>
         \/ /\ m.type = "deps" /\ Answer([name |-> m.body, missing |-> MissingOf(m.body)])
            /\ UNCHANGED <<disk, rescans, blind>>
         \/ /\ m.type = "install"
            /\ disk' = [disk EXCEPT ![m.body.name] = m.body.build]
            /\ Answer(m.body) /\ Announce
    /\ UNCHANGED <<pmLoaded, repos, served, toDl, fromDl, setup, dlReady,
                   retries, caches, rows, store, appsLoading, moves>>

\* An install, upgrade or removal somebody else asked for.
PmChanges(p, build) ==
    /\ Move(1)
    /\ pmLoaded /\ build # disk[p]
    /\ disk' = [disk EXCEPT ![p] = build]
    /\ Announce
    /\ UNCHANGED <<pmLoaded, repos, served, wires, setup, dlReady, retries, caches,
                   rows, store, appsLoading>>

\* The user unloads package_manager before anybody subscribed to it.
PmUnloads ==
    /\ Move(1)
    /\ pmLoaded /\ setup # "subscribed"
    /\ pmLoaded' = FALSE
    /\ blind' = blind \cup {"disk"}
    /\ UNCHANGED <<disk, repos, served, wires, arming, caches, rows, store,
                   appsLoading>>

PmLoads ==
    /\ ~pmLoaded
    /\ pmLoaded' = TRUE
    /\ UNCHANGED <<disk, repos, served, blind, wires, arming, caches, rows,
                   store, appsLoading, moves>>

\* A call to package_manager blows its deadline while it is gone.
PmSilent ==
    /\ ~pmLoaded /\ toPm # <<>> /\ Len(fromPm) < MaxAnswers
    /\ toPm' = Tail(toPm)
    /\ LET m == Head(toPm)
           Answer(body) == fromPm' = Append(fromPm, Msg(m.type, body)) IN
         \/ m.type \in {"uiScan", "scan"} /\ Answer(Nothing)
         \/ m.type = "deps" /\ Answer([name |-> m.body, missing |-> {}])
         \/ m.type = "install" /\ UNCHANGED fromPm
    /\ UNCHANGED <<world, toDl, fromDl, arming, caches, rows, store, appsLoading, moves>>

-----------------------------------------------------------------------------
(* package_downloader, as the coordinator uses it *)

Reply(m, body, changed) ==
    fromDl' = fromDl \o (IF changed THEN <<Msg("catalogChanged", {})>> ELSE <<>>)
                     \o <<Msg(m.type, body)>>

DlAnswer ==
    /\ toDl # <<>> /\ Len(fromDl) < MaxAnswers /\ Len(toPm) <= MaxLag
    /\ toDl' = Tail(toDl)
    /\ LET m == Head(toDl) IN
         \/ m.type \in {"list", "seedList"} /\ Reply(m, repos, FALSE)
            /\ UNCHANGED <<repos, served>>
         \/ /\ m.type = "getCatalog"
            /\ Reply(m, [catalog |-> Catalog, found |-> m.body], FALSE)
            /\ UNCHANGED <<repos, served>>
         \/ /\ m.type = "refreshCatalog"
            /\ served' \in {s \in [Repo -> UNION {Offers[r] : r \in Repo}] :
                              \A r \in Repo : IF r \in repos THEN s[r] \in Offers[r]
                                                             ELSE s[r] = served[r]}
            /\ Reply(m, {}, served' # served)
            /\ UNCHANGED repos
         \/ /\ m.type \in {"add", "seedAdd", "remove"}
            /\ \/ /\ repos' = IF m.type = "remove" THEN repos \ {m.body} ELSE repos \cup {m.body}
                  /\ repos' # repos
                  /\ Reply(m, TRUE, TRUE)
               \/ Reply(m, FALSE, FALSE) /\ UNCHANGED repos
            /\ UNCHANGED served
    /\ UNCHANGED <<disk, pmLoaded, blind, toPm, fromPm, arming, caches, rows,
                   store, appsLoading, moves>>

\* The downloader loads and its event is subscribed to.
DlLoads ==
    /\ ~dlReady
    /\ dlReady' = TRUE
    /\ UNCHANGED <<world, wires, setup, rescans, retries, caches, rows, store, appsLoading,
                   moves>>

-----------------------------------------------------------------------------
Init ==
    /\ disk \in Disk
    /\ \A p \in Package \ User : disk[p] # None
    /\ pmLoaded \in BOOLEAN /\ dlReady \in BOOLEAN
    /\ repos \in SUBSET Repo
    /\ served \in [Repo -> UNION {Offers[r] : r \in Repo}]
    /\ \A r \in Repo : served[r] \in Offers[r]
    /\ setup = IF pmLoaded THEN "waiting" ELSE "none"
    /\ rescans = 0 /\ retries = <<>> /\ batches = <<>>
    /\ packages = Nothing /\ missing = <<>> /\ rows = <<>>
    /\ version = [p \in Package |-> 0] /\ hash = [p \in Package |-> NoHash]
    /\ repositories = {} /\ appsLoading = pmLoaded
    \* The first refresh, from MainUIBackend's constructor.
    /\ toPm = IF pmLoaded THEN <<Msg("uiScan", {})>> ELSE <<>>
    /\ toDl = IF dlReady THEN <<Msg("list", {}), Msg("seedList", {})>> ELSE <<>>
    /\ listing = IF dlReady THEN 1 ELSE 0
    /\ seeding = dlReady
    /\ fromPm = <<>> /\ fromDl = <<>>
    /\ moves \in 0..MaxMoves
    /\ blind = (IF pmLoaded THEN {} ELSE {"disk"}) \cup (IF dlReady THEN {} ELSE {"repositories"})

Next ==
    \/ RemoteRefresh \/ Rescan \/ RetryCatalog \/ TakePmAnswer \/ TakeDlAnswer
    \/ \E op \in {"add", "remove"}, r \in Repo : ChangeRepository(op, r)
    \/ \E p \in User : \E build \in Builds[p] : InstallPackage(p, build)
    \/ StartSetup \/ Subscribe
    \/ PmAnswer \/ PmUnloads \/ PmLoads \/ PmSilent
    \/ \E p \in User : \E build \in Builds[p] \cup {None} : PmChanges(p, build)
    \/ DlAnswer \/ DlLoads

\* Only TakePmAnswer takes from fromPm, and so on: fairness of that step,
\* stated by what it does to the wire.
Takes(wire) == wire # <<>> /\ wire' = Tail(wire)

\* Timers fire, callbacks run and both services answer, package_manager at
\* its deadline if it is gone.  Users and loads are not fair.
Fairness ==
    /\ WF_vars(Rescan) /\ WF_vars(RetryCatalog)
    /\ WF_vars(StartSetup) /\ WF_vars(Subscribe)
    /\ WF_fromPm(Takes(fromPm)) /\ WF_fromDl(Takes(fromDl))
    /\ WF_toPm(Len(fromPm) < MaxAnswers /\ Takes(toPm))
    /\ WF_toDl(Len(fromDl) < MaxAnswers /\ Len(toPm) <= MaxLag /\ Takes(toDl))

Spec == Init /\ [][Next]_vars /\ Fairness
-----------------------------------------------------------------------------
(* Properties *)

Statuses == {"notInstalled", "installed", "upgrade", "downgrade", "differentHash"}

\* Shapes, and the counters count what is under way.
TypeOK ==
    /\ disk \in Disk /\ packages \in Disk
    /\ repos \in SUBSET Repo /\ repositories \in SUBSET Repo
    /\ setup \in {"none", "waiting", "subscribed", "abandoned"}
    /\ DOMAIN rows \subseteq Key /\ \A k \in DOMAIN rows : rows[k].status \in Statuses
    /\ DOMAIN missing \subseteq Package
    /\ version \in [Package -> Nat] /\ rescans \in Nat
    /\ listing = Cardinality({i \in DOMAIN toDl : toDl[i].type = "list"})
                   + Cardinality({i \in DOMAIN fromDl : fromDl[i].type = "list"})

\* Whatever was changed last, a catalog, an installed package or a missing
\* dependency, of the row or of a package it depends on: no row shows a
\* status that recomputing it would change.
StatusIsFresh == \A k \in DOMAIN rows : rows[k].status = InstallStatus(rows, k)

Idle == /\ toPm = <<>> /\ fromPm = <<>> /\ toDl = <<>> /\ fromDl = <<>>
        /\ rescans = 0 /\ retries = <<>> /\ dlReady

\* The rows there should be, and what they should say.  A renamed package has
\* no missing dependency to show: they are looked up by the artifact's name.
RowsAgree ==
    /\ DOMAIN rows = {KeyOf(x) : x \in Catalog}
                        \cup {<<Local, p>> : p \in (OnDisk \cap User) \ {x.name : x \in Catalog}}
    /\ \A x \in Catalog : rows[KeyOf(x)].build = x.build /\ rows[KeyOf(x)].needs = x.needs
    /\ \A k \in DOMAIN rows :
          /\ rows[k].installed = disk[NameOf(k)]
          /\ NameOf(k) \in OnDisk \ Renamed => rows[k].missing = MissingOf(NameOf(k))
          /\ NameOf(k) \in Renamed => rows[k].missing = {}

\* What keeps the version cache from being empty after the first scan: an
\* embedded package.  Without one populateAppsModel may take the cache of an
\* empty disk for one not filled yet, and show a package as installed that its
\* chain's UI scan saw before it was removed.
SomethingEmbedded == User # Package

\* However the chains overlapped, once nothing is under way the tiles show
\* the disk, the catalog that is served, and the dependencies missing on the
\* disk of the packages whose artifact bears the module's name (where
\* something is embedded).
RowsCatchUp == Idle /\ blind \subseteq {"repositories"} => RowsAgree

\* And the repository list is the downloader's; seeding has ended.
RepositoriesCatchUp ==
    Idle /\ "repositories" \notin blind => repositories = repos /\ ~seeding /\ listing = 0

\* The loading overlay of the App Manager and the repository spinner go away,
\* with package_manager unloaded or the downloader never connected as well.
LoadingEnds == /\ appsLoading ~> ~appsLoading
               /\ (listing > 0) ~> (listing = 0)

\* Once package_manager is loaded its events get subscribed to, unless it is
\* unloaded again during the set-up.
SetupCompletes == pmLoaded ~> (setup \in {"subscribed", "abandoned"} \/ ~pmLoaded)
=============================================================================
