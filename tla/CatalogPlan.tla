---------------------------- MODULE CatalogPlan ----------------------------
(***************************************************************************)
(* CatalogResolution: which packages an app of a repository needs, all of  *)
(* them from that repository, and whether package_downloader's answer      *)
(* covers exactly those; and the changes the Add Application dialog shows. *)
(*                                                                         *)
(* A definition A_X is A with the plausible bug X; it is used only to show *)
(* that the properties notice.                                             *)
(*                                                                         *)
(* Abstracted: the wording of errors, beyond whether there is one; root    *)
(* hashes (a reinstall counts as a change); descriptions and the lists of  *)
(* versions shown with each change; unnamed packages.                      *)
(***************************************************************************)
EXTENDS Naturals, Sequences, FiniteSets, Functions

CONSTANTS
  Package,     \* module names
  Repo         \* repository URLs

ASSUME CatalogPlanAssumption == IsFiniteSet(Package)

Local == "local"    \* the empty repository URL
Any == 0            \* no version asked for, none installed
NoPins == [p \in Package |-> Any]

\* A catalog maps <<repo, name>> to a release's manifests, the newest first.
\* manifestForVersion, the place of the manifest; 0 if there is none.
ManifestFor(manifests, requested) ==
    LET fits == {i \in DOMAIN manifests : requested \in {Any, manifests[i].version}}
    IN IF fits = {} THEN 0 ELSE CHOOSE i \in fits : \A j \in fits : i <= j

Available(catalog, repo, p, pins) ==
    <<repo, p>> \in DOMAIN catalog /\ ManifestFor(catalog[<<repo, p>>], pins[p]) # 0

\* What the queue gets from p.  A package that is not available ends the
\* search with an error.
NeedsOf(catalog, repo, p, pins) ==
    IF Available(catalog, repo, p, pins)
      THEN catalog[<<repo, p>>][ManifestFor(catalog[<<repo, p>>], pins[p])].needs ELSE {}

\* The packages the queue has held after n rounds.
Visited(name, repo, pins, catalog) ==
    LET visited[n \in 0..Cardinality(Package)] ==
          IF n = 0 THEN {name}
                   ELSE visited[n-1]
                          \cup UNION {NeedsOf(catalog, repo, p, pins) : p \in visited[n-1]}
    IN visited[Cardinality(Package)]

\* What that should be: the least set that holds name and all its packages need.
Closure(name, repo, pins, catalog) ==
    CHOOSE S \in SUBSET Package :
       LET Closed(T) == name \in T /\ \A p \in T : NeedsOf(catalog, repo, p, pins) \subseteq T
       IN Closed(S) /\ \A T \in SUBSET S : Closed(T) => T = S

NoPlan == [valid |-> FALSE, names |-> {}]

BuildPlan_DirectOnly(name, repo, pins, catalog) ==
    LET names == {name} \cup NeedsOf(catalog, repo, name, pins)
    IN IF /\ repo # Local
          /\ \A p \in names : Available(catalog, repo, p, pins)
          /\ \A p \in Package : pins[p] # Any => p \in names
         THEN [valid |-> TRUE, names |-> names] ELSE NoPlan

\* buildPlan: every package of the closure from the one repository, and no
\* pin outside it.
BuildPlan(name, repo, pins, catalog) ==
    LET names == Visited(name, repo, pins, catalog)
    IN IF /\ repo # Local
          /\ \A p \in names : Available(catalog, repo, p, pins)
          /\ \A p \in Package : pins[p] # Any => p \in names
         THEN [valid |-> TRUE, names |-> names] ELSE NoPlan

-----------------------------------------------------------------------------
(* The answer: a sequence of rows of a name, repo, version and ok *)

NamesIn(answer) == {answer[i].name : i \in DOMAIN answer}

\* validateResolvedRows: each package once, none else, no error, all from the
\* repository.  The versions are not looked at.
Validated(answer, repo, names) ==
    /\ NamesIn(answer) = names
    /\ IsInjective([i \in DOMAIN answer |-> answer[i].name])
    /\ \A i \in DOMAIN answer : answer[i].ok /\ answer[i].repo = repo

\* depAction.
DepAction(installed, to) ==
    CASE installed = Any -> "install"
      [] installed = to -> "installed"
      [] OTHER -> "change"

\* changeFromResolverEntry and computeDepChanges, by row.
ComputeDepChanges(rows, installed) ==
    LET At(key) == CHOOSE i \in DOMAIN rows : <<rows[i].repo, rows[i].name>> = key
    IN [key \in {<<rows[i].repo, rows[i].name>> : i \in DOMAIN rows} |->
          [action |-> DepAction(installed[rows[At(key)].name], rows[At(key)].version),
           to |-> rows[At(key)].version]]

\* The one change presentCatalogResolutionError shows.
ErrorChange(key) == [k \in {key} |-> [action |-> "error", to |-> Any]]
=============================================================================
