--------------------------- MODULE MCPackageRefresh ---------------------------
(* An application and its library, which need each other, in the maintained    *)
(* repository, which may withdraw the application, another repository with a  *)
(* later library, and an embedded package no repository offers.  The library  *)
(* is installed, and its artifact has another name than its module.           *)
EXTENDS PackageRefresh, TLC

CONSTANTS app, lib, base, main, extra

one == [version |-> 1, hash |-> "one"]
two == [version |-> 2, hash |-> "two"]
Release(r, p, build, needs) == [repo |-> r, name |-> p, build |-> build, needs |-> needs]

MCBuilds == (base :> {one}) @@ (app :> {one}) @@ (lib :> {one, two})
MCNeeds == (base :> {}) @@ (app :> {lib}) @@ (lib :> {app})
MainLib == Release(main, lib, one, {app})
MCOffers == (main :> {{MainLib, Release(main, app, one, {lib})}, {MainLib}})
              @@ (extra :> {{Release(extra, lib, two, {app})}})

\* All moves while both services are up from the start, one while the
\* downloader comes late, none while package_manager does.
MCInit == /\ Init
          /\ disk[app] = None /\ disk[lib] = one
          /\ Cardinality(served[main]) = 2
          /\ repos = {main}
          /\ pmLoaded \/ dlReady
          /\ moves = (IF pmLoaded THEN 0 ELSE 2) + (IF dlReady THEN 0 ELSE 1)

MCSpec == MCInit /\ [][Next]_vars /\ Fairness
=============================================================================
