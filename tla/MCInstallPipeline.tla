-------------------------- MODULE MCInstallPipeline --------------------------
(* Two apps on top of one library that has two versions.  The old library is  *)
(* on disk, the first app may be.                                             *)
EXTENDS InstallPipeline, TLC

CONSTANTS app, tool, lib

MCPackage == {app, tool, lib}
MCRows == (app :> <<lib, app>>) @@ (tool :> <<lib, tool>>)
MCVersions == [p \in MCPackage |-> IF p = lib THEN {1, 2} ELSE {1}]

MCInit == Init /\ disk[tool] = 0 /\ disk[lib] = 1

MCSpec == MCInit /\ [][Next]_vars /\ Fairness
=============================================================================
