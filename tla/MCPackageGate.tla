---------------------------- MODULE MCPackageGate ----------------------------
(* One core module, one app that needs it. *)
EXTENDS PackageGate

CONSTANTS app, core

MCPackage == {app, core}
MCDependents == [p \in MCPackage |-> IF p = core THEN {app} ELSE {}]
=============================================================================
