----------------------------- MODULE MCWorkspace -----------------------------
(* Three apps beside the package manager, interchangeable. *)
EXTENDS Workspace, TLC

Symmetric == Permutations(App)
=============================================================================
