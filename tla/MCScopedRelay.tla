--------------------------- MODULE MCScopedRelay ---------------------------
(* Two instances, interchangeable. *)
EXTENDS ScopedRelay, TLC

Symmetric == Permutations(Instance)
=============================================================================
