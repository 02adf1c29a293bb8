---------------------------- MODULE UninstallPlan ----------------------------
(***************************************************************************)
(* The pure planner behind the uninstall dialog (UninstallPlan.cpp).       *)
(*                                                                         *)
(* An input is a record of the package-state caches the coordinator holds  *)
(* when it plans:                                                          *)
(*   targets        what is asked to go                                    *)
(*   installed      every package on disk                                  *)
(*   dependencies   package -> its recursive forward closure               *)
(*   dependents     package -> its recursive reverse closure               *)
(*   embedded       packages shipped with Basecamp                         *)
(*   protectedNames packages Basecamp itself needs (main_ui)               *)
(* List order and row decoration (display names, versions, loaded flags)   *)
(* are abstracted: every list is the set of its names.                     *)
(***************************************************************************)
CONSTANT Package

Input ==
    [targets : SUBSET Package, installed : SUBSET Package,
     dependencies : [Package -> SUBSET Package],
     dependents : [Package -> SUBSET Package],
     embedded : SUBSET Package, protectedNames : SUBSET Package]

\* Mutant: a dependency named in a manifest but not on disk counts.
ClosureOf_MissingToo(in, S) == UNION {in.dependencies[p] : p \in S}

\* Installed packages reachable from the names of S.
ClosureOf(in, S) == in.installed \cap UNION {in.dependencies[p] : p \in S}

Targets(in) == in.targets \cap in.installed

Candidates(in) == Targets(in) \cup ClosureOf(in, Targets(in))

\* Mutant: the closure itself keeps its own members alive.
Roots_ClosureToo(in) == in.installed \ Targets(in)

\* Installed packages outside the closure: what they need stays.
Roots(in) == in.installed \ Candidates(in)

\* Mutant: the roots survive, what they need does not.
Survivors_RootsOnly(in) == Roots(in)

Survivors(in) == Roots(in) \cup ClosureOf(in, Roots(in))

RequiredByOf(in, c) == {r \in Roots(in) : c \in in.dependencies[r]}

Orphans(in) ==
    Candidates(in) \ (Targets(in) \cup Survivors(in)
                        \cup in.embedded \cup in.protectedNames)

Batch(in, composeMode) ==
    IF composeMode THEN Targets(in) \cup Orphans(in) ELSE Targets(in)

Kept(in, composeMode) == Candidates(in) \ Batch(in, composeMode)

\* Embedded > Protected > RequiredBy > Unused.
KeptReason(in, c) ==
    IF c \in in.embedded THEN "embedded"
    ELSE IF c \in in.protectedNames THEN "protected"
    ELSE IF RequiredByOf(in, c) # {} THEN "requiredBy"
    ELSE "unused"

\* What breaks when the targets go, the closure excepted.
Dependents(in) ==
    (in.installed \cap UNION {in.dependents[t] : t \in Targets(in)})
        \ Candidates(in)

Plan(in, composeMode) ==
    [batch      |-> Batch(in, composeMode),
     kept       |-> [c \in Kept(in, composeMode) |->
                       [reason |-> KeptReason(in, c),
                        requiredBy |-> IF KeptReason(in, c) = "requiredBy"
                                         THEN RequiredByOf(in, c) ELSE {}]],
     dependents |-> Dependents(in)]

ComposeFrom(in) == Plan(in, TRUE)
ExplainOf(in)   == Plan(in, FALSE)

(***************************************************************************)
(* What the caches satisfy when one refresh filled them all: package_      *)
(* manager returns recursive closures over the installed packages, and     *)
(* the reverse lists are the inverse of the forward ones.                  *)
(***************************************************************************)
Closed(in) ==
    \A p, q \in in.installed :
        q \in in.dependencies[p] => in.dependencies[q] \subseteq in.dependencies[p]

Inverse(in) ==
    \A p \in in.installed :
        in.dependents[p] \cap in.installed = {q \in in.installed : p \in in.dependencies[q]}

Coherent(in) == in \in Input /\ Closed(in) /\ Inverse(in)
=============================================================================
