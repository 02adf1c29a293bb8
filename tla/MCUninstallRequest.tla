------------------------- MODULE MCUninstallRequest -------------------------
(***************************************************************************)
(* Every dependency graph over a few packages, once for each closure: what *)
(* the manifests name is transitively closed already, and names what is    *)
(* installed.  The caches lag behind and the disk changes where the last   *)
(* package is not there; the app's own request is made everywhere.         *)
(***************************************************************************)
EXTENDS UninstallRequest

CONSTANT Bundled     \* packages that may be embedded; where the disk does not change

\* A package is in its own closure only when it sits on a cycle.
ClosedOver(inst) ==
    {f \in [inst -> SUBSET inst] :
        /\ \A p, q \in inst : q \in f[p] => f[q] \subseteq f[p]
        /\ \A p \in inst : p \in f[p] => \E q \in f[p] \ {p} : p \in f[q]}

MCInit ==
    /\ \E inst \in SUBSET Package, emb \in SUBSET Bundled :
       \E f \in ClosedOver(inst) :
          /\ past = <<[installed |-> inst, embedded |-> emb \cap inst,
                       needs |-> [p \in Package |-> IF p \in inst THEN f[p] ELSE {}]]>>
          /\ moves = IF Bundled \cap inst = {} THEN 0 ELSE MaxMoves
    /\ scan = [at |-> 1, names |-> Disk.installed]
    /\ LET first == [p \in Disk.installed |-> 1]
       IN replies = [scan |-> 1, forward |-> first, reverse |-> first]
    /\ in = NoCaches
    /\ asked = None /\ gate = NoGate /\ shown = None

\* An app that needs a dependency or, after an upgrade, none, and the
\* dependency.
MCReleases ==
    [package : Package \ (Bundled \cup Ui), needs : {{}}]
      \cup [package : Ui \ {MainUi}, needs : SUBSET (Package \ (Bundled \cup Ui))]

\* A dependency alone, and everything the user may remove.
MCSelections == {Package \ (Bundled \cup Ui), Package \ (Bundled \cup {MainUi})}

MCSpec == MCInit /\ [][Next]_vars
=============================================================================
