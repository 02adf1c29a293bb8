--------------------------- MODULE PackageConsent ---------------------------
(***************************************************************************)
(* What the ack-gated protocol promises, without saying how: the packages  *)
(* on disk change only by a request that was put to the user and that the  *)
(* user granted, one request at a time, each grant is used once, for       *)
(* exactly the packages that were asked about, and is carried out.         *)
(***************************************************************************)
EXTENDS Naturals

CONSTANTS Package, Request

VARIABLES asked,      \* the question on screen
          granted,    \* the permission not used yet
          installed,  \* packages on disk
          approved,   \* packages that may be copied to disk
          session     \* how many times Basecamp has died

vars == <<asked, granted, installed, approved, session>>
disk == <<installed, approved>>

Init ==
    /\ asked = {} /\ granted = {}
    /\ installed \in SUBSET Package
    /\ approved = {}
    /\ session = 0

Ask(r) ==
    /\ asked = {} /\ granted = {}
    /\ asked' = {r}
    /\ UNCHANGED <<granted, disk, session>>

Grant(r) ==
    /\ r \in asked
    /\ asked' = {}
    /\ granted' = {r}
    /\ UNCHANGED <<disk, session>>

Refuse ==
    /\ asked' = {}
    /\ UNCHANGED <<granted, disk, session>>

Perform(r) ==
    /\ r \in granted
    /\ granted' = {}
    /\ installed' = IF r.op = "install" THEN installed ELSE installed \ r.names
    /\ approved' = IF r.op \in {"install", "upgrade"} THEN approved \cup r.names ELSE approved
    /\ UNCHANGED <<asked, session>>

Copy(p) ==
    /\ p \in approved
    /\ approved' = approved \ {p}
    /\ installed' = installed \cup {p}
    /\ UNCHANGED <<asked, granted, session>>

\* Basecamp dies: the question is gone, a permission may be.  This is the
\* only way a permission is lost.
Lose ==
    /\ asked' = {}
    /\ granted' \in SUBSET granted
    /\ approved' = {}
    /\ session' = session + 1
    /\ UNCHANGED installed

Next ==
    \/ \E r \in Request : Ask(r) \/ Grant(r) \/ Perform(r)
    \/ \E p \in Package : Copy(p)
    \/ Refuse \/ Lose

Spec == Init /\ [][Next]_vars /\ WF_vars(\E r \in Request : Perform(r))
=============================================================================
