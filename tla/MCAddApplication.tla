--------------------------- MODULE MCAddApplication ---------------------------
(* Two apps and a library.  Both repositories offer other; home, which also    *)
(* offers app and the library, withdraws these two at times.                   *)
EXTENDS AddApplication

CONSTANTS app, other, lib, home, away

MCApp == {app, other}
MCPackage == {app, other, lib}
MCRepo == {home, away}

Manifest(version, needs) == [version |-> version, needs |-> needs]

Offered ==
    [k \in {<<home, app>>, <<home, other>>, <<home, lib>>, <<away, other>>} |->
       CASE k = <<home, app>> -> <<Manifest(2, {other}), Manifest(1, {})>>
         [] k = <<home, other>> -> <<Manifest(1, {lib})>>
         [] OTHER -> <<Manifest(1, {})>>]

Broken == [k \in DOMAIN Offered \ {<<home, app>>, <<home, lib>>} |-> Offered[k]]
MCCatalogs == {Offered, Broken}
=============================================================================
