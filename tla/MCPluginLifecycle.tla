-------------------------- MODULE MCPluginLifecycle --------------------------
(* Two core modules, one on top of the other; a hosted and a plain widget. *)
EXTENDS PluginLifecycle

CONSTANTS base, mid, view, page

MCNeeds == [p \in {base, mid, view, page} |->
               CASE p = base -> {} [] p = mid -> {base}
                 [] p = view -> {mid, base} [] p = page -> {base}]
\* view may be installed after the last scan the coordinator heard of.
MCScans == {Package \ {view}, Package}
=============================================================================
