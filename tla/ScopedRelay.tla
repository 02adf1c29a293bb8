----------------------------- MODULE ScopedRelay -----------------------------
(***************************************************************************)
(* The core_service that Basecamp publishes to its modules: loading and    *)
(* unloading scoped module instances, and relaying their lifecycle events  *)
(* (BasecampCoreService, CoreModuleManager, MainUIPlugin).                 *)
(*                                                                         *)
(* Everything runs on the GUI thread, and every call into the runtime      *)
(* spins an event loop until it is answered.  Other calls and events run   *)
(* inside that loop, so calls nest: the newest one returns first.  Two     *)
(* tables have to agree all the while: the relay's subscriptions, and the  *)
(* remote objects CoreModuleManager holds for them.                        *)
(*                                                                         *)
(* Abstracted: the event name (only nodeChanged can be relayed), malformed *)
(* arguments, payloads and their size limit, tokens, calls that only read  *)
(* or are forwarded as they are; an instance that dies by itself.          *)
(***************************************************************************)
EXTENDS Naturals, FiniteSets, Sequences

CONSTANTS
  Instance,    \* the scoped instances: module name and instance id
  MaxWidgets,  \* bound: how often the shell creates the main widget
  MaxCalls,    \* bound: calls of the service
  MaxLoads,    \* bound: processes started for instances
  MaxEvents    \* bound: lifecycle events of one instance

ASSUME ScopedRelayAssumption ==
    MaxWidgets \in Nat /\ MaxCalls \in Nat /\ MaxLoads \in Nat /\ MaxEvents \in Nat

VARIABLES
  container,  \* MainUIPlugin::m_mainContainer, and with it CoreModuleManager
  posted,     \* singleShot(0) closures that will call startCoreService
  service,    \* m_coreService exists
  listener,   \* RelayState::listener is set
  subs,       \* RelayState::subscriptions
  held,       \* m_moduleInstanceEventSubscriptions: instance -> the processes whose
              \* objects are held for it, oldest first
  stack,      \* the calls that wait for the runtime, newest first
  loaded,     \* instance -> its process, 0 for none
  loads, widgets, calls, emitted,  \* bounded counters
  relayed,    \* history: instance -> events handed to the listener
  promise,    \* history: what the callers of subscribe were told
  crossed     \* history: instances with two overlapping calls about them since
              \* they were last cleanly unloaded

vars == <<container, posted, service, listener, subs, held, stack, loaded, loads, widgets,
          calls, emitted, relayed, promise, crossed>>
shell   == <<container, posted, widgets>>
runtime == <<loaded, loads>>
events  == <<emitted, relayed>>

Frame == [op : {"start"}] \cup [op : {"load", "unload"}, inst : Instance]
         \cup [op : {"subscribe"}, inst : Instance, process : 1..MaxLoads]

NoneHeld == [i \in Instance |-> <<>>]
Busy(i, calling) ==
    \E n \in DOMAIN calling : calling[n].op \in {"subscribe", "unload"} /\ calling[n].inst = i

-----------------------------------------------------------------------------
(* MainUIPlugin *)

CreateWidget ==
    /\ ~container /\ container' = TRUE
    /\ widgets < MaxWidgets /\ widgets' = widgets + 1
    /\ posted' = posted + 1
    /\ UNCHANGED <<service, listener, subs, held, stack, runtime, calls, events, promise, crossed>>

\* The provider is registered, then the capability module is told and its
\* answer awaited.  A closure left by a widget that is gone does nothing.
StartCoreService ==
    /\ posted > 0 /\ posted' = posted - 1
    /\ \/ /\ container /\ ~service
          /\ service' \in BOOLEAN
          /\ stack' = IF service' THEN <<[op |-> "start"]>> \o stack ELSE stack
       \/ ~(container /\ ~service) /\ UNCHANGED <<service, stack>>
    /\ UNCHANGED <<container, widgets, listener, subs, held, runtime, calls, events, promise, crossed>>

\* stopCoreService: the service's destructor closes the relay and makes
\* CoreModuleManager drop everything it holds.
Stop_KeepsHeld ==
    /\ service' = FALSE /\ listener' = FALSE
    /\ subs' = {}
    /\ UNCHANGED held
    /\ promise' = [i \in Instance |-> "none"]
    /\ crossed' = {}

Stop ==
    /\ service' = FALSE /\ listener' = FALSE
    /\ subs' = {}
    /\ held' = NoneHeld
    /\ promise' = [i \in Instance |-> "none"]
    /\ crossed' = {}

Returns(op) == stack # <<>> /\ Head(stack).op = op /\ stack' = Tail(stack)

StartReturned ==
    /\ Returns("start")
    /\ Stop \/ UNCHANGED <<service, listener, subs, held, promise, crossed>>
    /\ UNCHANGED <<shell, runtime, calls, events>>

\* The shell destroys the widget after its last event loop has returned.
DestroyWidget ==
    /\ container /\ container' = FALSE
    /\ stack = <<>>
    /\ Stop
    /\ UNCHANGED <<posted, widgets, stack, runtime, calls, events>>

-----------------------------------------------------------------------------
(* BasecampCoreService *)

\* A module subscribed to core_service.moduleInstanceEvent.
SetEventListener ==
    /\ service
    /\ listener' = TRUE
    /\ UNCHANGED <<shell, service, subs, held, stack, runtime, calls, events, promise, crossed>>

Call ==
    /\ service
    /\ calls < MaxCalls /\ calls' = calls + 1
    /\ UNCHANGED <<shell, service, listener, emitted, relayed>>

Cross(i) == crossed' = IF Busy(i, stack) THEN crossed \cup {i} ELSE crossed

Told(i)  == promise' = [promise EXCEPT ![i] = "told"]
Asked(i) == promise' = [promise EXCEPT ![i] = "asked"]
Ended(i) == promise' = [promise EXCEPT ![i] = "none"]

\* subscribeModuleInstanceEvent without a listener.
Subscribe_Refused(i) ==
    /\ ~listener
    /\ UNCHANGED <<subs, held, stack, promise, crossed>>

\* already_subscribed, whether or not the first subscription has succeeded yet.
Subscribe_Already(i) ==
    /\ listener /\ i \in subs
    /\ Told(i) /\ Cross(i)
    /\ UNCHANGED <<subs, held, stack>>

\* CoreModuleManager already holds an object for the instance.
Subscribe_Held(i) ==
    /\ listener /\ i \notin subs
    /\ held[i] # <<>>
    /\ subs' = subs \cup {i}
    /\ Told(i) /\ Cross(i)
    /\ UNCHANGED <<held, stack>>

\* The client is not connected: the subscription is taken back at once.
Subscribe_NotConnected(i) ==
    /\ listener /\ i \notin subs
    /\ held[i] = <<>>
    /\ Cross(i)
    /\ UNCHANGED <<subs, held, stack, promise>>

\* requestObject waits for the remote object.
Subscribe_Acquire(i) ==
    /\ listener /\ i \notin subs
    /\ held[i] = <<>>
    /\ loaded[i] # 0
    /\ subs' = subs \cup {i}
    /\ stack' = <<[op |-> "subscribe", inst |-> i, process |-> loaded[i]]>> \o stack
    /\ Asked(i) /\ Cross(i)
    /\ UNCHANGED held

SubscribeModuleInstanceEvent(i) ==
    /\ Call
    /\ \/ Subscribe_Refused(i)
       \/ Subscribe_Already(i)
       \/ Subscribe_Held(i)
       \/ Subscribe_NotConnected(i)
       \/ Subscribe_Acquire(i)
    /\ UNCHANGED runtime

SubscribeReturned_KeepsFailed ==
    /\ Returns("subscribe")
    /\ LET i == Head(stack).inst IN
         \/ /\ held' = [held EXCEPT ![i] = Append(@, Head(stack).process)]
            /\ promise' = [promise EXCEPT ![i] = IF @ = "asked" THEN "told" ELSE @]
            /\ UNCHANGED subs
         \/ UNCHANGED <<subs, held, promise>>
    /\ UNCHANGED <<shell, service, listener, runtime, calls, events, crossed>>

\* The object is stored without a second look at the table; a failure takes
\* back the subscription, whoever made it meanwhile.
SubscribeReturned ==
    /\ Returns("subscribe")
    /\ LET i == Head(stack).inst IN
         \/ /\ held' = [held EXCEPT ![i] = Append(@, Head(stack).process)]
            /\ promise' = [promise EXCEPT ![i] = IF @ = "asked" THEN "told" ELSE @]
            /\ UNCHANGED subs
         \/ /\ subs' = subs \ {i}
            /\ Ended(i)
            /\ UNCHANGED held
    /\ UNCHANGED <<shell, service, listener, runtime, calls, events, crossed>>

\* CoreModuleManager::unsubscribeModuleInstanceEvent: the first match goes.
Released(i) == IF held[i] = <<>> THEN held ELSE [held EXCEPT ![i] = Tail(@)]

UnsubscribeModuleInstanceEvent(i) ==
    /\ Call
    /\ subs' = subs \ {i}
    /\ held' = IF i \in subs THEN Released(i) ELSE held
    /\ Ended(i) /\ Cross(i)
    /\ UNCHANGED <<stack, runtime>>

LoadModuleInstance(i) ==
    /\ Call
    /\ stack' = <<[op |-> "load", inst |-> i]>> \o stack
    /\ UNCHANGED <<subs, held, runtime, promise, crossed>>

LoadReturned ==
    /\ Returns("load")
    /\ \/ /\ loaded[Head(stack).inst] = 0
          /\ loads < MaxLoads /\ loads' = loads + 1
          /\ loaded' = [loaded EXCEPT ![Head(stack).inst] = loads + 1]
       \/ UNCHANGED <<loaded, loads>>
    /\ UNCHANGED <<shell, service, listener, subs, held, calls, events, promise, crossed>>

UnloadModuleInstance(i) ==
    /\ Call
    /\ stack' = <<[op |-> "unload", inst |-> i]>> \o stack
    /\ Cross(i)
    /\ UNCHANGED <<subs, held, runtime, promise>>

\* CoreModuleManager::clearModuleInstanceEventSubscriptions, of one instance.
Cleared(i) == [held EXCEPT ![i] = <<>>]

\* The runtime's answer.  On success CoreModuleManager drops what it holds for
\* the instance, and the relay its subscriptions.
UnloadReturned ==
    /\ Returns("unload")
    /\ LET i == Head(stack).inst IN
         \/ /\ loaded' = [loaded EXCEPT ![i] = 0]
            /\ held' = Cleared(i)
            /\ subs' = subs \ {i}
            /\ Ended(i)
            /\ crossed' = IF Busy(i, stack') THEN crossed ELSE crossed \ {i}
         \/ UNCHANGED <<loaded, held, subs, promise, crossed>>
    /\ UNCHANGED <<shell, service, listener, loads, calls, events>>

\* A lifecycle event arrives through each object held for the process, and the
\* relay passes it on while the subscription stands.
Arrivals(i) == {n \in DOMAIN held[i] : held[i][n] = loaded[i]}

Deliver_AnyEntry(i) ==
    /\ emitted[i] < MaxEvents /\ emitted' = [emitted EXCEPT ![i] = @ + 1]
    /\ Arrivals(i) # {}
    /\ relayed' = IF listener THEN [relayed EXCEPT ![i] = @ + Cardinality(Arrivals(i))]
                              ELSE relayed
    /\ UNCHANGED <<shell, service, listener, subs, held, stack, runtime, calls, promise, crossed>>

Deliver(i) ==
    /\ emitted[i] < MaxEvents /\ emitted' = [emitted EXCEPT ![i] = @ + 1]
    /\ Arrivals(i) # {}
    /\ relayed' = IF i \in subs /\ listener
                    THEN [relayed EXCEPT ![i] = @ + Cardinality(Arrivals(i))]
                    ELSE relayed
    /\ UNCHANGED <<shell, service, listener, subs, held, stack, runtime, calls, promise, crossed>>

-----------------------------------------------------------------------------
Init ==
    /\ container = FALSE /\ posted = 0 /\ service = FALSE
    /\ listener = FALSE /\ subs = {} /\ held = NoneHeld /\ stack = <<>>
    /\ loaded = [i \in Instance |-> 0] /\ loads = 0
    /\ widgets = 0 /\ calls = 0
    /\ emitted = [i \in Instance |-> 0]
    /\ relayed = [i \in Instance |-> 0]
    /\ promise = [i \in Instance |-> "none"] /\ crossed = {}

Shell == CreateWidget \/ DestroyWidget \/ StartCoreService \/ StartReturned

Caller ==
    \/ SetEventListener
    \/ \E i \in Instance : \/ SubscribeModuleInstanceEvent(i) \/ UnsubscribeModuleInstanceEvent(i)
                           \/ LoadModuleInstance(i) \/ UnloadModuleInstance(i)

Runtime ==
    \/ SubscribeReturned \/ LoadReturned \/ UnloadReturned
    \/ \E i \in Instance : Deliver(i)

Next == Shell \/ Caller \/ Runtime

Spec == Init /\ [][Next]_vars

-----------------------------------------------------------------------------
(* Properties *)

\* Shapes; there is no relay without a listener or without a service, and no
\* remote object is held once the service is gone, so nothing calls back into
\* a destroyed one.
TypeOK ==
    /\ container \in BOOLEAN /\ posted \in Nat
    /\ service \in BOOLEAN /\ listener \in BOOLEAN
    /\ subs \in SUBSET Instance
    /\ held \in [Instance -> Seq(1..MaxLoads)]
    /\ stack \in Seq(Frame)
    /\ loaded \in [Instance -> 0..MaxLoads] /\ loads \in 0..MaxLoads
    /\ widgets \in 0..MaxWidgets /\ calls \in 0..MaxCalls
    /\ emitted \in [Instance -> 0..MaxEvents] /\ relayed \in [Instance -> Nat]
    /\ promise \in [Instance -> {"none", "asked", "told"}]
    /\ crossed \in SUBSET Instance
    /\ ~service => ~listener /\ held = NoneHeld /\ stack = <<>>
    /\ subs # {} => listener

\* A caller that was told "ok" and has neither unsubscribed nor unloaded the
\* instance since is really served: the subscription stands, and exactly one
\* remote object is held for it, that of the process now running.  Only calls
\* about the same instance that overlap can upset this, and a clean unload of
\* the instance repairs it; what happens to other instances never does.
PromisedIsRelayed ==
    \A i \in Instance \ crossed : promise[i] = "told" =>
        /\ i \in subs
        /\ held[i] = <<loaded[i]>> /\ loaded[i] # 0

\* However calls overlap, the listener only gets events of instances somebody
\* subscribed to and has neither unsubscribed from nor unloaded since; and
\* without an overlap it gets each event once.
OnlyWantedIsRelayed ==
    [][\A i \in Instance : relayed'[i] # relayed[i] =>
          /\ promise[i] # "none" /\ service
          /\ relayed'[i] = relayed[i] + 1 \/ i \in crossed]_vars
=============================================================================
