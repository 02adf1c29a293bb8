-------------------------- MODULE ScopedRelayProofs --------------------------
(***************************************************************************)
(* The core service for any number of instances, widgets, calls, processes *)
(* and events, and calls nested to any depth: a caller that was told it is *)
(* subscribed is served, and nobody else is.                               *)
(***************************************************************************)
EXTENDS ScopedRelay, SequenceTheorems, FiniteSetTheorems, TLAPS

-----------------------------------------------------------------------------
(* The stack of calls *)

\* A call that starts to wait goes on top of those that wait already.
LEMMA Pushed ==
    ASSUME stack \in Seq(Frame), NEW f \in Frame, stack' = <<f>> \o stack
    PROVE  /\ stack' \in Seq(Frame) /\ Len(stack') = Len(stack) + 1 /\ stack'[1] = f
           /\ \A n \in DOMAIN stack : n + 1 \in DOMAIN stack' /\ stack'[n + 1] = stack[n]
           /\ \A m \in DOMAIN stack' : m = 1 \/ \E n \in DOMAIN stack : m = n + 1
<1>1. /\ stack' \in Seq(Frame) /\ Len(stack') = Len(stack) + 1 /\ Len(stack) \in Nat
      /\ DOMAIN stack' = 1..Len(stack) + 1 /\ DOMAIN stack = 1..Len(stack)
  OBVIOUS
<1>2. stack'[1] = f /\ \A n \in DOMAIN stack : stack'[n + 1] = stack[n]
  OBVIOUS
<1>3. \A n \in DOMAIN stack : n + 1 \in DOMAIN stack'
  BY <1>1
<1>4. ASSUME NEW m \in DOMAIN stack', m # 1
      PROVE  \E n \in DOMAIN stack : m = n + 1
  <2>1. m - 1 \in DOMAIN stack /\ m = (m - 1) + 1
    BY <1>1, <1>4
  <2> QED
    BY <2>1
<1> QED
  BY <1>1, <1>2, <1>3, <1>4

\* The call that returns is the one on top.
LEMMA Popped ==
    ASSUME stack \in Seq(Frame), stack # <<>>, stack' = Tail(stack)
    PROVE  /\ stack' \in Seq(Frame) /\ Len(stack') = Len(stack) - 1
           /\ 1 \in DOMAIN stack /\ Head(stack) = stack[1] /\ stack[1] \in Frame
           /\ \A n \in DOMAIN stack' : /\ n + 1 \in DOMAIN stack /\ n + 1 # 1
                                       /\ stack'[n] = stack[n + 1]
           /\ \A m \in DOMAIN stack : m = 1 \/ \E n \in DOMAIN stack' : m = n + 1
<1>1. /\ Len(stack) \in Nat \ {0} /\ DOMAIN stack = 1..Len(stack) /\ Head(stack) = stack[1]
      /\ stack' \in Seq(Frame) /\ Len(stack') = Len(stack) - 1 /\ DOMAIN stack' = 1..Len(stack) - 1
  OBVIOUS
<1>2. \A n \in 1..Len(stack) - 1 : stack'[n] = stack[n + 1]
  OBVIOUS
<1>3. \A n \in DOMAIN stack' : n + 1 \in DOMAIN stack /\ n + 1 # 1
  BY <1>1
<1>4. ASSUME NEW m \in DOMAIN stack, m # 1
      PROVE  \E n \in DOMAIN stack' : m = n + 1
  <2>1. m - 1 \in DOMAIN stack' /\ m = (m - 1) + 1
    BY <1>1, <1>4
  <2> QED
    BY <2>1
<1>5. 1 \in DOMAIN stack /\ stack[1] \in Frame
  BY <1>1
<1> QED
  BY <1>1, <1>2, <1>3, <1>4, <1>5

-----------------------------------------------------------------------------
(* Shapes *)

USE ScopedRelayAssumption DEF ScopedRelayAssumption

LEMMA NothingHeld == NoneHeld \in [Instance -> Seq(1..MaxLoads)]
  BY DEF NoneHeld

LEMMA Starts == Init => TypeOK
<1> SUFFICES ASSUME Init PROVE TypeOK
  OBVIOUS
<1>1. /\ loaded \in [Instance -> 0..MaxLoads] /\ emitted \in [Instance -> 0..MaxEvents]
      /\ relayed \in [Instance -> Nat] /\ promise \in [Instance -> {"none", "asked", "told"}]
  BY DEF Init
<1>2. posted \in Nat /\ loads \in 0..MaxLoads /\ widgets \in 0..MaxWidgets /\ calls \in 0..MaxCalls
  BY DEF Init
<1>3. stack \in Seq(Frame) /\ subs \in SUBSET Instance /\ crossed \in SUBSET Instance
  BY DEF Init
<1> QED
  BY <1>1, <1>2, <1>3, NothingHeld DEF Init, TypeOK

LEMMA FramesAre ==
    /\ [op |-> "start"] \in Frame
    /\ \A i \in Instance : /\ [op |-> "load", inst |-> i] \in Frame
                           /\ [op |-> "unload", inst |-> i] \in Frame
    /\ \A i \in Instance, p \in 1..MaxLoads :
          [op |-> "subscribe", inst |-> i, process |-> p] \in Frame
    /\ \A f \in Frame : f.op \in {"load", "unload", "subscribe"} => f.inst \in Instance
    /\ \A f \in Frame : f.op = "subscribe" => f.process \in 1..MaxLoads
  BY DEF Frame

\* Where the stop of the service leads.
LEMMA Stopped ==
    ASSUME TypeOK, Stop
    PROVE  /\ service' = FALSE /\ listener' = FALSE /\ subs' = {} /\ held' = NoneHeld
           /\ promise' \in [Instance -> {"none", "asked", "told"}]
           /\ crossed' = {} /\ \A i \in Instance : promise'[i] = "none" /\ held'[i] = <<>>
  BY DEF Stop, NoneHeld

\* One answer of the runtime is taken off the stack.
LEMMA Returned ==
    ASSUME TypeOK, NEW op, Returns(op)
    PROVE  /\ stack' \in Seq(Frame) /\ Head(stack) \in Frame /\ Head(stack).op = op
           /\ service
<1>1. stack # <<>> /\ stack' = Tail(stack) /\ stack \in Seq(Frame) /\ Head(stack).op = op
  BY DEF Returns, TypeOK
<1>2. stack' \in Seq(Frame) /\ Head(stack) \in Frame
  BY <1>1, Popped
<1> QED
  BY <1>1, <1>2 DEF TypeOK

LEMMA EventsCounted ==
    ASSUME TypeOK, NEW i \in Instance
    PROVE  Cardinality(Arrivals(i)) \in Nat
<1>1. held[i] \in Seq(1..MaxLoads)
  BY DEF TypeOK
<1>2. DOMAIN held[i] = 1..Len(held[i]) /\ Len(held[i]) \in Nat
  BY <1>1
<1>3. IsFiniteSet(1..Len(held[i]))
  BY <1>2, FS_Interval
<1>4. Arrivals(i) \subseteq 1..Len(held[i])
  BY <1>2 DEF Arrivals
<1> QED
  BY <1>3, <1>4, FS_Subset, FS_CardinalityType

\* The service is started once, before anything calls it: when the capability
\* module's answer to the start is on top, no other call waits.
StartBelow == \A n \in DOMAIN stack : stack[n].op = "start" => n = Len(stack)

\* Calls that come and go above it leave the start where it is.
LEMMA StaysBelow ==
    ASSUME TypeOK, StartBelow,
           \/ stack' = stack
           \/ \E f \in Frame : f.op # "start" /\ stack' = <<f>> \o stack
           \/ stack # <<>> /\ stack' = Tail(stack)
    PROVE  StartBelow'
<1>0. stack \in Seq(Frame) /\ Len(stack) \in Nat /\ DOMAIN stack = 1..Len(stack)
  BY DEF TypeOK
<1>1. CASE stack' = stack
  BY <1>1 DEF StartBelow
<1>2. ASSUME NEW f \in Frame, f.op # "start", stack' = <<f>> \o stack
      PROVE  StartBelow'
  <2>1. /\ Len(stack') = Len(stack) + 1 /\ stack'[1] = f
        /\ \A n \in DOMAIN stack : stack'[n + 1] = stack[n]
        /\ \A m \in DOMAIN stack' : m = 1 \/ \E n \in DOMAIN stack : m = n + 1
    BY <1>0, <1>2, Pushed
  <2> QED
    BY <2>1, <1>2 DEF StartBelow
<1>3. CASE stack # <<>> /\ stack' = Tail(stack)
  <2>1. /\ Len(stack') = Len(stack) - 1 /\ stack' \in Seq(Frame)
        /\ \A n \in DOMAIN stack' : n + 1 \in DOMAIN stack /\ stack'[n] = stack[n + 1]
    BY <1>0, <1>3, Popped
  <2>2. DOMAIN stack' \subseteq Nat
    BY <2>1
  <2> QED
    BY <1>0, <2>1, <2>2 DEF StartBelow
<1> QED
  BY <1>1, <1>2, <1>3

LEMMA ShellTyped == TypeOK /\ StartBelow /\ Shell => TypeOK' /\ StartBelow'
<1> SUFFICES ASSUME TypeOK, StartBelow, Shell PROVE TypeOK' /\ StartBelow'
  OBVIOUS
<1>1. CASE CreateWidget
  <2>1. posted' \in Nat /\ widgets' \in 0..MaxWidgets /\ container' \in BOOLEAN
    BY <1>1 DEF CreateWidget, TypeOK
  <2> QED
    BY <1>1, <2>1, StaysBelow DEF CreateWidget, TypeOK, runtime, events
<1>2. CASE DestroyWidget
  BY <1>2, Stopped, StaysBelow, NothingHeld DEF DestroyWidget, TypeOK, runtime, events
<1>3. CASE StartCoreService
  <2>1. posted' \in Nat
    BY <1>3 DEF StartCoreService, TypeOK
  <2>2. /\ service' \in BOOLEAN /\ stack' \in Seq(Frame) /\ (~service' => ~service /\ stack' = stack)
        /\ StartBelow'
    <3>1. CASE UNCHANGED <<service, stack>>
      BY <3>1, StaysBelow DEF TypeOK
    <3>2. CASE /\ ~service /\ service' \in BOOLEAN
               /\ stack' = IF service' THEN <<[op |-> "start"]>> \o stack ELSE stack
      <4>1. CASE ~service'
        BY <3>2, <4>1, StaysBelow DEF TypeOK
      <4>2. CASE service'
        <5>1. stack = <<>> /\ stack' = <<[op |-> "start"]>> \o stack
          BY <3>2, <4>2 DEF TypeOK
        <5>2. stack' \in Seq(Frame) /\ Len(stack') = 1 /\ DOMAIN stack' = {1}
          BY <5>1, FramesAre
        <5> QED
          BY <3>2, <4>2, <5>2 DEF StartBelow
      <4> QED
        BY <4>1, <4>2
    <3> QED
      BY <1>3, <3>1, <3>2 DEF StartCoreService
  <2> QED
    BY <1>3, <2>1, <2>2 DEF StartCoreService, TypeOK, runtime, events
<1>4. CASE StartReturned
  <2>1. /\ stack' \in Seq(Frame) /\ Head(stack).op = "start" /\ service
        /\ stack # <<>> /\ stack' = Tail(stack)
    BY <1>4, Returned DEF StartReturned, Returns
  <2>2. StartBelow'
    BY <2>1, StaysBelow
  <2>3. stack' = <<>>
    <3>1. 1 \in DOMAIN stack /\ Head(stack) = stack[1] /\ Len(stack') = Len(stack) - 1
      BY <2>1, Popped DEF TypeOK
    <3>2. Len(stack) = 1
      BY <2>1, <3>1 DEF StartBelow
    <3> QED
      BY <2>1, <3>1, <3>2
  <2>4. CASE Stop
    <3>1. stack' \in Seq(Frame)
      BY <2>3
    <3> QED
      BY <1>4, <2>2, <2>3, <2>4, <3>1, Stopped, NothingHeld
      DEF StartReturned, TypeOK, shell, runtime, events
  <2>5. CASE UNCHANGED <<service, listener, subs, held, promise, crossed>>
    BY <1>4, <2>1, <2>2, <2>5 DEF StartReturned, TypeOK, shell, runtime, events
  <2> QED
    BY <1>4, <2>4, <2>5 DEF StartReturned
<1> QED
  BY <1>1, <1>2, <1>3, <1>4 DEF Shell

LEMMA CallerTyped == TypeOK /\ StartBelow /\ Caller => TypeOK' /\ StartBelow'
<1> SUFFICES ASSUME TypeOK, StartBelow, Caller PROVE TypeOK' /\ StartBelow'
  OBVIOUS
<1>1. CASE SetEventListener
  BY <1>1, StaysBelow DEF SetEventListener, TypeOK, shell, runtime, events
<1>2. ASSUME NEW i \in Instance, Call, UNCHANGED runtime,
             subs' \in SUBSET Instance, held' \in [Instance -> Seq(1..MaxLoads)],
             promise' \in [Instance -> {"none", "asked", "told"}],
             crossed' \in SUBSET Instance,
             \/ stack' = stack
             \/ \E f \in Frame : f.op # "start" /\ stack' = <<f>> \o stack,
             subs' # {} => listener
      PROVE  TypeOK' /\ StartBelow'
  <2>1. calls' \in 0..MaxCalls /\ service
    BY <1>2 DEF Call, TypeOK
  <2>2. stack' \in Seq(Frame)
    <3>1. ASSUME NEW f \in Frame
          PROVE  <<f>> \o stack \in Seq(Frame)
      BY DEF TypeOK
    <3> QED
      BY <1>2, <3>1 DEF TypeOK
  <2>3. StartBelow'
    BY <1>2, StaysBelow
  <2> QED
    BY <1>2, <2>1, <2>2, <2>3 DEF Call, TypeOK, shell, runtime
<1>3. ASSUME NEW i \in Instance
      PROVE  /\ crossed' \in SUBSET Instance \/ ~Cross(i)
             /\ promise' \in [Instance -> {"none", "asked", "told"}] \/ ~Told(i)
             /\ promise' \in [Instance -> {"none", "asked", "told"}] \/ ~Asked(i)
             /\ promise' \in [Instance -> {"none", "asked", "told"}] \/ ~Ended(i)
  BY DEF TypeOK, Cross, Told, Asked, Ended
<1>4. ASSUME NEW i \in Instance, SubscribeModuleInstanceEvent(i)
      PROVE  TypeOK' /\ StartBelow'
  <2>1. Call /\ UNCHANGED runtime
    BY <1>4 DEF SubscribeModuleInstanceEvent
  <2>2. CASE Subscribe_Refused(i)
    BY <1>2, <2>1, <2>2 DEF Subscribe_Refused, TypeOK
  <2>3. CASE Subscribe_Already(i)
    BY <1>2, <1>3, <2>1, <2>3 DEF Subscribe_Already, TypeOK
  <2>4. CASE Subscribe_Held(i)
    BY <1>2, <1>3, <2>1, <2>4 DEF Subscribe_Held, TypeOK
  <2>5. CASE Subscribe_NotConnected(i)
    BY <1>2, <1>3, <2>1, <2>5 DEF Subscribe_NotConnected, TypeOK
  <2>6. CASE Subscribe_Acquire(i)
    <3>1. loaded[i] \in 1..MaxLoads
      BY <2>6 DEF Subscribe_Acquire, TypeOK
    <3>2. \E f \in Frame : f.op # "start" /\ stack' = <<f>> \o stack
      BY <2>6, <3>1, FramesAre DEF Subscribe_Acquire
    <3> QED
      BY <1>2, <1>3, <2>1, <2>6, <3>2 DEF Subscribe_Acquire, TypeOK
  <2> QED
    BY <1>4, <2>2, <2>3, <2>4, <2>5, <2>6 DEF SubscribeModuleInstanceEvent
<1>5. ASSUME NEW i \in Instance, UnsubscribeModuleInstanceEvent(i)
      PROVE  TypeOK' /\ StartBelow'
  <2>1. Released(i) \in [Instance -> Seq(1..MaxLoads)]
    BY DEF Released, TypeOK
  <2> QED
    BY <1>2, <1>3, <1>5, <2>1 DEF UnsubscribeModuleInstanceEvent, TypeOK
<1>6. ASSUME NEW i \in Instance, LoadModuleInstance(i) \/ UnloadModuleInstance(i)
      PROVE  TypeOK' /\ StartBelow'
  <2>1. \E f \in Frame : f.op # "start" /\ stack' = <<f>> \o stack
    BY <1>6, FramesAre DEF LoadModuleInstance, UnloadModuleInstance
  <2> QED
    BY <1>2, <1>3, <1>6, <2>1 DEF LoadModuleInstance, UnloadModuleInstance, TypeOK
<1> QED
  BY <1>1, <1>4, <1>5, <1>6 DEF Caller

LEMMA RuntimeTyped == TypeOK /\ StartBelow /\ Runtime => TypeOK' /\ StartBelow'
<1> SUFFICES ASSUME TypeOK, StartBelow, Runtime PROVE TypeOK' /\ StartBelow'
  OBVIOUS
<1>1. ASSUME NEW op, Returns(op)
      PROVE  stack' \in Seq(Frame) /\ Head(stack) \in Frame /\ Head(stack).op = op /\ service /\ StartBelow'
  BY <1>1, Returned, StaysBelow DEF Returns
<1>2. CASE SubscribeReturned
  <2> DEFINE i == Head(stack).inst
  <2>1. /\ stack' \in Seq(Frame) /\ service /\ StartBelow'
        /\ i \in Instance /\ Head(stack).process \in 1..MaxLoads
    BY <1>1, <1>2, FramesAre DEF SubscribeReturned
  <2>2. /\ held' \in [Instance -> Seq(1..MaxLoads)] /\ subs' \subseteq subs
        /\ promise' \in [Instance -> {"none", "asked", "told"}]
    <3>1. CASE subs' = subs \ {i} /\ Ended(i) /\ UNCHANGED held
      BY <2>1, <3>1 DEF TypeOK, Ended
    <3>2. CASE /\ held' = [held EXCEPT ![i] = Append(@, Head(stack).process)]
               /\ promise' = [promise EXCEPT ![i] = IF @ = "asked" THEN "told" ELSE @]
               /\ UNCHANGED subs
      <4> DEFINE process == Head(stack).process
      <4>1. process \in 1..MaxLoads
        BY <2>1
      <4> HIDE DEF process, i
      <4>2. held' = [held EXCEPT ![i] = Append(held[i], process)]
        BY <3>2 DEF process
      <4> QED
        BY <2>1, <3>2, <4>1, <4>2 DEF TypeOK
    <3> QED
      BY <1>2, <3>1, <3>2 DEF SubscribeReturned
  <2> HIDE DEF i
  <2> QED
    BY <1>2, <2>1, <2>2 DEF SubscribeReturned, TypeOK, shell, runtime, events
<1>3. CASE LoadReturned
  <2>1. stack' \in Seq(Frame) /\ service /\ StartBelow' /\ Head(stack).inst \in Instance
    BY <1>1, <1>3, FramesAre DEF LoadReturned
  <2>2. loaded' \in [Instance -> 0..MaxLoads] /\ loads' \in 0..MaxLoads
    <3>1. CASE UNCHANGED <<loaded, loads>>
      BY <3>1 DEF TypeOK
    <3>2. CASE /\ loads < MaxLoads /\ loads' = loads + 1
               /\ loaded' = [loaded EXCEPT ![Head(stack).inst] = loads + 1]
      <4>1. loads + 1 \in 0..MaxLoads
        BY <3>2 DEF TypeOK
      <4> QED
        BY <3>2, <4>1 DEF TypeOK
    <3> QED
      BY <1>3, <3>1, <3>2 DEF LoadReturned
  <2> QED
    BY <1>3, <2>1, <2>2 DEF LoadReturned, TypeOK, shell, events
<1>4. CASE UnloadReturned
  <2> DEFINE i == Head(stack).inst
  <2>1. stack' \in Seq(Frame) /\ service /\ StartBelow' /\ i \in Instance
    BY <1>1, <1>4, FramesAre DEF UnloadReturned
  <2>2. /\ held' \in [Instance -> Seq(1..MaxLoads)] /\ subs' \subseteq subs
        /\ promise' \in [Instance -> {"none", "asked", "told"}]
        /\ loaded' \in [Instance -> 0..MaxLoads] /\ crossed' \subseteq crossed
    <3>1. CASE UNCHANGED <<loaded, held, subs, promise, crossed>>
      BY <3>1 DEF TypeOK
    <3>2. CASE /\ loaded' = [loaded EXCEPT ![i] = 0] /\ held' = Cleared(i)
               /\ subs' = subs \ {i} /\ Ended(i)
               /\ crossed' = IF Busy(i, stack') THEN crossed ELSE crossed \ {i}
      <4>1. 0 \in 0..MaxLoads /\ <<>> \in Seq(1..MaxLoads)
        OBVIOUS
      <4>2. crossed' \subseteq crossed
        BY <3>2
      <4>3. held' \in [Instance -> Seq(1..MaxLoads)]
        BY <3>2, <4>1 DEF TypeOK, Cleared
      <4> HIDE DEF i
      <4> QED
        BY <2>1, <3>2, <4>1, <4>2, <4>3 DEF TypeOK, Ended
    <3> QED
      BY <1>4, <3>1, <3>2 DEF UnloadReturned
  <2> HIDE DEF i
  <2> QED
    BY <1>4, <2>1, <2>2 DEF UnloadReturned, TypeOK, shell, events
<1>5. ASSUME NEW i \in Instance, Deliver(i)
      PROVE  TypeOK' /\ StartBelow'
  <2>1. emitted' \in [Instance -> 0..MaxEvents] /\ relayed' \in [Instance -> Nat]
    BY <1>5, EventsCounted DEF Deliver, TypeOK
  <2> QED
    BY <1>5, <2>1, StaysBelow DEF Deliver, TypeOK, shell, runtime
<1> QED
  BY <1>2, <1>3, <1>4, <1>5 DEF Runtime

LEMMA ShapesKept == TypeOK /\ StartBelow /\ [Next]_vars => TypeOK' /\ StartBelow'
<1>1. TypeOK /\ StartBelow /\ UNCHANGED vars => TypeOK' /\ StartBelow'
  BY StaysBelow DEF vars, TypeOK
<1> QED
  BY <1>1, ShellTyped, CallerTyped, RuntimeTyped DEF Next

\* Shapes; and with the service gone no remote object is held and nobody waits
\* (MainUIPlugin::stopCoreService, ~BasecampCoreService).
THEOREM TypeCorrect == Spec => []TypeOK
<1>1. Init => TypeOK /\ StartBelow
  BY Starts DEF Init, StartBelow
<1>2. TypeOK /\ StartBelow /\ [Next]_vars => TypeOK' /\ StartBelow'
  BY ShapesKept
<1> QED
  BY <1>1, <1>2, PTL DEF Spec

-----------------------------------------------------------------------------
(* Promises *)

About(i, f) == f.op \in {"subscribe", "unload"} /\ f.inst = i

\* Calls about an instance that has not been crossed do not overlap,
OneCall(i) ==
    \A m, n \in DOMAIN stack : About(i, stack[m]) /\ About(i, stack[n]) => m = n

\* its caller waits for the object of the process that runs,
Asking(i) ==
    \A n \in DOMAIN stack : stack[n].op = "subscribe" /\ stack[n].inst = i =>
        promise[i] = "asked" /\ stack[n].process = loaded[i]

\* and what is held follows what its caller was told.
Agrees(i) ==
    /\ promise[i] = "none" => held[i] = <<>>
    /\ promise[i] = "asked" =>
         /\ i \in subs /\ held[i] = <<>> /\ loaded[i] # 0
         /\ \E n \in DOMAIN stack : stack[n].op = "subscribe" /\ stack[n].inst = i
    /\ promise[i] = "told" => i \in subs /\ held[i] = <<loaded[i]>> /\ loaded[i] # 0

Settled(i) == OneCall(i) /\ Asking(i) /\ Agrees(i)

Wanted == \A i \in subs : promise[i] # "none"

RelayInv == Wanted /\ \A i \in Instance \ crossed : Settled(i)

LEMMA BusyIsAbout ==
    ASSUME NEW i \in Instance
    PROVE  Busy(i, stack) <=> \E n \in DOMAIN stack : About(i, stack[n])
  BY DEF Busy, About

\* Nothing about other instances disturbs an instance.
LEMMA Untouched ==
    ASSUME TypeOK, NEW i \in Instance, Settled(i),
           promise'[i] = promise[i], held'[i] = held[i], loaded'[i] = loaded[i],
           i \in subs => i \in subs',
           \/ stack' = stack
           \/ \E f \in Frame : ~About(i, f) /\ stack' = <<f>> \o stack
           \/ stack # <<>> /\ stack' = Tail(stack) /\ ~About(i, Head(stack))
    PROVE  Settled(i)'
<1>0. stack \in Seq(Frame)
  BY DEF TypeOK
<1>1. CASE stack' = stack
  BY <1>1 DEF Settled, OneCall, Asking, Agrees
<1>2. ASSUME NEW f \in Frame, ~About(i, f), stack' = <<f>> \o stack
      PROVE  Settled(i)'
  <2>1. /\ stack'[1] = f
        /\ \A n \in DOMAIN stack : n + 1 \in DOMAIN stack' /\ stack'[n + 1] = stack[n]
        /\ \A m \in DOMAIN stack' : m = 1 \/ \E n \in DOMAIN stack : m = n + 1
    BY <1>0, <1>2, Pushed
  <2>2. OneCall(i)'
    BY <1>2, <2>1 DEF Settled, OneCall
  <2>3. Asking(i)'
    BY <1>2, <2>1 DEF Settled, Asking, About
  <2>4. Agrees(i)'
    BY <2>1 DEF Settled, Agrees
  <2> QED
    BY <2>2, <2>3, <2>4 DEF Settled
<1>3. CASE stack # <<>> /\ stack' = Tail(stack) /\ ~About(i, Head(stack))
  <2>1. /\ Head(stack) = stack[1]
        /\ \A n \in DOMAIN stack' : n + 1 \in DOMAIN stack /\ stack'[n] = stack[n + 1]
        /\ \A m \in DOMAIN stack : m = 1 \/ \E n \in DOMAIN stack' : m = n + 1
        /\ stack' \in Seq(Frame)
    BY <1>0, <1>3, Popped
  <2>2. OneCall(i)'
    <3> SUFFICES ASSUME NEW m \in DOMAIN stack', NEW n \in DOMAIN stack',
                        About(i, stack'[m]), About(i, stack'[n])
                 PROVE  m = n
      BY DEF OneCall
    <3>1. m + 1 = n + 1
      BY <2>1 DEF Settled, OneCall
    <3>2. m \in Nat /\ n \in Nat
      BY <2>1
    <3> QED
      BY <3>1, <3>2
  <2>3. Asking(i)'
    BY <2>1 DEF Settled, Asking
  <2>4. Agrees(i)'
    BY <1>3, <2>1 DEF Settled, Agrees, About
  <2> QED
    BY <2>2, <2>3, <2>4 DEF Settled
<1> QED
  BY <1>1, <1>2, <1>3

\* With no call about an instance, one can begin to wait.
LEMMA Alone ==
    ASSUME TypeOK, NEW i \in Instance, ~Busy(i, stack), NEW f \in Frame, stack' = <<f>> \o stack
    PROVE  OneCall(i)' /\ \A n \in DOMAIN stack' : About(i, stack'[n]) => n = 1 /\ stack'[n] = f
<1>1. /\ stack'[1] = f
      /\ \A n \in DOMAIN stack : stack'[n + 1] = stack[n]
      /\ \A m \in DOMAIN stack' : m = 1 \/ \E n \in DOMAIN stack : m = n + 1
  BY Pushed DEF TypeOK
<1>2. \A n \in DOMAIN stack : ~About(i, stack[n])
  BY BusyIsAbout
<1> QED
  BY <1>1, <1>2 DEF OneCall

\* When the one call about an instance returns, none is left.
LEMMA LastReturned ==
    ASSUME TypeOK, NEW i \in Instance, OneCall(i),
           stack # <<>>, stack' = Tail(stack), About(i, Head(stack))
    PROVE  OneCall(i)' /\ \A n \in DOMAIN stack' : ~About(i, stack'[n])
<1>1. /\ Head(stack) = stack[1] /\ 1 \in DOMAIN stack
      /\ \A n \in DOMAIN stack' : n + 1 \in DOMAIN stack /\ stack'[n] = stack[n + 1] /\ n + 1 # 1
  BY Popped DEF TypeOK
<1>2. \A n \in DOMAIN stack' : ~About(i, stack'[n])
  BY <1>1 DEF OneCall
<1> QED
  BY <1>2 DEF OneCall

\* The service gone, everything is as at the start.
LEMMA RelayReset ==
    ASSUME TypeOK, Stop, stack' = <<>>
    PROVE  RelayInv'
<1>1. subs' = {} /\ \A i \in Instance : promise'[i] = "none" /\ held'[i] = <<>>
  BY Stopped
<1>2. DOMAIN stack' = {}
  OBVIOUS
<1> QED
  BY <1>1, <1>2 DEF RelayInv, Wanted, Settled, OneCall, Asking, Agrees

\* Nor does what is about no instance, or changes none of the tables.
LEMMA TablesKept ==
    ASSUME TypeOK, RelayInv, UNCHANGED <<subs, held, loaded, promise, crossed>>,
           \/ stack' = stack
           \/ \E f \in Frame : f.op \notin {"subscribe", "unload"} /\ stack' = <<f>> \o stack
           \/ stack # <<>> /\ stack' = Tail(stack) /\ Head(stack).op \notin {"subscribe", "unload"}
    PROVE  RelayInv'
<1>1. ASSUME NEW i \in Instance \ crossed
      PROVE  Settled(i)'
  BY <1>1, Untouched DEF RelayInv, About
<1> QED
  BY <1>1 DEF RelayInv, Wanted

LEMMA ShellPromises == TypeOK /\ StartBelow /\ RelayInv /\ Shell => RelayInv'
<1> SUFFICES ASSUME TypeOK, StartBelow, RelayInv, Shell PROVE RelayInv'
  OBVIOUS
<1>1. CASE CreateWidget
  BY <1>1, TablesKept DEF CreateWidget, runtime
<1>2. CASE DestroyWidget
  BY <1>2, RelayReset DEF DestroyWidget
<1>3. CASE StartCoreService
  BY <1>3, TablesKept, FramesAre DEF StartCoreService, runtime
<1>4. CASE StartReturned
  <2>1. stack # <<>> /\ stack' = Tail(stack) /\ Head(stack).op = "start"
    BY <1>4 DEF StartReturned, Returns
  <2>2. CASE Stop
    <3>1. 1 \in DOMAIN stack /\ Head(stack) = stack[1]
      BY <2>1, Popped DEF TypeOK
    <3>2. Len(stack) = 1
      BY <2>1, <3>1 DEF StartBelow
    <3>3. stack' = <<>>
      BY <2>1, <3>2 DEF TypeOK
    <3> QED
      BY <2>2, <3>3, RelayReset
  <2>3. CASE UNCHANGED <<service, listener, subs, held, promise, crossed>>
    BY <1>4, <2>1, <2>3, TablesKept DEF StartReturned, runtime
  <2> QED
    BY <1>4, <2>2, <2>3 DEF StartReturned
<1> QED
  BY <1>1, <1>2, <1>3, <1>4 DEF Shell

\* What a call about one instance leaves to be shown for that instance.
LEMMA OthersKept ==
    ASSUME TypeOK, RelayInv, NEW i \in Instance,
           \A j \in Instance \ {i} : /\ promise'[j] = promise[j] /\ held'[j] = held[j]
                                     /\ loaded'[j] = loaded[j]
                                     /\ (j \in subs <=> j \in subs') /\ (j \in crossed <=> j \in crossed'),
           subs' \subseteq Instance, i \in subs' => promise'[i] # "none",
           i \notin crossed' => Settled(i)',
           \/ stack' = stack
           \/ \E f \in Frame : f.inst = i /\ f.op # "start" /\ stack' = <<f>> \o stack
           \/ stack # <<>> /\ stack' = Tail(stack) /\ Head(stack).inst = i
    PROVE  RelayInv'
<1>1. ASSUME NEW j \in Instance \ {i}, j \notin crossed'
      PROVE  Settled(j)'
  <2>1. Settled(j) /\ j \in Instance
    BY <1>1 DEF RelayInv
  <2>2. \A f : f.inst = i => ~About(j, f)
    BY DEF About
  <2> QED
    BY <1>1, <2>1, <2>2, Untouched
<1> QED
  BY <1>1 DEF RelayInv, Wanted

LEMMA SubscribePromises ==
    ASSUME TypeOK, RelayInv, NEW i \in Instance, SubscribeModuleInstanceEvent(i)
    PROVE  RelayInv'
<1>1. loaded' = loaded
  BY DEF SubscribeModuleInstanceEvent, runtime
<1>2. promise[i] \in {"none", "asked", "told"} /\ subs \subseteq Instance
  BY DEF TypeOK
<1>3. CASE Subscribe_Refused(i)
  BY <1>1, <1>3, TablesKept DEF Subscribe_Refused
<1>4. ASSUME Cross(i), i \notin crossed'
      PROVE  ~Busy(i, stack) /\ Settled(i) /\ crossed' = crossed
  BY <1>4 DEF Cross, RelayInv
<1>5. ASSUME Cross(i)
      PROVE  \A j \in Instance \ {i} : j \in crossed <=> j \in crossed'
  BY <1>5 DEF Cross
<1>6. CASE Subscribe_Already(i)
  <2>1. /\ promise' = [promise EXCEPT ![i] = "told"] /\ Cross(i) /\ i \in subs
        /\ subs' = subs /\ held' = held /\ stack' = stack
    BY <1>6 DEF Subscribe_Already, Told
  <2>2. /\ promise'[i] = "told" /\ \A j \in Instance \ {i} : promise'[j] = promise[j]
    BY <2>1 DEF TypeOK
  <2>3. ASSUME i \notin crossed'
        PROVE  Settled(i)'
    <3>1. promise[i] = "told"
      BY <1>2, <1>4, <2>1, <2>3, BusyIsAbout DEF RelayInv, Wanted, Settled, Agrees, About
    <3> QED
      BY <1>1, <1>4, <2>1, <2>2, <2>3, <3>1, Untouched
  <2> QED
    BY <1>1, <1>2, <1>5, <2>1, <2>2, <2>3, OthersKept
<1>7. CASE Subscribe_Held(i)
  <2>1. /\ promise' = [promise EXCEPT ![i] = "told"] /\ Cross(i) /\ i \notin subs /\ held[i] # <<>>
        /\ subs' = subs \cup {i} /\ held' = held /\ stack' = stack
    BY <1>7 DEF Subscribe_Held, Told
  <2>2. /\ promise'[i] = "told" /\ \A j \in Instance \ {i} : promise'[j] = promise[j]
    BY <2>1 DEF TypeOK
  <2>3. i \in crossed'
    BY <1>2, <1>4, <2>1 DEF Settled, Agrees
  <2> QED
    BY <1>1, <1>2, <1>5, <2>1, <2>2, <2>3, OthersKept
<1>8. CASE Subscribe_NotConnected(i)
  <2>1. Cross(i) /\ UNCHANGED <<subs, held, stack, promise>>
    BY <1>8 DEF Subscribe_NotConnected
  <2>2. ASSUME i \notin crossed'
        PROVE  Settled(i)'
    BY <1>1, <1>4, <2>1, <2>2, Untouched
  <2> QED
    BY <1>1, <1>2, <1>5, <2>1, <2>2, OthersKept DEF RelayInv, Wanted
<1>9. CASE Subscribe_Acquire(i)
  <2> DEFINE f == [op |-> "subscribe", inst |-> i, process |-> loaded[i]]
  <2>1. /\ promise' = [promise EXCEPT ![i] = "asked"] /\ Cross(i) /\ i \notin subs /\ held[i] = <<>>
        /\ loaded[i] # 0 /\ subs' = subs \cup {i} /\ held' = held /\ stack' = <<f>> \o stack
    BY <1>9 DEF Subscribe_Acquire, Asked
  <2>2. /\ promise'[i] = "asked" /\ \A j \in Instance \ {i} : promise'[j] = promise[j]
    BY <2>1 DEF TypeOK
  <2>3. f \in Frame
    <3>1. loaded[i] \in 1..MaxLoads
      BY <2>1 DEF TypeOK
    <3> QED
      BY <3>1, FramesAre
  <2>4. f.op = "subscribe" /\ f.inst = i /\ f.process = loaded[i]
    OBVIOUS
  <2> HIDE DEF f
  <2>5. ASSUME i \notin crossed'
        PROVE  Settled(i)'
    <3>1. /\ OneCall(i)'
          /\ \A n \in DOMAIN stack' : About(i, stack'[n]) => stack'[n] = f
      BY <1>4, <2>1, <2>3, <2>5, Alone
    <3>2. Asking(i)'
      BY <1>1, <2>2, <2>4, <3>1 DEF Asking, About
    <3>3. 1 \in DOMAIN stack' /\ stack'[1] = f
      <4>1. stack' \in Seq(Frame) /\ stack'[1] = f /\ Len(stack') = Len(stack) + 1 /\ Len(stack) \in Nat
        BY <2>1, <2>3, Pushed DEF TypeOK
      <4> QED
        BY <4>1
    <3>4. Agrees(i)'
      BY <1>1, <2>1, <2>2, <2>4, <3>3 DEF Agrees
    <3> QED
      BY <3>1, <3>2, <3>4 DEF Settled
  <2> QED
    BY <1>1, <1>2, <1>5, <2>1, <2>2, <2>3, <2>4, <2>5, OthersKept
<1> QED
  BY <1>3, <1>6, <1>7, <1>8, <1>9 DEF SubscribeModuleInstanceEvent

LEMMA UnsubscribePromises ==
    ASSUME TypeOK, RelayInv, NEW i \in Instance, UnsubscribeModuleInstanceEvent(i)
    PROVE  RelayInv'
<1>1. /\ subs' = subs \ {i} /\ held' = (IF i \in subs THEN Released(i) ELSE held)
      /\ promise' = [promise EXCEPT ![i] = "none"] /\ Cross(i)
      /\ stack' = stack /\ loaded' = loaded
  BY DEF UnsubscribeModuleInstanceEvent, Ended, runtime
<1>2. /\ promise'[i] = "none" /\ promise[i] \in {"none", "asked", "told"} /\ subs \subseteq Instance
      /\ \A j \in Instance \ {i} : promise'[j] = promise[j] /\ held'[j] = held[j]
  BY <1>1 DEF TypeOK, Released
<1>3. \A j \in Instance \ {i} : j \in crossed <=> j \in crossed'
  BY <1>1 DEF Cross
<1>4. ASSUME i \notin crossed'
      PROVE  Settled(i)'
  <2>1. Settled(i) /\ \A n \in DOMAIN stack : ~About(i, stack[n])
    BY <1>1, <1>4, BusyIsAbout DEF Cross, RelayInv
  <2>2. CASE i \in subs
    <3>1. held[i] = <<loaded[i]>> /\ held' = [held EXCEPT ![i] = Tail(@)]
      BY <1>1, <1>2, <2>1, <2>2 DEF RelayInv, Wanted, Settled, Agrees, About, Released
    <3>2. held'[i] = Tail(<<loaded[i]>>)
      BY <3>1 DEF TypeOK
    <3>3. held'[i] = <<>>
      BY <3>2
    <3> QED
      BY <1>1, <1>2, <2>1, <3>3 DEF Settled, OneCall, Asking, Agrees, About
  <2>3. CASE i \notin subs
    <3>1. held'[i] = <<>>
      BY <1>1, <1>2, <2>1, <2>3 DEF Settled, Agrees
    <3> QED
      BY <1>1, <1>2, <2>1, <3>1 DEF Settled, OneCall, Asking, Agrees, About
  <2> QED
    BY <2>2, <2>3
<1> QED
  BY <1>1, <1>2, <1>3, <1>4, OthersKept

LEMMA UnloadPromises ==
    ASSUME TypeOK, RelayInv, NEW i \in Instance, UnloadModuleInstance(i)
    PROVE  RelayInv'
<1> DEFINE f == [op |-> "unload", inst |-> i]
<1>1. /\ stack' = <<f>> \o stack /\ Cross(i) /\ UNCHANGED <<subs, held, loaded, promise>>
  BY DEF UnloadModuleInstance, runtime
<1>2. f \in Frame /\ f.op = "unload" /\ f.inst = i /\ subs \subseteq Instance
  BY FramesAre DEF TypeOK
<1> HIDE DEF f
<1>3. \A j \in Instance \ {i} : j \in crossed <=> j \in crossed'
  BY <1>1 DEF Cross
<1>4. ASSUME i \notin crossed'
      PROVE  Settled(i)'
  <2>1. Settled(i) /\ ~Busy(i, stack) /\ \A n \in DOMAIN stack : ~About(i, stack[n])
    BY <1>1, <1>4, BusyIsAbout DEF Cross, RelayInv
  <2>2. OneCall(i)' /\ \A n \in DOMAIN stack' : About(i, stack'[n]) => stack'[n] = f
    BY <1>1, <1>2, <2>1, Alone
  <2>3. Asking(i)'
    BY <1>2, <2>2 DEF Asking, About
  <2>4. Agrees(i)'
    BY <1>1, <2>1 DEF Settled, Agrees, About
  <2> QED
    BY <2>2, <2>3, <2>4 DEF Settled
<1> QED
  BY <1>1, <1>2, <1>3, <1>4, OthersKept DEF RelayInv, Wanted

LEMMA CallerPromises == TypeOK /\ RelayInv /\ Caller => RelayInv'
<1> SUFFICES ASSUME TypeOK, RelayInv, Caller PROVE RelayInv'
  OBVIOUS
<1>1. CASE SetEventListener
  BY <1>1, TablesKept DEF SetEventListener, runtime
<1>2. ASSUME NEW i \in Instance, LoadModuleInstance(i)
      PROVE  RelayInv'
  <2>1. [op |-> "load", inst |-> i] \in Frame /\ [op |-> "load", inst |-> i].op \notin {"subscribe", "unload"}
    BY FramesAre
  <2> QED
    BY <1>2, <2>1, TablesKept DEF LoadModuleInstance, runtime
<1> QED
  BY <1>1, <1>2, SubscribePromises, UnsubscribePromises, UnloadPromises DEF Caller

-----------------------------------------------------------------------------
(* Answers *)

LEMMA SubscribeReturnedPromises == TypeOK /\ RelayInv /\ SubscribeReturned => RelayInv'
<1> SUFFICES ASSUME TypeOK, RelayInv, SubscribeReturned PROVE RelayInv'
  OBVIOUS
<1>0. PICK i \in Instance : i = Head(stack).inst
  BY Returned, FramesAre DEF SubscribeReturned
<1>1. /\ stack # <<>> /\ stack' = Tail(stack) /\ Head(stack).op = "subscribe"
      /\ loaded' = loaded /\ crossed' = crossed
  BY DEF SubscribeReturned, Returns, runtime
<1>2. \/ /\ held' = [held EXCEPT ![i] = Append(@, Head(stack).process)]
         /\ promise' = [promise EXCEPT ![i] = IF @ = "asked" THEN "told" ELSE @]
         /\ subs' = subs
      \/ /\ subs' = subs \ {i} /\ held' = held /\ promise' = [promise EXCEPT ![i] = "none"]
  BY <1>0 DEF SubscribeReturned, Ended
<1>4. About(i, Head(stack))
  BY <1>0, <1>1 DEF About
<1>5. 1 \in DOMAIN stack /\ Head(stack) = stack[1]
  BY <1>1, Popped DEF TypeOK
<1>6. ASSUME i \notin crossed
      PROVE  /\ promise[i] = "asked" /\ Head(stack).process = loaded[i]
             /\ i \in subs /\ held[i] = <<>> /\ loaded[i] # 0
             /\ OneCall(i)' /\ \A n \in DOMAIN stack' : ~About(i, stack'[n])
  <2>1. Settled(i)
    BY <1>0, <1>6 DEF RelayInv
  <2>2. promise[i] = "asked" /\ Head(stack).process = loaded[i]
    BY <1>0, <1>1, <1>5, <2>1 DEF Settled, Asking
  <2> QED
    BY <1>1, <1>0, <1>4, <2>1, <2>2, LastReturned DEF Settled, Agrees
<1>8. CASE /\ held' = [held EXCEPT ![i] = Append(@, Head(stack).process)]
           /\ promise' = [promise EXCEPT ![i] = IF @ = "asked" THEN "told" ELSE @]
           /\ subs' = subs
  <2>1. /\ held'[i] = Append(held[i], Head(stack).process)
        /\ promise'[i] = (IF promise[i] = "asked" THEN "told" ELSE promise[i])
        /\ \A j \in Instance \ {i} : promise'[j] = promise[j] /\ held'[j] = held[j]
    BY <1>0, <1>8 DEF TypeOK
  <2>2. ASSUME i \notin crossed'
        PROVE  Settled(i)'
    <3>1. promise'[i] = "told" /\ held'[i] = Append(<<>>, loaded[i])
      BY <1>1, <1>6, <2>1, <2>2
    <3>2. held'[i] = <<loaded[i]>>
      BY <3>1
    <3> QED
      BY <1>1, <1>6, <1>8, <2>2, <3>1, <3>2 DEF Settled, Asking, Agrees, About
  <2>3. subs' \subseteq Instance /\ (i \in subs' => promise'[i] # "none")
    BY <1>8, <2>1 DEF TypeOK, RelayInv, Wanted
  <2> QED
    BY <1>1, <1>0, <1>8, <2>1, <2>2, <2>3, OthersKept
<1>9. CASE subs' = subs \ {i} /\ held' = held /\ promise' = [promise EXCEPT ![i] = "none"]
  <2>1. promise'[i] = "none" /\ \A j \in Instance \ {i} : promise'[j] = promise[j]
    BY <1>0, <1>9 DEF TypeOK
  <2>2. ASSUME i \notin crossed'
        PROVE  Settled(i)'
    BY <1>1, <1>6, <1>9, <2>1, <2>2 DEF Settled, Asking, Agrees, About
  <2>3. subs' \subseteq Instance /\ i \notin subs'
    BY <1>9 DEF TypeOK
  <2> QED
    BY <1>1, <1>0, <1>9, <2>1, <2>2, <2>3, OthersKept
<1> QED
  BY <1>2, <1>8, <1>9

LEMMA LoadReturnedPromises == TypeOK /\ RelayInv /\ LoadReturned => RelayInv'
<1> SUFFICES ASSUME TypeOK, RelayInv, LoadReturned PROVE RelayInv'
  OBVIOUS
<1> DEFINE i == Head(stack).inst
<1>1. /\ stack # <<>> /\ stack' = Tail(stack) /\ Head(stack).op = "load"
      /\ UNCHANGED <<subs, held, promise, crossed>>
  BY DEF LoadReturned, Returns
<1>2. i \in Instance
  BY <1>1, Returned, FramesAre DEF Returns
<1>3. CASE loaded' = loaded
  BY <1>1, <1>3, TablesKept
<1>4. CASE loaded[i] = 0 /\ loaded' = [loaded EXCEPT ![i] = loads + 1]
  <2>1. ASSUME NEW j \in Instance \ crossed
        PROVE  Settled(j)'
    <3>1. Settled(j)
      BY <2>1 DEF RelayInv
    <3>2. CASE j # i
      <4>1. loaded'[j] = loaded[j]
        BY <1>2, <1>4, <2>1, <3>2 DEF TypeOK
      <4>2. ~About(j, Head(stack))
        BY <1>1 DEF About
      <4> QED
        BY <1>1, <2>1, <3>1, <4>1, <4>2, Untouched
    <3>3. CASE j = i
      <4>1. promise[j] = "none" /\ held[j] = <<>>
        BY <1>2, <1>4, <3>1, <3>3 DEF Settled, Agrees, TypeOK
      <4>2. \A n \in DOMAIN stack' : n + 1 \in DOMAIN stack /\ stack'[n] = stack[n + 1]
        BY <1>1, Popped DEF TypeOK
      <4>3. \A n \in DOMAIN stack' : ~(stack'[n].op = "subscribe" /\ stack'[n].inst = j)
        BY <3>1, <4>1, <4>2 DEF Settled, Asking
      <4>4. stack' \in Seq(Frame) /\ OneCall(j)'
        <5>1. stack' \in Seq(Frame)
          BY <1>1, Popped DEF TypeOK
        <5>2. \A m, n \in DOMAIN stack' : m + 1 = n + 1 => m = n
          BY <5>1
        <5> QED
          BY <3>1, <4>2, <5>1, <5>2 DEF Settled, OneCall
      <4> QED
        BY <1>1, <4>1, <4>3, <4>4 DEF Settled, Asking, Agrees
    <3> QED
      BY <3>2, <3>3
  <2> QED
    BY <1>1, <2>1 DEF RelayInv, Wanted
<1> QED
  BY <1>3, <1>4 DEF LoadReturned

LEMMA UnloadReturnedPromises == TypeOK /\ RelayInv /\ UnloadReturned => RelayInv'
<1> SUFFICES ASSUME TypeOK, RelayInv, UnloadReturned PROVE RelayInv'
  OBVIOUS
<1>0. PICK i \in Instance : i = Head(stack).inst
  BY Returned, FramesAre DEF UnloadReturned
<1>1. /\ stack # <<>> /\ stack' = Tail(stack) /\ Head(stack).op = "unload"
      /\ About(i, Head(stack)) /\ Head(stack).inst = i
  BY <1>0 DEF UnloadReturned, Returns, About
<1>3. \/ UNCHANGED <<loaded, held, subs, promise, crossed>>
      \/ /\ loaded' = [loaded EXCEPT ![i] = 0] /\ held' = [held EXCEPT ![i] = <<>>]
         /\ subs' = subs \ {i} /\ promise' = [promise EXCEPT ![i] = "none"]
         /\ crossed' = IF Busy(i, stack') THEN crossed ELSE crossed \ {i}
  BY <1>0 DEF UnloadReturned, Cleared, Ended
<1>4. ASSUME i \notin crossed
      PROVE  Settled(i) /\ OneCall(i)' /\ \A n \in DOMAIN stack' : ~About(i, stack'[n])
  BY <1>1, <1>0, <1>4, LastReturned DEF RelayInv, Settled
<1>5. CASE UNCHANGED <<loaded, held, subs, promise, crossed>>
  <2>1. ASSUME i \notin crossed'
        PROVE  Settled(i)'
    <3>1. promise[i] # "asked"
      <4>1. \A n \in DOMAIN stack : stack[n].op = "subscribe" => ~(stack[n].inst = i)
        <5>1. 1 \in DOMAIN stack /\ Head(stack) = stack[1]
          BY <1>1, Popped DEF TypeOK
        <5> QED
          BY <1>1, <1>4, <1>5, <2>1, <5>1 DEF Settled, OneCall, About
      <4> QED
        BY <1>4, <1>5, <2>1, <4>1 DEF Settled, Agrees
    <3> QED
      BY <1>4, <1>5, <2>1, <3>1 DEF Settled, Asking, Agrees, About
  <2> QED
    BY <1>1, <1>0, <1>5, <2>1, OthersKept DEF RelayInv, Wanted, TypeOK
<1>6. CASE /\ loaded' = [loaded EXCEPT ![i] = 0] /\ held' = [held EXCEPT ![i] = <<>>]
           /\ subs' = subs \ {i} /\ promise' = [promise EXCEPT ![i] = "none"]
           /\ crossed' = IF Busy(i, stack') THEN crossed ELSE crossed \ {i}
  <2>1. /\ promise'[i] = "none" /\ held'[i] = <<>>
        /\ \A j \in Instance \ {i} : /\ promise'[j] = promise[j] /\ held'[j] = held[j]
                                     /\ loaded'[j] = loaded[j]
    BY <1>0, <1>6 DEF TypeOK
  <2>2. ASSUME i \notin crossed'
        PROVE  Settled(i)'
    <3>1. \A n \in DOMAIN stack' : ~About(i, stack'[n])
      BY <1>4, <1>6, <2>2 DEF Busy, About
    <3> QED
      BY <2>1, <3>1 DEF Settled, OneCall, Asking, Agrees, About
  <2>3. /\ subs' \subseteq Instance /\ i \notin subs'
        /\ \A j \in Instance \ {i} : (j \in subs <=> j \in subs') /\ (j \in crossed <=> j \in crossed')
    BY <1>6 DEF TypeOK
  <2> QED
    BY <1>1, <1>0, <2>1, <2>2, <2>3, OthersKept
<1> QED
  BY <1>3, <1>5, <1>6

-----------------------------------------------------------------------------
(* The two theorems *)

LEMMA PromisesHold == TypeOK /\ StartBelow /\ RelayInv /\ [Next]_vars => RelayInv'
<1> SUFFICES ASSUME TypeOK, StartBelow, RelayInv, [Next]_vars PROVE RelayInv'
  OBVIOUS
<1>1. CASE UNCHANGED vars
  BY <1>1, TablesKept DEF vars
<1>2. ASSUME NEW i \in Instance, Deliver(i)
      PROVE  RelayInv'
  BY <1>2, TablesKept DEF Deliver, runtime
<1> QED
  BY <1>1, <1>2, ShellPromises, CallerPromises, SubscribeReturnedPromises, LoadReturnedPromises,
     UnloadReturnedPromises DEF Next, Runtime

LEMMA RelayInvariant == Spec => [](TypeOK /\ StartBelow /\ RelayInv)
<1>1. Init => TypeOK /\ StartBelow /\ RelayInv
  BY Starts DEF Init, StartBelow, NoneHeld, RelayInv, Wanted, Settled, OneCall, Asking, Agrees
<1>2. TypeOK /\ StartBelow /\ RelayInv /\ [Next]_vars => (TypeOK /\ StartBelow /\ RelayInv)'
  BY ShapesKept, PromisesHold
<1> QED
  BY <1>1, <1>2, PTL DEF Spec

\* A module that was told it is subscribed to an instance's events, and has
\* neither unsubscribed nor unloaded it since, is served by exactly one remote
\* object, that of the running process, as long as no two calls about that
\* instance overlapped (BasecampCoreService::subscribeModuleInstanceEvent,
\* CoreModuleManager::subscribeModuleInstanceEvent).
THEOREM PromiseKept == Spec => []PromisedIsRelayed
<1>1. RelayInv => PromisedIsRelayed
  BY DEF RelayInv, Settled, Agrees, PromisedIsRelayed
<1> QED
  BY <1>1, RelayInvariant, PTL

\* Whatever overlaps, the listener gets an event only of an instance somebody
\* is subscribed to, and without an overlap it gets it once
\* (BasecampCoreService's forwarding callback).
THEOREM OnlyWantedReach == Spec => OnlyWantedIsRelayed
<1> DEFINE A == \A i \in Instance : relayed'[i] # relayed[i] =>
                  /\ promise[i] # "none" /\ service
                  /\ relayed'[i] = relayed[i] + 1 \/ i \in crossed
<1>1. TypeOK /\ RelayInv /\ [Next]_vars => A
  <2> SUFFICES ASSUME TypeOK, RelayInv, [Next]_vars,
                      NEW i \in Instance, relayed'[i] # relayed[i]
               PROVE  /\ promise[i] # "none" /\ service
                      /\ relayed'[i] = relayed[i] + 1 \/ i \in crossed
    OBVIOUS
  <2>1. PICK j \in Instance : Deliver(j)
    BY DEF Next, Shell, Caller, Runtime, vars, events, CreateWidget, DestroyWidget, StartCoreService,
       StartReturned, SetEventListener, SubscribeModuleInstanceEvent, UnsubscribeModuleInstanceEvent,
       LoadModuleInstance, UnloadModuleInstance, Call, SubscribeReturned, LoadReturned, UnloadReturned
  <2>2. /\ i = j /\ i \in subs /\ listener /\ Arrivals(i) # {}
        /\ relayed'[i] = relayed[i] + Cardinality(Arrivals(i))
    BY <2>1 DEF Deliver, TypeOK
  <2>3. promise[i] # "none" /\ service
    BY <2>2 DEF RelayInv, Wanted, TypeOK
  <2>4. ASSUME i \notin crossed
        PROVE  Cardinality(Arrivals(i)) = 1
    <3>1. promise[i] \in {"none", "asked", "told"} /\ Agrees(i)
      BY <2>4 DEF RelayInv, Settled, TypeOK
    <3>2. CASE promise[i] = "asked"
      <4>1. held[i] = <<>>
        BY <3>1, <3>2 DEF Agrees
      <4>2. DOMAIN held[i] = {}
        BY <4>1
      <4> QED
        BY <2>2, <4>2 DEF Arrivals
    <3>3. CASE promise[i] = "told"
      <4>1. held[i] = <<loaded[i]>>
        BY <3>1, <3>3 DEF Agrees
      <4>2. DOMAIN held[i] = {1} /\ held[i][1] = loaded[i]
        BY <4>1
      <4>3. Arrivals(i) = {1}
        BY <4>2 DEF Arrivals
      <4> QED
        BY <4>3, FS_Singleton
    <3> QED
      BY <2>3, <3>1, <3>2, <3>3
  <2> QED
    BY <2>2, <2>3, <2>4
<1> QED
  BY <1>1, RelayInvariant, PTL DEF Spec, OnlyWantedIsRelayed
=============================================================================
