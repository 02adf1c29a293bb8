-------------------------- MODULE PackageGateProofs --------------------------
(***************************************************************************)
(* The ack-gated protocol for any set of packages, any dependency graph    *)
(* and any bounds: the shapes of its state; that a package whose files are *)
(* removed was torn down first; and, of clients that wait for an earlier   *)
(* request about a package, who decides about it, and that it implements   *)
(* PackageConsent.                                                         *)
(***************************************************************************)
EXTENDS PackageGate, SequenceTheorems, TLAPS

-----------------------------------------------------------------------------
(* Channels *)

\* Posting adds one message to a channel.
LEMMA RangeAppend ==
    ASSUME NEW S, NEW s \in Seq(S), NEW x \in S
    PROVE  Append(s, x) \in Seq(S) /\ Range(Append(s, x)) = Range(s) \cup {x}
<1>1. Append(s, x) \in Seq(S) /\ DOMAIN Append(s, x) = 1..Len(s) + 1 /\ DOMAIN s = 1..Len(s)
  OBVIOUS
<1>2. \A i \in 1..Len(s) : Append(s, x)[i] = s[i]
  OBVIOUS
<1>3. Append(s, x)[Len(s) + 1] = x
  OBVIOUS
<1> QED
  BY <1>1, <1>2, <1>3 DEF Range

\* Handling takes the first message off a channel and adds none.
LEMMA HeadTail ==
    ASSUME NEW S, NEW s \in Seq(S), s # <<>>
    PROVE  /\ Head(s) \in S /\ Head(s) \in Range(s)
           /\ Tail(s) \in Seq(S) /\ Range(Tail(s)) \subseteq Range(s)
<1>1. /\ Tail(s) \in Seq(S) /\ DOMAIN Tail(s) = 1..Len(s) - 1
      /\ DOMAIN s = 1..Len(s) /\ Len(s) \in Nat \ {0}
  OBVIOUS
<1>2. \A i \in 1..Len(s) - 1 : Tail(s)[i] = s[i + 1]
  OBVIOUS
<1>3. Head(s) = s[1]
  OBVIOUS
<1>4. Head(s) \in S
  BY <1>1, <1>3
<1> QED
  BY <1>1, <1>2, <1>3, <1>4 DEF Range

-----------------------------------------------------------------------------
(* Shapes *)

LEMMA RequestShape ==
    ASSUME NEW r \in Request
    PROVE  /\ r # None
           /\ r.op \in {"multi", "uninstall", "upgrade", "install"}
           /\ r.names \in SUBSET Package
           /\ r.op # "multi" => r.names \in AtMostOne
           /\ r.op # "install" => r \in Pending \ {None}
  BY DEF Request, None, Batches, AtMostOne, Pending

LEMMA PendingShape ==
    /\ \A r \in Pending \ {None} : r \in Request
    /\ \A p \in Package : /\ [op |-> "uninstall", names |-> {p}] \in Request
                          /\ [op |-> "install", names |-> {p}] \in Request
    /\ \A b \in Batches : [op |-> "multi", names |-> b] \in Request
  BY DEF Request, Pending

\* What a dialog shows when it shows a plan.
LEMMA DialogShape ==
    ASSUME NEW d \in Dialog
    PROVE  /\ d.mode = "plan" => d.req \in Pending \ {None}
           /\ d.mode = "loading" => \E p \in Package : d.req.names = {p}
  BY DEF Dialog, Closed, Spinner, ShowPlan

LEMMA CallShape ==
    /\ \A t \in {"request", "ack", "confirm", "cancel"}, r \in Request : CallTo(t, r) \in Call
    /\ CallTo("reset", None) \in Call
    /\ \A c \in Call : c.type # "reset" => c.req \in Request
  BY DEF Call, CallTo

LEMMA MsgShape ==
    ASSUME toGui \in Seq(Msg), NEW type, GuiTakes(type)
    PROVE  Head(toGui).req \in Request /\ toGui' \in Seq(Msg)
<1>1. Head(toGui) \in Msg /\ Tail(toGui) \in Seq(Msg)
  BY HeadTail DEF GuiTakes
<1> QED
  BY <1>1 DEF GuiTakes, Msg

LEMMA AnswerShape ==
    ASSUME toPm \in Seq(Call), toGui \in Seq(Msg), toPm # <<>>, Head(toPm).type # "reset",
           NEW t \in {"ackOk", "ackFail", "rejected"}
    PROVE  Answer(t) \in Seq(Msg)
<1>1. Head(toPm).req \in Request
  BY HeadTail, CallShape
<1>2. [type |-> t, req |-> Head(toPm).req] \in Msg
  BY <1>1 DEF Msg
<1> QED
  BY <1>2 DEF Answer

LEMMA AnnouncedShape ==
    ASSUME toGui \in Seq(Msg), NEW r \in Request
    PROVE  Announced(r) \in Seq(Msg) /\ Cancelled(r) \in Seq(Msg)
<1>1. [type |-> "before", req |-> r] \in Msg /\ [type |-> "cancelled", req |-> r] \in Msg
  BY DEF Msg
<1> QED
  BY <1>1 DEF Announced, Cancelled

LEMMA SlotShape ==
    /\ Free \in Slot /\ Free.req = None
    /\ \A r \in Request, b, c \in BOOLEAN : [req |-> r, acked |-> b, own |-> c] \in Slot
  BY DEF Free, Slot

-----------------------------------------------------------------------------
(* Type correctness: one step per action *)

USE DEF pmVars, dialogs, appVars, guiVars, running, counters

LEMMA TypeInit ==
    ASSUME Init
    PROVE  TypeOK
<1>1. None \in Pending /\ Closed \in Dialog /\ {} \in AtMostOne
  BY DEF Pending, Dialog, AtMostOne
<1>2. 0 \in 0..MaxRequests /\ 0 \in 0..MaxCrashes /\ 0 \in 0..MaxLaunches
  BY PackageGateAssumption
<1>3. <<>> \in Seq(Msg) /\ <<>> \in Seq(Call) /\ <<>> \in Seq(Pending \ {None})
  OBVIOUS
<1> QED
  BY <1>1, <1>2, <1>3, SlotShape DEF Init, TypeOK

\* The module's handlers change its slot, its disk and the two channels.
LEMMA TypePm ==
    ASSUME TypeOK, PackageManager
    PROVE  TypeOK'
<1> USE DEF TypeOK
<1>1. CASE PmHandlesRequest
  <2> DEFINE r == Head(toPm).req
  <2>1. /\ Head(toPm) \in Call /\ Head(toPm).type # "reset" /\ r \in Request
        /\ toPm' \in Seq(Call) /\ Head(toPm).live \in BOOLEAN
    BY <1>1, HeadTail, CallShape DEF PmHandlesRequest, PmTakesCall, Call
  <2>2. Announced(r) \in Seq(Msg) /\ Answer("rejected") \in Seq(Msg)
    BY <1>1, <2>1, AnnouncedShape, AnswerShape DEF PmHandlesRequest, PmTakesCall
  <2>3. slot' \in Slot /\ (slot'.req = None => slot' = Free)
    <3>1. CASE slot' = [req |-> r, acked |-> FALSE, own |-> Head(toPm).live]
      BY <2>1, <3>1, SlotShape, RequestShape
    <3>2. CASE slot' = slot
      BY <3>2
    <3> QED
      BY <1>1, <3>1, <3>2 DEF PmHandlesRequest, Take
  <2>4. toGui' \in Seq(Msg)
    BY <1>1, <2>2 DEF PmHandlesRequest
  <2> QED
    BY <1>1, <2>1, <2>3, <2>4 DEF PmHandlesRequest
<1>2. CASE PmHandlesAck
  <2> DEFINE r == Head(toPm).req
  <2>1. Head(toPm).type # "reset" /\ r \in Request /\ toPm' \in Seq(Call)
    BY <1>2, HeadTail, CallShape DEF PmHandlesAck, PmTakesCall
  <2>2. toGui' \in Seq(Msg)
    BY <1>2, <2>1, AnswerShape DEF PmHandlesAck, PmTakesCall
  <2>3. slot' \in Slot /\ (slot'.req = None => slot' = Free)
    <3>1. CASE slot' = [slot EXCEPT !.acked = TRUE] /\ slot.req # None
      BY <3>1 DEF Slot
    <3>2. CASE slot' = slot
      BY <3>2
    <3> QED
      BY <1>2, <3>1, <3>2 DEF PmHandlesAck, None
  <2> QED
    BY <1>2, <2>1, <2>2, <2>3 DEF PmHandlesAck
<1>3. CASE PmHandlesConfirm
  <2> DEFINE r == Head(toPm).req
  <2>1. r \in Request /\ r.names \in SUBSET Package /\ toPm' \in Seq(Call)
    BY <1>3, HeadTail, CallShape, RequestShape DEF PmHandlesConfirm, PmTakesCall
  <2>2. slot' \in Slot /\ (slot'.req = None => slot' = Free)
    BY <1>3, SlotShape DEF PmHandlesConfirm
  <2> QED
    BY <1>3, <2>1, <2>2 DEF PmHandlesConfirm
<1>4. CASE PmHandlesCancel
  <2> DEFINE r == Head(toPm).req
  <2>1. r \in Request /\ toPm' \in Seq(Call)
    BY <1>4, HeadTail, CallShape DEF PmHandlesCancel, PmTakesCall
  <2>2. slot' \in Slot /\ (slot'.req = None => slot' = Free)
    BY <1>4, SlotShape DEF PmHandlesCancel
  <2>3. toGui' \in Seq(Msg)
    BY <1>4, <2>1, AnnouncedShape DEF PmHandlesCancel
  <2> QED
    BY <1>4, <2>1, <2>2, <2>3 DEF PmHandlesCancel
<1>5. CASE PmHandlesReset
  BY <1>5, HeadTail, SlotShape DEF PmHandlesReset, PmTakesCall
<1>6. CASE AckTimeout
  <2>1. slot.req \in Request
    BY <1>6 DEF AckTimeout, Slot
  <2> QED
    BY <1>6, <2>1, SlotShape, AnnouncedShape DEF AckTimeout
<1> QED
  BY <1>1, <1>2, <1>3, <1>4, <1>5, <1>6 DEF PackageManager

LEMMA TypePmu ==
    ASSUME TypeOK, PackageManagerUi
    PROVE  TypeOK'
<1> USE DEF TypeOK
<1>1. ASSUME NEW r \in Request, PmuRequests(r) PROVE TypeOK'
  <2>1. slot' \in Slot /\ (slot'.req = None => slot' = Free)
    BY <1>1, SlotShape, RequestShape DEF PmuRequests, Take
  <2>2. toGui' \in Seq(Msg)
    BY <1>1, AnnouncedShape DEF PmuRequests
  <2>3. requests' \in 0..MaxRequests
    BY <1>1, PackageGateAssumption DEF PmuRequests
  <2> QED
    BY <1>1, <2>1, <2>2, <2>3 DEF PmuRequests
<1>2. ASSUME NEW p \in Package, PmuCopies(p) PROVE TypeOK'
  BY <1>2 DEF PmuCopies
<1> QED
  BY <1>1, <1>2 DEF PackageManagerUi

\* Posting a call keeps the channel's shape.
LEMMA Posting ==
    ASSUME toPm \in Seq(Call), NEW t \in {"request", "ack", "confirm", "cancel"},
           NEW r \in Request
    PROVE  Append(toPm, CallTo(t, r)) \in Seq(Call)
  BY CallShape

LEMMA CascadeShape ==
    ASSUME NEW names \in SUBSET Package, Cascade(names),
           loaded \in SUBSET Package, relaunched \in SUBSET Package
    PROVE  loaded' \in SUBSET Package /\ relaunched' \in SUBSET Package
  BY DEF Cascade

\* The two answers to an upgrade or single-uninstall question.
LEMMA ConfirmShape ==
    ASSUME NEW names, ConfirmUninstallCascade(names),
           pending \in Pending, posted \in Seq(Pending \ {None})
    PROVE  pending' \in Pending /\ posted' \in Seq(Pending \ {None})
<1>1. None \in Pending
  BY DEF Pending
<1>2. pending.op \in {"uninstall", "upgrade"} => pending # None
  BY DEF None
<1> QED
  BY <1>1, <1>2 DEF ConfirmUninstallCascade

LEMMA CancelShape ==
    ASSUME NEW names, CancelPendingAction(names), pending \in Pending, toPm \in Seq(Call)
    PROVE  pending' \in Pending /\ toPm' \in Seq(Call)
<1>1. None \in Pending
  BY DEF Pending
<1>2. pending # None => Append(toPm, CallTo("cancel", pending)) \in Seq(Call)
  BY PendingShape, Posting
<1> QED
  BY <1>1, <1>2 DEF CancelPendingAction

LEMMA PerformShape ==
    ASSUME NEW name \in Package, PerformUninstallApp(name),
           toPm \in Seq(Call), lastTargets \in AtMostOne
    PROVE  toPm' \in Seq(Call) /\ lastTargets' \in AtMostOne
<1>1. \A b \in Batches : Append(toPm, CallTo("request", [op |-> "multi", names |-> b])) \in Seq(Call)
  BY PendingShape, Posting
<1> QED
  BY <1>1 DEF PerformUninstallApp, AtMostOne

LEMMA TypeEventLoop ==
    ASSUME TypeOK, EventLoop
    PROVE  TypeOK'
<1> USE DEF TypeOK
<1>1. CASE Subscribe
  BY <1>1, CallShape DEF Subscribe
<1>2. CASE HandleBefore
  <2>1. Head(toGui).req \in Request /\ toGui' \in Seq(Msg)
    BY <1>2, MsgShape DEF HandleBefore
  <2> QED
    BY <1>2, <2>1, Posting DEF HandleBefore
<1>3. CASE HandleAckOk
  <2> DEFINE r == Head(toGui).req
  <2>1. r \in Request /\ toGui' \in Seq(Msg)
    BY <1>3, MsgShape DEF HandleAckOk
  <2>2. AskUser(r)
    BY <1>3 DEF HandleAckOk
  <2>3. pending' \in Pending
    BY <2>1, <2>2, RequestShape DEF AskUser
  <2>4. plan' \in Dialog
    BY <2>1, <2>2, RequestShape DEF AskUser, Dialog, KindOf
  <2>5. upgrade' \in AtMostOne /\ gate' \in AtMostOne
    BY <2>1, <2>2, RequestShape DEF AskUser
  <2>6. lastTargets' \in AtMostOne
    BY <2>2 DEF AskUser, AtMostOne
  <2> QED
    BY <1>3, <2>1, <2>3, <2>4, <2>5, <2>6 DEF HandleAckOk
<1>4. CASE HandleRefusal
  <2>1. toGui' \in Seq(Msg)
    BY <1>4, MsgShape DEF HandleRefusal
  <2>2. lastTargets' \in AtMostOne
    BY <1>4 DEF HandleRefusal, AtMostOne
  <2> QED
    BY <1>4, <2>1, <2>2 DEF HandleRefusal
<1>5. CASE RunPosted
  <2>1. Head(posted) \in Pending \ {None} /\ posted' \in Seq(Pending \ {None})
    BY <1>5, HeadTail DEF RunPosted
  <2>2. Head(posted) \in Request /\ Head(posted).names \in SUBSET Package
    BY <2>1, PendingShape, RequestShape
  <2>3. toPm' \in Seq(Call)
    BY <1>5, <2>2, Posting DEF RunPosted
  <2>4. loaded' \in SUBSET Package /\ relaunched' \in SUBSET Package
    BY <1>5, <2>2, CascadeShape DEF RunPosted
  <2> QED
    BY <1>5, <2>1, <2>3, <2>4 DEF RunPosted
<1>6. CASE DependencyDataReady
  <2>1. toPm' \in Seq(Call) /\ lastTargets' \in AtMostOne
    BY <1>6, PerformShape DEF DependencyDataReady, AtMostOne
  <2> QED
    BY <1>6, <2>1 DEF DependencyDataReady, AtMostOne
<1> QED
  BY <1>1, <1>2, <1>3, <1>4, <1>5, <1>6 DEF EventLoop

LEMMA TypeUser ==
    ASSUME TypeOK, User
    PROVE  TypeOK'
<1> USE DEF TypeOK
<1>1. ASSUME NEW p \in Package, UninstallApp(p) PROVE TypeOK'
  <2>1. toPm' \in Seq(Call) /\ lastTargets' \in AtMostOne
    BY <1>1, PerformShape DEF UninstallApp
  <2>2. plan' \in Dialog /\ waiting' \in AtMostOne
    BY <1>1 DEF UninstallApp, Dialog, AtMostOne
  <2>3. requests' \in 0..MaxRequests
    BY <1>1, PackageGateAssumption DEF UninstallApp
  <2> QED
    BY <1>1, <2>1, <2>2, <2>3 DEF UninstallApp
<1>2. ASSUME NEW p \in Package, UninstallModule(p) PROVE TypeOK'
  <2>1. toPm' \in Seq(Call)
    BY <1>2, PendingShape, Posting DEF UninstallModule
  <2>2. requests' \in 0..MaxRequests
    BY <1>2, PackageGateAssumption DEF UninstallModule
  <2> QED
    BY <1>2, <2>1, <2>2 DEF UninstallModule
<1>3. ASSUME NEW p \in Package, Launch(p) PROVE TypeOK'
  BY <1>3, PackageGateAssumption DEF Launch
<1>4. CASE ConfirmPlan
  <2>1. plan.req \in Pending \ {None} /\ plan.req \in Request
        /\ plan.req.names \in SUBSET Package
    BY <1>4, DialogShape, PendingShape, RequestShape DEF ConfirmPlan
  <2>2. toPm' \in Seq(Call)
    BY <1>4, <2>1, Posting DEF ConfirmPlan
  <2>3. pending' \in Pending /\ posted' \in Seq(Pending \ {None})
    BY <1>4, ConfirmShape DEF ConfirmPlan, Pending
  <2>4. loaded' \in SUBSET Package /\ relaunched' \in SUBSET Package
    BY <1>4, <2>1, CascadeShape DEF ConfirmPlan
  <2>5. plan' \in Dialog
    BY <1>4 DEF ConfirmPlan, Dialog
  <2> QED
    BY <1>4, <2>2, <2>3, <2>4, <2>5 DEF ConfirmPlan
<1>5. CASE CancelPlan
  <2>1. plan.req \in Request
    BY <1>5, DialogShape, PendingShape DEF CancelPlan
  <2>2. toPm' \in Seq(Call)
    BY <1>5, <2>1, Posting, CancelShape DEF CancelPlan
  <2>3. pending' \in Pending /\ plan' \in Dialog
    BY <1>5, CancelShape DEF CancelPlan, Pending, Dialog
  <2> QED
    BY <1>5, <2>2, <2>3 DEF CancelPlan
<1>6. CASE CancelSpinner
  BY <1>6 DEF CancelSpinner, Dialog, AtMostOne
<1>7. CASE AnswerUpgrade
  <2>1. toPm' \in Seq(Call) /\ pending' \in Pending /\ posted' \in Seq(Pending \ {None})
    BY <1>7, ConfirmShape, CancelShape DEF AnswerUpgrade
  <2>2. upgrade' \in AtMostOne
    BY <1>7 DEF AnswerUpgrade, AtMostOne
  <2> QED
    BY <1>7, <2>1, <2>2 DEF AnswerUpgrade
<1>8. CASE AnswerInstallGate
  <2>1. [op |-> "install", names |-> gate] \in Request
    BY <1>8, PendingShape DEF AnswerInstallGate, AtMostOne
  <2>2. toPm' \in Seq(Call)
    BY <1>8, <2>1, Posting DEF AnswerInstallGate
  <2> QED
    BY <1>8, <2>2 DEF AnswerInstallGate, AtMostOne
<1> QED
  BY <1>1, <1>2, <1>3, <1>4, <1>5, <1>6, <1>7, <1>8 DEF User

\* The calls that outlive Basecamp are calls still.
LEMMA TypeCrash ==
    ASSUME TypeOK, GuiCrash
    PROVE  TypeOK'
<1> USE DEF TypeOK
<1>1. toPm' \in Seq(Call)
  <2>1. PICK left \in 0..Len(toPm) : toPm' = [i \in 1..left |-> [toPm[i] EXCEPT !.live = FALSE]]
    BY DEF GuiCrash
  <2>2. left \in Nat /\ \A i \in 1..left : toPm[i] \in Call
    OBVIOUS
  <2>3. \A c \in Call : [c EXCEPT !.live = FALSE] \in Call
    BY DEF Call
  <2> QED
    BY <2>1, <2>2, <2>3
<1>2. crashes' \in 0..MaxCrashes
  BY PackageGateAssumption DEF GuiCrash
<1>3. None \in Pending /\ Closed \in Dialog /\ {} \in AtMostOne
  BY DEF Pending, Dialog, AtMostOne
<1>4. <<>> \in Seq(Msg) /\ <<>> \in Seq(Pending \ {None})
  OBVIOUS
<1> QED
  BY <1>1, <1>2, <1>3, <1>4 DEF GuiCrash

LEMMA TypeStutter ==
    ASSUME TypeOK, UNCHANGED vars
    PROVE  TypeOK'
  BY DEF TypeOK, vars

\* Every state of the protocol has the shape it was designed to have: the
\* messages on each channel, the slots and the dialogs, crashes included.
THEOREM TypeCorrect == Spec => []TypeOK
<1>1. TypeOK /\ [Next]_vars => TypeOK'
  BY TypePm, TypePmu, TypeEventLoop, TypeUser, TypeCrash, TypeStutter DEF Next
<1> QED
  BY <1>1, TypeInit, PTL DEF Spec

-----------------------------------------------------------------------------
(* Teardown before removal *)

\* A confirmation on its way, of anything but an install, finds no widget of
\* its packages mounted that the user did not open again since the teardown.
TornDown(names) == names \cap loaded \subseteq CoreModule \cup relaunched

TeardownInv ==
    \A c \in Range(toPm) :
       c.type = "confirm" /\ c.req.op # "install" => TornDown(c.req.names)

\* No step but the cascade touches what is running, except a launch and a
\* crash, and those keep what was torn down torn down.
LEMMA CascadeTearsDown ==
    ASSUME NEW names, Cascade(names)
    PROVE  /\ TornDown(names)'
           /\ \A other : TornDown(other) => TornDown(other)'
  BY DEF Cascade, WidgetHit, TornDown

LEMMA TeardownKept ==
    ASSUME TeardownInv, Range(toPm') \subseteq Range(toPm),
           \A names : TornDown(names) => TornDown(names)'
    PROVE  TeardownInv'
  BY DEF TeardownInv

\* A call other than a confirmation of a removal may be posted freely.
LEMMA TeardownPosted ==
    ASSUME TypeOK, TeardownInv,
           \A names : TornDown(names) => TornDown(names)',
           NEW t \in {"request", "ack", "confirm", "cancel"}, NEW r \in Request,
           toPm' = Append(toPm, CallTo(t, r)),
           t = "confirm" /\ r.op # "install" => TornDown(r.names)'
    PROVE  TeardownInv'
<1>1. Range(toPm') = Range(toPm) \cup {CallTo(t, r)}
  BY RangeAppend, CallShape DEF TypeOK
<1>2. CallTo(t, r).type = t /\ CallTo(t, r).req = r
  BY DEF CallTo
<1> QED
  BY <1>1, <1>2 DEF TeardownInv

LEMMA TornDownSame ==
    ASSUME UNCHANGED <<loaded, relaunched>>, NEW names, TornDown(names)
    PROVE  TornDown(names)'
  BY DEF TornDown

LEMMA TeardownInit == Init => TeardownInv
  BY DEF Init, TeardownInv, Range

LEMMA TeardownPm ==
    ASSUME TypeOK, TeardownInv, PackageManager
    PROVE  TeardownInv'
<1>1. UNCHANGED <<loaded, relaunched>>
  BY DEF PackageManager, PmHandlesRequest, PmHandlesAck, PmHandlesConfirm, PmHandlesCancel,
         PmHandlesReset, AckTimeout
<1>2. Range(toPm') \subseteq Range(toPm)
  BY HeadTail DEF TypeOK, PackageManager, PmTakesCall, PmHandlesRequest, PmHandlesAck,
         PmHandlesConfirm, PmHandlesCancel, PmHandlesReset, AckTimeout
<1> QED
  BY <1>1, <1>2, TeardownKept, TornDownSame

LEMMA TeardownPmu ==
    ASSUME TeardownInv, PackageManagerUi
    PROVE  TeardownInv'
  BY DEF TeardownInv, TornDown, PackageManagerUi, PmuRequests, PmuCopies

LEMMA TeardownPerform ==
    ASSUME TypeOK, TeardownInv, NEW name \in Package, PerformUninstallApp(name),
           UNCHANGED <<loaded, relaunched>>
    PROVE  TeardownInv'
<1>1. CASE UNCHANGED toPm
  BY <1>1, TornDownSame, TeardownKept
<1>2. ASSUME NEW b \in Batches,
             toPm' = Append(toPm, CallTo("request", [op |-> "multi", names |-> b]))
      PROVE  TeardownInv'
  BY <1>2, TornDownSame, TeardownPosted, PendingShape
<1> QED
  BY <1>1, <1>2 DEF PerformUninstallApp

LEMMA TeardownEventLoop ==
    ASSUME TypeOK, TeardownInv, EventLoop
    PROVE  TeardownInv'
<1>1. CASE Subscribe
  <2>1. Range(toPm') = Range(toPm) \cup {CallTo("reset", None)}
    BY <1>1, RangeAppend, CallShape DEF Subscribe, TypeOK
  <2>2. CallTo("reset", None).type # "confirm"
    BY DEF CallTo
  <2> QED
    BY <1>1, <2>1, <2>2 DEF Subscribe, TeardownInv, TornDown
<1>2. CASE HandleBefore
  <2>1. Head(toGui).req \in Request
    BY <1>2, MsgShape DEF HandleBefore, TypeOK
  <2> QED
    BY <1>2, <2>1, TornDownSame, TeardownPosted DEF HandleBefore
<1>3. CASE HandleAckOk
  BY <1>3, TornDownSame, TeardownKept DEF HandleAckOk
<1>4. CASE HandleRefusal
  BY <1>4, TornDownSame, TeardownKept DEF HandleRefusal
<1>5. CASE RunPosted
  <2>1. Head(posted) \in Request
    BY <1>5, HeadTail, PendingShape DEF RunPosted, TypeOK
  <2> QED
    BY <1>5, <2>1, CascadeTearsDown, TeardownPosted DEF RunPosted
<1>6. CASE DependencyDataReady
  <2>1. UNCHANGED <<loaded, relaunched>>
    BY <1>6 DEF DependencyDataReady
  <2>2. ASSUME NEW name \in waiting, PerformUninstallApp(name) PROVE TeardownInv'
    <3>1. name \in Package
      BY DEF TypeOK, AtMostOne
    <3> QED
      BY <2>1, <2>2, <3>1, TeardownPerform
  <2>3. CASE UNCHANGED toPm
    BY <2>1, <2>3, TornDownSame, TeardownKept
  <2> QED
    BY <1>6, <2>2, <2>3 DEF DependencyDataReady
<1> QED
  BY <1>1, <1>2, <1>3, <1>4, <1>5, <1>6 DEF EventLoop

LEMMA TeardownUser ==
    ASSUME TypeOK, TeardownInv, User
    PROVE  TeardownInv'
<1>1. ASSUME NEW p \in Package, UninstallApp(p) PROVE TeardownInv'
  <2>1. UNCHANGED <<loaded, relaunched>>
    BY <1>1 DEF UninstallApp
  <2>2. CASE UNCHANGED toPm
    BY <2>1, <2>2, TornDownSame, TeardownKept
  <2> QED
    BY <1>1, <2>1, <2>2, TeardownPerform DEF UninstallApp
<1>2. ASSUME NEW p \in Package, UninstallModule(p) PROVE TeardownInv'
  BY <1>2, PendingShape, TornDownSame, TeardownPosted DEF UninstallModule
<1>3. ASSUME NEW p \in Package, Launch(p) PROVE TeardownInv'
  BY <1>3 DEF Launch, TeardownInv, TornDown
<1>4. CASE ConfirmPlan
  <2>1. plan.req \in Request
    BY <1>4, DialogShape, PendingShape DEF ConfirmPlan, TypeOK
  <2>2. CASE /\ Cascade(plan.req.names)
             /\ toPm' = Append(toPm, CallTo("confirm", plan.req))
    BY <2>1, <2>2, CascadeTearsDown, TeardownPosted
  <2>3. CASE UNCHANGED <<toPm, loaded, relaunched>>
    BY <2>3, TornDownSame, TeardownKept
  <2> QED
    BY <1>4, <2>2, <2>3 DEF ConfirmPlan
<1>5. CASE CancelPlan
  <2>1. plan.req \in Request /\ UNCHANGED <<loaded, relaunched>>
    BY <1>5, DialogShape, PendingShape DEF CancelPlan, TypeOK
  <2>2. \/ UNCHANGED toPm
        \/ \E r \in Request : toPm' = Append(toPm, CallTo("cancel", r))
    BY <1>5, <2>1, PendingShape DEF CancelPlan, CancelPendingAction, TypeOK
  <2> QED
    BY <2>1, <2>2, TornDownSame, TeardownKept, TeardownPosted
<1>6. CASE CancelSpinner
  BY <1>6, TornDownSame, TeardownKept DEF CancelSpinner
<1>7. CASE AnswerUpgrade
  <2>1. UNCHANGED <<loaded, relaunched>>
    BY <1>7 DEF AnswerUpgrade
  <2>2. \/ UNCHANGED toPm
        \/ \E r \in Request : toPm' = Append(toPm, CallTo("cancel", r))
    BY <1>7, PendingShape DEF AnswerUpgrade, CancelPendingAction, TypeOK
  <2> QED
    BY <2>1, <2>2, TornDownSame, TeardownKept, TeardownPosted
<1>8. CASE AnswerInstallGate
  <2>1. [op |-> "install", names |-> gate] \in Request
    BY <1>8, PendingShape DEF AnswerInstallGate, AtMostOne, TypeOK
  <2> QED
    BY <1>8, <2>1, TornDownSame, TeardownPosted DEF AnswerInstallGate
<1> QED
  BY <1>1, <1>2, <1>3, <1>4, <1>5, <1>6, <1>7, <1>8 DEF User

LEMMA TeardownCrash ==
    ASSUME GuiCrash
    PROVE  TeardownInv'
  BY DEF GuiCrash, TeardownInv, TornDown

\* Only the handling of a confirmation takes packages off the disk.
LEMMA RemovalStep ==
    ASSUME TypeOK, TeardownInv, [Next]_vars
    PROVE  (installed \ installed') \cap loaded \subseteq CoreModule \cup relaunched
<1>1. CASE PmHandlesConfirm
  <2> DEFINE c == Head(toPm)
  <2>1. c \in Range(toPm) /\ c.type = "confirm"
    BY <1>1, HeadTail DEF PmHandlesConfirm, PmTakesCall, TypeOK
  <2>2. installed \ installed' = {} \/ (c.req.op # "install"
                                        /\ installed \ installed' \subseteq c.req.names)
    BY <1>1 DEF PmHandlesConfirm
  <2> QED
    BY <2>1, <2>2 DEF TeardownInv, TornDown
<1>2. CASE ~PmHandlesConfirm
  <2>1. installed \subseteq installed'
    BY <1>2 DEF Next, PackageManager, PackageManagerUi, EventLoop, User, GuiCrash, vars,
         PmHandlesRequest, PmHandlesAck, PmHandlesCancel, PmHandlesReset, AckTimeout,
         PmuRequests, PmuCopies, Subscribe, HandleBefore, HandleAckOk, HandleRefusal,
         RunPosted, DependencyDataReady, UninstallApp, UninstallModule, Launch, ConfirmPlan,
         CancelPlan, CancelSpinner, AnswerUpgrade, AnswerInstallGate
  <2> QED
    BY <2>1
<1> QED
  BY <1>1, <1>2

\* Whatever the packages, their dependencies and the interleaving of the two
\* processes: when files are removed, no widget of theirs is mounted that was
\* not opened again after the teardown.
THEOREM TornDownFirst == Spec => RemovedWasTornDown
<1> DEFINE Inv == TypeOK /\ TeardownInv
<1>1. Init => Inv
  BY TypeInit, TeardownInit
<1>2. Inv /\ [Next]_vars => Inv'
  <2>1. UNCHANGED vars /\ TeardownInv => TeardownInv'
    BY DEF vars, TeardownInv, TornDown
  <2> QED
    BY <2>1, TypePm, TypePmu, TypeEventLoop, TypeUser, TypeCrash, TypeStutter,
       TeardownPm, TeardownPmu, TeardownEventLoop, TeardownUser, TeardownCrash DEF Next
<1>3. Inv /\ [Next]_vars =>
        [(installed \ installed') \cap loaded \subseteq CoreModule \cup relaunched]_vars
  BY RemovalStep
<1> QED
  BY <1>1, <1>2, <1>3, PTL DEF Spec, RemovedWasTornDown

-----------------------------------------------------------------------------
(* Who decides about an acked request of package_manager.  When nobody asks *)
(* about a package while an earlier request about it is unsettled, the      *)
(* right to decide is a token: the answer to the ack brings it to Basecamp, *)
(* the question holds it, the queued confirmation, and then the call that   *)
(* goes back.  There is one at most, it is about the request in the slot,   *)
(* and an acked slot without one is about to be reset.                      *)

-----------------------------------------------------------------------------
(* Positions on a channel, by the sets the messages there belong to *)

\* One message of A at most.
OnlyOne(s, A) == \A m, n \in DOMAIN s : s[m] \in A /\ s[n] \in A => m = n

\* No message of B is behind one of A.
NoneBehind(s, A, B) == \A m, n \in DOMAIN s : m < n /\ s[m] \in A => s[n] \notin B

\* Each message of A has one of B behind it.
Followed(s, A, B) == \A m \in DOMAIN s : s[m] \in A => \E n \in DOMAIN s : m < n /\ s[n] \in B

LEMMA AppendAt ==
    ASSUME NEW S, NEW s \in Seq(S), NEW x \in S
    PROVE  /\ DOMAIN s = 1..Len(s) /\ Len(s) \in Nat
           /\ DOMAIN Append(s, x) = 1..Len(s) + 1
           /\ \A n \in 1..Len(s) : Append(s, x)[n] = s[n]
           /\ Append(s, x)[Len(s) + 1] = x
  OBVIOUS

LEMMA TailAt ==
    ASSUME NEW S, NEW s \in Seq(S), s # <<>>
    PROVE  /\ DOMAIN s = 1..Len(s) /\ Len(s) \in Nat \ {0}
           /\ DOMAIN Tail(s) = 1..Len(s) - 1
           /\ \A n \in 1..Len(s) - 1 : Tail(s)[n] = s[n + 1]
           /\ Head(s) = s[1]
  OBVIOUS

\* What a channel keeps when a message is posted,
LEMMA PostedAt ==
    ASSUME NEW S, NEW s \in Seq(S), NEW x \in S, NEW A, NEW B
    PROVE  /\ OnlyOne(s, A) /\ (x \in A => Range(s) \cap A = {}) => OnlyOne(Append(s, x), A)
           /\ NoneBehind(s, A, B) /\ (x \in B => Range(s) \cap A = {})
                => NoneBehind(Append(s, x), A, B)
           /\ Followed(s, A, B) /\ x \notin A => Followed(Append(s, x), A, B)
           /\ x \in B \ A => Followed(Append(s, x), A, B)
<1> DEFINE t == Append(s, x)
<1>1. /\ DOMAIN s = 1..Len(s) /\ Len(s) \in Nat /\ DOMAIN t = 1..Len(s) + 1
      /\ \A n \in 1..Len(s) : t[n] = s[n]
      /\ t[Len(s) + 1] = x
  BY AppendAt
<1> HIDE DEF t
<1>2. \A n \in DOMAIN s : s[n] \in Range(s)
  BY DEF Range
<1>3. OnlyOne(s, A) /\ (x \in A => Range(s) \cap A = {}) => OnlyOne(t, A)
  BY <1>1, <1>2 DEF OnlyOne
<1>4. NoneBehind(s, A, B) /\ (x \in B => Range(s) \cap A = {}) => NoneBehind(t, A, B)
  BY <1>1, <1>2 DEF NoneBehind
<1>5. Followed(s, A, B) /\ x \notin A => Followed(t, A, B)
  BY <1>1 DEF Followed
<1>6. x \in B \ A => Followed(t, A, B)
  <2>1. \A m \in DOMAIN t : t[m] \in A /\ x \notin A => m < Len(s) + 1
    BY <1>1
  <2> QED
    BY <1>1, <2>1 DEF Followed
<1> QED
  BY <1>3, <1>4, <1>5, <1>6 DEF t

\* and when one is taken.
LEMMA TakenAt ==
    ASSUME NEW S, NEW s \in Seq(S), s # <<>>, NEW A, NEW B
    PROVE  /\ Range(s) = Range(Tail(s)) \cup {Head(s)}
           /\ OnlyOne(s, A) => /\ OnlyOne(Tail(s), A)
                               /\ Head(s) \in A => Range(Tail(s)) \cap A = {}
           /\ NoneBehind(s, A, B) => /\ NoneBehind(Tail(s), A, B)
                                     /\ Head(s) \in A => Range(Tail(s)) \cap B = {}
           /\ Followed(s, A, B) => /\ Followed(Tail(s), A, B)
                                   /\ Head(s) \in A => Range(Tail(s)) \cap B # {}
<1> DEFINE t == Tail(s)
<1>1. /\ DOMAIN s = 1..Len(s) /\ Len(s) \in Nat \ {0} /\ DOMAIN t = 1..Len(s) - 1
      /\ \A n \in 1..Len(s) - 1 : t[n] = s[n + 1]
      /\ Head(s) = s[1]
  BY TailAt
<1> HIDE DEF t
<1>2. \A n \in DOMAIN t : n \in Nat /\ n + 1 \in DOMAIN s /\ t[n] = s[n + 1] /\ 1 < n + 1
  BY <1>1
<1>3. \A n \in DOMAIN s : n = 1 \/ (n - 1 \in DOMAIN t /\ s[n] = t[n - 1])
  BY <1>1
<1>4. 1 \in DOMAIN s
  BY <1>1
<1>5. Range(s) = Range(t) \cup {Head(s)}
  <2>1. Range(s) \subseteq Range(t) \cup {Head(s)}
    BY <1>1, <1>3 DEF Range
  <2>2. Range(t) \cup {Head(s)} \subseteq Range(s)
    BY <1>1, <1>2, <1>4 DEF Range
  <2> QED
    BY <2>1, <2>2
<1>6. ASSUME OnlyOne(s, A) PROVE OnlyOne(t, A) /\ (Head(s) \in A => Range(t) \cap A = {})
  <2>1. OnlyOne(t, A)
    BY <1>2, <1>6 DEF OnlyOne
  <2>2. Head(s) \in A => \A n \in DOMAIN t : t[n] \notin A
    BY <1>1, <1>2, <1>4, <1>6 DEF OnlyOne
  <2> QED
    BY <2>1, <2>2 DEF Range
<1>7. ASSUME NoneBehind(s, A, B)
      PROVE  NoneBehind(t, A, B) /\ (Head(s) \in A => Range(t) \cap B = {})
  <2>1. NoneBehind(t, A, B)
    BY <1>2, <1>7 DEF NoneBehind
  <2>2. Head(s) \in A => \A n \in DOMAIN t : t[n] \notin B
    BY <1>1, <1>2, <1>4, <1>7 DEF NoneBehind
  <2> QED
    BY <2>1, <2>2 DEF Range
<1>8. ASSUME Followed(s, A, B)
      PROVE  Followed(t, A, B) /\ (Head(s) \in A => Range(t) \cap B # {})
  <2>1. ASSUME NEW m \in DOMAIN t, t[m] \in A PROVE \E n \in DOMAIN t : m < n /\ t[n] \in B
    <3>1. m \in Nat /\ m + 1 \in DOMAIN s /\ s[m + 1] \in A
      BY <1>2, <2>1
    <3>2. PICK n \in DOMAIN s : m + 1 < n /\ s[n] \in B
      BY <1>8, <3>1 DEF Followed
    <3>3. n - 1 \in DOMAIN t /\ t[n - 1] \in B /\ m < n - 1
      BY <1>1, <1>3, <3>1, <3>2
    <3> QED
      BY <3>3
  <2>2. Head(s) \in A => \E n \in DOMAIN t : t[n] \in B
    BY <1>1, <1>3, <1>4, <1>8 DEF Followed
  <2> QED
    BY <2>1, <2>2 DEF Range, Followed
<1> QED
  BY <1>5, <1>6, <1>7, <1>8 DEF t

-----------------------------------------------------------------------------
(* The invariant *)

Acks      == {m \in Msg : m.type = "ackOk"}
Decisions == {c \in Call : c.type \in {"confirm", "cancel"}}
Resets    == {c \in Call : c.type = "reset"}
Dead      == {c \in Call : ~c.live}

\* The calls that only a subscribed session makes.
Fresh     == {c \in Call : c.live /\ c.type # "request"}

AcksIn      == Range(toGui) \cap Acks
DecisionsIn == Range(toPm) \cap Decisions
ResetsIn    == Range(toPm) \cap Resets

\* Every token is about the request in the slot,
TokensHold ==
    /\ \A m \in AcksIn : Holds(m.req)
    /\ \A r \in AskedNow : Holds(r)
    /\ \A r \in Range(posted) : Holds(r)
    /\ \A c \in DecisionsIn : Holds(c.req)

\* it is in one place, and nothing but a decision can precede a reset.
OnePlace ==
    /\ AcksIn # {} => AskedNow = {} /\ posted = <<>> /\ DecisionsIn = {}
    /\ AskedNow # {} => posted = <<>> /\ DecisionsIn = {}
    /\ posted # <<>> => DecisionsIn = {}
    /\ ResetsIn # {} => AcksIn = {} /\ AskedNow = {} /\ posted = <<>>

\* The acked slot of a session that is not about to reset it has a token.
Owned ==
    subscribed /\ slot.acked /\ ResetsIn = {} =>
       AcksIn # {} \/ AskedNow # {} \/ posted # <<>> \/ DecisionsIn # {}

TokenInv == TokensHold /\ OnePlace /\ Owned

PmOrder ==
    /\ OnlyOne(toPm, Decisions)
    /\ NoneBehind(toPm, Resets, Decisions)
    /\ NoneBehind(toPm, Fresh, Resets)

GuiOrder == OnlyOne(toGui, Acks)

\* A session starts with a reset behind all that the last one left; before
\* that it hears no question and asks none.
Sessions ==
    /\ subscribed => Followed(toPm, Dead, Resets)
    /\ ~subscribed => /\ Range(toPm) \cap Fresh = {}
                      /\ \A m \in Range(toGui) : m.type \notin {"before", "ackOk"}
                      /\ AskedNow = {} /\ posted = <<>>

Mentioned(r) == slot.req = r \/ \E m \in Range(toPm) \cup Range(toGui) : m.req = r

\* Packages named by two requests that are not settled: they are one request.
OneRequest ==
    \A r, q \in Request : Mentioned(r) /\ Mentioned(q) /\ Overlaps(r, q.names) => r = q

\* What is on screen is what m_pendingAction holds.
Screen ==
    /\ PendingIsAnswerable
    /\ plan.mode = "plan" => plan.req.op \in {"uninstall", "multi"}
    /\ Len(posted) <= 1

GateInv == OneRequest /\ PmOrder /\ GuiOrder /\ Sessions /\ TokenInv /\ Screen

-----------------------------------------------------------------------------
(* What a call or an answer does to the channels *)

LEMMA PostCall ==
    ASSUME TypeOK, PmOrder,
           NEW t \in {"request", "ack", "confirm", "cancel"}, NEW r \in Request,
           toPm' = Append(toPm, CallTo(t, r)),
           t \in {"confirm", "cancel"} => DecisionsIn = {} /\ ResetsIn = {}
    PROVE  /\ PmOrder' /\ ResetsIn' = ResetsIn
           /\ Range(toPm') = Range(toPm) \cup {CallTo(t, r)} /\ CallTo(t, r).req = r
           /\ t \in {"confirm", "cancel"} => DecisionsIn' = {CallTo(t, r)}
           /\ t \notin {"confirm", "cancel"} => DecisionsIn' = DecisionsIn
           /\ Followed(toPm, Dead, Resets) => Followed(toPm, Dead, Resets)'
           /\ t = "request" /\ Range(toPm) \cap Fresh = {} => Range(toPm') \cap Fresh = {}
<1> DEFINE x == CallTo(t, r)
<1>1. /\ x \in Call /\ x.type = t /\ x.req = r /\ x.live = TRUE
  BY CallShape DEF CallTo
<1>2. toPm \in Seq(Call)
  BY DEF TypeOK
<1>3. /\ x \notin Resets /\ x \notin Dead
      /\ x \in Decisions <=> t \in {"confirm", "cancel"}
      /\ t = "request" => x \notin Fresh
  BY <1>1 DEF Resets, Dead, Decisions, Fresh
<1> HIDE DEF x
<1>4. Range(toPm') = Range(toPm) \cup {x}
  BY <1>1, <1>2, RangeAppend DEF x
<1>5. toPm' = Append(toPm, x)
  BY DEF x
<1>6. OnlyOne(toPm', Decisions)
  BY <1>1, <1>2, <1>3, <1>5, PostedAt DEF PmOrder, DecisionsIn
<1>7. NoneBehind(toPm', Resets, Decisions)
  BY <1>1, <1>2, <1>3, <1>5, PostedAt DEF PmOrder, ResetsIn
<1>8. NoneBehind(toPm', Fresh, Resets)
  BY <1>1, <1>2, <1>3, <1>5, PostedAt DEF PmOrder
<1>9. Followed(toPm, Dead, Resets) => Followed(toPm', Dead, Resets)
  BY <1>1, <1>2, <1>3, <1>5, PostedAt
<1>10. PmOrder'
  BY <1>6, <1>7, <1>8 DEF PmOrder
<1>11. ResetsIn' = ResetsIn
  BY <1>3, <1>4 DEF ResetsIn
<1>12. /\ t \in {"confirm", "cancel"} => DecisionsIn' = {x}
       /\ t \notin {"confirm", "cancel"} => DecisionsIn' = DecisionsIn
  BY <1>3, <1>4 DEF DecisionsIn
<1>13. t = "request" /\ Range(toPm) \cap Fresh = {} => Range(toPm') \cap Fresh = {}
  BY <1>3, <1>4
<1> QED
  BY <1>1, <1>4, <1>9, <1>10, <1>11, <1>12, <1>13 DEF x

LEMMA TakeCall ==
    ASSUME TypeOK, PmOrder, NEW type, PmTakesCall(type)
    PROVE  /\ Head(toPm) \in Call /\ Head(toPm).type = type
           /\ Range(toPm) = Range(toPm') \cup {Head(toPm)}
           /\ PmOrder'
           /\ type \in {"confirm", "cancel"} => Head(toPm) \in DecisionsIn /\ DecisionsIn' = {}
           /\ type \notin {"confirm", "cancel"} => DecisionsIn' \subseteq DecisionsIn
           /\ type \in {"request", "ack"} => DecisionsIn' = DecisionsIn
           /\ type = "reset" => ResetsIn # {} /\ DecisionsIn' = {}
           /\ type # "reset" => ResetsIn' = ResetsIn
           /\ Head(toPm).live /\ type # "request" => ResetsIn' = {}
           /\ Followed(toPm, Dead, Resets) =>
                 /\ Followed(toPm, Dead, Resets)'
                 /\ ~Head(toPm).live => ResetsIn' # {}
           /\ Range(toPm) \cap Fresh = {} => Range(toPm') \cap Fresh = {}
<1> DEFINE h == Head(toPm)
<1>1. toPm \in Seq(Call) /\ toPm # <<>> /\ toPm' = Tail(toPm) /\ h.type = type
  BY DEF TypeOK, PmTakesCall
<1>2. h \in Call
  BY <1>1, HeadTail
<1> HIDE DEF h
<1>3. /\ h \in Decisions <=> type \in {"confirm", "cancel"}
      /\ h \in Resets <=> type = "reset"
      /\ h \in Dead <=> ~h.live
      /\ h \in Fresh <=> h.live /\ type # "request"
  BY <1>1, <1>2 DEF Resets, Dead, Decisions, Fresh
<1>4. Range(toPm) = Range(toPm') \cup {h}
  BY <1>1, TakenAt DEF h
<1>5. OnlyOne(toPm', Decisions) /\ (h \in Decisions => Range(toPm') \cap Decisions = {})
  BY <1>1, TakenAt DEF PmOrder, h
<1>6. NoneBehind(toPm', Resets, Decisions) /\ (h \in Resets => Range(toPm') \cap Decisions = {})
  BY <1>1, TakenAt DEF PmOrder, h
<1>7. NoneBehind(toPm', Fresh, Resets) /\ (h \in Fresh => Range(toPm') \cap Resets = {})
  BY <1>1, TakenAt DEF PmOrder, h
<1>8. Followed(toPm, Dead, Resets) =>
        Followed(toPm', Dead, Resets) /\ (h \in Dead => Range(toPm') \cap Resets # {})
  BY <1>1, TakenAt DEF h
<1>9. PmOrder'
  BY <1>5, <1>6, <1>7 DEF PmOrder
<1>10. /\ type \in {"confirm", "cancel"} => h \in DecisionsIn /\ DecisionsIn' = {}
       /\ type \notin {"confirm", "cancel"} => DecisionsIn' = DecisionsIn
       /\ type = "reset" => DecisionsIn' = {}
  BY <1>3, <1>4, <1>5, <1>6 DEF DecisionsIn
<1>11. /\ type = "reset" => ResetsIn # {}
       /\ type # "reset" => ResetsIn' = ResetsIn
       /\ h.live /\ type # "request" => ResetsIn' = {}
       /\ Followed(toPm, Dead, Resets) /\ ~h.live => ResetsIn' # {}
  BY <1>3, <1>4, <1>7, <1>8 DEF ResetsIn
<1>12. Range(toPm) \cap Fresh = {} => Range(toPm') \cap Fresh = {}
  BY <1>4
<1>13. Followed(toPm, Dead, Resets) => Followed(toPm, Dead, Resets)'
  BY <1>8
<1> QED
  BY <1>1, <1>2, <1>4, <1>9, <1>10, <1>11, <1>12, <1>13 DEF h

LEMMA Send ==
    ASSUME TypeOK, GuiOrder, NEW m \in Msg, toGui' = Append(toGui, m),
           m.type = "ackOk" => AcksIn = {}
    PROVE  /\ GuiOrder' /\ Range(toGui') = Range(toGui) \cup {m}
           /\ m.type = "ackOk" => AcksIn' = {m}
           /\ m.type # "ackOk" => AcksIn' = AcksIn
<1>1. toGui \in Seq(Msg) /\ (m \in Acks <=> m.type = "ackOk")
  BY DEF TypeOK, Acks
<1>2. Range(toGui') = Range(toGui) \cup {m}
  BY <1>1, RangeAppend
<1>3. OnlyOne(toGui', Acks)
  BY <1>1, PostedAt DEF GuiOrder, AcksIn
<1> QED
  BY <1>1, <1>2, <1>3 DEF AcksIn, GuiOrder

LEMMA Hear ==
    ASSUME TypeOK, GuiOrder, NEW type, GuiTakes(type)
    PROVE  /\ Head(toGui).req \in Request /\ Head(toGui) \in Msg /\ Head(toGui).type = type
           /\ GuiOrder' /\ Range(toGui) = Range(toGui') \cup {Head(toGui)}
           /\ type = "ackOk" => Head(toGui) \in AcksIn /\ AcksIn' = {}
           /\ type # "ackOk" => AcksIn' = AcksIn
<1>1. /\ toGui \in Seq(Msg) /\ toGui # <<>> /\ toGui' = Tail(toGui)
      /\ Head(toGui).type = type
  BY DEF TypeOK, GuiTakes
<1>2. Head(toGui) \in Msg /\ Head(toGui).req \in Request
  BY <1>1, HeadTail, MsgShape
<1>3. Head(toGui) \in Acks <=> type = "ackOk"
  BY <1>1, <1>2 DEF Acks
<1>4. Range(toGui) = Range(toGui') \cup {Head(toGui)}
  BY <1>1, TakenAt
<1>5. /\ OnlyOne(toGui', Acks)
      /\ Head(toGui) \in Acks => Range(toGui') \cap Acks = {}
  BY <1>1, TakenAt DEF GuiOrder
<1> QED
  BY <1>1, <1>2, <1>3, <1>4, <1>5 DEF AcksIn, GuiOrder

-----------------------------------------------------------------------------
(* What a step does to the tokens, the requests and the screen *)

\* A step that leaves every token where it is,
LEMMA TokensStay ==
    ASSUME TokenInv, UNCHANGED <<slot, subscribed, posted>>, AskedNow' = AskedNow,
           AcksIn' = AcksIn, DecisionsIn' = DecisionsIn, ResetsIn' = ResetsIn
    PROVE  TokenInv'
  BY DEF TokenInv, TokensHold, OnePlace, Owned, Holds

\* and one that leaves none.
LEMMA NoToken ==
    ASSUME AskedNow' = {}, posted' = <<>>, AcksIn' = {}, DecisionsIn' = {},
           subscribed' /\ slot'.acked => ResetsIn' # {}
    PROVE  TokenInv'
<1>1. Range(posted') = {}
  BY DEF Range
<1> QED
  BY <1>1 DEF TokenInv, TokensHold, OnePlace, Owned

\* Nobody holds a slot that is not acked.
LEMMA NotAcked ==
    ASSUME TypeOK, TokenInv, ~slot.acked
    PROVE  AskedNow = {} /\ posted = <<>> /\ AcksIn = {} /\ DecisionsIn = {}
<1>1. posted # <<>> => Head(posted) \in Range(posted)
  BY HeadTail DEF TypeOK
<1> QED
  BY <1>1 DEF TokenInv, TokensHold, Holds

LEMMA NoNews ==
    ASSUME OneRequest, \A r \in Request : Mentioned(r)' => Mentioned(r)
    PROVE  OneRequest'
  BY DEF OneRequest, Overlaps

LEMMA NewRequest ==
    ASSUME OneRequest, PatientClients, NEW q \in Request, MayAsk(q.names),
           \A r \in Request : Mentioned(r)' => Mentioned(r) \/ r = q
    PROVE  OneRequest'
<1>1. \A r \in Request : Mentioned(r) => ~Overlaps(r, q.names) /\ ~Overlaps(q, r.names)
  BY DEF MayAsk, Unsettled, Mentioned, Overlaps
<1> QED
  BY <1>1 DEF OneRequest, Overlaps

\* A question open is about the request in the slot, hence the only one.
LEMMA NothingAsked ==
    ASSUME TypeOK, AskedNow = {}
    PROVE  plan.mode # "plan" /\ upgrade = {} /\ gate = {}
<1>1. plan.mode = "plan" => plan.req \in AskedNow
  BY DialogShape, PendingShape DEF TypeOK, AskedNow
<1>2. \A p \in Package : upgrade = {p} => [op |-> "upgrade", names |-> {p}] \in AskedNow
  BY DEF AskedNow, Request
<1>3. \A p \in Package : gate = {p} => [op |-> "install", names |-> {p}] \in AskedNow
  BY DEF AskedNow, Request
<1> QED
  BY <1>1, <1>2, <1>3 DEF TypeOK, AtMostOne

LEMMA AskedAreNone ==
    ASSUME plan.mode # "plan", upgrade = {}, gate = {}
    PROVE  AskedNow = {}
<1>1. \A r \in Request : r.op \in {"upgrade", "install"} => r.names # {}
  BY DEF Request, Batches
<1> QED
  BY <1>1 DEF AskedNow

LEMMA SameQuestion ==
    ASSUME UNCHANGED <<upgrade, gate>>, UNCHANGED plan \/ {plan.mode, plan'.mode} \subseteq {"closed", "loading"}
    PROVE  AskedNow' = AskedNow
  BY DEF AskedNow

LEMMA PlanAsked ==
    ASSUME TypeOK, TokenInv, Screen, plan.mode = "plan"
    PROVE  /\ plan.req \in Request /\ AskedNow = {plan.req} /\ pending = plan.req
           /\ plan.req.op \in {"uninstall", "multi"}
           /\ upgrade = {} /\ gate = {} /\ plan.req # None
<1>1. plan.req \in Request /\ plan.req # None /\ plan.req \in AskedNow
  BY DialogShape, PendingShape DEF TypeOK, AskedNow
<1>2. AskedNow = {plan.req}
  BY <1>1 DEF TokenInv, TokensHold, Holds
<1>3. plan.req.op \in {"uninstall", "multi"} /\ pending = plan.req
  BY <1>1, <1>2 DEF Screen, PendingIsAnswerable
<1>4. \A p \in Package : upgrade # {p} /\ gate # {p}
  <2>1. ASSUME NEW p \in Package, upgrade = {p} PROVE FALSE
    <3>1. [op |-> "upgrade", names |-> {p}] \in AskedNow
      BY <2>1 DEF AskedNow, Request
    <3> QED
      BY <1>2, <1>3, <3>1
  <2>2. ASSUME NEW p \in Package, gate = {p} PROVE FALSE
    <3>1. [op |-> "install", names |-> {p}] \in AskedNow
      BY <2>2 DEF AskedNow, Request
    <3> QED
      BY <1>2, <1>3, <3>1
  <2> QED
    BY <2>1, <2>2
<1> QED
  BY <1>1, <1>2, <1>3, <1>4 DEF TypeOK, AtMostOne

LEMMA UpgradeAsked ==
    ASSUME TypeOK, TokenInv, Screen, upgrade # {}
    PROVE  \E r \in Request : /\ r.op = "upgrade" /\ r.names = upgrade
                              /\ AskedNow = {r} /\ pending = r
                              /\ plan.mode # "plan" /\ gate = {}
<1>1. PICK p \in Package : upgrade = {p}
  BY DEF TypeOK, AtMostOne
<1> DEFINE r == [op |-> "upgrade", names |-> {p}]
<1>2. r \in Request /\ r \in AskedNow /\ r.op = "upgrade" /\ r.names = upgrade
  BY <1>1 DEF AskedNow, Request
<1> HIDE DEF r
<1>3. AskedNow = {r}
  BY <1>2 DEF TokenInv, TokensHold, Holds
<1>4. pending = r
  BY <1>2, <1>3 DEF Screen, PendingIsAnswerable
<1>5. plan.mode # "plan"
  <2>1. plan.mode = "plan" => plan.req \in AskedNow /\ plan.req.op # "upgrade"
    BY DialogShape, PendingShape DEF TypeOK, AskedNow, Screen
  <2> QED
    BY <1>2, <1>3, <2>1
<1>6. gate = {}
  <2>1. \A q \in Package : gate = {q} => [op |-> "install", names |-> {q}] \in AskedNow
    BY DEF AskedNow, Request
  <2> QED
    BY <1>2, <1>3, <2>1 DEF TypeOK, AtMostOne
<1> QED
  BY <1>2, <1>3, <1>4, <1>5, <1>6

LEMMA GateAsked ==
    ASSUME TypeOK, TokenInv, Screen, gate # {}
    PROVE  \E r \in Request : /\ r = [op |-> "install", names |-> gate]
                              /\ r.op = "install"
                              /\ AskedNow = {r} /\ pending = None
                              /\ plan.mode # "plan" /\ upgrade = {}
<1>1. PICK p \in Package : gate = {p}
  BY DEF TypeOK, AtMostOne
<1> DEFINE r == [op |-> "install", names |-> gate]
<1>2. r \in Request /\ r \in AskedNow /\ r.op = "install"
  BY <1>1 DEF AskedNow, Request
<1> HIDE DEF r
<1>3. AskedNow = {r}
  BY <1>2 DEF TokenInv, TokensHold, Holds
<1>4. pending = None
  BY <1>2, <1>3 DEF Screen, PendingIsAnswerable
<1>5. plan.mode # "plan"
  <2>1. plan.mode = "plan" => plan.req \in AskedNow /\ plan.req.op # "install"
    BY DialogShape, PendingShape DEF TypeOK, AskedNow, Screen
  <2> QED
    BY <1>2, <1>3, <2>1
<1>6. upgrade = {}
  <2>1. \A q \in Package : upgrade = {q} => [op |-> "upgrade", names |-> {q}] \in AskedNow
    BY DEF AskedNow, Request
  <2> QED
    BY <1>2, <1>3, <2>1 DEF TypeOK, AtMostOne
<1> QED
  BY <1>2, <1>3, <1>4, <1>5, <1>6 DEF r

LEMMA NoQuestionLeft ==
    ASSUME plan'.mode # "plan", upgrade' = {}, gate' = {}, pending' = None, Len(posted') <= 1
    PROVE  AskedNow' = {} /\ Screen'
<1>1. AskedNow' = {}
  <2>1. \A r \in Request : r.op \in {"upgrade", "install"} => r.names # {}
    BY DEF Request, Batches
  <2> QED
    BY <2>1 DEF AskedNow
<1> QED
  BY <1>1 DEF Screen, PendingIsAnswerable

LEMMA SameScreen ==
    ASSUME Screen, AskedNow' = AskedNow, UNCHANGED <<pending, posted>>,
           UNCHANGED plan \/ plan'.mode # "plan"
    PROVE  Screen'
  BY DEF Screen, PendingIsAnswerable

-----------------------------------------------------------------------------
(* The invariant is kept: one step per action *)

LEMMA SamePm ==
    ASSUME PmOrder, UNCHANGED toPm
    PROVE  /\ PmOrder' /\ DecisionsIn' = DecisionsIn /\ ResetsIn' = ResetsIn
           /\ Range(toPm') = Range(toPm)
           /\ Followed(toPm, Dead, Resets) => Followed(toPm, Dead, Resets)'
  BY DEF PmOrder, DecisionsIn, ResetsIn

LEMMA SameGui ==
    ASSUME GuiOrder, UNCHANGED toGui
    PROVE  GuiOrder' /\ AcksIn' = AcksIn /\ Range(toGui') = Range(toGui)
  BY DEF GuiOrder, AcksIn

LEMMA SameSession ==
    ASSUME Sessions, UNCHANGED subscribed,
           Followed(toPm, Dead, Resets) => Followed(toPm, Dead, Resets)',
           ~subscribed =>
              /\ Range(toPm) \cap Fresh = {} => Range(toPm') \cap Fresh = {}
              /\ \A m \in Range(toGui') : m \in Range(toGui) \/ m.type \notin {"before", "ackOk"}
              /\ AskedNow' = AskedNow /\ UNCHANGED posted
    PROVE  Sessions'
  BY DEF Sessions

\* The messages of package_manager that carry no token.
LEMMA Telling ==
    ASSUME TypeOK, GuiOrder, NEW r \in Request,
           NEW t \in {"before", "rejected", "ackFail", "cancelled"},
           \/ UNCHANGED toGui
           \/ toGui' = Append(toGui, [type |-> t, req |-> r]) /\ (t = "before" => subscribed)
    PROVE  /\ GuiOrder' /\ AcksIn' = AcksIn
           /\ \A m \in Range(toGui') : m \in Range(toGui) \/ m.req = r
           /\ ~subscribed => \A m \in Range(toGui') :
                                m \in Range(toGui) \/ m.type \notin {"before", "ackOk"}
<1>1. CASE UNCHANGED toGui
  BY <1>1, SameGui
<1>2. CASE toGui' = Append(toGui, [type |-> t, req |-> r]) /\ (t = "before" => subscribed)
  <2> DEFINE m == [type |-> t, req |-> r]
  <2>1. m \in Msg /\ m.type = t /\ m.req = r
    BY DEF Msg
  <2> HIDE DEF m
  <2>2. toGui' = Append(toGui, m)
    BY <1>2 DEF m
  <2>3. GuiOrder' /\ Range(toGui') = Range(toGui) \cup {m} /\ AcksIn' = AcksIn
    BY <2>1, <2>2, Send
  <2> QED
    BY <1>2, <2>1, <2>3
<1> QED
  BY <1>1, <1>2

LEMMA GateHandlesRequest ==
    ASSUME TypeOK, GateInv, PmHandlesRequest
    PROVE  GateInv'
<1> DEFINE r == Head(toPm).req
<1>1. PmTakesCall("request")
  BY DEF PmHandlesRequest
<1>2. /\ Head(toPm) \in Call /\ Range(toPm) = Range(toPm') \cup {Head(toPm)}
      /\ PmOrder' /\ DecisionsIn' = DecisionsIn /\ ResetsIn' = ResetsIn
      /\ Followed(toPm, Dead, Resets) => Followed(toPm, Dead, Resets)'
      /\ Range(toPm) \cap Fresh = {} => Range(toPm') \cap Fresh = {}
      /\ Head(toPm).type = "request"
  BY <1>1, TakeCall DEF GateInv
<1>3. r \in Request
  BY <1>2, CallShape
<1>4. UNCHANGED <<guiVars, running>> /\ AskedNow' = AskedNow
  BY DEF PmHandlesRequest, guiVars, dialogs, AskedNow
<1>5. UNCHANGED <<subscribed, pending, posted, plan>>
  BY <1>4 DEF guiVars, dialogs
<1> HIDE DEF r
<1>6. Screen'
  BY <1>4, <1>5, SameScreen DEF GateInv
<1>7. CASE Accepts(r) /\ slot' = [req |-> r, acked |-> FALSE, own |-> Head(toPm).live]
           /\ toGui' = Announced(r)
  <2>1. ~slot.acked /\ ~slot'.acked /\ slot'.req = r
    BY <1>7 DEF Accepts, Free
  <2>2. GuiOrder' /\ AcksIn' = AcksIn
        /\ (\A m \in Range(toGui') : m \in Range(toGui) \/ m.req = r)
        /\ (~subscribed => \A m \in Range(toGui') :
                                m \in Range(toGui) \/ m.type \notin {"before", "ackOk"})
    BY <1>3, <1>7, Telling DEF GateInv, Announced
  <2>3. TokenInv'
    BY <1>2, <1>4, <1>5, <2>1, <2>2, NotAcked, NoToken DEF GateInv
  <2>4. \A q \in Request : Mentioned(q)' => Mentioned(q)
    BY <1>2, <2>1, <2>2 DEF Mentioned, r
  <2> QED
    BY <1>2, <1>4, <1>5, <1>6, <2>2, <2>3, <2>4, NoNews, SameSession DEF GateInv
<1>8. CASE toGui' = Answer("rejected") /\ UNCHANGED slot
  <2>1. UNCHANGED toGui \/ toGui' = Append(toGui, [type |-> "rejected", req |-> r])
    BY <1>8 DEF Answer, r
  <2>2. GuiOrder' /\ AcksIn' = AcksIn
        /\ (\A m \in Range(toGui') : m \in Range(toGui) \/ m.req = r)
        /\ (~subscribed => \A m \in Range(toGui') :
                                m \in Range(toGui) \/ m.type \notin {"before", "ackOk"})
    BY <1>3, <2>1, Telling DEF GateInv
  <2>3. TokenInv'
    BY <1>2, <1>4, <1>5, <1>8, <2>2, TokensStay DEF GateInv
  <2>4. \A q \in Request : Mentioned(q)' => Mentioned(q)
    BY <1>2, <1>8, <2>2 DEF Mentioned, r
  <2> QED
    BY <1>2, <1>4, <1>5, <1>6, <2>2, <2>3, <2>4, NoNews, SameSession DEF GateInv
<1> QED
  BY <1>7, <1>8 DEF PmHandlesRequest, Take, r

\* An ack names a package; the request it stops the timer of is the one it
\* was sent for, because there is no other about that package.
LEMMA GateHandlesAck ==
    ASSUME TypeOK, GateInv, PmHandlesAck
    PROVE  GateInv'
<1> DEFINE r == Head(toPm).req
           ok == [type |-> "ackOk", req |-> r]
<1>1. PmTakesCall("ack")
  BY DEF PmHandlesAck
<1>2. /\ Head(toPm) \in Call /\ Range(toPm) = Range(toPm') \cup {Head(toPm)}
      /\ PmOrder' /\ DecisionsIn' = DecisionsIn /\ ResetsIn' = ResetsIn
      /\ Followed(toPm, Dead, Resets) =>
            Followed(toPm, Dead, Resets)' /\ (~Head(toPm).live => ResetsIn' # {})
      /\ Range(toPm) \cap Fresh = {} => Range(toPm') \cap Fresh = {}
      /\ Head(toPm).type = "ack" /\ (Head(toPm).live => ResetsIn' = {})
  BY <1>1, TakeCall DEF GateInv
<1>3. r \in Request /\ Mentioned(r)
  BY <1>2, CallShape DEF Mentioned
<1>4. UNCHANGED <<guiVars, running>> /\ AskedNow' = AskedNow
  BY DEF PmHandlesAck, guiVars, dialogs, AskedNow
<1>5. UNCHANGED <<subscribed, pending, posted, plan>>
  BY <1>4 DEF guiVars, dialogs
<1>6. Head(toPm).live => subscribed
  BY <1>2 DEF GateInv, Sessions, Fresh
<1> HIDE DEF r
<1>7. Screen'
  BY <1>4, <1>5, SameScreen DEF GateInv
<1>8. CASE \E name \in r.names : /\ ~slot.acked /\ name \in slot.req.names
                                 /\ slot' = [slot EXCEPT !.acked = TRUE]
                                 /\ toGui' = Answer("ackOk")
  <2>1. /\ ~slot.acked /\ slot' = [slot EXCEPT !.acked = TRUE]
        /\ slot \in Slot /\ slot.req \in Request \cup {None}
    BY <1>8 DEF TypeOK, Slot
  <2>2. slot'.req = slot.req /\ slot'.acked = TRUE
    BY <2>1 DEF Slot
  <2>3. slot.req # None /\ Overlaps(r, slot.req.names)
    BY <1>8 DEF None, Overlaps
  <2>4. slot.req = r
    BY <1>3, <2>1, <2>3 DEF GateInv, OneRequest, Mentioned
  <2>5. AskedNow = {} /\ posted = <<>> /\ AcksIn = {} /\ DecisionsIn = {}
    BY <2>1, NotAcked DEF GateInv
  <2>6. CASE ~Head(toPm).live
    <3>1. UNCHANGED toGui
      BY <1>8, <2>6 DEF Answer
    <3>2. subscribed => ResetsIn' # {}
      BY <1>2, <2>6 DEF GateInv, Sessions
    <3>3. GuiOrder' /\ AcksIn' = AcksIn
      BY <3>1, SameGui DEF GateInv
    <3>4. TokenInv'
      BY <1>2, <1>4, <1>5, <2>5, <3>2, <3>3, NoToken
    <3>5. \A q \in Request : Mentioned(q)' => Mentioned(q)
      BY <1>2, <2>2, <3>1 DEF Mentioned
    <3> QED
      BY <1>2, <1>4, <1>5, <1>7, <3>1, <3>3, <3>4, <3>5, NoNews, SameSession DEF GateInv
  <2>7. CASE Head(toPm).live
    <3>1. toGui' = Append(toGui, ok) /\ ok \in Msg /\ ok.type = "ackOk" /\ ok.req = r
      BY <1>3, <1>8, <2>7 DEF Answer, Msg, r
    <3> HIDE DEF ok
    <3>2. GuiOrder' /\ Range(toGui') = Range(toGui) \cup {ok} /\ AcksIn' = {ok}
      BY <2>5, <3>1, Send DEF GateInv
    <3>3. TokenInv'
      <4>1. Range(posted') = {}
        BY <1>5, <2>5 DEF Range
      <4>2. TokensHold'
        BY <1>2, <1>4, <2>2, <2>4, <2>5, <3>1, <3>2, <4>1 DEF TokensHold, Holds
      <4>3. OnePlace'
        BY <1>2, <1>4, <1>5, <2>5, <2>7, <3>2 DEF OnePlace
      <4>4. Owned'
        BY <3>2 DEF Owned
      <4> QED
        BY <4>2, <4>3, <4>4 DEF TokenInv
    <3>4. \A q \in Request : Mentioned(q)' => Mentioned(q)
      BY <1>2, <2>2, <2>4, <3>1, <3>2 DEF Mentioned
    <3> QED
      BY <1>2, <1>4, <1>5, <1>6, <1>7, <2>7, <3>2, <3>3, <3>4, NoNews, SameSession DEF GateInv
  <2> QED
    BY <2>6, <2>7
<1>9. CASE toGui' = Answer("ackFail") /\ UNCHANGED slot
  <2>1. UNCHANGED toGui \/ toGui' = Append(toGui, [type |-> "ackFail", req |-> r])
    BY <1>9 DEF Answer, r
  <2>2. GuiOrder' /\ AcksIn' = AcksIn
        /\ (\A m \in Range(toGui') : m \in Range(toGui) \/ m.req = r)
        /\ (~subscribed => \A m \in Range(toGui') :
                                m \in Range(toGui) \/ m.type \notin {"before", "ackOk"})
    BY <1>3, <2>1, Telling DEF GateInv
  <2>3. TokenInv'
    BY <1>2, <1>4, <1>5, <1>9, <2>2, TokensStay DEF GateInv
  <2>4. \A q \in Request : Mentioned(q)' => Mentioned(q)
    BY <1>2, <1>9, <2>2 DEF Mentioned, r
  <2> QED
    BY <1>2, <1>4, <1>5, <1>7, <2>2, <2>3, <2>4, NoNews, SameSession DEF GateInv
<1> QED
  BY <1>8, <1>9 DEF PmHandlesAck, r

\* A decision on its way is about the slot, so it always finds it.
LEMMA GateHandlesDecision ==
    ASSUME TypeOK, GateInv, PmHandlesConfirm \/ PmHandlesCancel
    PROVE  /\ GateInv' /\ Head(toPm) \in DecisionsIn /\ Holds(Head(toPm).req)
           /\ slot' = Free
<1> DEFINE r == Head(toPm).req
<1>1. PmTakesCall("confirm") \/ PmTakesCall("cancel")
  BY DEF PmHandlesConfirm, PmHandlesCancel
<1>2. /\ Head(toPm) \in Call /\ Range(toPm) = Range(toPm') \cup {Head(toPm)}
      /\ Head(toPm).type \in {"confirm", "cancel"}
      /\ PmOrder' /\ Head(toPm) \in DecisionsIn /\ DecisionsIn' = {} /\ ResetsIn' = ResetsIn
      /\ Followed(toPm, Dead, Resets) => Followed(toPm, Dead, Resets)'
      /\ Range(toPm) \cap Fresh = {} => Range(toPm') \cap Fresh = {}
  BY <1>1, TakeCall DEF GateInv
<1>3. r \in Request /\ Holds(r)
  BY <1>2, CallShape DEF GateInv, TokenInv, TokensHold
<1>4. AcksIn = {} /\ AskedNow = {} /\ posted = <<>>
  BY <1>2 DEF GateInv, TokenInv, OnePlace
<1>5. UNCHANGED <<guiVars, running>> /\ AskedNow' = AskedNow
  BY DEF PmHandlesConfirm, PmHandlesCancel, guiVars, dialogs, AskedNow
<1>6. UNCHANGED <<subscribed, pending, posted, plan>>
  BY <1>5 DEF guiVars, dialogs
<1> HIDE DEF r
<1>7. slot' = Free /\ (UNCHANGED toGui \/ toGui' = Cancelled(r))
  BY <1>3 DEF PmHandlesConfirm, PmHandlesCancel, r
<1>8. GuiOrder' /\ AcksIn' = AcksIn
      /\ (\A m \in Range(toGui') : m \in Range(toGui) \/ m.req = r)
      /\ (~subscribed => \A m \in Range(toGui') :
                              m \in Range(toGui) \/ m.type \notin {"before", "ackOk"})
  <2>1. UNCHANGED toGui \/ toGui' = Append(toGui, [type |-> "cancelled", req |-> r])
    BY <1>7 DEF Cancelled
  <2> QED
    BY <1>3, <2>1, Telling DEF GateInv
<1>9. TokenInv'
  BY <1>2, <1>4, <1>5, <1>6, <1>7, <1>8, NoToken DEF Free
<1>10. \A q \in Request : Mentioned(q)' => Mentioned(q)
  <2>1. \A q \in Request : q # Free.req
    BY RequestShape DEF Free
  <2> QED
    BY <1>2, <1>7, <1>8, <2>1 DEF Mentioned, r
<1>11. Screen'
  BY <1>5, <1>6, SameScreen DEF GateInv
<1> QED
  BY <1>2, <1>3, <1>5, <1>6, <1>7, <1>8, <1>9, <1>10, <1>11, NoNews, SameSession
     DEF GateInv, r

LEMMA GateHandlesReset ==
    ASSUME TypeOK, GateInv, PmHandlesReset
    PROVE  GateInv' /\ DecisionsIn = {}
<1>1. PmTakesCall("reset") /\ slot' = Free /\ UNCHANGED toGui
  BY DEF PmHandlesReset
<1>2. /\ Range(toPm) = Range(toPm') \cup {Head(toPm)} /\ Head(toPm).type = "reset"
      /\ PmOrder' /\ ResetsIn # {} /\ DecisionsIn' = {}
      /\ Followed(toPm, Dead, Resets) => Followed(toPm, Dead, Resets)'
      /\ Range(toPm) \cap Fresh = {} => Range(toPm') \cap Fresh = {}
  BY <1>1, TakeCall DEF GateInv
<1>3. AcksIn = {} /\ AskedNow = {} /\ posted = <<>>
  BY <1>2 DEF GateInv, TokenInv, OnePlace
<1>4. UNCHANGED <<guiVars, running>> /\ AskedNow' = AskedNow
  BY DEF PmHandlesReset, guiVars, dialogs, AskedNow
<1>5. UNCHANGED <<subscribed, pending, posted, plan>>
  BY <1>4 DEF guiVars, dialogs
<1>6. GuiOrder' /\ AcksIn' = AcksIn
  BY <1>1, SameGui DEF GateInv
<1>7. TokenInv'
  BY <1>1, <1>2, <1>3, <1>4, <1>5, <1>6, NoToken DEF Free
<1>8. \A q \in Request : Mentioned(q)' => Mentioned(q)
  <2>1. \A q \in Request : q # Free.req
    BY RequestShape DEF Free
  <2> QED
    BY <1>1, <1>2, <2>1 DEF Mentioned
<1>9. Screen'
  BY <1>4, <1>5, SameScreen DEF GateInv
<1>10. DecisionsIn = {}
  BY <1>2 DEF DecisionsIn, Decisions
<1> QED
  BY <1>1, <1>2, <1>4, <1>5, <1>6, <1>7, <1>8, <1>9, <1>10, NoNews, SameSession DEF GateInv

LEMMA GateTimeout ==
    ASSUME TypeOK, GateInv, AckTimeout
    PROVE  GateInv'
<1> DEFINE r == slot.req
<1>1. ~slot.acked /\ slot' = Free /\ r \in Request /\ UNCHANGED toPm
  BY DEF AckTimeout, TypeOK, Slot
<1>2. AskedNow = {} /\ posted = <<>> /\ AcksIn = {} /\ DecisionsIn = {}
  BY <1>1, NotAcked DEF GateInv
<1>3. UNCHANGED <<guiVars, running>> /\ AskedNow' = AskedNow
  BY DEF AckTimeout, guiVars, dialogs, AskedNow
<1>4. UNCHANGED <<subscribed, pending, posted, plan>>
  BY <1>3 DEF guiVars, dialogs
<1>5. GuiOrder' /\ AcksIn' = AcksIn
      /\ (\A m \in Range(toGui') : m \in Range(toGui) \/ m.req = r)
      /\ (~subscribed => \A m \in Range(toGui') :
                              m \in Range(toGui) \/ m.type \notin {"before", "ackOk"})
  <2>1. UNCHANGED toGui \/ toGui' = Append(toGui, [type |-> "cancelled", req |-> r])
    BY DEF AckTimeout, Cancelled
  <2> QED
    BY <1>1, <2>1, Telling DEF GateInv
<1>6. PmOrder' /\ DecisionsIn' = DecisionsIn /\ Range(toPm') = Range(toPm)
      /\ (Followed(toPm, Dead, Resets) => Followed(toPm, Dead, Resets)')
  BY <1>1, SamePm DEF GateInv
<1>7. TokenInv'
  BY <1>1, <1>2, <1>3, <1>4, <1>5, <1>6, NoToken DEF Free
<1>8. \A q \in Request : Mentioned(q)' => Mentioned(q)
  <2>1. \A q \in Request : q # Free.req
    BY RequestShape DEF Free
  <2> QED
    BY <1>1, <1>5, <1>6, <2>1 DEF Mentioned
<1>9. Screen'
  BY <1>3, <1>4, SameScreen DEF GateInv
<1> QED
  BY <1>3, <1>4, <1>5, <1>6, <1>7, <1>8, <1>9, NoNews, SameSession DEF GateInv

LEMMA GatePmu ==
    ASSUME PatientClients, TypeOK, GateInv, PackageManagerUi
    PROVE  GateInv'
<1>1. ASSUME NEW r \in Request, PmuRequests(r) PROVE GateInv'
  <2>1. /\ Accepts(r) /\ slot' = [req |-> r, acked |-> FALSE, own |-> FALSE]
        /\ MayAsk(r.names) /\ toGui' = Announced(r) /\ UNCHANGED <<toPm, guiVars>>
    BY <1>1 DEF PmuRequests, Take
  <2>2. ~slot.acked /\ ~slot'.acked /\ slot'.req = r
    BY <2>1 DEF Accepts, Free
  <2>3. AskedNow' = AskedNow /\ UNCHANGED <<subscribed, pending, posted, plan>>
    BY <2>1 DEF guiVars, dialogs, AskedNow
  <2>4. GuiOrder' /\ AcksIn' = AcksIn
        /\ (\A m \in Range(toGui') : m \in Range(toGui) \/ m.req = r)
        /\ (~subscribed => \A m \in Range(toGui') :
                                m \in Range(toGui) \/ m.type \notin {"before", "ackOk"})
    BY <2>1, Telling DEF GateInv, Announced
  <2>5. PmOrder' /\ DecisionsIn' = DecisionsIn /\ Range(toPm') = Range(toPm)
        /\ (Followed(toPm, Dead, Resets) => Followed(toPm, Dead, Resets)')
    BY <2>1, SamePm DEF GateInv
  <2>6. TokenInv'
    BY <2>2, <2>3, <2>4, <2>5, NotAcked, NoToken DEF GateInv
  <2>7. \A q \in Request : Mentioned(q)' => Mentioned(q) \/ q = r
    BY <2>2, <2>4, <2>5 DEF Mentioned
  <2>8. OneRequest'
    BY <2>1, <2>7, NewRequest DEF GateInv
  <2>9. Screen'
    BY <2>3, SameScreen DEF GateInv
  <2> QED
    BY <2>3, <2>4, <2>5, <2>6, <2>8, <2>9, SameSession DEF GateInv
<1>2. ASSUME NEW p \in Package, PmuCopies(p) PROVE GateInv'
  <2>1. UNCHANGED <<slot, toPm, toGui, guiVars>>
    BY <1>2 DEF PmuCopies
  <2> QED
    BY <2>1 DEF guiVars, dialogs, GateInv, OneRequest, PmOrder, GuiOrder, Sessions, TokenInv,
       Screen, Mentioned, TokensHold, OnePlace, Owned, AcksIn, DecisionsIn, ResetsIn,
       PendingIsAnswerable, AskedNow, Holds
<1> QED
  BY <1>1, <1>2 DEF PackageManagerUi

\* A call that carries no token changes nothing but the channel.
LEMMA GatePosts ==
    ASSUME TypeOK, GateInv, NEW t \in {"request", "ack"}, NEW r \in Request,
           toPm' = Append(toPm, CallTo(t, r)), t = "ack" => subscribed,
           GuiOrder', AcksIn' = AcksIn, Range(toGui') \subseteq Range(toGui),
           UNCHANGED <<slot, subscribed, posted, pending>>, AskedNow' = AskedNow,
           UNCHANGED plan \/ plan'.mode # "plan"
    PROVE  /\ OneRequest' => GateInv'
           /\ \A q \in Request : Mentioned(q)' => Mentioned(q) \/ q = r
<1>1. /\ PmOrder' /\ ResetsIn' = ResetsIn /\ DecisionsIn' = DecisionsIn
      /\ Range(toPm') = Range(toPm) \cup {CallTo(t, r)} /\ CallTo(t, r).req = r
      /\ Followed(toPm, Dead, Resets) => Followed(toPm, Dead, Resets)'
      /\ t = "request" /\ Range(toPm) \cap Fresh = {} => Range(toPm') \cap Fresh = {}
  BY PostCall DEF GateInv
<1>2. TokenInv'
  BY <1>1, TokensStay DEF GateInv
<1>3. Screen'
  BY SameScreen DEF GateInv
<1>4. Sessions'
  BY <1>1, SameSession DEF GateInv
<1>5. \A q \in Request : Mentioned(q)' => Mentioned(q) \/ q = r
  BY <1>1 DEF Mentioned
<1> QED
  BY <1>1, <1>2, <1>3, <1>4, <1>5 DEF GateInv

LEMMA GatePerforms ==
    ASSUME PatientClients, TypeOK, GateInv, NEW name \in Package, PerformUninstallApp(name),
           UNCHANGED <<slot, toGui, subscribed, posted, pending>>, AskedNow' = AskedNow,
           UNCHANGED plan \/ plan'.mode # "plan"
    PROVE  GateInv'
<1>1. GuiOrder' /\ AcksIn' = AcksIn /\ Range(toGui') = Range(toGui)
  BY SameGui DEF GateInv
<1>2. CASE UNCHANGED toPm
  <2>1. /\ PmOrder' /\ DecisionsIn' = DecisionsIn /\ ResetsIn' = ResetsIn
        /\ Range(toPm') = Range(toPm)
        /\ Followed(toPm, Dead, Resets) => Followed(toPm, Dead, Resets)'
    BY <1>2, SamePm DEF GateInv
  <2>2. TokenInv'
    BY <1>1, <2>1, TokensStay DEF GateInv
  <2>3. \A q \in Request : Mentioned(q)' => Mentioned(q)
    BY <1>1, <2>1 DEF Mentioned
  <2> QED
    BY <1>1, <2>1, <2>2, <2>3, NoNews, SameScreen, SameSession DEF GateInv
<1>3. ASSUME NEW b \in Batches, MayAsk(b),
             toPm' = Append(toPm, CallTo("request", [op |-> "multi", names |-> b]))
      PROVE  GateInv'
  <2> DEFINE r == [op |-> "multi", names |-> b]
  <2>1. r \in Request /\ r.names = b
    BY PendingShape
  <2> HIDE DEF r
  <2>2. /\ OneRequest' => GateInv'
        /\ \A q \in Request : Mentioned(q)' => Mentioned(q) \/ q = r
    <3>1. toPm' = Append(toPm, CallTo("request", r))
      BY <1>3 DEF r
    <3> QED
      BY <1>1, <2>1, <3>1, GatePosts
  <2> QED
    BY <1>3, <2>1, <2>2, NewRequest DEF GateInv
<1> QED
  BY <1>2, <1>3 DEF PerformUninstallApp

LEMMA GateSubscribe ==
    ASSUME TypeOK, GateInv, Subscribe
    PROVE  GateInv'
<1> DEFINE x == CallTo("reset", None)
<1>1. /\ x \in Call /\ x.type = "reset" /\ x.live = TRUE /\ x.req = None
      /\ toPm \in Seq(Call) /\ toPm' = Append(toPm, x)
      /\ ~subscribed /\ subscribed'
      /\ UNCHANGED <<slot, toGui, posted, pending, plan, upgrade, gate>>
  BY CallShape DEF Subscribe, CallTo, TypeOK, pmVars, dialogs
<1>2. x \in Resets /\ x \notin Dead /\ x \notin Decisions
  BY <1>1 DEF Resets, Dead, Decisions
<1> HIDE DEF x
<1>3. /\ Range(toPm) \cap Fresh = {} /\ AskedNow = {} /\ posted = <<>>
      /\ \A m \in Range(toGui) : m.type # "ackOk"
  BY <1>1 DEF GateInv, Sessions
<1>4. AcksIn = {}
  BY <1>3 DEF AcksIn, Acks
<1>5. Range(toPm') = Range(toPm) \cup {x}
  BY <1>1, RangeAppend
<1>6. OnlyOne(toPm', Decisions)
  BY <1>1, <1>2, PostedAt DEF GateInv, PmOrder
<1>7. NoneBehind(toPm', Resets, Decisions)
  BY <1>1, <1>2, PostedAt DEF GateInv, PmOrder
<1>8. NoneBehind(toPm', Fresh, Resets)
  BY <1>1, <1>3, PostedAt DEF GateInv, PmOrder
<1>9. Followed(toPm', Dead, Resets)
  BY <1>1, <1>2, PostedAt
<1>10. PmOrder' /\ Sessions'
  BY <1>1, <1>6, <1>7, <1>8, <1>9 DEF PmOrder, Sessions
<1>11. DecisionsIn' = DecisionsIn /\ ResetsIn' # {}
  BY <1>2, <1>5 DEF DecisionsIn, ResetsIn
<1>12. GuiOrder' /\ AcksIn' = AcksIn /\ AskedNow' = AskedNow
  BY <1>1, SameGui DEF GateInv, AskedNow
<1>13. TokenInv'
  <2>1. TokensHold'
    BY <1>1, <1>11, <1>12 DEF GateInv, TokenInv, TokensHold, Holds
  <2>2. OnePlace' /\ Owned'
    BY <1>1, <1>3, <1>4, <1>11, <1>12 DEF OnePlace, Owned
  <2> QED
    BY <2>1, <2>2 DEF TokenInv
<1>14. \A q \in Request : Mentioned(q)' => Mentioned(q)
  BY <1>1, <1>5, RequestShape DEF Mentioned
<1>15. Screen'
  BY <1>1, <1>12, SameScreen DEF GateInv
<1> QED
  BY <1>10, <1>12, <1>13, <1>14, <1>15, NoNews DEF GateInv

LEMMA GateBefore ==
    ASSUME TypeOK, GateInv, HandleBefore
    PROVE  GateInv'
<1> DEFINE r == Head(toGui).req
<1>1. /\ r \in Request /\ Head(toGui).type = "before"
      /\ GuiOrder' /\ Range(toGui) = Range(toGui') \cup {Head(toGui)} /\ AcksIn' = AcksIn
  BY Hear DEF GateInv, HandleBefore
<1>2. subscribed
  BY <1>1 DEF GateInv, Sessions
<1>3. /\ toPm' = Append(toPm, CallTo("ack", r))
      /\ UNCHANGED <<slot, subscribed, posted, pending, plan, upgrade, gate>>
  BY DEF HandleBefore, pmVars, guiVars, dialogs
<1>4. AskedNow' = AskedNow
  BY <1>3 DEF AskedNow
<1>5. Mentioned(r)
  BY <1>1 DEF Mentioned
<1> HIDE DEF r
<1>6. /\ OneRequest' => GateInv'
      /\ \A q \in Request : Mentioned(q)' => Mentioned(q) \/ q = r
  BY <1>1, <1>2, <1>3, <1>4, GatePosts
<1> QED
  BY <1>5, <1>6, NoNews DEF GateInv

\* The answer to the ack becomes the question.
LEMMA GateAckOk ==
    ASSUME TypeOK, GateInv, HandleAckOk
    PROVE  /\ GateInv' /\ pending = None
           /\ AskedNow = {} /\ posted = <<>> /\ DecisionsIn = {}
           /\ \E r \in Request : AskedNow' = {r}
<1> DEFINE r == Head(toGui).req
<1>1. /\ r \in Request /\ Head(toGui).type = "ackOk" /\ Head(toGui) \in AcksIn /\ AcksIn' = {}
      /\ GuiOrder' /\ Range(toGui) = Range(toGui') \cup {Head(toGui)}
  BY Hear DEF GateInv, HandleAckOk
<1>2. /\ Holds(r) /\ AskedNow = {} /\ posted = <<>> /\ DecisionsIn = {} /\ ResetsIn = {}
  BY <1>1 DEF GateInv, TokenInv, TokensHold, OnePlace
<1>3. subscribed
  BY <1>1 DEF GateInv, Sessions
<1>4. plan.mode # "plan" /\ upgrade = {} /\ gate = {}
  BY <1>2, NothingAsked
<1>5. pending = None
  BY <1>2 DEF GateInv, Screen, PendingIsAnswerable
<1>6. AskUser(r) /\ UNCHANGED <<slot, toPm, subscribed, posted>>
  BY DEF HandleAckOk, pmVars
<1> HIDE DEF r
<1>7. /\ PmOrder' /\ DecisionsIn' = DecisionsIn /\ ResetsIn' = ResetsIn
      /\ Range(toPm') = Range(toPm)
      /\ Followed(toPm, Dead, Resets) => Followed(toPm, Dead, Resets)'
  BY <1>6, SamePm DEF GateInv
<1>8. /\ AskedNow' = {r}
      /\ plan'.mode = "plan" => r.op \in {"uninstall", "multi"}
                                /\ plan'.req = r
      /\ pending' = IF r.op = "install" THEN None ELSE r
  <2>1. \A q \in Request : q.names # {}
    BY DEF Request, Batches
  <2>2. CASE r.op \in {"uninstall", "multi"}
    BY <1>1, <1>4, <1>6, <2>1, <2>2 DEF AskUser, AskedNow, ShowPlan
  <2>3. CASE r.op = "upgrade"
    <3>1. upgrade' = r.names /\ UNCHANGED <<plan, gate>> /\ pending' = r
      BY <1>6, <2>3 DEF AskUser
    <3>2. \A q \in Request : q.op = r.op /\ q.names = r.names => q = r
      BY <1>1 DEF Request
    <3> QED
      BY <1>1, <1>4, <2>1, <2>3, <3>1, <3>2 DEF AskedNow
  <2>4. CASE r.op = "install"
    <3>1. gate' = r.names /\ UNCHANGED <<pending, plan, upgrade>>
      BY <1>6, <2>4 DEF AskUser
    <3>2. \A q \in Request : q.op = r.op /\ q.names = r.names => q = r
      BY <1>1 DEF Request
    <3> QED
      BY <1>1, <1>4, <1>5, <2>1, <2>4, <3>1, <3>2 DEF AskedNow
  <2> QED
    BY <1>1, <2>2, <2>3, <2>4, RequestShape
<1>9. Screen'
  BY <1>1, <1>6, <1>8, RequestShape DEF GateInv, Screen, PendingIsAnswerable
<1>10. TokenInv'
  BY <1>1, <1>2, <1>6, <1>7, <1>8 DEF TokenInv, TokensHold, OnePlace, Owned, Holds, Range
<1>11. Sessions'
  BY <1>3, <1>6, <1>7, SameSession DEF GateInv
<1>12. \A q \in Request : Mentioned(q)' => Mentioned(q)
  BY <1>1, <1>6, <1>7 DEF Mentioned
<1> QED
  BY <1>1, <1>2, <1>5, <1>7, <1>8, <1>9, <1>10, <1>11, <1>12, NoNews DEF GateInv

LEMMA GateRefusal ==
    ASSUME TypeOK, GateInv, HandleRefusal
    PROVE  GateInv'
<1>1. /\ GuiOrder' /\ Range(toGui) = Range(toGui') \cup {Head(toGui)} /\ AcksIn' = AcksIn
  BY Hear DEF GateInv, HandleRefusal
<1>2. UNCHANGED <<slot, toPm, subscribed, posted, pending, plan, upgrade, gate>>
  BY DEF HandleRefusal, pmVars, dialogs
<1>3. /\ PmOrder' /\ DecisionsIn' = DecisionsIn /\ ResetsIn' = ResetsIn
      /\ Range(toPm') = Range(toPm)
      /\ Followed(toPm, Dead, Resets) => Followed(toPm, Dead, Resets)'
  BY <1>2, SamePm DEF GateInv
<1>4. AskedNow' = AskedNow
  BY <1>2 DEF AskedNow
<1>5. TokenInv' /\ Screen'
  BY <1>1, <1>2, <1>3, <1>4, TokensStay, SameScreen DEF GateInv
<1>6. Sessions'
  BY <1>1, <1>2, <1>3, <1>4, SameSession DEF GateInv
<1>7. \A q \in Request : Mentioned(q)' => Mentioned(q)
  BY <1>1, <1>2, <1>3 DEF Mentioned
<1> QED
  BY <1>1, <1>3, <1>5, <1>6, <1>7, NoNews DEF GateInv

\* The question becomes a decision, queued or sent.
LEMMA GateDecides ==
    ASSUME TypeOK, GateInv, NEW r \in Request, AskedNow = {r},
           AskedNow' = {}, Screen', UNCHANGED <<slot, toGui, subscribed>>,
           \/ posted' = Append(posted, r) /\ UNCHANGED toPm
           \/ /\ UNCHANGED posted
              /\ \E t \in {"confirm", "cancel"} : toPm' = Append(toPm, CallTo(t, r))
    PROVE  GateInv'
<1>1. /\ Holds(r) /\ posted = <<>> /\ AcksIn = {} /\ DecisionsIn = {} /\ ResetsIn = {}
      /\ subscribed
  BY DEF GateInv, TokenInv, TokensHold, OnePlace, Sessions
<1>2. GuiOrder' /\ AcksIn' = AcksIn /\ Range(toGui') = Range(toGui)
  BY SameGui DEF GateInv
<1>3. CASE posted' = Append(posted, r) /\ UNCHANGED toPm
  <2>1. /\ PmOrder' /\ DecisionsIn' = DecisionsIn /\ ResetsIn' = ResetsIn
        /\ Range(toPm') = Range(toPm)
        /\ Followed(toPm, Dead, Resets) => Followed(toPm, Dead, Resets)'
    BY <1>3, SamePm DEF GateInv
  <2>2. posted' = <<r>> /\ Range(posted') = {r}
    BY <1>1, <1>3 DEF Range
  <2>3. TokensHold'
    BY <1>1, <1>2, <2>1, <2>2 DEF TokensHold, Holds
  <2>4. OnePlace' /\ Owned'
    BY <1>1, <1>2, <2>1, <2>2 DEF OnePlace, Owned
  <2>5. \A q \in Request : Mentioned(q)' => Mentioned(q)
    BY <1>2, <2>1 DEF Mentioned
  <2> QED
    BY <1>1, <1>2, <2>1, <2>3, <2>4, <2>5, NoNews, SameSession DEF GateInv, TokenInv
<1>4. ASSUME UNCHANGED posted, NEW t \in {"confirm", "cancel"},
             toPm' = Append(toPm, CallTo(t, r))
      PROVE  GateInv'
  <2>1. /\ PmOrder' /\ ResetsIn' = ResetsIn /\ DecisionsIn' = {CallTo(t, r)}
        /\ Range(toPm') = Range(toPm) \cup {CallTo(t, r)} /\ CallTo(t, r).req = r
        /\ Followed(toPm, Dead, Resets) => Followed(toPm, Dead, Resets)'
    BY <1>1, <1>4, PostCall DEF GateInv
  <2>2. Range(posted') = {}
    BY <1>1, <1>4 DEF Range
  <2>3. TokensHold'
    BY <1>1, <1>2, <2>1, <2>2 DEF TokensHold, Holds
  <2>4. OnePlace' /\ Owned'
    BY <1>1, <1>2, <1>4, <2>1 DEF OnePlace, Owned
  <2>5. \A q \in Request : Mentioned(q)' => Mentioned(q)
    BY <1>1, <1>2, <2>1 DEF Mentioned, Holds
  <2> QED
    BY <1>1, <1>2, <2>1, <2>3, <2>4, <2>5, NoNews, SameSession DEF GateInv, TokenInv
<1> QED
  BY <1>3, <1>4

LEMMA OneLong ==
    ASSUME NEW S, NEW s \in Seq(S), Len(s) <= 1, s # <<>>
    PROVE  s = <<Head(s)>> /\ Tail(s) = <<>>
<1>1. Len(s) \in Nat \ {0}
  OBVIOUS
<1>2. Len(s) = 1
  BY <1>1
<1>3. Tail(s) \in Seq(S) /\ Len(Tail(s)) = 0
  BY <1>2
<1>4. Tail(s) = <<>>
  BY <1>3
<1>5. s = <<Head(s)>>
  BY <1>2
<1> QED
  BY <1>4, <1>5

LEMMA GateRunPosted ==
    ASSUME TypeOK, GateInv, RunPosted
    PROVE  /\ GateInv' /\ AskedNow = {} /\ DecisionsIn = {}
           /\ posted = <<Head(posted)>> /\ posted' = <<>>
           /\ Range(toPm') = Range(toPm) \cup {CallTo("confirm", Head(posted))}
<1> DEFINE r == Head(posted)
<1>1. /\ posted # <<>> /\ posted' = Tail(posted) /\ toPm' = Append(toPm, CallTo("confirm", r))
      /\ UNCHANGED <<slot, toGui, subscribed, pending, plan, upgrade, gate>>
  BY DEF RunPosted, pmVars, dialogs
<1>2. r \in Request /\ r \in Range(posted)
  BY <1>1, HeadTail, PendingShape DEF TypeOK
<1>3. posted = <<r>> /\ posted' = <<>>
  BY <1>1, OneLong DEF TypeOK, GateInv, Screen
<1> HIDE DEF r
<1>4. /\ Holds(r) /\ AskedNow = {} /\ AcksIn = {} /\ DecisionsIn = {} /\ ResetsIn = {}
      /\ subscribed
  BY <1>1, <1>2 DEF GateInv, TokenInv, TokensHold, OnePlace, Sessions
<1>5. AskedNow' = AskedNow /\ Screen'
  <2>1. AskedNow' = AskedNow
    BY <1>1 DEF AskedNow
  <2> QED
    BY <1>1, <1>3, <2>1 DEF GateInv, Screen, PendingIsAnswerable
<1>6. GuiOrder' /\ AcksIn' = AcksIn /\ Range(toGui') = Range(toGui)
  BY <1>1, SameGui DEF GateInv
<1>7. /\ PmOrder' /\ ResetsIn' = ResetsIn /\ DecisionsIn' = {CallTo("confirm", r)}
      /\ Range(toPm') = Range(toPm) \cup {CallTo("confirm", r)}
      /\ CallTo("confirm", r).req = r
      /\ Followed(toPm, Dead, Resets) => Followed(toPm, Dead, Resets)'
  BY <1>1, <1>2, <1>4, PostCall DEF GateInv
<1>8. TokenInv'
  <2>1. Range(posted') = {}
    BY <1>3 DEF Range
  <2>2. TokensHold'
    BY <1>1, <1>4, <1>5, <1>6, <1>7, <2>1 DEF TokensHold, Holds
  <2>3. OnePlace' /\ Owned'
    BY <1>3, <1>4, <1>5, <1>6, <1>7 DEF OnePlace, Owned
  <2> QED
    BY <2>2, <2>3 DEF TokenInv
<1>9. \A q \in Request : Mentioned(q)' => Mentioned(q)
  BY <1>1, <1>4, <1>6, <1>7 DEF Mentioned, Holds
<1> QED
  BY <1>1, <1>3, <1>4, <1>5, <1>6, <1>7, <1>8, <1>9, NoNews, SameSession DEF GateInv, r

LEMMA GateDependencyData ==
    ASSUME PatientClients, TypeOK, GateInv, DependencyDataReady
    PROVE  GateInv'
<1>1. UNCHANGED <<slot, toGui, subscribed, posted, pending, plan, upgrade, gate>>
  BY DEF DependencyDataReady, pmVars, dialogs
<1>2. AskedNow' = AskedNow
  BY <1>1 DEF AskedNow
<1>3. ASSUME NEW name \in waiting, PerformUninstallApp(name) PROVE GateInv'
  <2>1. name \in Package
    BY DEF TypeOK, AtMostOne
  <2> QED
    BY <1>1, <1>2, <1>3, <2>1, GatePerforms
<1>4. CASE UNCHANGED toPm
  BY <1>1, <1>4 DEF GateInv, OneRequest, PmOrder, GuiOrder, Sessions, TokenInv,
     Screen, Mentioned, TokensHold, OnePlace, Owned, AcksIn, DecisionsIn, ResetsIn,
     PendingIsAnswerable, AskedNow, Holds
<1> QED
  BY <1>3, <1>4 DEF DependencyDataReady

LEMMA GateUninstalls ==
    ASSUME PatientClients, TypeOK, GateInv, NEW p \in Package, UninstallApp(p) \/ UninstallModule(p)
    PROVE  GateInv'
<1>1. CASE UninstallApp(p)
  <2>1. /\ UNCHANGED <<slot, toGui, subscribed, posted, pending, upgrade, gate>>
        /\ plan.mode = "closed" /\ (UNCHANGED plan \/ plan'.mode = "loading")
    BY <1>1 DEF UninstallApp, pmVars, UserCanClick, ModalOpen, Closed, Spinner
  <2>2. AskedNow' = AskedNow
    BY <2>1, SameQuestion
  <2>3. CASE PerformUninstallApp(p)
    BY <2>1, <2>2, <2>3, GatePerforms
  <2>4. CASE UNCHANGED toPm
    <3>1. GuiOrder' /\ AcksIn' = AcksIn /\ Range(toGui') = Range(toGui)
      BY <2>1, SameGui DEF GateInv
    <3>2. /\ PmOrder' /\ DecisionsIn' = DecisionsIn /\ ResetsIn' = ResetsIn
          /\ Range(toPm') = Range(toPm)
          /\ Followed(toPm, Dead, Resets) => Followed(toPm, Dead, Resets)'
      BY <2>4, SamePm DEF GateInv
    <3>3. TokenInv' /\ Screen'
      BY <2>1, <2>2, <3>1, <3>2, TokensStay, SameScreen DEF GateInv
    <3>4. \A q \in Request : Mentioned(q)' => Mentioned(q)
      BY <2>1, <3>1, <3>2 DEF Mentioned
    <3> QED
      BY <2>1, <2>2, <3>1, <3>2, <3>3, <3>4, NoNews, SameSession DEF GateInv
  <2> QED
    BY <1>1, <2>3, <2>4 DEF UninstallApp
<1>2. CASE UninstallModule(p)
  <2> DEFINE r == [op |-> "uninstall", names |-> {p}]
  <2>1. r \in Request /\ r.names = {p}
    BY PendingShape
  <2>2. /\ toPm' = Append(toPm, CallTo("request", r)) /\ MayAsk(r.names)
        /\ UNCHANGED <<slot, toGui, subscribed, posted, pending, plan, upgrade, gate>>
    BY <1>2 DEF UninstallModule, pmVars, guiVars, dialogs
  <2> HIDE DEF r
  <2>3. AskedNow' = AskedNow
    BY <2>2 DEF AskedNow
  <2>4. GuiOrder' /\ AcksIn' = AcksIn /\ Range(toGui') = Range(toGui)
    BY <2>2, SameGui DEF GateInv
  <2>5. /\ OneRequest' => GateInv'
        /\ \A q \in Request : Mentioned(q)' => Mentioned(q) \/ q = r
    BY <2>1, <2>2, <2>3, <2>4, GatePosts
  <2> QED
    BY <2>1, <2>2, <2>5, NewRequest DEF GateInv
<1> QED
  BY <1>1, <1>2

\* The user answers what is asked, or closes a spinner, which asks nothing.
LEMMA GateConfirmPlan ==
    ASSUME TypeOK, GateInv, ConfirmPlan
    PROVE  /\ GateInv' /\ AskedNow = {plan.req} /\ AskedNow' = {} /\ plan.req \in Request
           /\ \/ posted' = Append(posted, plan.req) /\ UNCHANGED toPm
              \/ UNCHANGED posted /\ toPm' = Append(toPm, CallTo("confirm", plan.req))
<1> DEFINE r == plan.req
<1>1. /\ r \in Request /\ AskedNow = {r} /\ pending = r /\ r.op \in {"uninstall", "multi"}
      /\ upgrade = {} /\ gate = {}
  BY PlanAsked DEF GateInv, ConfirmPlan
<1>2. posted = <<>>
  BY <1>1 DEF GateInv, TokenInv, OnePlace
<1>3. /\ plan'.mode # "plan" /\ upgrade' = {} /\ gate' = {} /\ pending' = None
      /\ UNCHANGED <<slot, toGui, subscribed>>
      /\ \/ posted' = Append(posted, r) /\ UNCHANGED toPm
         \/ UNCHANGED posted /\ toPm' = Append(toPm, CallTo("confirm", r))
  BY <1>1 DEF ConfirmPlan, ConfirmUninstallCascade, Closed, pmVars
<1>4. Len(posted') <= 1
  BY <1>2, <1>3
<1>5. AskedNow' = {} /\ Screen'
  BY <1>3, <1>4, NoQuestionLeft
<1>6. GateInv'
  BY <1>1, <1>3, <1>5, GateDecides
<1> QED
  BY <1>1, <1>3, <1>5, <1>6

LEMMA GateCancelPlan ==
    ASSUME TypeOK, GateInv, CancelPlan
    PROVE  GateInv' /\ AskedNow' = {} /\ UNCHANGED posted
           /\ toPm' = Append(toPm, CallTo("cancel", plan.req)) /\ plan.req \in Request
<1> DEFINE r == plan.req
<1>1. /\ r \in Request /\ AskedNow = {r} /\ pending = r /\ r.op \in {"uninstall", "multi"}
      /\ upgrade = {} /\ gate = {} /\ r # None
  BY PlanAsked DEF GateInv, CancelPlan
<1>2. posted = <<>>
  BY <1>1 DEF GateInv, TokenInv, OnePlace
<1>3. /\ plan'.mode # "plan" /\ upgrade' = {} /\ gate' = {} /\ pending' = None
      /\ UNCHANGED <<slot, toGui, subscribed, posted>>
      /\ toPm' = Append(toPm, CallTo("cancel", r))
  BY <1>1 DEF CancelPlan, CancelPendingAction, Closed, pmVars
<1>4. Len(posted') <= 1
  BY <1>2, <1>3
<1>5. AskedNow' = {} /\ Screen'
  BY <1>3, <1>4, NoQuestionLeft
<1>6. GateInv'
  BY <1>1, <1>3, <1>5, GateDecides
<1> QED
  BY <1>1, <1>3, <1>5, <1>6

LEMMA GateAnswerUpgrade ==
    ASSUME TypeOK, GateInv, AnswerUpgrade
    PROVE  /\ GateInv' /\ AskedNow' = {}
           /\ \E r \in Request :
                 /\ AskedNow = {r}
                 /\ \/ posted' = Append(posted, r) /\ UNCHANGED toPm
                    \/ UNCHANGED posted /\ toPm' = Append(toPm, CallTo("cancel", r))
<1>1. PICK r \in Request : /\ r.op = "upgrade" /\ r.names = upgrade
                           /\ AskedNow = {r} /\ pending = r
                           /\ plan.mode # "plan" /\ gate = {}
  BY UpgradeAsked DEF GateInv, AnswerUpgrade
<1>2. posted = <<>> /\ r # None
  BY <1>1, RequestShape DEF GateInv, TokenInv, OnePlace
<1>3. /\ plan'.mode # "plan" /\ upgrade' = {} /\ gate' = {}
      /\ UNCHANGED <<slot, toGui, subscribed>>
  BY <1>1 DEF AnswerUpgrade, pmVars
<1>4. /\ pending' = None
      /\ \/ posted' = Append(posted, r) /\ UNCHANGED toPm
         \/ UNCHANGED posted /\ toPm' = Append(toPm, CallTo("cancel", r))
  BY <1>1, <1>2 DEF AnswerUpgrade, ConfirmUninstallCascade, CancelPendingAction
<1>5. Len(posted') <= 1
  <2>1. CASE posted' = Append(posted, r)
    BY <1>2, <2>1
  <2>2. CASE UNCHANGED posted
    BY <1>2, <2>2
  <2> QED
    BY <1>4, <2>1, <2>2
<1>6. AskedNow' = {} /\ Screen'
  BY <1>3, <1>4, <1>5, NoQuestionLeft
<1>7. GateInv'
  BY <1>1, <1>3, <1>4, <1>6, GateDecides
<1> QED
  BY <1>1, <1>4, <1>6, <1>7

LEMMA GateAnswerInstall ==
    ASSUME TypeOK, GateInv, AnswerInstallGate
    PROVE  /\ GateInv' /\ AskedNow' = {} /\ UNCHANGED posted
           /\ \E r \in Request : /\ AskedNow = {r}
                                 /\ \E t \in {"confirm", "cancel"} :
                                       toPm' = Append(toPm, CallTo(t, r))
<1>1. PICK r \in Request : /\ r = [op |-> "install", names |-> gate]
                           /\ r.op = "install"
                           /\ AskedNow = {r} /\ pending = None
                           /\ plan.mode # "plan" /\ upgrade = {}
  BY GateAsked DEF GateInv, AnswerInstallGate
<1>2. posted = <<>>
  BY <1>1 DEF GateInv, TokenInv, OnePlace
<1>3. /\ plan'.mode # "plan" /\ upgrade' = {} /\ gate' = {} /\ pending' = None
      /\ UNCHANGED <<slot, toGui, subscribed, posted>>
      /\ \E t \in {"confirm", "cancel"} : toPm' = Append(toPm, CallTo(t, r))
  BY <1>1 DEF AnswerInstallGate, pmVars
<1>4. Len(posted') <= 1
  BY <1>2, <1>3
<1>5. AskedNow' = {} /\ Screen'
  BY <1>3, <1>4, NoQuestionLeft
<1>6. GateInv'
  BY <1>1, <1>3, <1>5, GateDecides
<1> QED
  BY <1>1, <1>3, <1>5, <1>6

LEMMA GateIdle ==
    ASSUME TypeOK, GateInv,
           CancelSpinner \/ (\E p \in Package : Launch(p)) \/ UNCHANGED vars
    PROVE  GateInv' /\ AskedNow' = AskedNow /\ UNCHANGED <<posted, toPm>>
<1>1. /\ UNCHANGED <<slot, toPm, toGui, subscribed, posted, pending, upgrade, gate>>
      /\ \/ UNCHANGED plan
         \/ {plan.mode, plan'.mode} \subseteq {"closed", "loading"}
  BY DEF CancelSpinner, Launch, vars, pmVars, guiVars, dialogs, Closed
<1>2. AskedNow' = AskedNow
  BY <1>1, SameQuestion
<1>3. GuiOrder' /\ AcksIn' = AcksIn /\ Range(toGui') = Range(toGui)
  BY <1>1, SameGui DEF GateInv
<1>4. /\ PmOrder' /\ DecisionsIn' = DecisionsIn /\ ResetsIn' = ResetsIn
      /\ Range(toPm') = Range(toPm)
      /\ Followed(toPm, Dead, Resets) => Followed(toPm, Dead, Resets)'
  BY <1>1, SamePm DEF GateInv
<1>5. TokenInv' /\ Screen'
  BY <1>1, <1>2, <1>3, <1>4, TokensStay, SameScreen DEF GateInv
<1>6. \A q \in Request : Mentioned(q)' => Mentioned(q)
  BY <1>1, <1>3, <1>4 DEF Mentioned
<1> QED
  BY <1>1, <1>2, <1>3, <1>4, <1>5, <1>6, NoNews, SameSession DEF GateInv

\* What had left Basecamp when it died is still handled, a decision included.
LEMMA GateCrash ==
    ASSUME TypeOK, GateInv, GuiCrash
    PROVE  /\ GateInv' /\ AskedNow' = {} /\ posted' = <<>>
           /\ \A r : InPm("confirm", r)' => InPm("confirm", r)
<1>1. PICK left \in 0..Len(toPm) :
         toPm' = [n \in 1..left |-> [toPm[n] EXCEPT !.live = FALSE]]
  BY DEF GuiCrash
<1>2. /\ toPm \in Seq(Call) /\ DOMAIN toPm = 1..Len(toPm) /\ Len(toPm) \in Nat
      /\ left \in Nat /\ DOMAIN toPm' = 1..left
  BY <1>1 DEF TypeOK
<1>3. \A n \in DOMAIN toPm' : /\ n \in DOMAIN toPm /\ toPm'[n] \in Call
                              /\ toPm'[n].type = toPm[n].type
                              /\ toPm'[n].req = toPm[n].req
                              /\ toPm'[n].live = FALSE
  <2>1. \A c \in Call : /\ [c EXCEPT !.live = FALSE] \in Call
                        /\ [c EXCEPT !.live = FALSE].type = c.type
                        /\ [c EXCEPT !.live = FALSE].req = c.req
                        /\ [c EXCEPT !.live = FALSE].live = FALSE
    BY DEF Call
  <2>2. \A n \in DOMAIN toPm' : /\ n \in DOMAIN toPm /\ toPm[n] \in Call
                                /\ toPm'[n] = [toPm[n] EXCEPT !.live = FALSE]
    <3>1. \A n \in 1..left : n \in 1..Len(toPm)
      BY <1>2
    <3>2. \A n \in 1..Len(toPm) : toPm[n] \in Call
      BY <1>2
    <3>3. \A n \in 1..left : toPm'[n] = [toPm[n] EXCEPT !.live = FALSE]
      BY <1>1, Zenon
    <3> QED
      BY <1>2, <3>1, <3>2, <3>3
  <2> TAKE n \in DOMAIN toPm'
  <2>3. PICK c \in Call : c = toPm[n] /\ toPm'[n] = [c EXCEPT !.live = FALSE]
    BY <2>2
  <2> QED
    BY <2>1, <2>2, <2>3
<1>4. \A n \in DOMAIN toPm' : /\ toPm'[n] \in Decisions => toPm[n] \in Decisions
                              /\ toPm'[n] \in Resets => toPm[n] \in Resets
                              /\ toPm'[n] \notin Fresh
  <2>1. \A n \in DOMAIN toPm : toPm[n] \in Call
    BY <1>2
  <2> QED
    BY <1>3, <2>1 DEF Decisions, Resets, Fresh
<1>5. PmOrder'
  <2>1. OnlyOne(toPm', Decisions) /\ NoneBehind(toPm', Resets, Decisions)
    BY <1>3, <1>4 DEF GateInv, PmOrder, OnlyOne, NoneBehind
  <2>2. NoneBehind(toPm', Fresh, Resets)
    BY <1>4 DEF NoneBehind
  <2> QED
    BY <2>1, <2>2 DEF PmOrder
<1>6. /\ toGui' = <<>> /\ ~subscribed' /\ posted' = <<>> /\ pending' = None
      /\ plan' = Closed /\ upgrade' = {} /\ gate' = {} /\ UNCHANGED slot
  BY DEF GuiCrash
<1>7. Range(toGui') = {} /\ Range(posted') = {} /\ Len(posted') = 0 /\ DOMAIN toGui' = {}
  BY <1>6 DEF Range
<1>8. AskedNow' = {} /\ Screen'
  BY <1>6, <1>7, NoQuestionLeft DEF Closed
<1>9. GuiOrder' /\ AcksIn' = {}
  BY <1>7 DEF GuiOrder, AcksIn, OnlyOne
<1>10. \A c \in Range(toPm') : \E d \in Range(toPm) :
          /\ d.req = c.req /\ d.type = c.type
          /\ c \in Decisions => d \in Decisions
          /\ c \notin Fresh
  BY <1>3, <1>4 DEF Range
<1>11. Sessions'
  BY <1>6, <1>7, <1>8, <1>10 DEF Sessions
<1>12. TokenInv'
  <2>1. \A c \in DecisionsIn' : \E d \in DecisionsIn : d.req = c.req
    BY <1>10 DEF DecisionsIn
  <2>2. TokensHold'
    BY <1>6, <1>7, <1>8, <1>9, <2>1 DEF GateInv, TokenInv, TokensHold, Holds
  <2>3. OnePlace' /\ Owned'
    BY <1>6, <1>8, <1>9 DEF OnePlace, Owned
  <2> QED
    BY <2>2, <2>3 DEF TokenInv
<1>13. \A q \in Request : Mentioned(q)' => Mentioned(q)
  BY <1>6, <1>7, <1>10 DEF Mentioned
<1>14. \A r : InPm("confirm", r)' => InPm("confirm", r)
  BY <1>10 DEF InPm
<1> QED
  BY <1>5, <1>6, <1>8, <1>9, <1>11, <1>12, <1>13, <1>14, NoNews DEF GateInv

LEMMA GateStarts ==
    ASSUME Init
    PROVE  GateInv /\ AskedNow = {}
<1>1. /\ toPm = <<>> /\ toGui = <<>> /\ posted = <<>> /\ ~subscribed /\ slot = Free
      /\ plan = Closed /\ upgrade = {} /\ gate = {} /\ pending = None
  BY DEF Init
<1>2. AskedNow = {}
  BY <1>1, AskedAreNone DEF Closed
<1>3. /\ Range(toPm) = {} /\ Range(toGui) = {} /\ Range(posted) = {} /\ Len(posted) = 0
      /\ DOMAIN toPm = {} /\ DOMAIN toGui = {}
  BY <1>1 DEF Range
<1>4. PmOrder /\ GuiOrder /\ Sessions /\ TokenInv
  BY <1>1, <1>2, <1>3 DEF PmOrder, GuiOrder, Sessions, TokenInv, TokensHold, OnePlace, Owned,
     OnlyOne, NoneBehind, AcksIn, DecisionsIn
<1>5. Screen
  BY <1>1, <1>2, <1>3 DEF Screen, PendingIsAnswerable, Closed
<1>6. OneRequest
  BY <1>1, <1>3, RequestShape DEF OneRequest, Mentioned, Free
<1> QED
  BY <1>2, <1>4, <1>5, <1>6 DEF GateInv

LEMMA GateStep ==
    ASSUME PatientClients, TypeOK, GateInv, [Next]_vars
    PROVE  GateInv'
<1>1. CASE PackageManager
  BY <1>1, GateHandlesRequest, GateHandlesAck, GateHandlesDecision, GateHandlesReset,
     GateTimeout DEF PackageManager
<1>2. CASE PackageManagerUi
  BY <1>2, GatePmu
<1>3. CASE EventLoop
  BY <1>3, GateSubscribe, GateBefore, GateAckOk, GateRefusal, GateRunPosted,
     GateDependencyData DEF EventLoop
<1>4. CASE User
  BY <1>4, GateUninstalls, GateIdle, GateConfirmPlan, GateCancelPlan, GateAnswerUpgrade,
     GateAnswerInstall DEF User
<1>5. CASE GuiCrash
  BY <1>5, GateCrash
<1>6. CASE UNCHANGED vars
  BY <1>6, GateIdle
<1> QED
  BY <1>1, <1>2, <1>3, <1>4, <1>5, <1>6 DEF Next

-----------------------------------------------------------------------------
(* Theorems *)

LEMMA GateKept ==
    ASSUME PatientClients, TypeOK, GateInv, [Next]_vars
    PROVE  TypeOK' /\ GateInv'
<1>1. TypeOK'
  BY TypePm, TypePmu, TypeEventLoop, TypeUser, TypeCrash, TypeStutter DEF Next
<1> QED
  BY <1>1, GateStep

LEMMA GateInvariant == PatientClients => (Spec => [](TypeOK /\ GateInv))
<1> HAVE PatientClients
<1>1. Init => TypeOK /\ GateInv
  BY TypeInit, GateStarts
<1>2. TypeOK /\ GateInv /\ [Next]_vars => (TypeOK /\ GateInv)'
  BY GateKept
<1> QED
  BY <1>1, <1>2, PTL DEF Spec

LEMMA TokensSeen ==
    ASSUME TypeOK, GateInv
    PROVE  SlotHasAnOwner /\ AskedIsLive /\ PendingIsAnswerable
<1>1. AskedIsLive
  <2>1. \A r \in GrantedNow : r \in Range(posted) \/ \E c \in DecisionsIn : c.req = r
    <3>1. \A c \in Range(toPm) : c \in Call
      BY DEF TypeOK, Range
    <3> QED
      BY <3>1 DEF GrantedNow, InPm, DecisionsIn, Decisions
  <2> QED
    BY <2>1 DEF AskedIsLive, GateInv, TokenInv, TokensHold
<1>2. ASSUME subscribed, slot.acked PROVE OnItsWay(slot.req)
  <2> DEFINE r == slot.req
  <2>1. \/ ResetsIn # {} \/ AcksIn # {} \/ AskedNow # {} \/ posted # <<>> \/ DecisionsIn # {}
    BY <1>2 DEF GateInv, TokenInv, Owned
  <2>2. r \in Request
    BY <1>2 DEF TypeOK, Slot, Free
  <2>3. CASE ResetsIn # {}
    <3>1. \A c \in ResetsIn : c \in Range(toPm) /\ c.type = "reset" /\ c.req = None
      BY DEF ResetsIn, Resets, Call
    <3> QED
      BY <2>3, <3>1 DEF OnItsWay, InPm
  <2>4. CASE AcksIn # {}
    <3>1. \A m \in AcksIn : m \in Range(toGui) /\ m.type = "ackOk" /\ m.req = r
      BY DEF AcksIn, Acks, GateInv, TokenInv, TokensHold, Holds
    <3> QED
      BY <2>4, <3>1 DEF OnItsWay, InGui
  <2>5. CASE AskedNow # {}
    BY <2>5 DEF OnItsWay, GateInv, TokenInv, TokensHold, Holds
  <2>6. CASE posted # <<>>
    <3>1. Head(posted) \in Range(posted)
      BY <2>6, HeadTail DEF TypeOK
    <3> QED
      BY <2>2, <3>1 DEF OnItsWay, GrantedNow, GateInv, TokenInv, TokensHold, Holds
  <2>7. CASE DecisionsIn # {}
    <3>1. PICK c \in DecisionsIn : TRUE
      BY <2>7
    <3>2. c \in Range(toPm) /\ c.type \in {"confirm", "cancel"} /\ c.req = r
      BY <3>1 DEF DecisionsIn, Decisions, GateInv, TokenInv, TokensHold, Holds
    <3> QED
      BY <2>2, <3>2 DEF OnItsWay, GrantedNow, InPm
  <2> QED
    BY <2>1, <2>3, <2>4, <2>5, <2>6, <2>7
<1> QED
  BY <1>1, <1>2 DEF SlotHasAnOwner, GateInv, Screen

\* However acks, timeouts, crashes and decisions interleave, an acked slot has
\* somebody to free it, unless two requests about a package overlap
\* (onBefore*, confirm*, cancel*, resetPendingAction in PackageCoordinator).
THEOREM SlotOwned == PatientClients => (Spec => []SlotHasAnOwner)
<1> HAVE PatientClients
<1> QED
  BY GateInvariant, TokensSeen, PTL

\* The question on screen and the confirmation on its way are about the request
\* that package_manager holds (the same handlers).
THEOREM QuestionLive == PatientClients => (Spec => []AskedIsLive)
<1> HAVE PatientClients
<1> QED
  BY GateInvariant, TokensSeen, PTL

\* m_pendingAction is what the screen asks, so the guards of confirm and cancel
\* never drop the user's answer (confirmUninstallCascade, cancelPendingAction).
THEOREM AnswerNotDropped == PatientClients => (Spec => []PendingIsAnswerable)
<1> HAVE PatientClients
<1> QED
  BY GateInvariant, TokensSeen, PTL

LEMMA PendingStep ==
    ASSUME TypeOK, GateInv, [Next]_vars, pending # None
    PROVE  pending' \in {pending, None}
<1>1. CASE HandleAckOk
  BY <1>1, GateAckOk
<1>2. CASE ~HandleAckOk
  BY <1>2 DEF Next, PackageManager, PackageManagerUi, EventLoop, User, GuiCrash, vars, guiVars,
     PmHandlesRequest, PmHandlesAck, PmHandlesConfirm, PmHandlesCancel, PmHandlesReset,
     AckTimeout, PmuRequests, PmuCopies, Subscribe, HandleBefore, HandleRefusal, RunPosted,
     DependencyDataReady, UninstallApp, UninstallModule, Launch, ConfirmPlan, CancelPlan,
     CancelSpinner, AnswerUpgrade, AnswerInstallGate, ConfirmUninstallCascade,
     CancelPendingAction
<1> QED
  BY <1>1, <1>2

\* A confirmation is never put in the place of another that waits for its
\* answer (m_pendingAction, written by the four ack answers).
THEOREM OneAtATime == PatientClients => (Spec => PendingNotOverwritten)
<1> HAVE PatientClients
<1>1. TypeOK /\ GateInv /\ [Next]_vars => [pending # None => pending' \in {pending, None}]_vars
  BY PendingStep
<1> QED
  BY <1>1, GateInvariant, PTL DEF Spec, PendingNotOverwritten

-----------------------------------------------------------------------------
(* The protocol implements PackageConsent *)

\* A permission is a confirmation, queued or sent.
Confirmed == {c.req : c \in {d \in DecisionsIn : d.type = "confirm"}}

LEMMA GrantedAre ==
    ASSUME TypeOK
    PROVE  GrantedNow = Range(posted) \cup Confirmed
<1>1. Range(posted) \subseteq Request
  BY PendingShape DEF TypeOK, Range
<1>2. \A c \in Range(toPm) : c \in Call
  BY DEF TypeOK, Range
<1>3. \A c \in DecisionsIn : c.req \in Request
  BY CallShape DEF DecisionsIn, Decisions
<1>4. \A r : InPm("confirm", r) <=> r \in Confirmed
  BY <1>2 DEF InPm, Confirmed, DecisionsIn, Decisions
<1>5. Confirmed \subseteq Request
  BY <1>3 DEF Confirmed
<1> QED
  BY <1>1, <1>4, <1>5 DEF GrantedNow

LEMMA NothingGranted ==
    ASSUME TypeOK, posted = <<>>, DecisionsIn = {}
    PROVE  GrantedNow = {}
  BY GrantedAre DEF Range, Confirmed

\* Steps that PackageConsent does not see.
Unseen == UNCHANGED <<AskedNow, GrantedNow, installed, approved, crashes>>

LEMMA UnseenStutters ==
    ASSUME Unseen
    PROVE  UNCHANGED Consent!vars
  BY DEF Unseen, Consent!vars

LEMMA SameGrants ==
    ASSUME UNCHANGED posted, \A r \in Request : InPm("confirm", r)' <=> InPm("confirm", r)
    PROVE  GrantedNow' = GrantedNow
  BY DEF GrantedNow

LEMMA PostsNoConfirm ==
    ASSUME TypeOK, NEW t \in {"request", "ack", "cancel", "reset"}, NEW q \in Request \cup {None},
           toPm' = Append(toPm, CallTo(t, q)), t = "reset" <=> q = None
    PROVE  \A r \in Request : InPm("confirm", r)' <=> InPm("confirm", r)
<1>1. CallTo(t, q) \in Call /\ CallTo(t, q).type = t
  <2>1. q # None => q \in Request
    OBVIOUS
  <2> QED
    BY <2>1, CallShape DEF CallTo
<1>2. Range(toPm') = Range(toPm) \cup {CallTo(t, q)}
  BY <1>1, RangeAppend DEF TypeOK
<1> QED
  BY <1>1, <1>2 DEF InPm

\* A decision to go ahead is a grant, the other one a refusal.
LEMMA ConsentDecides ==
    ASSUME TypeOK, TypeOK', GateInv, NEW r \in Request, AskedNow = {r}, AskedNow' = {},
           UNCHANGED <<installed, approved, crashes>>,
           \/ posted' = Append(posted, r) /\ UNCHANGED toPm
           \/ /\ UNCHANGED posted
              /\ \E t \in {"confirm", "cancel"} : toPm' = Append(toPm, CallTo(t, r))
    PROVE  Consent!Next
<1>1. posted = <<>> /\ DecisionsIn = {}
  BY DEF GateInv, TokenInv, OnePlace
<1>2. GrantedNow = {}
  BY <1>1, NothingGranted
<1>3. CASE posted' = Append(posted, r) /\ UNCHANGED toPm
  <2>1. Range(posted') = {r}
    BY <1>1, <1>3 DEF Range
  <2>2. \A q : InPm("confirm", q)' => InPm("confirm", q)
    BY <1>3 DEF InPm
  <2>3. GrantedNow' = {r}
    BY <1>2, <2>1, <2>2 DEF GrantedNow
  <2> QED
    BY <1>2, <2>3 DEF Consent!Next, Consent!Grant, Consent!disk
<1>4. CASE UNCHANGED posted /\ toPm' = Append(toPm, CallTo("confirm", r))
  <2>1. Range(toPm') = Range(toPm) \cup {CallTo("confirm", r)}
    BY <1>4, RangeAppend, CallShape DEF TypeOK
  <2>2. CallTo("confirm", r).type = "confirm" /\ CallTo("confirm", r).req = r
    BY DEF CallTo
  <2>3. \A q \in Request : InPm("confirm", q)' <=> InPm("confirm", q) \/ q = r
    BY <2>1, <2>2 DEF InPm
  <2>4. GrantedNow' = {r}
    BY <1>2, <1>4, <2>3 DEF GrantedNow
  <2> QED
    BY <1>2, <2>4 DEF Consent!Next, Consent!Grant, Consent!disk
<1>5. CASE UNCHANGED posted /\ toPm' = Append(toPm, CallTo("cancel", r))
  <2>1. \A q \in Request : InPm("confirm", q)' <=> InPm("confirm", q)
    BY <1>5, PostsNoConfirm, RequestShape
  <2>2. GrantedNow' = GrantedNow
    BY <1>5, <2>1, SameGrants
  <2> QED
    BY <2>2 DEF Consent!Next, Consent!Refuse, Consent!disk
<1> QED
  BY <1>3, <1>4, <1>5

LEMMA ConsentPm ==
    ASSUME TypeOK, GateInv, PackageManager
    PROVE  Consent!Next \/ UNCHANGED Consent!vars
<1>1. AskedNow' = AskedNow /\ UNCHANGED <<posted, crashes>>
  BY DEF PackageManager, PmHandlesRequest, PmHandlesAck, PmHandlesConfirm, PmHandlesCancel,
     PmHandlesReset, AckTimeout, guiVars, dialogs, counters, AskedNow
<1>2. CASE PmHandlesConfirm
  <2> DEFINE r == Head(toPm).req
  <2>1. GateInv' /\ Head(toPm) \in DecisionsIn /\ Holds(r) /\ Head(toPm).type = "confirm"
    BY <1>2, GateHandlesDecision DEF PmHandlesConfirm, PmTakesCall
  <2>2. posted = <<>>
    BY <2>1 DEF GateInv, TokenInv, OnePlace
  <2>3. DecisionsIn' = {} /\ Range(toPm) = Range(toPm') \cup {Head(toPm)}
    BY <1>2, TakeCall DEF GateInv, PmHandlesConfirm
  <2>4. r \in Request
    BY <2>1, CallShape DEF DecisionsIn, Decisions
  <2>5. Range(posted') = {} /\ Range(posted) = {}
    BY <1>1, <2>2 DEF Range
  <2>6. \A q : ~InPm("confirm", q)'
    <3>1. \A c \in Range(toPm') : c \in Call
      BY <2>3 DEF TypeOK, Range
    <3> QED
      BY <2>3, <3>1 DEF InPm, DecisionsIn, Decisions
  <2>7. GrantedNow' = {} /\ r \in GrantedNow
    BY <2>1, <2>3, <2>4, <2>5, <2>6 DEF GrantedNow, InPm
  <2> HIDE DEF r
  <2>8. /\ installed' = IF r.op = "install" THEN installed ELSE installed \ r.names
        /\ approved' = IF r.op \in {"install", "upgrade"} THEN approved \cup r.names
                                                          ELSE approved
    BY <1>2, <2>1 DEF PmHandlesConfirm, r
  <2> QED
    BY <1>1, <2>4, <2>7, <2>8 DEF Consent!Next, Consent!Perform
<1>3. CASE ~PmHandlesConfirm
  <2>1. UNCHANGED <<installed, approved>>
    BY <1>3 DEF PackageManager, PmHandlesRequest, PmHandlesAck, PmHandlesCancel,
       PmHandlesReset, AckTimeout, pmVars
  <2>2. CASE UNCHANGED toPm
    BY <1>1, <2>1, <2>2, SameGrants, UnseenStutters DEF InPm, Unseen
  <2>3. ASSUME NEW type \in {"request", "ack", "cancel", "reset"}, PmTakesCall(type)
        PROVE  UNCHANGED Consent!vars
    <3>1. Range(toPm) = Range(toPm') \cup {Head(toPm)} /\ Head(toPm).type # "confirm"
      BY <2>3, TakeCall DEF GateInv
    <3>2. \A r \in Request : InPm("confirm", r)' <=> InPm("confirm", r)
      BY <3>1 DEF InPm
    <3> QED
      BY <1>1, <2>1, <3>2, SameGrants, UnseenStutters DEF Unseen
  <2> QED
    BY <1>3, <2>2, <2>3 DEF PackageManager, PmHandlesRequest, PmHandlesAck, PmHandlesCancel,
       PmHandlesReset, AckTimeout
<1> QED
  BY <1>2, <1>3

LEMMA ConsentPmu ==
    ASSUME PackageManagerUi
    PROVE  Consent!Next \/ UNCHANGED Consent!vars
<1>1. AskedNow' = AskedNow /\ GrantedNow' = GrantedNow /\ UNCHANGED crashes
  BY DEF PackageManagerUi, PmuRequests, PmuCopies, guiVars, dialogs, counters, AskedNow,
     GrantedNow, InPm
<1>2. ASSUME NEW r \in Request, PmuRequests(r) PROVE UNCHANGED Consent!vars
  BY <1>1, <1>2, UnseenStutters DEF PmuRequests, Unseen
<1>3. ASSUME NEW p \in Package, PmuCopies(p) PROVE Consent!Next
  BY <1>1, <1>3 DEF PmuCopies, Consent!Next, Consent!Copy
<1> QED
  BY <1>2, <1>3 DEF PackageManagerUi

LEMMA ConsentPerforms ==
    ASSUME TypeOK, NEW name, PerformUninstallApp(name)
    PROVE  \A r \in Request : InPm("confirm", r)' <=> InPm("confirm", r)
<1>1. CASE UNCHANGED toPm
  BY <1>1 DEF InPm
<1>2. ASSUME NEW b \in Batches,
             toPm' = Append(toPm, CallTo("request", [op |-> "multi", names |-> b]))
      PROVE  \A r \in Request : InPm("confirm", r)' <=> InPm("confirm", r)
  BY <1>2, PendingShape, PostsNoConfirm, RequestShape
<1> QED
  BY <1>1, <1>2 DEF PerformUninstallApp

LEMMA ConsentEventLoop ==
    ASSUME TypeOK, GateInv, EventLoop
    PROVE  Consent!Next \/ UNCHANGED Consent!vars
<1>1. UNCHANGED <<installed, approved, crashes>>
  BY DEF EventLoop, Subscribe, HandleBefore, HandleAckOk, HandleRefusal, RunPosted,
     DependencyDataReady, pmVars, counters
<1>2. CASE Subscribe
  <2>1. AskedNow' = AskedNow /\ UNCHANGED posted /\ toPm' = Append(toPm, CallTo("reset", None))
    BY <1>2 DEF Subscribe, dialogs, AskedNow
  <2> QED
    BY <1>1, <2>1, PostsNoConfirm, SameGrants, UnseenStutters DEF Unseen
<1>3. CASE HandleBefore
  <2>1. AskedNow' = AskedNow /\ UNCHANGED posted
        /\ toPm' = Append(toPm, CallTo("ack", Head(toGui).req))
    BY <1>3 DEF HandleBefore, guiVars, dialogs, AskedNow
  <2>2. Head(toGui).req \in Request /\ Head(toGui).req # None
    BY <1>3, MsgShape, RequestShape DEF HandleBefore, TypeOK
  <2> QED
    BY <1>1, <2>1, <2>2, PostsNoConfirm, SameGrants, UnseenStutters DEF Unseen
<1>4. CASE HandleAckOk
  <2>1. AskedNow = {} /\ posted = <<>> /\ DecisionsIn = {} /\ UNCHANGED <<toPm, posted>>
    BY <1>4, GateAckOk DEF HandleAckOk
  <2>2. GrantedNow = {} /\ GrantedNow' = GrantedNow
    BY <2>1, NothingGranted, SameGrants DEF InPm
  <2>3. PICK r \in Request : AskedNow' = {r}
    BY <1>4, GateAckOk
  <2> QED
    BY <1>1, <2>1, <2>2, <2>3 DEF Consent!Next, Consent!Ask, Consent!disk
<1>5. CASE HandleRefusal
  <2>1. AskedNow' = AskedNow /\ UNCHANGED <<posted, toPm>>
    BY <1>5 DEF HandleRefusal, dialogs, AskedNow
  <2> QED
    BY <1>1, <2>1, SameGrants, UnseenStutters DEF Unseen, InPm
<1>6. CASE RunPosted
  <2> DEFINE r == Head(posted)
  <2>1. /\ DecisionsIn = {} /\ posted = <<r>> /\ posted' = <<>>
        /\ Range(toPm') = Range(toPm) \cup {CallTo("confirm", r)}
    BY <1>6, GateRunPosted
  <2>2. AskedNow' = AskedNow
    BY <1>6 DEF RunPosted, dialogs, AskedNow
  <2> HIDE DEF r
  <2>3. Range(posted) = {r} /\ Range(posted') = {}
    BY <2>1 DEF Range
  <2>4. CallTo("confirm", r).type = "confirm" /\ CallTo("confirm", r).req = r
    BY DEF CallTo
  <2>5. \A q : ~InPm("confirm", q)
    <3>1. \A c \in Range(toPm) : c \in Call
      BY DEF TypeOK, Range
    <3> QED
      BY <2>1, <3>1 DEF InPm, DecisionsIn, Decisions
  <2>6. \A q \in Request : InPm("confirm", q)' <=> q = r
    BY <2>1, <2>4, <2>5 DEF InPm
  <2>7. GrantedNow' = GrantedNow
    BY <2>3, <2>5, <2>6 DEF GrantedNow
  <2> QED
    BY <1>1, <2>2, <2>7, UnseenStutters DEF Unseen
<1>7. CASE DependencyDataReady
  <2>1. AskedNow' = AskedNow /\ UNCHANGED posted
    BY <1>7 DEF DependencyDataReady, dialogs, AskedNow
  <2>2. \A r \in Request : InPm("confirm", r)' <=> InPm("confirm", r)
    BY <1>7, ConsentPerforms DEF DependencyDataReady, InPm
  <2> QED
    BY <1>1, <2>1, <2>2, SameGrants, UnseenStutters DEF Unseen
<1> QED
  BY <1>2, <1>3, <1>4, <1>5, <1>6, <1>7 DEF EventLoop

LEMMA ConsentUser ==
    ASSUME TypeOK, TypeOK', GateInv, User
    PROVE  Consent!Next \/ UNCHANGED Consent!vars
<1>1. UNCHANGED <<installed, approved, crashes>>
  BY DEF User, UninstallApp, UninstallModule, Launch, ConfirmPlan, CancelPlan, CancelSpinner,
     AnswerUpgrade, AnswerInstallGate, pmVars, counters
<1>2. ASSUME NEW p \in Package, UninstallApp(p) PROVE UNCHANGED Consent!vars
  <2>1. /\ UNCHANGED <<posted, upgrade, gate>>
        /\ UNCHANGED plan \/ {plan.mode, plan'.mode} \subseteq {"closed", "loading"}
    BY <1>2 DEF UninstallApp, UserCanClick, ModalOpen, Closed, Spinner
  <2>2. AskedNow' = AskedNow
    BY <2>1, SameQuestion
  <2>3. \A r \in Request : InPm("confirm", r)' <=> InPm("confirm", r)
    BY <1>2, ConsentPerforms DEF UninstallApp, InPm
  <2> QED
    BY <1>1, <2>1, <2>2, <2>3, SameGrants, UnseenStutters DEF Unseen
<1>3. ASSUME NEW p \in Package, UninstallModule(p) PROVE UNCHANGED Consent!vars
  <2>1. /\ AskedNow' = AskedNow /\ UNCHANGED posted
        /\ toPm' = Append(toPm, CallTo("request", [op |-> "uninstall", names |-> {p}]))
    BY <1>3 DEF UninstallModule, guiVars, dialogs, AskedNow
  <2>2. \A r \in Request : InPm("confirm", r)' <=> InPm("confirm", r)
    BY <2>1, PendingShape, PostsNoConfirm, RequestShape
  <2> QED
    BY <1>1, <2>1, <2>2, SameGrants, UnseenStutters DEF Unseen
<1>4. CASE CancelSpinner \/ \E p \in Package : Launch(p)
  BY <1>1, <1>4, GateIdle, SameGrants, UnseenStutters DEF Unseen, InPm
<1>5. CASE ConfirmPlan
  BY <1>1, <1>5, GateConfirmPlan, ConsentDecides
<1>6. CASE CancelPlan
  <2>1. plan.req \in Request /\ AskedNow = {plan.req}
    BY <1>6, PlanAsked DEF GateInv, CancelPlan
  <2> QED
    BY <1>1, <1>6, <2>1, GateCancelPlan, ConsentDecides
<1>7. CASE AnswerUpgrade
  BY <1>1, <1>7, GateAnswerUpgrade, ConsentDecides
<1>8. CASE AnswerInstallGate
  BY <1>1, <1>8, GateAnswerInstall, ConsentDecides
<1> QED
  BY <1>2, <1>3, <1>4, <1>5, <1>6, <1>7, <1>8 DEF User

LEMMA ConsentCrash ==
    ASSUME TypeOK, GateInv, GuiCrash
    PROVE  Consent!Next
<1>1. /\ AskedNow' = {} /\ posted' = <<>>
      /\ \A r : InPm("confirm", r)' => InPm("confirm", r)
  BY GateCrash
<1>2. Range(posted') = {}
  BY <1>1 DEF Range
<1>3. GrantedNow' \subseteq GrantedNow
  BY <1>1, <1>2 DEF GrantedNow
<1> QED
  BY <1>1, <1>3 DEF GuiCrash, Consent!Next, Consent!Lose

LEMMA ConsentStarts ==
    ASSUME Init
    PROVE  Consent!Init
<1>1. AskedNow = {}
  BY GateStarts
<1>2. Range(posted) = {} /\ Range(toPm) = {}
  BY DEF Init, Range
<1>3. GrantedNow = {}
  BY <1>2 DEF GrantedNow, InPm
<1> QED
  BY <1>1, <1>3 DEF Init, Consent!Init

LEMMA ConsentStep ==
    ASSUME PatientClients, TypeOK, GateInv, [Next]_vars
    PROVE  Consent!Next \/ UNCHANGED Consent!vars
<1>1. TypeOK'
  BY GateKept
<1>2. CASE UNCHANGED vars
  <2>1. UNCHANGED <<installed, approved, crashes>>
    BY <1>2 DEF vars, pmVars, counters
  <2> QED
    BY <1>2, <2>1, GateIdle, SameGrants, UnseenStutters DEF Unseen, InPm
<1> QED
  BY <1>1, <1>2, ConsentPm, ConsentPmu, ConsentEventLoop, ConsentUser, ConsentCrash DEF Next

\* The safety half of ImplementsConsent: nothing leaves or enters the disk but
\* by a request that was put to the user, alone, and granted (PackageConsent).
THEOREM ConsentKept ==
    PatientClients => (Spec => Consent!Init /\ [][Consent!Next]_Consent!vars)
<1> HAVE PatientClients
<1>1. Init => Consent!Init
  BY ConsentStarts
<1>2. TypeOK /\ GateInv /\ [Next]_vars => [Consent!Next]_Consent!vars
  BY ConsentStep
<1> QED
  BY <1>1, <1>2, GateInvariant, PTL DEF Spec
=============================================================================
