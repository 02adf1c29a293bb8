------------------------ MODULE InstallPipelineProofs ------------------------
(***************************************************************************)
(* What a confirmed install holds while it runs.  A session that waits for *)
(* package_manager is a token on one of the two channels: its live call or *)
(* the answer to it, about the row at the head of its list.  Whoever takes *)
(* the token moves the session on, so the answer always finds the session  *)
(* it belongs to, in the stage it was sent from.                           *)
(***************************************************************************)
EXTENDS InstallPipeline, Functions, TLAPS

Stage == {"none", "downloading", "remove", "install", "clearing", "over"}

Session == [app : {{}} \cup {{a} : a \in App}, stage : Stage, want : Disk,
            todo : Seq(Package), ok : BOOLEAN, alone : BOOLEAN]

Waits(s) == s.stage \in {"remove", "install"}

Shapes ==
    /\ disk \in Disk /\ rescans \in Nat
    /\ toPm \in Seq(Call) /\ toGui \in Seq(Answer)
    /\ typed \in SUBSET Package /\ names \in SUBSET Package /\ version \in Disk
    /\ session \in [Id -> Session] /\ sessions \in 0..MaxSessions
    /\ registry \in [Package -> Entry \cup {NoEntry}]

\* The live call of a session, and the answer to it.
Held(i) == {c \in Call : c.live /\ c.who = i}
Told(i) == {m \in Answer : m.type \in {"remove", "install"} /\ m.who = i}

OnlyOne(q, A) == \A m, n \in DOMAIN q : q[m] \in A /\ q[n] \in A => m = n

NoToken(pm, gui, i) == Range(pm) \cap Held(i) = {} /\ Range(gui) \cap Told(i) = {}

TokenIn(pm, gui, s, i) ==
    /\ OnlyOne(pm, Held(i)) /\ OnlyOne(gui, Told(i))
    /\ Range(pm) \cap Held(i) = {} \/ Range(gui) \cap Told(i) = {}
    /\ \A c \in Range(pm) \cap Held(i) :
         c.type = s.stage /\ c.row = {Head(s.todo)} /\ c.put = s.want[Head(s.todo)]
    /\ \A m \in Range(gui) \cap Told(i) : m.type = s.stage

\* A session has an app while it is active, and rows left while it waits.
WellFormed(s) == /\ s.app = {} <=> s.stage \in {"none", "over"}
                 /\ s.todo # <<>> <=> Waits(s)

Registered(i) ==
    /\ \A a \in session[i].app : registry[a].owner = {a}
    /\ \A j \in Id \ {i} : session[j].app # {} => session[j].app # session[i].app
    /\ i > sessions => session[i] = NoSession

Sessions == \A i \in Id : WellFormed(session[i]) /\ Registered(i)
                            /\ TokenIn(toPm, toGui, session[i], i)

IInv == Shapes /\ Sessions

-----------------------------------------------------------------------------
(* Channels *)

LEMMA AppendAt ==
    ASSUME NEW S, NEW q \in Seq(S), NEW x \in S
    PROVE  /\ DOMAIN q = 1..Len(q) /\ Len(q) \in Nat
           /\ DOMAIN Append(q, x) = 1..Len(q) + 1
           /\ \A n \in 1..Len(q) : Append(q, x)[n] = q[n]
           /\ Append(q, x)[Len(q) + 1] = x
  OBVIOUS

LEMMA TailAt ==
    ASSUME NEW S, NEW q \in Seq(S), q # <<>>
    PROVE  /\ DOMAIN q = 1..Len(q) /\ Len(q) \in Nat \ {0}
           /\ DOMAIN Tail(q) = 1..Len(q) - 1
           /\ \A n \in 1..Len(q) - 1 : Tail(q)[n] = q[n + 1]
           /\ Head(q) = q[1]
  OBVIOUS

\* What a channel holds when a message is posted,
LEMMA Posted ==
    ASSUME NEW S, NEW q \in Seq(S), NEW x \in S, NEW A
    PROVE  /\ Append(q, x) \in Seq(S)
           /\ Range(Append(q, x)) = Range(q) \cup {x}
           /\ OnlyOne(q, A) /\ (x \in A => Range(q) \cap A = {}) => OnlyOne(Append(q, x), A)
<1> DEFINE t == Append(q, x)
<1>1. /\ DOMAIN q = 1..Len(q) /\ Len(q) \in Nat /\ DOMAIN t = 1..Len(q) + 1
      /\ \A n \in 1..Len(q) : t[n] = q[n]
      /\ t[Len(q) + 1] = x
  BY AppendAt
<1>2. t \in Seq(S)
  OBVIOUS
<1> HIDE DEF t
<1>3. \A n \in DOMAIN q : q[n] \in Range(q)
  BY DEF Range
<1>4. Range(t) = Range(q) \cup {x}
  <2>1. Range(t) \subseteq Range(q) \cup {x}
    BY <1>1, <1>3 DEF Range
  <2>2. x \in Range(t)
    BY <1>1 DEF Range
  <2>3. Range(q) \subseteq Range(t)
    BY <1>1 DEF Range
  <2> QED
    BY <2>1, <2>2, <2>3
<1>5. OnlyOne(q, A) /\ (x \in A => Range(q) \cap A = {}) => OnlyOne(t, A)
  BY <1>1, <1>3 DEF OnlyOne
<1> QED
  BY <1>2, <1>4, <1>5 DEF t

\* when one is taken,
LEMMA Taken ==
    ASSUME NEW S, NEW q \in Seq(S), q # <<>>, NEW A
    PROVE  /\ Tail(q) \in Seq(S) /\ Head(q) \in S
           /\ Range(q) = Range(Tail(q)) \cup {Head(q)}
           /\ OnlyOne(q, A) => /\ OnlyOne(Tail(q), A)
                               /\ Head(q) \in A => Range(Tail(q)) \cap A = {}
<1> DEFINE t == Tail(q)
<1>1. /\ DOMAIN q = 1..Len(q) /\ Len(q) \in Nat \ {0} /\ DOMAIN t = 1..Len(q) - 1
      /\ \A n \in 1..Len(q) - 1 : t[n] = q[n + 1]
      /\ Head(q) = q[1]
  BY TailAt
<1>2. t \in Seq(S) /\ Head(q) \in S
  OBVIOUS
<1> HIDE DEF t
<1>3. \A n \in DOMAIN t : n \in Nat /\ n + 1 \in DOMAIN q /\ t[n] = q[n + 1] /\ n + 1 # 1
  BY <1>1
<1>4. \A n \in DOMAIN q : n = 1 \/ (n - 1 \in DOMAIN t /\ q[n] = t[n - 1])
  BY <1>1
<1>5. 1 \in DOMAIN q
  BY <1>1
<1>6. Range(q) = Range(t) \cup {Head(q)}
  <2>1. Range(q) \subseteq Range(t) \cup {Head(q)}
    BY <1>1, <1>4 DEF Range
  <2>2. Range(t) \cup {Head(q)} \subseteq Range(q)
    BY <1>1, <1>3, <1>5 DEF Range
  <2> QED
    BY <2>1, <2>2
<1>7. ASSUME OnlyOne(q, A)
      PROVE  OnlyOne(t, A) /\ (Head(q) \in A => Range(t) \cap A = {})
  <2>1. OnlyOne(t, A)
    BY <1>3, <1>7 DEF OnlyOne
  <2>2. Head(q) \in A => \A n \in DOMAIN t : t[n] \notin A
    BY <1>1, <1>3, <1>5, <1>7 DEF OnlyOne
  <2> QED
    BY <2>1, <2>2 DEF Range
<1> QED
  BY <1>2, <1>6, <1>7 DEF t

\* and when one in the middle is replaced.
With(q, k, x) == [q EXCEPT ![k] = x]

LEMMA Replaced ==
    ASSUME NEW S, NEW q \in Seq(S), NEW k \in DOMAIN q, NEW x \in S, NEW A, x \notin A
    PROVE  /\ With(q, k, x) \in Seq(S)
           /\ Range(With(q, k, x)) \subseteq Range(q) \cup {x}
           /\ OnlyOne(q, A) => /\ OnlyOne(With(q, k, x), A)
                               /\ q[k] \in A => Range(With(q, k, x)) \cap A = {}
<1> DEFINE t == With(q, k, x)
<1>1. DOMAIN t = DOMAIN q /\ t[k] = x /\ \A n \in DOMAIN q \ {k} : t[n] = q[n]
  BY DEF With
<1>2. t \in Seq(S)
  BY DEF With
<1> HIDE DEF t
<1>3. Range(t) \subseteq Range(q) \cup {x}
  BY <1>1 DEF Range
<1>4. ASSUME OnlyOne(q, A)
      PROVE  OnlyOne(t, A) /\ (q[k] \in A => Range(t) \cap A = {})
  BY <1>1, <1>4 DEF OnlyOne, Range
<1> QED
  BY <1>2, <1>3, <1>4 DEF t
-----------------------------------------------------------------------------
(* The token of a session on the two channels *)

\* A session that waits for nothing has no call and no answer under way.
LEMMA TokenOfIdle ==
    ASSUME NEW pm \in Seq(Call), NEW gui \in Seq(Answer), NEW i \in Id, NEW s,
           TokenIn(pm, gui, s, i), ~Waits(s)
    PROVE  NoToken(pm, gui, i)
<1>1. \A c \in Held(i) : c.type \in {"remove", "install"}
  BY DEF Held, Call, Id
<1>2. \A m \in Told(i) : m.type \in {"remove", "install"}
  BY DEF Told
<1> QED
  BY <1>1, <1>2 DEF TokenIn, NoToken, Waits

LEMMA TokenOfNone ==
    ASSUME NEW pm \in Seq(Call), NEW gui \in Seq(Answer), NEW i \in Id, NEW s,
           NoToken(pm, gui, i)
    PROVE  TokenIn(pm, gui, s, i)
<1>1. \A n \in DOMAIN pm : pm[n] \notin Held(i)
  BY DEF NoToken, Range
<1>2. \A n \in DOMAIN gui : gui[n] \notin Told(i)
  BY DEF NoToken, Range
<1> QED
  BY <1>1, <1>2 DEF TokenIn, NoToken, OnlyOne

\* Somebody else's call leaves it alone,
LEMMA TokenBeside ==
    ASSUME NEW pm \in Seq(Call), NEW gui \in Seq(Answer), NEW i \in Id, NEW s,
           NEW c \in Call, c \notin Held(i)
    PROVE  /\ TokenIn(pm, gui, s, i) => TokenIn(Append(pm, c), gui, s, i)
           /\ NoToken(pm, gui, i) => NoToken(Append(pm, c), gui, i)
<1>1. /\ Range(Append(pm, c)) = Range(pm) \cup {c}
      /\ OnlyOne(pm, Held(i)) => OnlyOne(Append(pm, c), Held(i))
  BY Posted
<1>2. Range(Append(pm, c)) \cap Held(i) = Range(pm) \cap Held(i)
  BY <1>1
<1> QED
  BY <1>1, <1>2 DEF TokenIn, NoToken

\* the session's own call is one,
LEMMA TokenPosted ==
    ASSUME NEW pm \in Seq(Call), NEW gui \in Seq(Answer), NEW i \in Id, NEW s,
           NoToken(pm, gui, i), NEW c \in Held(i),
           c.type = s.stage, c.row = {Head(s.todo)}, c.put = s.want[Head(s.todo)]
    PROVE  TokenIn(Append(pm, c), gui, s, i)
<1>1. c \in Call
  BY DEF Held
<1>2. \A n \in DOMAIN pm : pm[n] \notin Held(i)
  BY DEF NoToken, Range
<1>3. \A n \in DOMAIN gui : gui[n] \notin Told(i)
  BY DEF NoToken, Range
<1>4. OnlyOne(pm, Held(i)) /\ OnlyOne(gui, Told(i))
  BY <1>2, <1>3 DEF OnlyOne
<1>5. /\ Range(Append(pm, c)) = Range(pm) \cup {c}
      /\ OnlyOne(Append(pm, c), Held(i))
  BY <1>1, <1>4, Posted DEF NoToken
<1>6. Range(Append(pm, c)) \cap Held(i) = {c} /\ Range(gui) \cap Told(i) = {}
  BY <1>5 DEF NoToken
<1> QED
  BY <1>4, <1>5, <1>6 DEF TokenIn

\* package_manager turns the call into its answer,
LEMMA TokenServed ==
    ASSUME NEW pm \in Seq(Call), NEW gui \in Seq(Answer), NEW i \in Id, NEW s,
           TokenIn(pm, gui, s, i), pm # <<>>
    PROVE  /\ TokenIn(Tail(pm), gui, s, i)
           /\ \A m \in Answer :
                (m \in Told(i) => Head(pm) \in Held(i) /\ m.type = Head(pm).type)
                  => TokenIn(Tail(pm), Append(gui, m), s, i)
<1>1. /\ Range(pm) = Range(Tail(pm)) \cup {Head(pm)}
      /\ OnlyOne(Tail(pm), Held(i))
      /\ Head(pm) \in Held(i) => Range(Tail(pm)) \cap Held(i) = {}
  BY Taken DEF TokenIn
<1>2. TokenIn(Tail(pm), gui, s, i)
  BY <1>1 DEF TokenIn
<1>3. ASSUME NEW m \in Answer,
             m \in Told(i) => Head(pm) \in Held(i) /\ m.type = Head(pm).type
      PROVE  TokenIn(Tail(pm), Append(gui, m), s, i)
  <2>1. CASE m \in Told(i)
    <3>1. Head(pm) \in Held(i) /\ m.type = s.stage /\ Range(gui) \cap Told(i) = {}
      BY <1>1, <1>3, <2>1 DEF TokenIn
    <3>2. /\ OnlyOne(Append(gui, m), Told(i))
          /\ Range(Append(gui, m)) = Range(gui) \cup {m}
      BY <3>1, Posted DEF TokenIn
    <3> QED
      BY <1>1, <3>1, <3>2 DEF TokenIn
  <2>2. CASE m \notin Told(i)
    <3>1. /\ OnlyOne(Append(gui, m), Told(i))
          /\ Range(Append(gui, m)) = Range(gui) \cup {m}
      BY <2>2, Posted DEF TokenIn
    <3>2. Range(Append(gui, m)) \cap Told(i) = Range(gui) \cap Told(i)
      BY <2>2, <3>1
    <3> QED
      BY <1>2, <3>1, <3>2 DEF TokenIn
  <2> QED
    BY <2>1, <2>2
<1> QED
  BY <1>2, <1>3

\* the coordinator takes the answer,
LEMMA TokenTaken ==
    ASSUME NEW pm \in Seq(Call), NEW gui \in Seq(Answer), NEW i \in Id, NEW s,
           TokenIn(pm, gui, s, i), gui # <<>>
    PROVE  /\ TokenIn(pm, Tail(gui), s, i)
           /\ Head(gui) \in Told(i) => /\ Head(gui).type = s.stage
                                       /\ NoToken(pm, Tail(gui), i)
<1>1. /\ Range(gui) = Range(Tail(gui)) \cup {Head(gui)}
      /\ OnlyOne(Tail(gui), Told(i))
      /\ Head(gui) \in Told(i) => Range(Tail(gui)) \cap Told(i) = {}
  BY Taken DEF TokenIn
<1> QED
  BY <1>1 DEF TokenIn, NoToken

\* and a deadline that is blown leaves the call without an answer.
LEMMA TokenLate ==
    ASSUME NEW pm \in Seq(Call), NEW gui \in Seq(Answer), NEW i \in Id, NEW s,
           TokenIn(pm, gui, s, i), NEW k \in DOMAIN pm
    PROVE  /\ [pm EXCEPT ![k].live = FALSE] \in Seq(Call)
           /\ TokenIn([pm EXCEPT ![k].live = FALSE], gui, s, i)
           /\ pm[k] \in Held(i) => /\ pm[k].type = s.stage
                                   /\ NoToken([pm EXCEPT ![k].live = FALSE], gui, i)
<1>1. PICK x : x = [pm[k] EXCEPT !.live = FALSE]
  OBVIOUS
<1>2. pm[k] \in Call
  OBVIOUS
<1>3. x \in Call /\ ~x.live
  BY <1>1, <1>2 DEF Call
<1>4. x \notin Held(i)
  BY <1>3 DEF Held
<1>5. PICK t : t = With(pm, k, x)
  OBVIOUS
<1>6. [pm EXCEPT ![k].live = FALSE] = t
  BY <1>1, <1>5 DEF With
<1>7. /\ t \in Seq(Call) /\ Range(t) \subseteq Range(pm) \cup {x}
      /\ OnlyOne(t, Held(i))
      /\ pm[k] \in Held(i) => Range(t) \cap Held(i) = {}
  BY <1>3, <1>4, <1>5, Replaced DEF TokenIn
<1>8. Range(t) \cap Held(i) \subseteq Range(pm) \cap Held(i)
  BY <1>4, <1>7
<1>9. pm[k] \in Range(pm)
  BY DEF Range
<1> QED
  BY <1>6, <1>7, <1>8, <1>9 DEF TokenIn, NoToken
-----------------------------------------------------------------------------
(* InstallRegistry: an entry keeps the owner it was made with *)

Regs == [Package -> Entry \cup {NoEntry}]

RegKept(reg, new) ==
    /\ new \in Regs
    /\ \A p \in Package : reg[p] # NoEntry => new[p] # NoEntry /\ new[p].owner = reg[p].owner

LEMMA EntryIsSomething == \A e \in Entry : e # NoEntry /\ \E a \in App : e.owner = {a}
  BY DEF Entry, NoEntry

LEMMA RegTransitive ==
    ASSUME NEW a, NEW b, NEW c, RegKept(a, b), RegKept(b, c)
    PROVE  RegKept(a, c)
  BY DEF RegKept

LEMMA SetStageKeeps ==
    ASSUME NEW reg \in Regs, NEW p \in Package,
           NEW stage \in InFlight \cup {"installed", "failed"}
    PROVE  RegKept(reg, SetStage(reg, p, stage))
<1>1. CASE reg[p] = NoEntry
  <2>1. SetStage(reg, p, stage) = reg
    <3>1. [NoEntry EXCEPT !.stage = NoEntry.stage] = NoEntry
      BY DEF NoEntry
    <3>2. SetStage(reg, p, stage) = [reg EXCEPT ![p] = NoEntry]
      BY <1>1, <3>1 DEF SetStage
    <3> QED
      BY <1>1, <3>2 DEF Regs
  <2> QED
    BY <2>1 DEF RegKept
<1>2. CASE reg[p] # NoEntry
  <2>1. PICK e \in Entry : e = reg[p]
    BY <1>2 DEF Regs
  <2>2. PICK f : f = [e EXCEPT !.stage = stage]
    OBVIOUS
  <2>3. f \in Entry /\ f.owner = e.owner
    BY <2>2 DEF Entry
  <2>4. SetStage(reg, p, stage) = [reg EXCEPT ![p] = f]
    BY <1>2, <2>1, <2>2 DEF SetStage
  <2>5. f # NoEntry
    BY <2>3, EntryIsSomething
  <2>6. [reg EXCEPT ![p] = f] \in Regs
    BY <2>3 DEF Regs
  <2>7. \A q \in Package : [reg EXCEPT ![p] = f][q] = IF q = p THEN f ELSE reg[q]
    BY DEF Regs
  <2> QED
    BY <2>1, <2>3, <2>4, <2>5, <2>6, <2>7 DEF RegKept
<1> QED
  BY <1>1, <1>2

LEMMA BeginOrTrackKeeps ==
    ASSUME NEW reg \in Regs, NEW p \in Package, NEW a \in App
    PROVE  RegKept(reg, BeginOrTrack(reg, p, a))
<1>1. [stage |-> "downloading", owner |-> {a}] \in Entry
  BY DEF Entry, InFlight
<1> QED
  BY <1>1 DEF BeginOrTrack, RegKept, Regs

\* confirmCatalogInstall's look at the whole closure only adds entries.
LEMMA TrackedKeeps ==
    ASSUME NEW a \in App, NEW want \in Disk, registry \in Regs
    PROVE  RegKept(registry, Tracked(a, want))
<1>1. ASSUME NEW p \in Package
      PROVE  /\ Tracked(a, want)[p] \in Entry \cup {NoEntry}
             /\ registry[p] # NoEntry => /\ Tracked(a, want)[p] # NoEntry
                                         /\ Tracked(a, want)[p].owner = registry[p].owner
  <2>1. CASE want[p] = 0
    BY <2>1 DEF Tracked, Regs
  <2>2. CASE want[p] # 0
    <3>1. PICK reg : reg = BeginOrTrack(registry, p, a)
      OBVIOUS
    <3>2. RegKept(registry, reg)
      BY <3>1, BeginOrTrackKeeps
    <3>3. reg[p] # NoEntry
      BY <3>1 DEF BeginOrTrack, Regs, NoEntry
    <3>4. PICK e \in Entry : e = reg[p]
      BY <3>2, <3>3 DEF RegKept, Regs
    <3>5. PICK f : f = [e EXCEPT !.stage = IF p \in Stale(want) THEN "queued" ELSE "installed"]
      OBVIOUS
    <3>6. f \in Entry /\ f.owner = e.owner
      BY <3>5 DEF Entry, InFlight
    <3>7. Tracked(a, want)[p] = f
      BY <2>2, <3>1, <3>4, <3>5 DEF Tracked
    <3> QED
      BY <3>2, <3>4, <3>6, <3>7, EntryIsSomething DEF RegKept
  <2> QED
    BY <2>1, <2>2
<1>2. Tracked(a, want) \in Regs
  BY <1>1 DEF Regs, Tracked
<1> QED
  BY <1>1, <1>2 DEF RegKept

-----------------------------------------------------------------------------
(* Where a step of a session leads: into the next call or to its end *)

\* Session i becomes t, and waits for a call of its own if it waits.
Advance(i, t) ==
    /\ session' = [session EXCEPT ![i] = t]
    /\ t \in Session /\ WellFormed(t)
    /\ t.app = session[i].app /\ t.alone = session[i].alone
    /\ RegKept(registry, registry')
    /\ \/ /\ Waits(t)
          /\ toPm' = Append(toPm, RowCall(t.stage, i, Head(t.todo), t.want[Head(t.todo)]))
       \/ /\ t.stage = "clearing" /\ toPm' = toPm

Failed(t) == t.stage = "clearing" /\ ~t.ok

\* Every row of todo is installed, or some are left and none has failed.
Carries(t, want, todo) ==
    t.want = want /\ (\/ Waits(t) /\ t.todo = todo
                      \/ t.stage = "clearing" /\ t.ok /\ todo = <<>> /\ t.todo = <<>>)

LEMMA FinishSession ==
    ASSUME NEW i \in Id, NEW a \in App, NEW s \in Session, s.app = {a},
           NEW reg \in Regs, NEW ok \in BOOLEAN, Finish(i, a, s, reg, ok)
    PROVE  \E t \in Session :
              /\ session' = [session EXCEPT ![i] = t]
              /\ WellFormed(t) /\ t.app = s.app /\ t.alone = s.alone /\ t.want = s.want
              /\ t.stage = "clearing" /\ t.ok = ok /\ t.todo = <<>>
              /\ RegKept(reg, registry')
<1>1. PICK t : t = [s EXCEPT !.stage = "clearing", !.todo = <<>>, !.ok = ok]
  OBVIOUS
<1>2. <<>> \in Seq(Package)
  OBVIOUS
<1>3. /\ t \in Session /\ t.app = s.app /\ t.alone = s.alone /\ t.want = s.want
      /\ t.stage = "clearing" /\ t.ok = ok /\ t.todo = <<>>
  BY <1>1, <1>2 DEF Session, Stage
<1>4. WellFormed(t)
  BY <1>3 DEF WellFormed, Waits
<1>5. session' = [session EXCEPT ![i] = t]
  BY <1>1 DEF Finish
<1>6. a \in Package
  BY InstallPipelineAssumption
<1>7. RegKept(reg, registry')
  BY <1>6, SetStageKeeps DEF Finish
<1> QED
  BY <1>3, <1>4, <1>5, <1>7

\* installOnePackage goes on with the head of the list, or finds no file.
LEMMA StartRowAdvances ==
    ASSUME NEW i \in Id, NEW a \in App, NEW s \in Session, s.app = {a}, s.todo # <<>>,
           s.app = session[i].app, s.alone = session[i].alone,
           registry \in Regs, NEW reg, RegKept(registry, reg), StartRow(i, a, s, reg)
    PROVE  \E t \in Session : Advance(i, t) /\ (Failed(t) \/ Carries(t, s.want, s.todo))
<1> DEFINE p == Head(s.todo)
           shown == SetStage(BeginOrTrack(reg, p, a), p, "installing")
<1>1. s.todo \in Seq(Package) /\ p \in Package /\ s.want \in Disk
  BY DEF Session
<1>2. RegKept(registry, shown)
  <2>1. PICK r : r = BeginOrTrack(reg, p, a)
    OBVIOUS
  <2>2. RegKept(reg, r)
    BY <1>1, <2>1, BeginOrTrackKeeps DEF RegKept
  <2>3. r \in Regs /\ "installing" \in InFlight \cup {"installed", "failed"}
    BY <2>2 DEF RegKept, InFlight
  <2>4. RegKept(r, shown)
    BY <1>1, <2>1, <2>3, SetStageKeeps
  <2> QED
    BY <2>2, <2>4, RegTransitive
<1> HIDE DEF p, shown
<1>3. ASSUME NEW call \in {"remove", "install"},
             toPm' = Append(toPm, RowCall(call, i, p, s.want[p])),
             session' = [session EXCEPT ![i] = [s EXCEPT !.stage = call]],
             registry' = shown
      PROVE  \E t \in Session : Advance(i, t) /\ Carries(t, s.want, s.todo)
  <2>1. PICK t : t = [s EXCEPT !.stage = call]
    OBVIOUS
  <2>2. /\ t \in Session /\ t.app = s.app /\ t.alone = s.alone /\ t.want = s.want
        /\ t.stage = call /\ t.todo = s.todo
    BY <2>1 DEF Session, Stage
  <2>3. WellFormed(t) /\ Waits(t)
    BY <2>2 DEF WellFormed, Waits
  <2>4. session' = [session EXCEPT ![i] = t]
    BY <1>3, <2>1
  <2>5. toPm' = Append(toPm, RowCall(t.stage, i, Head(t.todo), t.want[Head(t.todo)]))
    BY <1>3, <2>2 DEF p
  <2>6. Advance(i, t)
    BY <1>2, <1>3, <2>2, <2>3, <2>4, <2>5 DEF Advance
  <2> QED
    BY <2>2, <2>3, <2>6 DEF Carries
<1>4. ASSUME Finish(i, a, s, SetStage(shown, p, "failed"), FALSE), UNCHANGED toPm
      PROVE  \E t \in Session : Advance(i, t) /\ Failed(t)
  <2>1. PICK r : r = SetStage(shown, p, "failed")
    OBVIOUS
  <2>2. shown \in Regs
    BY <1>2 DEF RegKept
  <2>3. RegKept(shown, r)
    BY <1>1, <2>1, <2>2, SetStageKeeps
  <2>4. RegKept(registry, r) /\ r \in Regs
    BY <1>2, <2>3, RegTransitive DEF RegKept
  <2>a. Finish(i, a, s, r, FALSE)
    BY <1>4, <2>1
  <2>5. PICK t \in Session :
              /\ session' = [session EXCEPT ![i] = t]
              /\ WellFormed(t) /\ t.app = s.app /\ t.alone = s.alone /\ t.want = s.want
              /\ t.stage = "clearing" /\ t.ok = FALSE /\ t.todo = <<>>
              /\ RegKept(r, registry')
    BY <2>a, <2>4, FinishSession
  <2>6. RegKept(registry, registry')
    BY <2>4, <2>5, RegTransitive
  <2>7. Advance(i, t)
    BY <1>4, <2>5, <2>6 DEF Advance
  <2> QED
    BY <2>5, <2>7 DEF Failed
<1>5. \/ \E call \in {"remove", "install"} :
            /\ toPm' = Append(toPm, RowCall(call, i, p, s.want[p]))
            /\ session' = [session EXCEPT ![i] = [s EXCEPT !.stage = call]]
            /\ registry' = shown
      \/ Finish(i, a, s, SetStage(shown, p, "failed"), FALSE) /\ UNCHANGED toPm
  BY DEF StartRow, p, shown
<1> QED
  BY <1>3, <1>4, <1>5
\* The step of a session whose turn it is disturbs no other session.
LEMMA RegisteredKept ==
    ASSUME Shapes, Sessions, NEW i \in Id, session[i].app # {}, NEW t,
           session' = [session EXCEPT ![i] = t], t.app = session[i].app,
           RegKept(registry, registry'), UNCHANGED sessions
    PROVE  \A j \in Id : Registered(j)'
<1>1. \A j \in Id : session'[j].app = session[j].app
  BY DEF Shapes
<1>2. ~(i > sessions)
  BY DEF Sessions, Registered, NoSession
<1>3. \A j \in Id : j > sessions' => session'[j] = NoSession
  BY <1>2 DEF Shapes, Sessions, Registered
<1>4. ASSUME NEW j \in Id, NEW a \in session[j].app PROVE registry'[a].owner = {a}
  <2>1. a \in Package /\ registry[a].owner = {a}
    <3>1. session[j].app \in {{}} \cup {{b} : b \in App}
      BY DEF Shapes, Session
    <3>2. a \in App
      BY <3>1
    <3> QED
      BY <3>2, InstallPipelineAssumption DEF Sessions, Registered
  <2>2. registry[a] # NoEntry
    BY <2>1 DEF NoEntry
  <2> QED
    BY <2>1, <2>2 DEF RegKept
<1>5. \A j \in Id : \A a \in session'[j].app : registry'[a].owner = {a}
  BY <1>1, <1>4
<1>6. \A j, k \in Id : j # k /\ session'[k].app # {} => session'[k].app # session'[j].app
  BY <1>1 DEF Sessions, Registered
<1> QED
  BY <1>3, <1>5, <1>6 DEF Registered

\* package_manager's steps and the scans touch no session: only the channels
\* have to keep the tokens.
LEMMA SessionsKept ==
    ASSUME Sessions, UNCHANGED <<session, sessions, registry>>,
           \A i \in Id : TokenIn(toPm', toGui', session[i], i)
    PROVE  Sessions'
  BY DEF Sessions, Registered

LEMMA AdvanceKeeps ==
    ASSUME Shapes, Sessions, NEW i \in Id, session[i].app # {}, NEW t, Advance(i, t),
           toGui' \in Seq(Answer), NoToken(toPm, toGui', i),
           \A j \in Id \ {i} : TokenIn(toPm, toGui', session[j], j), UNCHANGED sessions
    PROVE  /\ toPm' \in Seq(Call) /\ session' \in [Id -> Session] /\ registry' \in Regs
           /\ Sessions'
<1>1. /\ session' = [session EXCEPT ![i] = t] /\ t \in Session /\ WellFormed(t)
      /\ t.app = session[i].app /\ RegKept(registry, registry')
  BY DEF Advance
<1>2. /\ session' \in [Id -> Session] /\ session'[i] = t
      /\ \A j \in Id \ {i} : session'[j] = session[j]
  BY <1>1 DEF Shapes
<1>3. toPm \in Seq(Call)
  BY DEF Shapes
<1>4. /\ toPm' \in Seq(Call)
      /\ \A j \in Id : TokenIn(toPm', toGui', session'[j], j)
  <2>1. CASE toPm' = toPm
    <3>1. TokenIn(toPm', toGui', session'[i], i)
      BY <1>3, <2>1, TokenOfNone
    <3> QED
      BY <1>2, <1>3, <2>1, <3>1
  <2>2. CASE /\ Waits(t)
             /\ toPm' = Append(toPm, RowCall(t.stage, i, Head(t.todo), t.want[Head(t.todo)]))
    <3>1. PICK c : c = RowCall(t.stage, i, Head(t.todo), t.want[Head(t.todo)])
      OBVIOUS
    <3>2. t.todo \in Seq(Package) /\ t.todo # <<>> /\ t.want \in [Package -> SomeVersion]
      BY <1>1, <2>2 DEF WellFormed, Session, Disk
    <3>3. Head(t.todo) \in Package /\ t.want[Head(t.todo)] \in SomeVersion
      BY <3>2
    <3>4. t.stage \in {"remove", "install"}
      BY <2>2 DEF Waits
    <3>5. /\ c.type = t.stage /\ c.row = {Head(t.todo)} /\ c.put = t.want[Head(t.todo)]
          /\ c \in Call /\ c.live /\ c.who = i
      BY <3>1, <3>3, <3>4 DEF RowCall, Call
    <3>6. c \in Held(i) /\ \A j \in Id \ {i} : c \notin Held(j)
      BY <3>5 DEF Held
    <3>7. toPm' = Append(toPm, c) /\ Append(toPm, c) \in Seq(Call)
      BY <1>3, <2>2, <3>1, <3>5
    <3>8. TokenIn(Append(toPm, c), toGui', t, i)
      BY <1>3, <3>5, <3>6, TokenPosted
    <3>9. \A j \in Id \ {i} : TokenIn(Append(toPm, c), toGui', session[j], j)
      BY <1>3, <3>5, <3>6, TokenBeside
    <3> QED
      BY <1>2, <3>7, <3>8, <3>9
  <2> QED
    BY <2>1, <2>2 DEF Advance
<1>5. \A j \in Id : Registered(j)'
  BY <1>1, RegisteredKept
<1>6. \A j \in Id : WellFormed(session'[j])
  BY <1>1, <1>2 DEF Sessions
<1>7. Sessions'
  BY <1>4, <1>5, <1>6 DEF Sessions
<1> QED
  BY <1>1, <1>2, <1>4, <1>7 DEF RegKept

-----------------------------------------------------------------------------
(* The handlers, as steps of a session *)

LEMMA FailRowEnds ==
    ASSUME Shapes, Sessions, NEW i \in Id, Waits(session[i]), FailRow(i)
    PROVE  \E t \in Session :
              /\ session' = [session EXCEPT ![i] = t]
              /\ WellFormed(t) /\ t.app = session[i].app /\ t.alone = session[i].alone
              /\ Failed(t) /\ RegKept(registry, registry')
<1>1. PICK s : s = session[i]
  OBVIOUS
<1>2. s \in Session /\ s.todo # <<>>
  BY <1>1 DEF Shapes, Sessions, WellFormed
<1>3. PICK a \in s.app :
         Finish(i, a, s, SetStage(registry, Head(s.todo), "failed"), FALSE)
  BY <1>1 DEF FailRow
<1>4. a \in App /\ s.app = {a} /\ s.todo \in Seq(Package)
  BY <1>2, <1>3 DEF Session
<1>5. Head(s.todo) \in Package
  BY <1>2, <1>4
<1>6. PICK r : r = SetStage(registry, Head(s.todo), "failed")
  OBVIOUS
<1>7. registry \in Regs
  BY DEF Shapes, Regs
<1>8. RegKept(registry, r)
  BY <1>5, <1>6, <1>7, SetStageKeeps
<1>9. r \in Regs /\ Finish(i, a, s, r, FALSE)
  BY <1>3, <1>6, <1>8 DEF RegKept
<1>10. PICK t \in Session :
         /\ session' = [session EXCEPT ![i] = t]
         /\ WellFormed(t) /\ t.app = s.app /\ t.alone = s.alone /\ t.want = s.want
         /\ t.stage = "clearing" /\ t.ok = FALSE /\ t.todo = <<>>
         /\ RegKept(r, registry')
  BY <1>2, <1>4, <1>9, FinishSession
<1>11. RegKept(registry, registry')
  BY <1>8, <1>10, RegTransitive
<1> QED
  BY <1>1, <1>10, <1>11 DEF Failed

\* An answered row: the next one starts, or the session is over.
LEMMA RowDoneAdvances ==
    ASSUME Shapes, Sessions, NEW i \in Id, Waits(session[i]), NEW ok \in BOOLEAN,
           RowDone(i, ok)
    PROVE  /\ \E t \in Session :
                /\ Advance(i, t)
                /\ Failed(t) \/ (ok /\ Carries(t, session[i].want, Tail(session[i].todo)))
           /\ version' \in Disk /\ UNCHANGED <<typed, names>>
<1>1. session[i] \in Session /\ session[i].todo # <<>> /\ version \in Disk /\ registry \in Regs
  BY DEF Shapes, Sessions, WellFormed, Regs
<1>2. UNCHANGED <<typed, names>>
  BY DEF RowDone
<1>3. ASSUME ~ok, FailRow(i), UNCHANGED <<toPm, version>>
      PROVE  (\E t \in Session : Advance(i, t) /\ Failed(t)) /\ version' \in Disk
  <2>1. PICK t \in Session :
              /\ session' = [session EXCEPT ![i] = t]
              /\ WellFormed(t) /\ t.app = session[i].app /\ t.alone = session[i].alone
              /\ Failed(t) /\ RegKept(registry, registry')
    BY <1>3, FailRowEnds
  <2>2. Advance(i, t)
    BY <1>3, <2>1 DEF Advance, Failed
  <2> QED
    BY <1>1, <1>3, <2>1, <2>2
<1>4. ASSUME ok, NEW a \in session[i].app, NEW s, s = [session[i] EXCEPT !.todo = Tail(@)],
             NEW p, p = Head(session[i].todo),
             NEW reg, reg = SetStage(registry, p, "installed"),
             version' = [version EXCEPT ![p] = s.want[p]],
             \/ s.todo = <<>> /\ Finish(i, a, s, reg, TRUE) /\ UNCHANGED toPm
             \/ s.todo # <<>> /\ StartRow(i, a, s, reg)
      PROVE  /\ \E t \in Session :
                  /\ Advance(i, t)
                  /\ Failed(t) \/ Carries(t, session[i].want, Tail(session[i].todo))
             /\ version' \in Disk
  <2>1. session[i].todo \in Seq(Package)
    BY <1>1 DEF Session
  <2>2. p \in Package /\ Tail(session[i].todo) \in Seq(Package)
    BY <1>1, <1>4, <2>1
  <2>3. /\ s \in Session /\ s.want = session[i].want /\ s.todo = Tail(session[i].todo)
        /\ s.app = session[i].app /\ s.alone = session[i].alone
    BY <1>1, <1>4, <2>2 DEF Session
  <2>4. a \in App /\ s.app = {a}
    BY <1>4, <2>3 DEF Session
  <2>5. RegKept(registry, reg) /\ reg \in Regs
    BY <1>1, <1>4, <2>2, SetStageKeeps DEF RegKept
  <2>6. version' \in Disk
    BY <1>1, <1>4, <2>2, <2>3 DEF Session, Disk
  <2>7. CASE s.todo = <<>> /\ Finish(i, a, s, reg, TRUE) /\ UNCHANGED toPm
    <3>1. PICK t \in Session :
              /\ session' = [session EXCEPT ![i] = t]
              /\ WellFormed(t) /\ t.app = s.app /\ t.alone = s.alone /\ t.want = s.want
              /\ t.stage = "clearing" /\ t.ok = TRUE /\ t.todo = <<>>
              /\ RegKept(reg, registry')
      BY <2>3, <2>4, <2>5, <2>7, FinishSession
    <3>2. RegKept(registry, registry')
      BY <2>5, <3>1, RegTransitive
    <3>3. Advance(i, t)
      BY <2>3, <2>7, <3>1, <3>2 DEF Advance
    <3> QED
      BY <2>3, <2>6, <2>7, <3>1, <3>3 DEF Carries
  <2>8. CASE s.todo # <<>> /\ StartRow(i, a, s, reg)
    <3>1. PICK t \in Session : Advance(i, t) /\ (Failed(t) \/ Carries(t, s.want, s.todo))
      BY <1>1, <2>3, <2>4, <2>5, <2>8, StartRowAdvances
    <3> QED
      BY <2>3, <2>6, <3>1
  <2> QED
    BY <1>4, <2>7, <2>8
<1>5. CASE ~ok /\ FailRow(i) /\ UNCHANGED <<toPm, version>>
  BY <1>2, <1>3, <1>5
<1>6. CASE ok
  <2>1. PICK s : s = [session[i] EXCEPT !.todo = Tail(@)]
    OBVIOUS
  <2>2. PICK p : p = Head(session[i].todo)
    OBVIOUS
  <2>3. PICK reg : reg = SetStage(registry, p, "installed")
    OBVIOUS
  <2>4. PICK a \in session[i].app :
           /\ version' = [version EXCEPT ![p] = s.want[p]]
           /\ \/ s.todo = <<>> /\ Finish(i, a, s, reg, TRUE) /\ UNCHANGED toPm
              \/ s.todo # <<>> /\ StartRow(i, a, s, reg)
    BY <1>6, <2>1, <2>2, <2>3 DEF RowDone
  <2> QED
    BY <1>2, <1>4, <1>6, <2>1, <2>2, <2>3, <2>4
<1> QED
  BY <1>5, <1>6 DEF RowDone
\* The removal's answer: on to the install of the same row, or the end.
LEMMA RemovedAdvances ==
    ASSUME Shapes, Sessions, NEW i \in Id, Waits(session[i]), NEW ok \in BOOLEAN,
           Removed(i, ok)
    PROVE  /\ \E t \in Session :
                /\ Advance(i, t)
                /\ Failed(t) \/ (t.stage = "install" /\ Carries(t, session[i].want, session[i].todo))
           /\ version' \in Disk /\ UNCHANGED <<typed, names>>
<1>1. session[i] \in Session /\ session[i].todo # <<>> /\ version \in Disk /\ registry \in Regs
      /\ WellFormed(session[i])
  BY DEF Shapes, Sessions, WellFormed, Regs
<1>2. CASE ok /\ /\ LET p == Head(session[i].todo) IN
                      toPm' = Append(toPm, RowCall("install", i, p, session[i].want[p]))
                 /\ session' = [session EXCEPT ![i].stage = "install"]
                 /\ UNCHANGED <<caches, registry>>
  <2>1. PICK t : t = [session[i] EXCEPT !.stage = "install"]
    OBVIOUS
  <2>2. /\ t \in Session /\ t.app = session[i].app /\ t.alone = session[i].alone
        /\ t.want = session[i].want /\ t.todo = session[i].todo /\ t.stage = "install"
    BY <1>1, <2>1 DEF Session, Stage
  <2>3. WellFormed(t) /\ Waits(t)
    BY <1>1, <2>2 DEF WellFormed, Waits
  <2>4. session' = [session EXCEPT ![i] = t]
    BY <1>2, <2>1
  <2>5. RegKept(registry, registry')
    BY <1>1, <1>2 DEF RegKept
  <2>6. toPm' = Append(toPm, RowCall(t.stage, i, Head(t.todo), t.want[Head(t.todo)]))
    BY <1>2, <2>2
  <2>7. Advance(i, t)
    BY <2>2, <2>3, <2>4, <2>5, <2>6 DEF Advance
  <2>8. Carries(t, session[i].want, session[i].todo)
    BY <2>2, <2>3 DEF Carries
  <2> QED
    BY <1>1, <1>2, <2>2, <2>7, <2>8 DEF caches
<1>3. CASE RowDone(i, FALSE)
  <2>1. /\ \E t \in Session :
             /\ Advance(i, t)
             /\ Failed(t) \/ (FALSE /\ Carries(t, session[i].want, Tail(session[i].todo)))
        /\ version' \in Disk /\ UNCHANGED <<typed, names>>
    BY <1>3, RowDoneAdvances
  <2> QED
    BY <2>1
<1> QED
  BY <1>2, <1>3 DEF Removed

LEMMA RowsInAreRows ==
    ASSUME NEW a \in App, NEW some \in SUBSET Package, NEW todo \in RowsIn(Rows[a], some)
    PROVE  /\ todo \in Seq(Package) /\ Range(todo) = some
           /\ \A m, n \in DOMAIN todo : todo[m] = todo[n] => m = n
<1>1. Rows[a] \in Seq(Package)
  BY InstallPipelineAssumption
<1>2. Len(Rows[a]) \in Nat
  BY <1>1
<1>3. PICK n \in 0..Len(Rows[a]) : todo \in [1..n -> some]
  BY DEF RowsIn
<1>4. n \in Nat /\ DOMAIN todo = 1..n
  BY <1>2, <1>3
<1>5. todo \in Seq(Package)
  BY <1>3, <1>4
<1>6. Range(todo) = some
  BY <1>3 DEF RowsIn, Range
<1>7. ASSUME NEW i \in DOMAIN todo, NEW j \in DOMAIN todo, i < j PROVE todo[i] # todo[j]
  <2>1. PICK m, k \in DOMAIN Rows[a] : m < k /\ Rows[a][m] = todo[i] /\ Rows[a][k] = todo[j]
    BY <1>7 DEF RowsIn
  <2>2. m \in Nat /\ k \in Nat /\ m # k
    BY <1>1, <2>1
  <2> QED
    BY <2>1, <2>2, InstallPipelineAssumption
<1>8. \A i, j \in DOMAIN todo : todo[i] = todo[j] => i = j
  BY <1>4, <1>7
<1> QED
  BY <1>5, <1>6, <1>8

\* What a resolver may plan, and what is then left of it to install.
Planned(t) ==
    \E a \in App, want \in Disk : \E todo \in RowsIn(Rows[a], Stale(want)) :
       Resolved(a, want) /\ Carries(t, want, todo)

LEMMA DownloadAdvances ==
    ASSUME Shapes, Sessions, NEW i \in Id, DownloadAnswered(i)
    PROVE  \E t \in Session : Advance(i, t) /\ (Failed(t) \/ Planned(t))
<1>1. session[i] \in Session /\ registry \in Regs
  BY DEF Shapes, Regs
<1>2. PICK a \in session[i].app :
         \/ Finish(i, a, session[i], registry, FALSE) /\ UNCHANGED toPm
         \/ \E want \in Disk : \E todo \in RowsIn(Rows[a], Stale(want)) :
              /\ Resolved(a, want)
              /\ LET s == [session[i] EXCEPT !.want = want, !.todo = todo] IN
                 \/ /\ s.todo = <<>>
                    /\ Finish(i, a, s, Tracked(a, want), TRUE)
                    /\ UNCHANGED toPm
                 \/ /\ s.todo # <<>>
                    /\ StartRow(i, a, s, SetStage(Tracked(a, want), a, "installing"))
  BY DEF DownloadAnswered
<1>3. a \in App /\ session[i].app = {a} /\ a \in Package
  <2>1. session[i].app \in {{}} \cup {{b} : b \in App}
    BY <1>1 DEF Session
  <2>2. a \in App /\ session[i].app = {a}
    BY <1>2, <2>1
  <2> QED
    BY <2>2, InstallPipelineAssumption
<1>4. CASE Finish(i, a, session[i], registry, FALSE) /\ UNCHANGED toPm
  <2>1. PICK s : s = session[i]
    OBVIOUS
  <2>2. PICK reg : reg = registry
    OBVIOUS
  <2>3. s \in Session /\ s.app = {a} /\ reg \in Regs /\ Finish(i, a, s, reg, FALSE)
    BY <1>1, <1>3, <1>4, <2>1, <2>2
  <2>4. PICK t \in Session :
              /\ session' = [session EXCEPT ![i] = t]
              /\ WellFormed(t) /\ t.app = s.app /\ t.alone = s.alone /\ t.want = s.want
              /\ t.stage = "clearing" /\ t.ok = FALSE /\ t.todo = <<>>
              /\ RegKept(reg, registry')
    BY <1>3, <2>3, FinishSession
  <2>5. Advance(i, t) /\ Failed(t)
    BY <1>4, <2>1, <2>2, <2>4 DEF Advance, Failed
  <2> QED
    BY <2>5
<1>5. ASSUME NEW want \in Disk, NEW todo \in RowsIn(Rows[a], Stale(want)), Resolved(a, want),
             NEW s, s = [session[i] EXCEPT !.want = want, !.todo = todo],
             NEW reg, reg = Tracked(a, want),
             \/ s.todo = <<>> /\ Finish(i, a, s, reg, TRUE) /\ UNCHANGED toPm
             \/ s.todo # <<>> /\ StartRow(i, a, s, SetStage(reg, a, "installing"))
      PROVE  \E t \in Session : Advance(i, t) /\ (Failed(t) \/ Planned(t))
  <2>1. Stale(want) \in SUBSET Package
    BY DEF Stale
  <2>2. todo \in Seq(Package)
    BY <1>3, <2>1, RowsInAreRows
  <2>3. /\ s \in Session /\ s.want = want /\ s.todo = todo
        /\ s.app = session[i].app /\ s.alone = session[i].alone /\ s.app = {a}
    BY <1>1, <1>3, <1>5, <2>2 DEF Session
  <2>4. RegKept(registry, reg) /\ reg \in Regs
    BY <1>1, <1>3, <1>5, TrackedKeeps DEF RegKept
  <2>5. ASSUME NEW t, Carries(t, want, todo) PROVE Planned(t)
    BY <1>3, <1>5, <2>5 DEF Planned
  <2>6. CASE s.todo = <<>> /\ Finish(i, a, s, reg, TRUE) /\ UNCHANGED toPm
    <3>1. PICK t \in Session :
              /\ session' = [session EXCEPT ![i] = t]
              /\ WellFormed(t) /\ t.app = s.app /\ t.alone = s.alone /\ t.want = s.want
              /\ t.stage = "clearing" /\ t.ok = TRUE /\ t.todo = <<>>
              /\ RegKept(reg, registry')
      BY <1>3, <2>3, <2>4, <2>6, FinishSession
    <3>2. RegKept(registry, registry')
      BY <2>4, <3>1, RegTransitive
    <3>3. Advance(i, t)
      BY <2>3, <2>6, <3>1, <3>2 DEF Advance
    <3>4. Carries(t, want, todo)
      BY <2>3, <2>6, <3>1 DEF Carries
    <3> QED
      BY <2>5, <3>3, <3>4
  <2>7. CASE s.todo # <<>> /\ StartRow(i, a, s, SetStage(reg, a, "installing"))
    <3>1. PICK r : r = SetStage(reg, a, "installing")
      OBVIOUS
    <3>2. "installing" \in InFlight \cup {"installed", "failed"}
      BY DEF InFlight
    <3>3. RegKept(reg, r)
      BY <1>3, <2>4, <3>1, <3>2, SetStageKeeps
    <3>4. RegKept(registry, r)
      BY <2>4, <3>3, RegTransitive
    <3>5. PICK t \in Session : Advance(i, t) /\ (Failed(t) \/ Carries(t, s.want, s.todo))
      BY <1>1, <1>3, <2>3, <2>7, <3>1, <3>4, StartRowAdvances
    <3> QED
      BY <2>3, <2>5, <3>5
  <2> QED
    BY <1>5, <2>6, <2>7
<1>6. CASE \E want \in Disk : \E todo \in RowsIn(Rows[a], Stale(want)) :
              /\ Resolved(a, want)
              /\ LET s == [session[i] EXCEPT !.want = want, !.todo = todo] IN
                 \/ /\ s.todo = <<>>
                    /\ Finish(i, a, s, Tracked(a, want), TRUE)
                    /\ UNCHANGED toPm
                 \/ /\ s.todo # <<>>
                    /\ StartRow(i, a, s, SetStage(Tracked(a, want), a, "installing"))
  <2>1. PICK want \in Disk : \E todo \in RowsIn(Rows[a], Stale(want)) :
              /\ Resolved(a, want)
              /\ LET s == [session[i] EXCEPT !.want = want, !.todo = todo] IN
                 \/ /\ s.todo = <<>>
                    /\ Finish(i, a, s, Tracked(a, want), TRUE)
                    /\ UNCHANGED toPm
                 \/ /\ s.todo # <<>>
                    /\ StartRow(i, a, s, SetStage(Tracked(a, want), a, "installing"))
    BY <1>6
  <2>2. PICK todo \in RowsIn(Rows[a], Stale(want)) :
              /\ Resolved(a, want)
              /\ LET s == [session[i] EXCEPT !.want = want, !.todo = todo] IN
                 \/ /\ s.todo = <<>>
                    /\ Finish(i, a, s, Tracked(a, want), TRUE)
                    /\ UNCHANGED toPm
                 \/ /\ s.todo # <<>>
                    /\ StartRow(i, a, s, SetStage(Tracked(a, want), a, "installing"))
    BY <2>1
  <2>3. PICK s : s = [session[i] EXCEPT !.want = want, !.todo = todo]
    OBVIOUS
  <2>4. PICK reg : reg = Tracked(a, want)
    OBVIOUS
  <2> QED
    BY <1>5, <2>2, <2>3, <2>4
<1> QED
  BY <1>2, <1>4, <1>6
-----------------------------------------------------------------------------
(* Every step keeps the invariant *)

LEMMA NoSessionIsOne ==
    NoSession \in Session /\ [NoSession EXCEPT !.alone = FALSE] = NoSession
<1>1. Nothing \in Disk /\ <<>> \in Seq(Package)
  BY DEF Nothing, Disk, SomeVersion
<1>2. NoSession \in Session /\ NoSession.alone = FALSE
  BY <1>1 DEF NoSession, Session, Stage
<1>3. \A s \in Session : s.alone = FALSE => [s EXCEPT !.alone = FALSE] = s
  BY DEF Session
<1> QED
  BY <1>2, <1>3

LEMMA InitHolds == Init => IInv
<1> SUFFICES ASSUME Init PROVE IInv
  OBVIOUS
<1>1. NoSession \in Session
  BY NoSessionIsOne
<1>2. disk \in Disk
  BY DEF Init
<1>3. Shapes
  <2>1. OnDisk \in SUBSET Package
    BY DEF OnDisk
  <2>2. 0 \in 0..MaxSessions
    BY InstallPipelineAssumption
  <2>3. toPm \in Seq(Call) /\ toGui \in Seq(Answer)
    BY DEF Init
  <2> QED
    BY <1>1, <1>2, <2>1, <2>2, <2>3 DEF Init, Shapes
<1>4. ASSUME NEW i \in Id
      PROVE  WellFormed(session[i]) /\ Registered(i) /\ TokenIn(toPm, toGui, session[i], i)
  <2>1. session[i] = NoSession /\ \A j \in Id : session[j].app = {}
    BY DEF Init, NoSession
  <2>2. WellFormed(session[i]) /\ Registered(i)
    BY <2>1 DEF WellFormed, Registered, NoSession, Waits
  <2>3. NoToken(toPm, toGui, i)
    BY DEF Init, NoToken, Range
  <2>4. TokenIn(toPm, toGui, session[i], i)
    BY <1>3, <2>3, TokenOfNone DEF Shapes
  <2> QED
    BY <2>2, <2>4
<1> QED
  BY <1>3, <1>4 DEF IInv, Sessions

\* A new session: the app had no entry, so nobody has the app.
LEMMA ConfirmKeeps ==
    ASSUME IInv, NEW a \in App, ConfirmCatalogInstall(a)
    PROVE  IInv'
<1> USE DEF IInv
<1>1. a \in Package /\ MaxSessions \in Nat
  BY InstallPipelineAssumption
<1>2. /\ sessions \in Nat /\ sessions + 1 \in Id /\ sessions' = sessions + 1
      /\ sessions' \in 0..MaxSessions
  BY <1>1 DEF Shapes, ConfirmCatalogInstall, Id
<1>n. PICK n \in Id : n = sessions + 1
  BY <1>2
<1>3. PICK new : new = [NoSession EXCEPT !.app = {a}, !.stage = "downloading",
                                         !.alone = Quiet /\ Honest]
  OBVIOUS
<1>4. Nothing \in Disk /\ <<>> \in Seq(Package)
  BY DEF Nothing, Disk, SomeVersion
<1>5. (Quiet /\ Honest) \in BOOLEAN
  BY DEF Quiet, Honest
<1>6. /\ new.app = {a} /\ new.stage = "downloading" /\ new.todo = <<>>
      /\ new \in Session
  BY <1>3, <1>4, <1>5 DEF NoSession, Session, Stage
<1>7. /\ session'[n] = new /\ session' \in [Id -> Session]
      /\ \A i \in Id \ {n} : session'[i] = [session[i] EXCEPT !.alone = FALSE]
  <2>1. session' = [i \in Id |-> IF i = n THEN new
                                 ELSE [session[i] EXCEPT !.alone = FALSE]]
    BY <1>3, <1>n DEF ConfirmCatalogInstall
  <2>2. \A i \in Id : [session[i] EXCEPT !.alone = FALSE] \in Session
    BY DEF Shapes, Session
  <2> QED
    BY <1>2, <1>6, <2>1, <2>2
<1>8. \A i \in Id \ {n} :
         /\ session'[i].app = session[i].app /\ session'[i].stage = session[i].stage
         /\ session'[i].want = session[i].want /\ session'[i].todo = session[i].todo
  BY <1>7 DEF Shapes, Session
<1>9. \A i \in Id : a \notin session[i].app
  BY DEF Sessions, Registered, ConfirmCatalogInstall, NoEntry
<1>10. /\ registry' \in [Package -> Entry \cup {NoEntry}] /\ registry'[a].owner = {a}
       /\ \A p \in Package \ {a} : registry'[p] = registry[p]
  <2>1. PICK e : e = [stage |-> "downloading", owner |-> {a}]
    OBVIOUS
  <2>2. e \in Entry /\ e.owner = {a}
    BY <2>1 DEF Entry, InFlight
  <2>3. registry' = [registry EXCEPT ![a] = e]
    BY <2>1 DEF ConfirmCatalogInstall
  <2> QED
    BY <1>1, <2>2, <2>3 DEF Shapes
<1>11. Shapes'
  BY <1>2, <1>7, <1>10 DEF Shapes, ConfirmCatalogInstall, caches
<1>12. toPm \in Seq(Call) /\ toGui \in Seq(Answer) /\ UNCHANGED <<toPm, toGui>>
  BY DEF Shapes, ConfirmCatalogInstall
<1>13. ASSUME NEW i \in Id \ {n}
       PROVE  /\ WellFormed(session'[i]) /\ Registered(i)'
              /\ TokenIn(toPm', toGui', session'[i], i)
  <2>1. WellFormed(session'[i]) /\ TokenIn(toPm', toGui', session'[i], i)
    BY <1>8, <1>12 DEF Sessions, WellFormed, TokenIn, Waits
  <2>2. ASSUME NEW b \in session[i].app PROVE registry'[b].owner = {b}
    <3>1. session[i].app \in {{}} \cup {{x} : x \in App}
      BY DEF Shapes, Session
    <3>2. b \in Package \ {a}
      BY <1>9, <3>1, InstallPipelineAssumption
    <3> QED
      BY <1>10, <3>2 DEF Sessions, Registered
  <2>3. \A j \in Id \ {i} : session'[j].app # {} => session'[j].app # session'[i].app
    <3>1. session[i].app # {a}
      BY <1>9
    <3> QED
      BY <1>6, <1>7, <1>8, <3>1 DEF Sessions, Registered
  <2>4. i > sessions' => session'[i] = NoSession
    <3>1. i > sessions' => session[i] = NoSession
      BY <1>2, <1>n DEF Id, Sessions, Registered
    <3>2. [NoSession EXCEPT !.alone = FALSE] = NoSession
      BY NoSessionIsOne
    <3> QED
      BY <1>7, <3>1, <3>2
  <2> QED
    BY <1>8, <2>1, <2>2, <2>3, <2>4 DEF Registered
<1>14. /\ WellFormed(new) /\ Registered(n)'
       /\ TokenIn(toPm', toGui', new, n)
  <2>1. WellFormed(new)
    BY <1>6 DEF WellFormed, Waits
  <2>2. session[n] = NoSession
    BY <1>2, <1>n DEF Sessions, Registered
  <2>3. ~Waits(session[n])
    BY <2>2 DEF Waits, NoSession
  <2>4. NoToken(toPm, toGui, n)
    <3>1. PICK s : s = session[n]
      OBVIOUS
    <3>2. TokenIn(toPm, toGui, s, n) /\ ~Waits(s)
      BY <2>3, <3>1 DEF Sessions
    <3> QED
      BY <1>12, <3>2, TokenOfIdle
  <2>5. TokenIn(toPm', toGui', new, n)
    BY <1>12, <2>4, TokenOfNone
  <2>6. \A j \in Id \ {n} : session'[j].app # {a}
    BY <1>8, <1>9
  <2>7. Registered(n)'
    BY <1>2, <1>n, <1>6, <1>7, <1>10, <2>6 DEF Registered
  <2> QED
    BY <2>1, <2>5, <2>7
<1>15. Sessions'
  BY <1>7, <1>13, <1>14 DEF Sessions
<1> QED
  BY <1>11, <1>15

LEMMA DownloadKeeps ==
    ASSUME IInv, NEW i \in Id, DownloadAnswered(i)
    PROVE  IInv'
<1> USE DEF IInv
<1>1. UNCHANGED <<disk, toGui, rescans, caches, sessions>>
  BY DEF DownloadAnswered
<1>2. toPm \in Seq(Call) /\ toGui \in Seq(Answer)
  BY DEF Shapes
<1>3. PICK t \in Session : Advance(i, t)
  BY DownloadAdvances
<1>4. session[i].stage = "downloading" /\ ~Waits(session[i]) /\ session[i].app # {}
  BY DEF DownloadAnswered, Waits, Sessions, WellFormed
<1>5. NoToken(toPm, toGui, i)
  <2>1. PICK s : s = session[i]
    OBVIOUS
  <2>2. TokenIn(toPm, toGui, s, i) /\ ~Waits(s)
    BY <1>4, <2>1 DEF Sessions
  <2> QED
    BY <1>2, <2>2, TokenOfIdle
<1>6. NoToken(toPm, toGui', i) /\ \A j \in Id \ {i} : TokenIn(toPm, toGui', session[j], j)
  BY <1>1, <1>5 DEF Sessions
<1>7. /\ toPm' \in Seq(Call) /\ session' \in [Id -> Session] /\ registry' \in Regs
      /\ Sessions'
  BY <1>1, <1>2, <1>3, <1>4, <1>6, AdvanceKeeps
<1> QED
  BY <1>1, <1>7 DEF Shapes, Regs, caches

\* The timer clears the entries its app made; every other app's are left.
LEMMA ClearTimerKeeps ==
    ASSUME IInv, NEW i \in Id, ClearTimer(i)
    PROVE  IInv'
<1> USE DEF IInv
<1>1. /\ UNCHANGED <<disk, toPm, toGui, rescans, caches, sessions>>
      /\ toPm \in Seq(Call) /\ toGui \in Seq(Answer)
  BY DEF ClearTimer, Shapes
<1>2. PICK over : over = [NoSession EXCEPT !.stage = "over"]
  OBVIOUS
<1>3. Nothing \in Disk /\ <<>> \in Seq(Package)
  BY DEF Nothing, Disk, SomeVersion
<1>4. over \in Session /\ over.app = {} /\ WellFormed(over)
  BY <1>2, <1>3 DEF NoSession, Session, Stage, WellFormed, Waits
<1>5. /\ session' = [session EXCEPT ![i] = over] /\ session' \in [Id -> Session]
      /\ session'[i] = over /\ \A j \in Id \ {i} : session'[j] = session[j]
  BY <1>2, <1>4 DEF ClearTimer, Shapes
<1>6. PICK a \in session[i].app : registry' = ClearByTopLevel(a)
  BY DEF ClearTimer
<1>7. session[i].app = {a} /\ \A j \in Id : session[j].app \in {{}} \cup {{b} : b \in App}
  <2>1. \A j \in Id : session[j].app \in {{}} \cup {{b} : b \in App}
    BY DEF Shapes, Session
  <2> QED
    BY <1>6, <2>1
<1>8. registry' \in Regs
  BY <1>6 DEF ClearByTopLevel, Shapes, Regs
<1>9. ASSUME NEW j \in Id \ {i} PROVE Registered(j)'
  <2>1. ASSUME NEW b \in session[j].app PROVE registry'[b].owner = {b}
    <3>1. session[j].app = {b} /\ b \in Package
      BY <1>7, <2>1, InstallPipelineAssumption
    <3>2. b # a /\ registry[b].owner = {b}
      BY <1>7, <3>1 DEF Sessions, Registered
    <3> QED
      BY <1>6, <3>1, <3>2 DEF ClearByTopLevel
  <2>2. \A k \in Id \ {j} : session'[k].app # {} => session'[k].app # session'[j].app
    BY <1>4, <1>5 DEF Sessions, Registered
  <2> QED
    BY <1>1, <1>5, <2>1, <2>2 DEF Sessions, Registered
<1>10. Registered(i)'
  <2>1. ~(i > sessions)
    BY <1>7 DEF Sessions, Registered, NoSession
  <2> QED
    BY <1>1, <1>4, <1>5, <2>1 DEF Registered
<1>11. TokenIn(toPm, toGui, over, i)
  <2>1. PICK s : s = session[i]
    OBVIOUS
  <2>2. TokenIn(toPm, toGui, s, i) /\ ~Waits(s)
    BY <2>1 DEF Sessions, ClearTimer, Waits
  <2>3. NoToken(toPm, toGui, i)
    BY <1>1, <2>2, TokenOfIdle
  <2> QED
    BY <1>1, <2>3, TokenOfNone
<1>12. Sessions'
  BY <1>1, <1>4, <1>5, <1>9, <1>10, <1>11 DEF Sessions
<1> QED
  BY <1>1, <1>5, <1>8, <1>12 DEF Shapes, Regs, caches

\* A scan is nobody's token.
LEMMA ScanIsACall ==
    ASSUME NEW type \in {"uiScan", "scan"}
    PROVE  ScanCall(type) \in Call /\ \A i \in Id : ScanCall(type) \notin Held(i)
<1>1. ScanCall(type) \in Call /\ ScanCall(type).who = 0
  BY DEF ScanCall, Call
<1>2. \A i \in Id : i # 0
  BY DEF Id
<1> QED
  BY <1>1, <1>2 DEF Held

LEMMA ScanPosted ==
    ASSUME Sessions, NEW pm \in Seq(Call), NEW gui \in Seq(Answer),
           NEW type \in {"uiScan", "scan"}, UNCHANGED session,
           \A i \in Id : TokenIn(pm, gui, session[i], i)
    PROVE  /\ Append(pm, ScanCall(type)) \in Seq(Call)
           /\ \A i \in Id : TokenIn(Append(pm, ScanCall(type)), gui, session[i], i)
<1>1. PICK c \in Call : c = ScanCall(type) /\ \A i \in Id : c \notin Held(i)
  BY ScanIsACall
<1>2. Append(pm, c) \in Seq(Call)
  OBVIOUS
<1>3. ASSUME NEW i \in Id PROVE TokenIn(Append(pm, c), gui, session[i], i)
  <2>1. PICK s : s = session[i]
    OBVIOUS
  <2>2. TokenIn(Append(pm, c), gui, s, i)
    BY <1>1, <2>1, TokenBeside
  <2> QED
    BY <2>1, <2>2
<1> QED
  BY <1>1, <1>2, <1>3

LEMMA RescanKeeps == ASSUME IInv, Rescan PROVE IInv'
<1> USE DEF IInv
<1>1. /\ UNCHANGED <<disk, toGui, caches, session, sessions, registry>>
      /\ toPm' = Append(toPm, ScanCall("uiScan")) /\ rescans' \in Nat
  BY DEF Rescan, Shapes
<1>2. PICK pm \in Seq(Call), gui \in Seq(Answer) : pm = toPm /\ gui = toGui
  BY DEF Shapes
<1>3. /\ Append(pm, ScanCall("uiScan")) \in Seq(Call)
      /\ \A i \in Id : TokenIn(Append(pm, ScanCall("uiScan")), gui, session[i], i)
  BY <1>1, <1>2, ScanPosted DEF Sessions
<1>4. toPm' \in Seq(Call) /\ \A i \in Id : TokenIn(toPm', toGui', session[i], i)
  BY <1>1, <1>2, <1>3
<1>5. Sessions'
  BY <1>1, <1>4, SessionsKept
<1> QED
  BY <1>1, <1>4, <1>5 DEF Shapes, caches
\* The answer at the head of the queue belongs to a session that waits for it.
LEMMA RowAnswered ==
    ASSUME IInv, GuiTakes, NEW m, m = Head(toGui), m.type \in {"remove", "install"}
    PROVE  /\ \E i \in Id, t \in Session :
                /\ Waits(session[i]) /\ m \in Told(i) /\ m.type = session[i].stage
                /\ NoToken(toPm, Tail(toGui), i)
                /\ Advance(i, t)
                /\ \/ Failed(t)
                   \/ /\ m.type = "remove" /\ t.stage = "install"
                      /\ Carries(t, session[i].want, session[i].todo)
                   \/ /\ m.type = "install" /\ m.ok
                      /\ Carries(t, session[i].want, Tail(session[i].todo))
           /\ version' \in Disk /\ UNCHANGED <<typed, names>>
<1> USE DEF IInv
<1>1. toPm \in Seq(Call) /\ toGui \in Seq(Answer) /\ toGui # <<>>
  BY DEF Shapes, GuiTakes
<1>2. m \in Answer
  BY <1>1
<1>3. PICK i \in Id : m.who = i /\ m.ok \in BOOLEAN
  BY <1>2 DEF Answer
<1>4. m \in Told(i)
  BY <1>2, <1>3 DEF Told
<1>5. PICK s : s = session[i]
  OBVIOUS
<1>6. m.type = s.stage /\ NoToken(toPm, Tail(toGui), i)
  <2>1. TokenIn(toPm, toGui, s, i)
    BY <1>5 DEF Sessions
  <2> QED
    BY <1>1, <1>4, <2>1, TokenTaken
<1>7. Waits(session[i])
  BY <1>5, <1>6 DEF Waits
<1>8. PICK ok \in BOOLEAN : ok = m.ok
  BY <1>3
<1>9. CASE m.type = "remove"
  <2>1. Removed(i, ok)
    BY <1>3, <1>8, <1>9 DEF GuiTakes
  <2>2. /\ \E t \in Session :
              /\ Advance(i, t)
              /\ Failed(t) \/ (t.stage = "install" /\ Carries(t, session[i].want, session[i].todo))
        /\ version' \in Disk /\ UNCHANGED <<typed, names>>
    BY <1>7, <2>1, RemovedAdvances
  <2> QED
    BY <1>4, <1>5, <1>6, <1>7, <1>9, <2>2
<1>10. CASE m.type = "install"
  <2>1. RowDone(i, ok)
    BY <1>3, <1>8, <1>10 DEF GuiTakes
  <2>2. /\ \E t \in Session :
              /\ Advance(i, t)
              /\ Failed(t) \/ (ok /\ Carries(t, session[i].want, Tail(session[i].todo)))
        /\ version' \in Disk /\ UNCHANGED <<typed, names>>
    BY <1>7, <2>1, RowDoneAdvances
  <2> QED
    BY <1>4, <1>5, <1>6, <1>7, <1>8, <1>10, <2>2
<1> QED
  BY <1>9, <1>10

LEMMA GuiTakesKeeps == ASSUME IInv, GuiTakes PROVE IInv'
<1> USE DEF IInv
<1>1. /\ toPm \in Seq(Call) /\ toGui \in Seq(Answer) /\ toGui # <<>>
      /\ toGui' = Tail(toGui) /\ UNCHANGED <<disk, rescans, sessions>>
  BY DEF Shapes, GuiTakes
<1>2. Head(toGui) \in Answer /\ Tail(toGui) \in Seq(Answer)
  BY <1>1
<1>3. \A i \in Id : TokenIn(toPm, Tail(toGui), session[i], i)
  <2>1. ASSUME NEW i \in Id PROVE TokenIn(toPm, Tail(toGui), session[i], i)
    <3>1. PICK s : s = session[i]
      OBVIOUS
    <3>2. TokenIn(toPm, toGui, s, i)
      BY <3>1 DEF Sessions
    <3> QED
      BY <1>1, <3>1, <3>2, TokenTaken
  <2> QED
    BY <2>1
<1>4. CASE Head(toGui).type \in {"uiScan", "scan"}
  <2>1. PICK found \in Disk : found = Head(toGui).found
    BY <1>2, <1>4 DEF Answer
  <2>2. /\ UNCHANGED <<session, registry>>
        /\ typed' \in SUBSET Package /\ names' \in SUBSET Package /\ version' \in Disk
    <3>1. CASE UiScanned(found)
      BY <3>1, InstallPipelineAssumption DEF UiScanned, Shapes
    <3>2. CASE Scanned(found)
      BY <3>2 DEF Scanned
    <3> QED
      BY <1>4, <2>1, <3>1, <3>2 DEF GuiTakes
  <2>3. toPm' = toPm \/ toPm' = Append(toPm, ScanCall("scan"))
    BY <1>4 DEF GuiTakes, UiScanned
  <2>4. PICK pm \in Seq(Call), gui \in Seq(Answer) : pm = toPm /\ gui = Tail(toGui)
    BY <1>1, <1>2
  <2>5. /\ Append(pm, ScanCall("scan")) \in Seq(Call)
        /\ \A i \in Id : TokenIn(Append(pm, ScanCall("scan")), gui, session[i], i)
    BY <1>3, <2>2, <2>4, ScanPosted
  <2>6. toPm' \in Seq(Call) /\ \A i \in Id : TokenIn(toPm', toGui', session[i], i)
    BY <1>1, <1>3, <2>3, <2>4, <2>5
  <2>7. Sessions'
    BY <1>1, <2>2, <2>6, SessionsKept
  <2> QED
    BY <1>1, <1>2, <2>2, <2>6, <2>7 DEF Shapes
<1>5. CASE Head(toGui).type \in {"remove", "install"}
  <2>1. PICK m : m = Head(toGui)
    OBVIOUS
  <2>2. /\ \E i \in Id, t \in Session :
             Waits(session[i]) /\ NoToken(toPm, Tail(toGui), i) /\ Advance(i, t)
        /\ version' \in Disk /\ UNCHANGED <<typed, names>>
    BY <1>5, <2>1, RowAnswered
  <2>3. PICK i \in Id, t \in Session :
           Waits(session[i]) /\ NoToken(toPm, Tail(toGui), i) /\ Advance(i, t)
    BY <2>2
  <2>4. session[i].app # {}
    BY <2>3 DEF Sessions, WellFormed, Waits
  <2>5. toGui' \in Seq(Answer) /\ NoToken(toPm, toGui', i)
        /\ \A j \in Id \ {i} : TokenIn(toPm, toGui', session[j], j)
    BY <1>1, <1>2, <1>3, <2>3
  <2>6. /\ toPm' \in Seq(Call) /\ session' \in [Id -> Session] /\ registry' \in Regs
        /\ Sessions'
    BY <1>1, <2>3, <2>4, <2>5, AdvanceKeeps
  <2> QED
    BY <1>1, <2>2, <2>5, <2>6 DEF Shapes, Regs
<1>6. Head(toGui).type \in {"uiScan", "scan", "remove", "install"}
  BY DEF GuiTakes
<1> QED
  BY <1>4, <1>5, <1>6

\* A blown deadline of a row is the end of its session.
LEMMA RowIsLate ==
    ASSUME IInv, NEW k \in DOMAIN toPm, Deadline(k), toPm[k].type \in {"remove", "install"}
    PROVE  /\ \E i \in Id, t \in Session :
                /\ Waits(session[i]) /\ toPm[k] \in Held(i)
                /\ NoToken(toPm', toGui, i)
                /\ session' = [session EXCEPT ![i] = t]
                /\ WellFormed(t) /\ t.app = session[i].app /\ t.alone = session[i].alone
                /\ Failed(t) /\ RegKept(registry, registry')
           /\ toPm' = Late(k) /\ UNCHANGED caches
<1> USE DEF IInv
<1>1. toPm \in Seq(Call) /\ toGui \in Seq(Answer)
  BY DEF Shapes
<1>2. toPm[k] \in Call /\ toPm[k].live
  BY <1>1 DEF Deadline
<1>3. PICK i \in Id : toPm[k].who = i
  BY <1>2 DEF Call
<1>4. toPm[k] \in Held(i)
  BY <1>2, <1>3 DEF Held
<1>5. toPm' = Late(k) /\ FailRow(i) /\ UNCHANGED caches
  BY <1>3 DEF Deadline
<1>6. PICK s : s = session[i]
  OBVIOUS
<1>7. TokenIn(toPm, toGui, s, i)
  BY <1>6 DEF Sessions
<1>8. toPm[k].type = s.stage /\ NoToken(toPm', toGui, i)
  <2>1. toPm[k].type = s.stage /\ NoToken([toPm EXCEPT ![k].live = FALSE], toGui, i)
    BY <1>1, <1>4, <1>7, TokenLate
  <2> QED
    BY <1>5, <2>1 DEF Late
<1>9. Waits(session[i])
  BY <1>6, <1>8 DEF Waits
<1>10. \E t \in Session :
          /\ session' = [session EXCEPT ![i] = t]
          /\ WellFormed(t) /\ t.app = session[i].app /\ t.alone = session[i].alone
          /\ Failed(t) /\ RegKept(registry, registry')
  BY <1>5, <1>9, FailRowEnds
<1> QED
  BY <1>4, <1>5, <1>8, <1>9, <1>10

LEMMA DeadlineKeeps ==
    ASSUME IInv, NEW k \in DOMAIN toPm, Deadline(k)
    PROVE  IInv'
<1> USE DEF IInv
<1>1. /\ toPm \in Seq(Call) /\ toGui \in Seq(Answer)
      /\ UNCHANGED <<disk, toGui, rescans, sessions>>
  BY DEF Shapes, Deadline
<1>2. Late(k) \in Seq(Call) /\ \A i \in Id : TokenIn(Late(k), toGui, session[i], i)
  <2>1. ASSUME NEW i \in Id PROVE TokenIn(Late(k), toGui, session[i], i)
    <3>1. PICK s : s = session[i]
      OBVIOUS
    <3>2. TokenIn(toPm, toGui, s, i)
      BY <3>1 DEF Sessions
    <3> QED
      BY <1>1, <3>1, <3>2, TokenLate DEF Late
  <2>2. Late(k) \in Seq(Call)
    <3>1. toPm[k] \in Call
      BY <1>1
    <3>2. [toPm[k] EXCEPT !.live = FALSE] \in Call
      BY <3>1 DEF Call
    <3> QED
      BY <1>1, <3>2 DEF Late
  <2> QED
    BY <2>1, <2>2
<1>3. CASE toPm[k].type \in {"remove", "install"}
  <2>1. PICK i \in Id, t \in Session :
           /\ Waits(session[i]) /\ NoToken(toPm', toGui, i)
           /\ session' = [session EXCEPT ![i] = t]
           /\ WellFormed(t) /\ t.app = session[i].app /\ RegKept(registry, registry')
    BY <1>3, RowIsLate
  <2>2. toPm' = Late(k) /\ UNCHANGED caches
    BY <1>3, RowIsLate
  <2>3. session[i].app # {}
    BY <2>1 DEF Sessions, WellFormed, Waits
  <2>4. \A j \in Id : Registered(j)'
    BY <1>1, <2>1, <2>3, RegisteredKept
  <2>5. /\ session' \in [Id -> Session] /\ session'[i] = t
        /\ \A j \in Id \ {i} : session'[j] = session[j]
    BY <2>1 DEF Shapes
  <2>6. TokenIn(toPm', toGui, t, i)
    BY <1>1, <1>2, <2>1, <2>2, TokenOfNone
  <2>7. \A j \in Id : TokenIn(toPm', toGui', session'[j], j) /\ WellFormed(session'[j])
    BY <1>1, <1>2, <2>1, <2>2, <2>5, <2>6 DEF Sessions
  <2>8. Sessions'
    BY <2>4, <2>7 DEF Sessions
  <2> QED
    BY <1>1, <1>2, <2>1, <2>2, <2>5, <2>8 DEF Shapes, caches, RegKept, Regs
<1>4. CASE toPm[k].type \in {"uiScan", "scan"}
  <2>1. Nothing \in Disk
    BY DEF Nothing, Disk, SomeVersion
  <2>2. /\ UNCHANGED <<session, registry>>
        /\ typed' \in SUBSET Package /\ names' \in SUBSET Package /\ version' \in Disk
        /\ toPm' = Late(k) \/ toPm' = Append(Late(k), ScanCall("scan"))
    BY <1>4, <2>1 DEF Deadline, Scanned, Shapes
  <2>3. PICK pm \in Seq(Call), gui \in Seq(Answer) : pm = Late(k) /\ gui = toGui
    BY <1>1, <1>2
  <2>4. /\ Append(pm, ScanCall("scan")) \in Seq(Call)
        /\ \A i \in Id : TokenIn(Append(pm, ScanCall("scan")), gui, session[i], i)
    BY <1>2, <2>2, <2>3, ScanPosted
  <2>5. toPm' \in Seq(Call) /\ \A i \in Id : TokenIn(toPm', toGui', session[i], i)
    BY <1>1, <1>2, <2>2, <2>3, <2>4
  <2>6. Sessions'
    BY <1>1, <2>2, <2>5, SessionsKept
  <2> QED
    BY <1>1, <2>2, <2>5, <2>6 DEF Shapes
<1> QED
  BY <1>3, <1>4 DEF Deadline

\* package_manager answers the call at the head of its queue, or drops the
\* answer of one nobody waits for.
LEMMA ServedKeeps ==
    ASSUME IInv, toPm # <<>>, toPm' = Tail(toPm), UNCHANGED <<session, sessions, registry>>,
           NEW m \in Answer, Reply(m),
           m.type \in {"remove", "install"} => m.type = Head(toPm).type /\ m.who = Head(toPm).who
    PROVE  toPm' \in Seq(Call) /\ toGui' \in Seq(Answer) /\ Sessions'
<1> USE DEF IInv
<1>1. /\ toPm \in Seq(Call) /\ toGui \in Seq(Answer) /\ Head(toPm) \in Call
      /\ Tail(toPm) \in Seq(Call)
  BY DEF Shapes
<1>2. toGui' = IF Head(toPm).live THEN Append(toGui, m) ELSE toGui
  BY DEF Reply
<1>3. toGui' \in Seq(Answer)
  BY <1>1, <1>2
<1>4. ASSUME NEW i \in Id PROVE TokenIn(toPm', toGui', session[i], i)
  <2>1. PICK s : s = session[i]
    OBVIOUS
  <2>2. TokenIn(toPm, toGui, s, i)
    BY <2>1 DEF Sessions
  <2>3. Head(toPm).live /\ m \in Told(i) => Head(toPm) \in Held(i) /\ m.type = Head(toPm).type
    BY <1>1 DEF Told, Held
  <2>4. TokenIn(Tail(toPm), toGui, s, i)
    BY <1>1, <2>2, TokenServed
  <2>5. Head(toPm).live => TokenIn(Tail(toPm), Append(toGui, m), s, i)
    BY <1>1, <2>2, <2>3, TokenServed
  <2> QED
    BY <1>2, <2>1, <2>4, <2>5
<1>5. Sessions'
  BY <1>4, SessionsKept
<1> QED
  BY <1>1, <1>3, <1>5

\* What a step of package_manager does to the disk and to the channels.
LEMMA PmServes ==
    ASSUME IInv, Pm
    PROVE  /\ toPm # <<>> /\ toPm' = Tail(toPm)
           /\ UNCHANGED <<caches, session, sessions, registry>>
           /\ rescans' \in Nat /\ disk' \in Disk
           /\ \E m \in Answer :
                /\ Reply(m)
                /\ m.type = Head(toPm).type
                /\ m.type \in {"remove", "install"} => m.who = Head(toPm).who
                /\ \/ disk' = disk /\ (m.type = "install" => ~m.ok)
                   \/ \E p \in Head(toPm).row :
                        /\ Head(toPm).type = "remove" /\ disk' = [disk EXCEPT ![p] = 0]
                   \/ \E p \in Head(toPm).row :
                        /\ Head(toPm).type = "install"
                        /\ disk' = [disk EXCEPT ![p] = Head(toPm).put]
<1> USE DEF IInv
<1>1. toPm \in Seq(Call) /\ disk \in Disk /\ rescans \in Nat
  BY DEF Shapes
<1>2. /\ toPm # <<>> /\ toPm' = Tail(toPm)
      /\ UNCHANGED <<caches, session, sessions, registry>>
  BY DEF Pm, PmScans, PmRemoves, PmInstalls
<1>3. PICK c \in Call : c = Head(toPm)
  BY <1>1, <1>2
<1>4. CASE PmScans
  <2>1. PICK m : m = [type |-> c.type, found |-> disk]
    OBVIOUS
  <2>2. m \in Answer /\ m.type = c.type /\ m.type \in {"uiScan", "scan"}
    BY <1>1, <1>3, <1>4, <2>1 DEF Answer, PmScans
  <2>3. Reply(m) /\ UNCHANGED <<disk, rescans>>
    BY <1>3, <1>4, <2>1 DEF PmScans
  <2> QED
    BY <1>1, <1>2, <1>3, <2>2, <2>3
<1>5. CASE PmRemoves
  <2>1. c.type = "remove"
    BY <1>3, <1>5 DEF PmRemoves
  <2>2. PICK p \in c.row, ok \in BOOLEAN :
          /\ disk' = IF ok THEN [disk EXCEPT ![p] = 0] ELSE disk
          /\ rescans' = IF ok THEN rescans + 1 ELSE rescans
          /\ Reply([type |-> "remove", who |-> c.who, ok |-> ok])
    BY <1>3, <1>5 DEF PmRemoves
  <2>3. PICK m : m = [type |-> "remove", who |-> c.who, ok |-> ok]
    OBVIOUS
  <2>4. c.who \in Id /\ p \in Package
    BY <2>1, <2>2 DEF Call
  <2>5. m \in Answer /\ m.type = c.type /\ m.who = c.who
    BY <2>1, <2>3, <2>4 DEF Answer
  <2>6. rescans' \in Nat /\ disk' \in Disk
    BY <1>1, <2>2, <2>4 DEF Disk, SomeVersion
  <2> QED
    BY <1>2, <1>3, <2>1, <2>2, <2>3, <2>5, <2>6
<1>6. CASE PmInstalls
  <2>1. c.type = "install"
    BY <1>3, <1>6 DEF PmInstalls
  <2>2. PICK p \in c.row, ok \in BOOLEAN :
          /\ disk' = IF ok THEN [disk EXCEPT ![p] = c.put] ELSE disk
          /\ rescans' = IF ok THEN rescans + 1 ELSE rescans
          /\ Reply([type |-> "install", who |-> c.who, ok |-> ok])
    BY <1>3, <1>6 DEF PmInstalls
  <2>3. PICK m : m = [type |-> "install", who |-> c.who, ok |-> ok]
    OBVIOUS
  <2>4. c.who \in Id /\ p \in Package /\ c.put \in SomeVersion
    BY <2>1, <2>2 DEF Call
  <2>5. m \in Answer /\ m.type = c.type /\ m.who = c.who /\ m.ok = ok
    BY <2>1, <2>3, <2>4 DEF Answer
  <2>6. rescans' \in Nat /\ disk' \in Disk
    BY <1>1, <2>2, <2>4 DEF Disk
  <2> QED
    BY <1>2, <1>3, <2>1, <2>2, <2>3, <2>5, <2>6
<1> QED
  BY <1>4, <1>5, <1>6 DEF Pm

LEMMA PmKeeps == ASSUME IInv, Pm PROVE IInv'
<1> USE DEF IInv
<1>1. /\ toPm # <<>> /\ toPm' = Tail(toPm)
      /\ UNCHANGED <<caches, session, sessions, registry>>
      /\ rescans' \in Nat /\ disk' \in Disk
  BY PmServes
<1>2. PICK m \in Answer :
        /\ Reply(m) /\ m.type = Head(toPm).type
        /\ m.type \in {"remove", "install"} => m.who = Head(toPm).who
  BY PmServes
<1>3. toPm' \in Seq(Call) /\ toGui' \in Seq(Answer) /\ Sessions'
  BY <1>1, <1>2, ServedKeeps
<1> QED
  BY <1>1, <1>3 DEF Shapes, caches

LEMMA NextKeeps == IInv /\ [Next]_vars => IInv'
<1> SUFFICES ASSUME IInv, [Next]_vars PROVE IInv'
  OBVIOUS
<1>1. ASSUME NEW a \in App, ConfirmCatalogInstall(a) PROVE IInv'
  BY <1>1, ConfirmKeeps
<1>2. ASSUME NEW i \in Id, DownloadAnswered(i) PROVE IInv'
  BY <1>2, DownloadKeeps
<1>3. ASSUME NEW i \in Id, ClearTimer(i) PROVE IInv'
  BY <1>3, ClearTimerKeeps
<1>4. ASSUME NEW k \in DOMAIN toPm, Deadline(k) PROVE IInv'
  BY <1>4, DeadlineKeeps
<1>5. CASE Rescan
  BY <1>5, RescanKeeps
<1>6. CASE GuiTakes
  BY <1>6, GuiTakesKeeps
<1>7. CASE Pm
  BY <1>7, PmKeeps
<1>8. CASE UNCHANGED vars
  BY <1>8 DEF vars, caches, IInv, Shapes, Sessions, Registered
<1> QED
  BY <1>1, <1>2, <1>3, <1>4, <1>5, <1>6, <1>7, <1>8 DEF Next

LEMMA Invariance == Spec => []IInv
  BY InitHolds, NextKeeps, PTL DEF Spec

-----------------------------------------------------------------------------
(* Theorems *)

\* Shapes, and a session has rows left exactly while it waits for
\* package_manager (installOnePackage, installResultsSequential).  The invariant
\* behind it has each answer and each blown deadline of a row find its session
\* in the stage it was sent from, with that row at the head of its list.
THEOREM TypeCorrect == Spec => []TypeOK
<1>1. IInv => TypeOK
  BY DEF IInv, Shapes, Sessions, WellFormed, Session, Stage, TypeOK, Waits
<1> QED
  BY <1>1, Invariance, PTL

\* InstallRegistry keeps installs of one app apart, for any catalog and any
\* number of sessions.
THEOREM SessionsRegistered == Spec => []SessionsAreRegistered
<1>1. ASSUME IInv PROVE SessionsAreRegistered
  <2>1. ASSUME NEW i \in Id, Active(i)
        PROVE  /\ registry[CHOOSE a \in App : a \in session[i].app].owner = session[i].app
               /\ \A j \in Id \ {i} : session[j].app # session[i].app
    <3>1. session[i].app \in {{}} \cup {{a} : a \in App}
      BY <1>1 DEF IInv, Shapes, Session
    <3>2. session[i].app # {}
      BY <1>1, <2>1 DEF IInv, Sessions, WellFormed, Active
    <3>3. PICK a \in App : session[i].app = {a}
      BY <3>1, <3>2
    <3>4. (CHOOSE b \in App : b \in session[i].app) = a
      BY <3>3
    <3>5. registry[a].owner = {a}
      BY <1>1, <3>3 DEF IInv, Sessions, Registered
    <3>6. \A j \in Id \ {i} : session[j].app # session[i].app
      BY <1>1, <3>2 DEF IInv, Sessions, Registered
    <3> QED
      BY <3>3, <3>4, <3>5, <3>6
  <2> QED
    BY <2>1 DEF SessionsAreRegistered
<1>2. IInv => SessionsAreRegistered
  BY <1>1
<1> QED
  BY <1>2, Invariance, PTL
-----------------------------------------------------------------------------
(* A session that is left alone *)

\* Nobody else has a call at package_manager, and of the closure everything
\* but the rows left is on disk.  An answered install is there already.
DoneOnDisk(pm, gui, d, s, i) ==
    /\ \A c \in Range(pm) : c.who = 0 \/ (c.who = i /\ c.live)
    /\ \A p \in Package : s.want[p] # 0 /\ p \notin Range(s.todo) => d[p] = s.want[p]
    /\ \A m, n \in DOMAIN s.todo : s.todo[m] = s.todo[n] => m = n
    /\ \A m \in Range(gui) :
         m.type = "install" /\ m.ok => d[Head(s.todo)] = s.want[Head(s.todo)]

Idle == {"none", "clearing", "over"}

\* It may report success, now or later.
Promising(s) == Waits(s) \/ (s.stage = "clearing" /\ s.ok)

Undisturbed(i) ==
    /\ \A j \in Id \ {i} : session[j].stage \in Idle
    /\ session[i].stage = "downloading" =>
         toPm = <<>> /\ toGui = <<>> /\ rescans = 0 /\ Honest
    /\ Promising(session[i]) => DoneOnDisk(toPm, toGui, disk, session[i], i)

AInv == \A i \in Id : session[i].alone => Undisturbed(i)

LEMMA AloneInit == Init => AInv
  BY DEF Init, AInv, NoSession

\* While a session is alone no other one has a step to take.
LEMMA NobodyElse ==
    ASSUME AInv, NEW i \in Id, session[i].alone, NEW j \in Id, session[j].stage \notin Idle
    PROVE  i = j
  BY DEF AInv, Undisturbed

\* Nor an answer to take.
LEMMA NobodyElsesAnswer ==
    ASSUME IInv, AInv, NEW i \in Id, session[i].alone, NEW m \in Range(toGui),
           m.type \in {"remove", "install"}
    PROVE  m \in Told(i)
<1>1. m \in Answer
  BY DEF IInv, Shapes, Range
<1>2. m.who \in Id /\ m \in Told(m.who)
  BY <1>1 DEF Answer, Told
<1>3. m.type = session[m.who].stage
  BY <1>2 DEF IInv, Sessions, TokenIn
<1> QED
  BY <1>2, <1>3, NobodyElse DEF Idle

LEMMA AloneConfirm ==
    ASSUME IInv, AInv, NEW a \in App, ConfirmCatalogInstall(a)
    PROVE  AInv'
<1>1. PICK n \in Id : n = sessions + 1
  BY InstallPipelineAssumption DEF ConfirmCatalogInstall, IInv, Shapes, Id
<1>2. session' = [i \in Id |->
                    IF i = n THEN [NoSession EXCEPT !.app = {a}, !.stage = "downloading",
                                                    !.alone = Quiet /\ Honest]
                             ELSE [session[i] EXCEPT !.alone = FALSE]]
  BY <1>1 DEF ConfirmCatalogInstall
<1>3. UNCHANGED <<disk, toPm, toGui, rescans, version>>
  BY DEF ConfirmCatalogInstall, caches
<1>4. \A i \in Id \ {n} : session'[i].alone = FALSE /\ session'[i].stage = session[i].stage
  BY <1>2 DEF IInv, Shapes, Session
<1>5. session'[n].stage = "downloading" /\ (session'[n].alone = (Quiet /\ Honest))
  BY <1>2 DEF NoSession
<1>6. session'[n].alone => Undisturbed(n)'
  BY <1>3, <1>4, <1>5 DEF Quiet, Honest, Undisturbed, Idle, Promising, Waits
<1> QED
  BY <1>4, <1>6 DEF AInv

\* The plan skips what the caches show at the wanted version, and an honest
\* cache shows no version that is not on disk.
LEMMA AloneDownload ==
    ASSUME IInv, AInv, NEW i \in Id, DownloadAnswered(i)
    PROVE  AInv'
<1>1. PICK t \in Session : Advance(i, t) /\ (Failed(t) \/ Planned(t))
  BY DownloadAdvances DEF IInv
<1>2. /\ session[i].stage = "downloading" /\ UNCHANGED <<disk, toGui, rescans, version>>
      /\ toPm \in Seq(Call) /\ toGui \in Seq(Answer)
  BY DEF DownloadAnswered, caches, IInv, Shapes
<1>3. \A j \in Id : session[j].alone => j = i
  BY <1>2, NobodyElse DEF Idle
<1>4. /\ session'[i] = t /\ \A j \in Id \ {i} : session'[j] = session[j]
      /\ t.alone = session[i].alone
  BY <1>1 DEF Advance, IInv, Shapes
<1>5. t.stage # "downloading"
  BY <1>1 DEF Advance, Waits
<1>6. ASSUME session[i].alone, Planned(t) PROVE DoneOnDisk(toPm', toGui', disk', t, i)
  <2>1. toPm = <<>> /\ toGui = <<>> /\ Honest
    BY <1>2, <1>6 DEF AInv, Undisturbed
  <2>2. PICK a \in App, want \in Disk :
           \E todo \in RowsIn(Rows[a], Stale(want)) : Resolved(a, want) /\ Carries(t, want, todo)
    BY <1>6 DEF Planned
  <2>3. PICK todo \in RowsIn(Rows[a], Stale(want)) : Carries(t, want, todo)
    BY <2>2
  <2>4. Stale(want) \in SUBSET Package
    BY DEF Stale
  <2>5. /\ Range(todo) = Stale(want)
        /\ \A m, n \in DOMAIN todo : todo[m] = todo[n] => m = n
    BY <2>4, RowsInAreRows
  <2>6. t.want = want /\ t.todo = todo
    BY <2>3 DEF Carries
  <2>7. ASSUME NEW p \in Package, want[p] # 0, p \notin Range(todo) PROVE disk[p] = want[p]
    <3>1. version[p] = want[p]
      BY <2>5, <2>7 DEF Stale
    <3> QED
      BY <2>1, <2>7, <3>1 DEF Honest
  <2>8. ASSUME NEW c \in Range(toPm') PROVE c.who = i /\ c.live
    <3>1. CASE toPm' = toPm
      BY <2>1, <2>8, <3>1 DEF Range
    <3>2. CASE toPm' = Append(toPm, RowCall(t.stage, i, Head(t.todo), t.want[Head(t.todo)]))
      <4>1. PICK call : call = RowCall(t.stage, i, Head(t.todo), t.want[Head(t.todo)])
        OBVIOUS
      <4>2. toPm' = <<call>>
        BY <2>1, <3>2, <4>1
      <4>3. c = call
        BY <2>8, <4>2 DEF Range
      <4> QED
        BY <4>1, <4>3 DEF RowCall
    <3> QED
      BY <1>1, <3>1, <3>2 DEF Advance
  <2>9. Range(toGui') = {}
    BY <1>2, <2>1 DEF Range
  <2> QED
    BY <1>2, <2>5, <2>6, <2>7, <2>8, <2>9 DEF DoneOnDisk
<1>7. Promising(t) => ~Failed(t)
  BY DEF Promising, Failed, Waits
<1>8. session'[i].alone => Undisturbed(i)'
  BY <1>1, <1>4, <1>5, <1>6, <1>7 DEF AInv, Undisturbed
<1>9. \A j \in Id \ {i} : ~session'[j].alone
  BY <1>3, <1>4
<1> QED
  BY <1>8, <1>9 DEF AInv

\* Channels that lose a message, or get one that is no call of a session.
LEMMA AloneChannels ==
    ASSUME AInv, UNCHANGED <<disk, session>>, toPm # <<>> \/ toGui # <<>> \/ rescans # 0,
           \A c \in Range(toPm') : c \in Range(toPm) \/ c.who = 0,
           Range(toGui') \subseteq Range(toGui)
    PROVE  AInv'
<1>1. \A i \in Id : session[i].alone => session[i].stage # "downloading"
  BY DEF AInv, Undisturbed
<1>2. ASSUME NEW i \in Id, DoneOnDisk(toPm, toGui, disk, session[i], i)
      PROVE  DoneOnDisk(toPm', toGui', disk', session'[i], i)
  BY <1>2 DEF DoneOnDisk
<1>3. ASSUME NEW i \in Id, session'[i].alone PROVE Undisturbed(i)'
  BY <1>1, <1>2, <1>3 DEF AInv, Undisturbed
<1> QED
  BY <1>3 DEF AInv

LEMMA AloneClearTimer ==
    ASSUME IInv, AInv, NEW i \in Id, ClearTimer(i)
    PROVE  AInv'
<1>1. UNCHANGED <<disk, toPm, toGui, rescans, version>>
  BY DEF ClearTimer, caches
<1>2. /\ ~session'[i].alone /\ session'[i].stage = "over"
      /\ \A j \in Id \ {i} : session'[j] = session[j]
  BY DEF ClearTimer, IInv, Shapes, NoSession
<1>3. ASSUME NEW j \in Id, session'[j].alone PROVE Undisturbed(j)'
  <2>1. session[j].alone /\ session'[j] = session[j]
    BY <1>2, <1>3
  <2>2. Undisturbed(j)
    BY <2>1 DEF AInv
  <2> QED
    BY <1>1, <1>2, <2>1, <2>2 DEF Undisturbed, Idle, Honest
<1> QED
  BY <1>3 DEF AInv

LEMMA ScanAdded ==
    ASSUME NEW pm \in Seq(Call), NEW type \in {"uiScan", "scan"}
    PROVE  \A c \in Range(Append(pm, ScanCall(type))) : c \in Range(pm) \/ c.who = 0
<1>1. PICK x \in Call : x = ScanCall(type)
  BY ScanIsACall
<1>2. Range(Append(pm, x)) = Range(pm) \cup {x}
  BY Posted
<1>3. x.who = 0
  BY <1>1 DEF ScanCall
<1> QED
  BY <1>1, <1>2, <1>3

LEMMA AloneRescan == ASSUME IInv, AInv, Rescan PROVE AInv'
<1>1. /\ toPm \in Seq(Call) /\ rescans # 0 /\ UNCHANGED <<disk, session, toGui>>
      /\ toPm' = Append(toPm, ScanCall("uiScan"))
  BY DEF Rescan, IInv, Shapes
<1>2. \A c \in Range(toPm') : c \in Range(toPm) \/ c.who = 0
  BY <1>1, ScanAdded
<1> QED
  BY <1>1, <1>2, AloneChannels

LEMMA AloneGuiTakes == ASSUME IInv, AInv, GuiTakes PROVE AInv'
<1>1. /\ toPm \in Seq(Call) /\ toGui \in Seq(Answer) /\ toGui # <<>>
      /\ toGui' = Tail(toGui) /\ UNCHANGED <<disk, rescans, sessions>>
  BY DEF IInv, Shapes, GuiTakes
<1>2. Range(toGui) = Range(Tail(toGui)) \cup {Head(toGui)}
  BY <1>1, Taken
<1>3. CASE Head(toGui).type \in {"uiScan", "scan"}
  <2>1. /\ UNCHANGED session
        /\ toPm' = toPm \/ toPm' = Append(toPm, ScanCall("scan"))
    BY <1>3 DEF GuiTakes, UiScanned, Scanned
  <2>2. \A c \in Range(toPm') : c \in Range(toPm) \/ c.who = 0
    BY <1>1, <2>1, ScanAdded
  <2> QED
    BY <1>1, <1>2, <2>1, <2>2, AloneChannels
<1>4. CASE Head(toGui).type \in {"remove", "install"}
  <2>1. PICK m : m = Head(toGui)
    OBVIOUS
  <2>2. \E i \in Id, t \in Session :
           /\ Waits(session[i]) /\ m \in Told(i) /\ m.type = session[i].stage
           /\ NoToken(toPm, Tail(toGui), i)
           /\ Advance(i, t)
           /\ \/ Failed(t)
              \/ /\ m.type = "remove" /\ t.stage = "install"
                 /\ Carries(t, session[i].want, session[i].todo)
              \/ /\ m.type = "install" /\ m.ok
                 /\ Carries(t, session[i].want, Tail(session[i].todo))
    BY <1>4, <2>1, RowAnswered
  <2>3. PICK i \in Id, t \in Session :
           /\ Waits(session[i]) /\ m \in Told(i) /\ m.type = session[i].stage
           /\ NoToken(toPm, Tail(toGui), i)
           /\ Advance(i, t)
           /\ \/ Failed(t)
              \/ /\ m.type = "remove" /\ t.stage = "install"
                 /\ Carries(t, session[i].want, session[i].todo)
              \/ /\ m.type = "install" /\ m.ok
                 /\ Carries(t, session[i].want, Tail(session[i].todo))
    BY <2>2
  <2>4. session[i].stage \notin Idle /\ \A j \in Id : session[j].alone => j = i
    BY <2>3, NobodyElse DEF Waits, Idle
  <2>5. /\ session'[i] = t /\ \A j \in Id \ {i} : session'[j] = session[j]
        /\ t.alone = session[i].alone /\ t.stage # "downloading"
    BY <2>3 DEF Advance, IInv, Shapes, Waits
  <2>6. ASSUME session[i].alone, ~Failed(t) PROVE DoneOnDisk(toPm', toGui', disk', t, i)
    <3>1. DoneOnDisk(toPm, toGui, disk, session[i], i)
      BY <2>3, <2>6 DEF AInv, Undisturbed, Promising
    <3>2. \A c \in Range(toPm') : c.who = 0 \/ (c.who = i /\ c.live)
      <4>1. CASE toPm' = toPm
        BY <3>1, <4>1 DEF DoneOnDisk
      <4>2. CASE /\ Waits(t)
                 /\ toPm' = Append(toPm, RowCall(t.stage, i, Head(t.todo), t.want[Head(t.todo)]))
        <5>1. PICK c : c = RowCall(t.stage, i, Head(t.todo), t.want[Head(t.todo)])
          OBVIOUS
        <5>2. t.todo \in Seq(Package) /\ t.todo # <<>> /\ t.want \in [Package -> SomeVersion]
          BY <2>3, <4>2 DEF Advance, WellFormed, Session, Disk
        <5>3. c \in Call /\ c.who = i /\ c.live
          BY <4>2, <5>1, <5>2 DEF RowCall, Call, Waits
        <5>4. Range(Append(toPm, c)) = Range(toPm) \cup {c}
          BY <1>1, <5>3, Posted
        <5> QED
          BY <3>1, <4>2, <5>1, <5>3, <5>4 DEF DoneOnDisk
      <4> QED
        BY <2>3, <4>1, <4>2 DEF Advance
    <3>3. \A n \in Range(Tail(toGui)) : n.type # "install"
      <4>1. ASSUME NEW n \in Range(Tail(toGui)), n.type = "install" PROVE FALSE
        <5>1. n \in Told(i)
          BY <1>2, <2>6, <4>1, NobodyElsesAnswer
        <5> QED
          BY <2>3, <4>1, <5>1 DEF NoToken
      <4> QED
        BY <4>1
    <3>4. CASE m.type = "remove" /\ t.stage = "install" /\ Carries(t, session[i].want, session[i].todo)
      <4>1. t.want = session[i].want /\ t.todo = session[i].todo
        BY <3>4 DEF Carries
      <4> QED
        BY <1>1, <3>1, <3>2, <3>3, <4>1 DEF DoneOnDisk
    <3>5. CASE m.type = "install" /\ m.ok /\ Carries(t, session[i].want, Tail(session[i].todo))
      <4>1. PICK todo : todo = session[i].todo
        OBVIOUS
      <4>2. todo \in Seq(Package) /\ todo # <<>>
        BY <2>3, <4>1 DEF IInv, Shapes, Session, Sessions, WellFormed
      <4>3. t.want = session[i].want /\ t.todo = Tail(todo)
        BY <3>5, <4>1 DEF Carries
      <4>4. m \in Range(toGui)
        BY <1>2, <2>1
      <4>5. disk[Head(todo)] = t.want[Head(todo)]
        BY <3>1, <3>5, <4>1, <4>3, <4>4 DEF DoneOnDisk
      <4>6. Range(todo) = Range(Tail(todo)) \cup {Head(todo)}
        BY <4>2, Taken
      <4>7. \A x, y \in DOMAIN Tail(todo) : Tail(todo)[x] = Tail(todo)[y] => x = y
        <5>1. /\ DOMAIN todo = 1..Len(todo) /\ Len(todo) \in Nat \ {0}
              /\ DOMAIN Tail(todo) = 1..Len(todo) - 1
              /\ \A x \in 1..Len(todo) - 1 : Tail(todo)[x] = todo[x + 1]
          BY <4>2, TailAt
        <5>2. \A x, y \in DOMAIN todo : todo[x] = todo[y] => x = y
          BY <3>1, <4>1 DEF DoneOnDisk
        <5> QED
          BY <5>1, <5>2
      <4>8. \A p \in Package : t.want[p] # 0 /\ p \notin Range(t.todo) => disk[p] = t.want[p]
        BY <3>1, <4>1, <4>3, <4>5, <4>6 DEF DoneOnDisk
      <4> QED
        BY <1>1, <3>2, <3>3, <4>3, <4>7, <4>8 DEF DoneOnDisk
    <3> QED
      BY <2>3, <2>6, <3>4, <3>5
  <2>7. Promising(t) => ~Failed(t)
    BY DEF Promising, Failed, Waits
  <2>8. session'[i].alone => Undisturbed(i)'
    BY <2>5, <2>6, <2>7 DEF AInv, Undisturbed
  <2>9. \A j \in Id \ {i} : ~session'[j].alone
    BY <2>4, <2>5
  <2> QED
    BY <2>8, <2>9 DEF AInv
<1> QED
  BY <1>3, <1>4 DEF GuiTakes

LEMMA AloneDeadline ==
    ASSUME IInv, AInv, NEW k \in DOMAIN toPm, Deadline(k)
    PROVE  AInv'
<1>1. toPm \in Seq(Call) /\ toPm # <<>> /\ UNCHANGED <<disk, toGui>>
  BY DEF IInv, Shapes, Deadline
<1>2. CASE toPm[k].type \in {"remove", "install"}
  <2>1. PICK i \in Id, t \in Session :
           /\ Waits(session[i]) /\ session' = [session EXCEPT ![i] = t]
           /\ t.alone = session[i].alone /\ Failed(t)
    BY <1>2, RowIsLate
  <2>2. \A j \in Id : session[j].alone => j = i
    BY <2>1, NobodyElse DEF Waits, Idle
  <2>3. session'[i] = t /\ \A j \in Id \ {i} : session'[j] = session[j]
    BY <2>1 DEF IInv, Shapes
  <2>4. session'[i].alone => Undisturbed(i)'
    BY <2>1, <2>3 DEF AInv, Undisturbed, Failed, Promising, Waits
  <2> QED
    BY <2>2, <2>3, <2>4 DEF AInv
<1>3. CASE toPm[k].type \in {"uiScan", "scan"}
  <2>1. PICK x \in Call : x = [toPm[k] EXCEPT !.live = FALSE] /\ x.who = 0
    <3>1. PICK c \in Call : c = toPm[k]
      BY <1>1
    <3>2. [c EXCEPT !.live = FALSE] \in Call /\ [c EXCEPT !.live = FALSE].who = 0
      BY <1>3, <3>1 DEF Call
    <3> QED
      BY <3>1, <3>2
  <2>2. PICK pm : pm = With(toPm, k, x)
    OBVIOUS
  <2>3. Late(k) = pm
    BY <2>1, <2>2 DEF Late, With
  <2>4. pm \in Seq(Call) /\ Range(pm) \subseteq Range(toPm) \cup {x}
    BY <1>1, <2>2, Replaced
  <2>5. UNCHANGED session /\ (toPm' = pm \/ toPm' = Append(pm, ScanCall("scan")))
    BY <1>3, <2>3 DEF Deadline, Scanned
  <2>6. \A c \in Range(Append(pm, ScanCall("scan"))) : c \in Range(pm) \/ c.who = 0
    BY <2>4, ScanAdded
  <2>7. \A c \in Range(toPm') : c \in Range(toPm) \/ c.who = 0
    BY <2>1, <2>4, <2>5, <2>6
  <2> QED
    BY <1>1, <2>5, <2>7, AloneChannels
<1> QED
  BY <1>2, <1>3 DEF Deadline

\* package_manager changes the disk only under the row the session is at.
LEMMA AlonePm == ASSUME IInv, AInv, Pm PROVE AInv'
<1>1. /\ toPm # <<>> /\ toPm' = Tail(toPm) /\ UNCHANGED session
      /\ toPm \in Seq(Call) /\ toGui \in Seq(Answer) /\ disk \in Disk
  BY PmServes DEF IInv, Shapes
<1>2. PICK m \in Answer :
         /\ Reply(m) /\ m.type = Head(toPm).type
         /\ \/ disk' = disk /\ (m.type = "install" => ~m.ok)
            \/ \E p \in Head(toPm).row :
                 /\ Head(toPm).type = "remove" /\ disk' = [disk EXCEPT ![p] = 0]
            \/ \E p \in Head(toPm).row :
                 /\ Head(toPm).type = "install"
                 /\ disk' = [disk EXCEPT ![p] = Head(toPm).put]
  BY PmServes
<1>3. PICK c \in Call : c = Head(toPm)
  BY <1>1
<1>4. c \in Range(toPm) /\ Range(toPm') \subseteq Range(toPm)
  BY <1>1, <1>3, Taken
<1>5. Range(toGui') \subseteq Range(toGui) \cup {m}
  <2>1. Range(Append(toGui, m)) = Range(toGui) \cup {m}
    BY <1>1, Posted
  <2> QED
    BY <1>2, <2>1 DEF Reply
<1>6. ASSUME NEW i \in Id, session[i].alone, Promising(session[i])
      PROVE  DoneOnDisk(toPm', toGui', disk', session[i], i)
  <2>1. DoneOnDisk(toPm, toGui, disk, session[i], i)
    BY <1>6 DEF AInv, Undisturbed
  <2>2. PICK s : s = session[i]
    OBVIOUS
  <2>3. \A x \in Range(toPm') : x.who = 0 \/ (x.who = i /\ x.live)
    BY <1>4, <2>1 DEF DoneOnDisk
  <2>4. CASE c.type \in {"uiScan", "scan"}
    <3>1. disk' = disk /\ m.type # "install"
      BY <1>2, <1>3, <2>4
    <3> QED
      BY <1>5, <2>1, <2>3, <3>1 DEF DoneOnDisk
  <2>5. CASE c.type \in {"remove", "install"}
    <3>1. c.who \in Id /\ i # 0 /\ c.who # 0
      BY <2>5 DEF Call, Id
    <3>2. c \in Held(i)
      BY <1>4, <2>1, <3>1 DEF DoneOnDisk, Held
    <3>3. /\ c.type = s.stage /\ c.row = {Head(s.todo)} /\ c.put = s.want[Head(s.todo)]
          /\ Range(toGui) \cap Told(i) = {}
      BY <1>4, <2>2, <3>2 DEF IInv, Sessions, TokenIn
    <3>4. s.todo \in Seq(Package) /\ s.todo # <<>>
      BY <2>2, <2>5, <3>3 DEF IInv, Shapes, Session, Sessions, WellFormed, Waits
    <3>5. Head(s.todo) \in Range(s.todo) /\ Head(s.todo) \in Package
      BY <3>4, Taken
    <3>6. \A p \in Package \ {Head(s.todo)} : disk'[p] = disk[p]
      BY <1>1, <1>2, <1>3, <3>3 DEF Disk
    <3>7. \A n \in Range(toGui) : n.type # "install"
      BY <1>6, <3>3, NobodyElsesAnswer
    <3>8. m.type = "install" /\ m.ok => disk'[Head(s.todo)] = s.want[Head(s.todo)]
      BY <1>1, <1>2, <1>3, <3>3, <3>5 DEF Disk
    <3>9. \A n \in Range(toGui') :
             n.type = "install" /\ n.ok => disk'[Head(s.todo)] = s.want[Head(s.todo)]
      BY <1>5, <3>7, <3>8
    <3>10. \A p \in Package : s.want[p] # 0 /\ p \notin Range(s.todo) => disk'[p] = s.want[p]
      BY <2>1, <2>2, <3>5, <3>6 DEF DoneOnDisk
    <3> QED
      BY <2>1, <2>2, <2>3, <3>9, <3>10 DEF DoneOnDisk
  <2> QED
    BY <2>4, <2>5 DEF Call
<1>7. ASSUME NEW i \in Id, session'[i].alone PROVE Undisturbed(i)'
  BY <1>1, <1>6, <1>7 DEF AInv, Undisturbed
<1> QED
  BY <1>7 DEF AInv

LEMMA AloneNext == IInv /\ AInv /\ [Next]_vars => AInv'
<1> SUFFICES ASSUME IInv, AInv, [Next]_vars PROVE AInv'
  OBVIOUS
<1>1. ASSUME NEW a \in App, ConfirmCatalogInstall(a) PROVE AInv'
  BY <1>1, AloneConfirm
<1>2. ASSUME NEW i \in Id, DownloadAnswered(i) PROVE AInv'
  BY <1>2, AloneDownload
<1>3. ASSUME NEW i \in Id, ClearTimer(i) PROVE AInv'
  BY <1>3, AloneClearTimer
<1>4. ASSUME NEW k \in DOMAIN toPm, Deadline(k) PROVE AInv'
  BY <1>4, AloneDeadline
<1>5. CASE Rescan
  BY <1>5, AloneRescan
<1>6. CASE GuiTakes
  BY <1>6, AloneGuiTakes
<1>7. CASE Pm
  BY <1>7, AlonePm
<1>8. CASE UNCHANGED vars
  BY <1>8 DEF vars, caches, AInv, Undisturbed, Honest
<1> QED
  BY <1>1, <1>2, <1>3, <1>4, <1>5, <1>6, <1>7, <1>8 DEF Next

\* A session that reports success has nothing left to do.
LEMMA ReportedDone ==
    ASSUME NEW s, NEW i, NEW pm, NEW gui, NEW d, WellFormed(s), s.stage = "clearing",
           DoneOnDisk(pm, gui, d, s, i)
    PROVE  \A p \in Package : s.want[p] \in {0, d[p]}
<1>1. s.todo = <<>>
  BY DEF WellFormed, Waits
<1>2. Range(s.todo) = {}
  BY <1>1 DEF Range
<1> QED
  BY <1>2 DEF DoneOnDisk

\* What an install dialog reports as done is done, for any catalog and any
\* number of sessions and scans: whatever deadlines it and the scans beside it
\* have blown, a session that nobody interfered with and that found caches
\* that claimed nothing false ends in success only with its closure on disk.
THEOREM ReportedOnDisk == Spec => ReportedIsOnDisk
<1>1. ASSUME IInv, AInv, IInv', AInv', [Next]_vars, NEW i \in Id,
             session'[i].stage = "clearing", session'[i].ok, session[i].alone
      PROVE  \A p \in Package : session'[i].want[p] \in {0, disk[p]}
  <2>1. ASSUME session'[i].stage = session[i].stage, session'[i].ok = session[i].ok,
               session'[i].want = session[i].want
        PROVE  \A p \in Package : session'[i].want[p] \in {0, disk[p]}
    <3>1. DoneOnDisk(toPm, toGui, disk, session[i], i)
      BY <1>1, <2>1 DEF AInv, Undisturbed, Promising
    <3>2. WellFormed(session[i])
      BY <1>1 DEF IInv, Sessions
    <3> QED
      BY <1>1, <2>1, <3>1, <3>2, ReportedDone
  <2>2. ASSUME session'[i].alone, disk' = disk
        PROVE  \A p \in Package : session'[i].want[p] \in {0, disk[p]}
    <3>1. DoneOnDisk(toPm', toGui', disk', session'[i], i)
      BY <1>1, <2>2 DEF AInv, Undisturbed, Promising
    <3>2. WellFormed(session'[i])
      BY <1>1 DEF IInv, Sessions
    <3> QED
      BY <1>1, <2>2, <3>1, <3>2, ReportedDone
  <2>3. ASSUME NEW j \in Id, NEW t, session' = [session EXCEPT ![j] = t],
               t.alone = session[j].alone
        PROVE  session'[i].alone
    BY <1>1, <2>3 DEF IInv, Shapes
  <2>4. ASSUME NEW a \in App, ConfirmCatalogInstall(a)
        PROVE  \A p \in Package : session'[i].want[p] \in {0, disk[p]}
    <3>1. session' = [j \in Id |->
                        IF j = sessions + 1
                          THEN [NoSession EXCEPT !.app = {a}, !.stage = "downloading",
                                                 !.alone = Quiet /\ Honest]
                          ELSE [session[j] EXCEPT !.alone = FALSE]]
      BY <2>4 DEF ConfirmCatalogInstall
    <3>2. i # sessions + 1
      BY <1>1, <3>1 DEF NoSession
    <3>3. session'[i] = [session[i] EXCEPT !.alone = FALSE] /\ session[i] \in Session
      BY <1>1, <3>1, <3>2 DEF IInv, Shapes
    <3>4. /\ session'[i].stage = session[i].stage /\ session'[i].ok = session[i].ok
          /\ session'[i].want = session[i].want
      BY <3>3 DEF Session
    <3> QED
      BY <2>1, <3>4
  <2>5. ASSUME NEW j \in Id, DownloadAnswered(j)
        PROVE  \A p \in Package : session'[i].want[p] \in {0, disk[p]}
    <3>1. \E t \in Session : Advance(j, t)
      BY <1>1, <2>5, DownloadAdvances DEF IInv
    <3>2. session'[i].alone
      BY <2>3, <3>1 DEF Advance
    <3> QED
      BY <2>2, <2>5, <3>2 DEF DownloadAnswered
  <2>6. ASSUME NEW j \in Id, ClearTimer(j)
        PROVE  \A p \in Package : session'[i].want[p] \in {0, disk[p]}
    <3>1. session' = [session EXCEPT ![j] = [NoSession EXCEPT !.stage = "over"]]
      BY <2>6 DEF ClearTimer
    <3>2. i # j
      BY <1>1, <3>1 DEF IInv, Shapes, NoSession
    <3> QED
      BY <1>1, <2>1, <3>1, <3>2 DEF IInv, Shapes
  <2>7. ASSUME NEW k \in DOMAIN toPm, Deadline(k)
        PROVE  \A p \in Package : session'[i].want[p] \in {0, disk[p]}
    <3>1. CASE toPm[k].type \in {"remove", "install"}
      <4>1. PICK j \in Id, t \in Session :
              session' = [session EXCEPT ![j] = t] /\ t.alone = session[j].alone
        BY <1>1, <2>7, <3>1, RowIsLate
      <4>2. session'[i].alone
        BY <2>3, <4>1
      <4> QED
        BY <2>2, <2>7, <4>2 DEF Deadline
    <3>2. CASE UNCHANGED session
      BY <2>1, <3>2
    <3> QED
      BY <2>7, <3>1, <3>2 DEF Deadline, Scanned
  <2>8. CASE GuiTakes
    <3>1. CASE Head(toGui).type \in {"remove", "install"}
      <4>1. PICK m : m = Head(toGui)
        OBVIOUS
      <4>2. \E j \in Id, t \in Session : Advance(j, t)
        BY <1>1, <2>8, <3>1, <4>1, RowAnswered
      <4>3. session'[i].alone
        BY <2>3, <4>2 DEF Advance
      <4> QED
        BY <2>2, <2>8, <4>3 DEF GuiTakes
    <3>2. CASE UNCHANGED session
      BY <2>1, <3>2
    <3> QED
      BY <2>8, <3>1, <3>2 DEF GuiTakes, UiScanned, Scanned
  <2>9. CASE Rescan \/ UNCHANGED vars
    BY <2>1, <2>9 DEF Rescan, vars
  <2>10. CASE Pm
    BY <1>1, <2>1, <2>10, PmServes
  <2> QED
    BY <1>1, <2>4, <2>5, <2>6, <2>7, <2>8, <2>9, <2>10 DEF Next
<1>2. IInv /\ AInv /\ IInv' /\ AInv' /\ [Next]_vars =>
        [\A i \in Id :
          session'[i].stage = "clearing" /\ session'[i].ok /\ session[i].alone
             => \A p \in Package : session'[i].want[p] \in {0, disk[p]}]_vars
  BY <1>1
<1> QED
  BY <1>2, Invariance, AloneInit, AloneNext, PTL DEF Spec, ReportedIsOnDisk
=============================================================================
