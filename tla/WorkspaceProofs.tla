--------------------------- MODULE WorkspaceProofs ---------------------------
(***************************************************************************)
(* The workspace for any number of plugins, addresses and queued layout    *)
(* switches: the layout follows the docks, and as long as the package      *)
(* manager's pane stays loaded every widget is where it should be.         *)
(***************************************************************************)
EXTENDS Workspace, SequenceTheorems, TLAPS

-----------------------------------------------------------------------------
(* The order of the docks *)

\* A dock that is new goes to the end.
LEMMA AppendNew ==
    ASSUME NEW S, NEW s \in Seq(S), IsInjective(s), NEW x \in S, x \notin ToSet(s)
    PROVE  /\ Append(s, x) \in Seq(S) /\ Len(Append(s, x)) = Len(s) + 1
           /\ ToSet(Append(s, x)) = ToSet(s) \cup {x}
           /\ IsInjective(Append(s, x))
<1> DEFINE t == Append(s, x)
<1>1. /\ t \in Seq(S) /\ Len(t) = Len(s) + 1 /\ Len(s) \in Nat
      /\ DOMAIN t = 1..Len(s) + 1 /\ DOMAIN s = 1..Len(s)
  OBVIOUS
<1>2. (\A i \in 1..Len(s) : t[i] = s[i]) /\ t[Len(s) + 1] = x
  OBVIOUS
<1> HIDE DEF t
<1>3. ToSet(t) = ToSet(s) \cup {x}
  BY <1>1, <1>2 DEF ToSet
<1>4. IsInjective(t)
  <2> SUFFICES ASSUME NEW a \in 1..Len(s) + 1, NEW b \in 1..Len(s) + 1, t[a] = t[b]
               PROVE  a = b
    BY <1>1 DEF IsInjective
  <2>1. CASE a \in 1..Len(s) /\ b \in 1..Len(s)
    BY <2>1, <1>1, <1>2 DEF IsInjective
  <2>2. CASE a = Len(s) + 1 /\ b \in 1..Len(s)
    BY <2>2, <1>1, <1>2 DEF ToSet
  <2>3. CASE b = Len(s) + 1 /\ a \in 1..Len(s)
    BY <2>3, <1>1, <1>2 DEF ToSet
  <2> QED
    BY <2>1, <2>2, <2>3, <1>1
<1> QED
  BY <1>1, <1>3, <1>4 DEF t

\* Removing a dock takes its one place out of the order.
LEMMA RemoveOne ==
    ASSUME NEW S, NEW s \in Seq(S), IsInjective(s), NEW x \in ToSet(s)
    PROVE  /\ RemoveFirst(s, x) \in Seq(S) /\ Len(RemoveFirst(s, x)) = Len(s) - 1
           /\ ToSet(RemoveFirst(s, x)) = ToSet(s) \ {x}
           /\ IsInjective(RemoveFirst(s, x))
<1>1. DOMAIN s = 1..Len(s) /\ Len(s) \in Nat
  OBVIOUS
<1>2. PICK n \in 1..Len(s) : s[n] = x
  BY <1>1 DEF ToSet
<1>3. \A m \in 1..Len(s) : s[m] = x <=> m = n
  BY <1>1, <1>2 DEF IsInjective
<1>4. SelectInSeq(s, LAMBDA v : v = x) = n
  <2>1. {i \in 1..Len(s) : s[i] = x} = {n}
    BY <1>3, <1>2
  <2>2. Min({n}) = n
    BY <1>2 DEF Min
  <2> QED
    BY <2>1, <2>2 DEF SelectInSeq
<1> DEFINE t == RemoveAt(s, n)
<1>5. RemoveFirst(s, x) = t
  BY <1>2, <1>4 DEF RemoveFirst
<1>6. /\ t \in Seq(S) /\ Len(t) = Len(s) - 1 /\ DOMAIN t = 1..Len(s) - 1
      /\ \A i \in 1..Len(s) - 1 : i < n => t[i] = s[i]
      /\ \A i \in 1..Len(s) - 1 : i >= n => t[i] = s[i + 1]
  <2> DEFINE u == SubSeq(s, 1, n - 1)
             v == SubSeq(s, n + 1, Len(s))
  <2>1. (\A i \in 1..n - 1 : s[i] \in S) /\ (\A i \in n + 1..Len(s) : s[i] \in S)
    BY <1>1, <1>2
  <2>2. /\ u \in Seq(S) /\ Len(u) = n - 1
        /\ \A i \in 1..n - 1 : u[i] = s[i]
    <3>1. /\ u \in Seq(S) /\ Len(u) = IF 1 <= n - 1 THEN n - 1 - 1 + 1 ELSE 0
          /\ \A i \in 1..(n - 1) - 1 + 1 : u[i] = s[1 + i - 1]
      BY <2>1, <1>2, SubSeqProperties
    <3> HIDE DEF u
    <3> QED
      BY <3>1, <1>2
  <2>3. /\ v \in Seq(S) /\ Len(v) = Len(s) - n
        /\ \A i \in 1..Len(s) - n : v[i] = s[n + i]
    <3>1. /\ v \in Seq(S) /\ Len(v) = IF n + 1 <= Len(s) THEN Len(s) - (n + 1) + 1 ELSE 0
          /\ \A i \in 1..Len(s) - (n + 1) + 1 : v[i] = s[(n + 1) + i - 1]
      BY <2>1, <1>1, <1>2, SubSeqProperties
    <3> HIDE DEF v
    <3>2. \A i \in 1..Len(s) - n : (n + 1) + i - 1 = n + i
      BY <1>1, <1>2
    <3>0. n \in Int /\ Len(s) \in Int /\ n <= Len(s) /\ Len(s) - (n + 1) + 1 = Len(s) - n
      BY <1>1, <1>2
    <3>3. Len(v) = Len(s) - n
      <4>1. CASE n + 1 <= Len(s)
        BY <4>1, <3>1, <3>0
      <4>2. CASE ~(n + 1 <= Len(s))
        <5>1. \A a, b \in Int : a <= b /\ ~(a + 1 <= b) => a = b
          OBVIOUS
        <5>2. n = Len(s)
          BY <4>2, <3>0, <5>1
        <5> QED
          BY <5>2, <4>2, <3>1, <3>0
      <4> QED
        BY <4>1, <4>2
    <3>4. ASSUME NEW i \in 1..Len(s) - n
          PROVE  v[i] = s[n + i]
      <4>1. v[i] = s[(n + 1) + i - 1]
        BY <3>1, <3>0
      <4> QED
        BY <4>1, <3>2
    <3> QED
      BY <3>1, <3>3, <3>4
  <2>4. t = u \o v
    BY DEF RemoveAt
  <2> HIDE DEF u, v, t
  <2>5. /\ t \in Seq(S) /\ Len(t) = Len(u) + Len(v)
        /\ \A i \in 1..Len(u) + Len(v) : t[i] = IF i <= Len(u) THEN u[i] ELSE v[i - Len(u)]
    BY <2>2, <2>3, <2>4, ConcatProperties
  <2>6. Len(t) = Len(s) - 1 /\ DOMAIN t = 1..Len(s) - 1
    BY <2>2, <2>3, <2>5, <1>1, <1>2
  <2>7. ASSUME NEW i \in 1..Len(s) - 1, i < n
        PROVE  t[i] = s[i]
    <3>1. i \in 1..n - 1 /\ i \in 1..(n - 1) + (Len(s) - n) /\ i <= n - 1
      BY <2>7, <1>1, <1>2
    <3>2. t[i] = u[i]
      BY <3>1, <2>2, <2>3, <2>5
    <3> QED
      BY <3>1, <3>2, <2>2
  <2>8. ASSUME NEW i \in 1..Len(s) - 1, i >= n
        PROVE  t[i] = s[i + 1]
    <3>1. /\ i - (n - 1) \in 1..Len(s) - n /\ n + (i - (n - 1)) = i + 1
          /\ i \in 1..(n - 1) + (Len(s) - n) /\ ~(i <= n - 1)
      BY <2>8, <1>1, <1>2
    <3>2. t[i] = v[i - (n - 1)]
      BY <3>1, <2>2, <2>3, <2>5
    <3> QED
      BY <3>1, <3>2, <2>3
  <2> QED
    BY <2>5, <2>6, <2>7, <2>8
<1> HIDE DEF t
<1>7. ToSet(t) = ToSet(s) \ {x}
  <2>1. ASSUME NEW i \in 1..Len(s) - 1
        PROVE  t[i] \in ToSet(s) \ {x}
    <3>1. CASE i < n
      BY <3>1, <1>1, <1>2, <1>3, <1>6 DEF ToSet
    <3>2. CASE i >= n
      BY <3>2, <1>1, <1>2, <1>3, <1>6 DEF ToSet
    <3> QED
      BY <3>1, <3>2, <1>1, <1>2
  <2>2. ASSUME NEW m \in 1..Len(s), m # n
        PROVE  s[m] \in ToSet(t)
    <3>1. CASE m < n
      BY <3>1, <1>1, <1>2, <1>6 DEF ToSet
    <3>2. CASE m > n
      <4>1. m - 1 \in 1..Len(s) - 1 /\ t[m - 1] = s[m]
        BY <3>2, <1>1, <1>2, <1>6
      <4> QED
        BY <4>1, <1>6 DEF ToSet
    <3> QED
      BY <2>2, <3>1, <3>2, <1>1, <1>2
  <2> QED
    BY <2>1, <2>2, <1>1, <1>2, <1>6 DEF ToSet
<1>8. IsInjective(t)
  <2> SUFFICES ASSUME NEW i \in 1..Len(s) - 1, NEW j \in 1..Len(s) - 1, t[i] = t[j]
               PROVE  i = j
    BY <1>6 DEF IsInjective
  <2>1. PICK a \in 1..Len(s) : t[i] = s[a] /\ a = (IF i < n THEN i ELSE i + 1)
    BY <1>1, <1>2, <1>6
  <2>2. PICK b \in 1..Len(s) : t[j] = s[b] /\ b = (IF j < n THEN j ELSE j + 1)
    BY <1>1, <1>2, <1>6
  <2>3. a = b
    BY <2>1, <2>2, <1>1 DEF IsInjective
  <2> QED
    BY <2>1, <2>2, <2>3, <1>1, <1>2
<1> QED
  BY <1>5, <1>6, <1>7, <1>8

-----------------------------------------------------------------------------
(* The layout *)

USE WorkspaceAssumption DEF WorkspaceAssumption, Null

LEMMA Starts == Init => TypeOK
<1> SUFFICES ASSUME Init PROVE TypeOK
  OBVIOUS
<1>1. Shapes
  <2>1. mounted \in [Plugin -> Address \cup {Null}] /\ docks \in [Plugin -> Address \cup {Null}]
    BY DEF Init
  <2>2. pane \in Address \cup {Null} /\ managerPage \in {"placeholder", "widget", "nothing"}
    BY DEF Init
  <2>3. section \in Sections /\ page \in Pages /\ toggles \in 0..MaxToggles
    BY DEF Init, Sections, Pages
  <2>4. dockOrder \in Seq(Plugin) /\ firstDock \in Plugin \cup {None} /\ pinned \in SUBSET Plugin
    BY DEF Init
  <2>5. phantom \in BOOLEAN /\ grouped \in BOOLEAN /\ sideBySide \in BOOLEAN
    BY DEF Init
  <2> QED
    BY <2>1, <2>2, <2>3, <2>4, <2>5 DEF Shapes
<1>2. LayoutOK
  BY DEF Init, LayoutOK, Docked, ToSet, IsInjective
<1> QED
  BY <1>1, <1>2 DEF TypeOK

LEMMA Added ==
    ASSUME TypeOK, NEW p \in Plugin, NEW widget \in Address, AddPluginDock(p, widget)
    PROVE  /\ docks' \in [Plugin -> Address \cup {Null}] /\ dockOrder' \in Seq(Plugin)
           /\ firstDock' \in Plugin \cup {None} /\ pinned' \in SUBSET Plugin
           /\ phantom' \in BOOLEAN /\ grouped' \in BOOLEAN /\ sideBySide' \in BOOLEAN
           /\ LayoutOK'
<1> USE DEF TypeOK
<1>1. CASE docks[p] # Null
  <2>1. UNCHANGED area
    BY <1>1 DEF AddPluginDock
  <2> QED
    BY <2>1 DEF area, Shapes, LayoutOK, Docked
<1>2. CASE docks[p] = Null
  <2>1. /\ docks' = [docks EXCEPT ![p] = widget]
        /\ dockOrder' = Append(dockOrder, p)
        /\ firstDock' = IF firstDock = None THEN p ELSE firstDock
        /\ sideBySide' = sideBySide
    BY <1>2 DEF AddPluginDock
  <2>2. /\ dockOrder' \in Seq(Plugin) /\ Len(dockOrder') = Len(dockOrder) + 1
        /\ ToSet(dockOrder') = Docked' /\ IsInjective(dockOrder')
        /\ dockOrder' # <<>>
    <3>1. p \notin ToSet(dockOrder)
      BY <1>2 DEF LayoutOK, Docked
    <3>2. Docked' = Docked \cup {p}
      BY <2>1 DEF Docked, Shapes
    <3> QED
      BY <2>1, <3>1, <3>2, AppendNew DEF LayoutOK, Shapes
  <2>3. /\ firstDock' \in Docked' /\ firstDock' \in Plugin
        /\ docks' \in [Plugin -> Address \cup {Null}]
    BY <2>1 DEF Shapes, LayoutOK, Docked
  <2>4. None \notin Plugin /\ Len(dockOrder) \in Nat
    BY DEF Shapes
  <2>5. CASE firstDock # None /\ ~sideBySide
    <3>1. RemovePhantom(firstDock)
      BY <1>2, <2>5 DEF AddPluginDock
    <3>2. Len(dockOrder) > 0
      BY <2>5, <2>4 DEF LayoutOK, Shapes
    <3>3. phantom' = FALSE /\ pinned' = {} /\ grouped' = TRUE
      BY <3>1 DEF RemovePhantom, LayoutOK, Shapes
    <3>4. ~(Len(dockOrder') = 1)
      BY <3>2, <2>2, <2>4
    <3> QED
      BY <2>1, <2>2, <2>3, <2>4, <3>3, <3>4 DEF LayoutOK, Shapes
  <2>6. CASE ~(firstDock # None /\ ~sideBySide)
    <3>1. EnsurePhantomTab(dockOrder', firstDock', pinned)
      BY <1>2, <2>6 DEF AddPluginDock
    <3>2. ~phantom /\ pinned = {} /\ grouped
      BY <2>6 DEF LayoutOK, Shapes
    <3>3. firstDock' # None
      BY <2>3, <2>4
    <3>4. CASE sideBySide
      <4>1. phantom' = phantom /\ grouped' = grouped /\ pinned' = pinned
        BY <3>1, <3>4 DEF EnsurePhantomTab
      <4> QED
        BY <4>1, <3>2, <3>4, <2>1, <2>2, <2>3, <2>4 DEF LayoutOK, Shapes
    <3>5. CASE ~sideBySide
      <4>1. Len(dockOrder') = 1
        BY <3>5, <2>6, <2>2 DEF LayoutOK
      <4>2. phantom' = TRUE /\ pinned' = pinned \cup {firstDock'} /\ grouped' = FALSE
        BY <3>1, <3>2, <3>3, <3>5, <4>1 DEF EnsurePhantomTab
      <4> QED
        BY <3>2, <3>3, <3>5, <4>1, <4>2, <2>1, <2>2, <2>3, <2>4 DEF LayoutOK, Shapes
    <3> QED
      BY <3>4, <3>5
  <2> QED
    BY <2>5, <2>6
<1> QED
  BY <1>1, <1>2

LEMMA Removed ==
    ASSUME TypeOK, NEW widget \in Address, RemovePluginDock(widget)
    PROVE  /\ docks' \in [Plugin -> Address \cup {Null}] /\ dockOrder' \in Seq(Plugin)
           /\ firstDock' \in Plugin \cup {None} /\ pinned' \in SUBSET Plugin
           /\ phantom' \in BOOLEAN /\ grouped' \in BOOLEAN /\ sideBySide' \in BOOLEAN
           /\ LayoutOK'
<1> USE DEF TypeOK
<1>1. CASE UNCHANGED area
  BY <1>1 DEF area, Shapes, LayoutOK, Docked
<1>2. CASE ~UNCHANGED area
  <2>1. PICK p \in Plugin :
          /\ docks[p] = widget
          /\ docks' = [docks EXCEPT ![p] = Null]
          /\ dockOrder' = RemoveFirst(dockOrder, p)
          /\ firstDock' = IF firstDock # p THEN firstDock
                          ELSE IF dockOrder' = <<>> THEN None ELSE Head(dockOrder')
          /\ sideBySide' = sideBySide
          /\ IF dockOrder' = <<>> THEN RemovePhantom(p)
             ELSE EnsurePhantomTab(dockOrder', firstDock', pinned \ {p})
    BY <1>2 DEF RemovePluginDock
  <2>2. /\ dockOrder' \in Seq(Plugin) /\ Len(dockOrder') = Len(dockOrder) - 1
        /\ ToSet(dockOrder') = Docked' /\ IsInjective(dockOrder')
        /\ p \in ToSet(dockOrder)
    <3>1. p \in ToSet(dockOrder)
      BY <2>1 DEF LayoutOK, Docked
    <3>2. Docked' = Docked \ {p}
      BY <2>1 DEF Docked, Shapes
    <3> QED
      BY <2>1, <3>1, <3>2, RemoveOne DEF LayoutOK, Shapes
  <2>3. None \notin Plugin /\ Len(dockOrder) \in Nat /\ docks' \in [Plugin -> Address \cup {Null}]
    BY <2>1 DEF Shapes
  <2>4. firstDock \in Docked /\ firstDock \in Plugin
    BY <2>2, <2>3 DEF LayoutOK, ToSet, Docked, Shapes
  <2>5. CASE dockOrder' = <<>>
    <3>1. Docked' = {} /\ Len(dockOrder') = 0
      BY <2>5, <2>2 DEF ToSet
    <3>2. firstDock = p
      BY <3>1, <2>1, <2>4 DEF Docked, Shapes
    <3>3. firstDock' = None
      BY <2>5, <3>2, <2>1
    <3>4. phantom' = FALSE /\ pinned' = (IF phantom THEN pinned \ {p} ELSE pinned)
          /\ grouped' = (grouped \/ phantom)
      BY <2>5, <2>1 DEF RemovePhantom
    <3>5. pinned' = {} /\ grouped' = TRUE
      BY <3>2, <3>4 DEF LayoutOK, Shapes
    <3>6. ~(Len(dockOrder') = 1)
      BY <3>1
    <3>7. LayoutOK'
      BY <2>1, <2>2, <2>5, <3>3, <3>4, <3>5, <3>6 DEF LayoutOK
    <3> QED
      BY <2>1, <2>2, <2>3, <3>3, <3>4, <3>5, <3>7 DEF Shapes
  <2>6. CASE dockOrder' # <<>>
    <3>1. Head(dockOrder') \in Docked' /\ Head(dockOrder') \in Plugin
      BY <2>6, <2>2 DEF ToSet
    <3>2. firstDock' \in Docked' /\ firstDock' \in Plugin
      BY <2>1, <2>4, <2>6, <3>1 DEF Docked, Shapes
    <3>3. Len(dockOrder') > 0
      BY <2>6, <2>2
    <3>4. phantom = FALSE /\ pinned = {} /\ grouped = TRUE
      <4>1. Len(dockOrder) - 1 > 0
        BY <3>3, <2>2
      <4>2. ~(Len(dockOrder) = 1)
        <5>1. \A k \in Nat : k - 1 > 0 => ~(k = 1)
          OBVIOUS
        <5> QED
          BY <4>1, <5>1, <2>3
      <4>3. phantom = FALSE
        BY <4>2 DEF LayoutOK, Shapes
      <4> QED
        BY <4>3 DEF LayoutOK, Shapes
    <3>5. EnsurePhantomTab(dockOrder', firstDock', pinned \ {p})
      BY <2>1, <2>6
    <3>6. firstDock' # None
      BY <3>2, <2>3
    <3>7. CASE ~sideBySide /\ Len(dockOrder') = 1
      <4>1. phantom' = TRUE /\ pinned' = {firstDock'} /\ grouped' = FALSE
        BY <3>4, <3>5, <3>6, <3>7 DEF EnsurePhantomTab
      <4> QED
        BY <4>1, <2>1, <2>2, <2>3, <2>6, <3>2, <3>6, <3>7 DEF LayoutOK, Shapes
    <3>8. CASE ~(~sideBySide /\ Len(dockOrder') = 1)
      <4>1. phantom' = FALSE /\ pinned' = {} /\ grouped' = TRUE
        BY <3>4, <3>5, <3>8 DEF EnsurePhantomTab
      <4> QED
        BY <4>1, <2>1, <2>2, <2>3, <2>6, <3>2, <3>6, <3>8 DEF LayoutOK, Shapes
    <3> QED
      BY <3>7, <3>8
  <2> QED
    BY <2>5, <2>6
<1> QED
  BY <1>1, <1>2

LEMMA PageShown ==
    ASSUME Shapes, NEW s \in Sections, ShowSection(s)
    PROVE  section' \in Sections /\ page' \in Pages
  BY DEF Shapes, ShowSection, PageOf, Pages

LEMMA TypeStep == TypeOK /\ [Next]_vars => TypeOK'
<1> SUFFICES ASSUME TypeOK, [Next]_vars PROVE TypeOK'
  OBVIOUS
<1>0. 0 \in Sections /\ Shapes
  BY DEF Sections, TypeOK
<1>1. ASSUME NEW p \in Plugin, Mount(p)
      PROVE  TypeOK'
  <2>1. PICK widget \in Address :
          /\ mounted' = [mounted EXCEPT ![p] = widget]
          /\ \/ /\ p = Manager /\ pane = Null
                /\ pane' = widget
                /\ managerPage' = "widget"
                /\ UNCHANGED <<section, page, area>>
             \/ /\ p # Manager \/ pane # Null
                /\ AddPluginDock(p, widget)
                /\ ShowSection(0)
                /\ UNCHANGED <<pane, managerPage>>
    BY <1>1 DEF Mount
  <2>2. toggles' = toggles
    BY <1>1 DEF Mount
  <2>3. mounted' \in [Plugin -> Address \cup {Null}]
    BY <2>1 DEF TypeOK, Shapes
  <2>4. CASE UNCHANGED <<section, page, area>> /\ pane' = widget /\ managerPage' = "widget"
    BY <2>2, <2>3, <2>4 DEF TypeOK, Shapes, LayoutOK, Docked, area
  <2>5. CASE AddPluginDock(p, widget) /\ ShowSection(0) /\ UNCHANGED <<pane, managerPage>>
    <3>1. section' \in Sections /\ page' \in Pages
      BY <2>5, <1>0, PageShown
    <3>2. /\ docks' \in [Plugin -> Address \cup {Null}] /\ dockOrder' \in Seq(Plugin)
          /\ firstDock' \in Plugin \cup {None} /\ pinned' \in SUBSET Plugin
          /\ phantom' \in BOOLEAN /\ grouped' \in BOOLEAN /\ sideBySide' \in BOOLEAN
          /\ LayoutOK'
      BY <2>5, Added
    <3> QED
      BY <2>2, <2>3, <2>5, <3>1, <3>2 DEF TypeOK, Shapes
  <2> QED
    BY <2>1, <2>4, <2>5
<1>2. ASSUME NEW p \in Plugin, Unmount(p)
      PROVE  TypeOK'
  <2>1. /\ mounted' \in [Plugin -> Address \cup {Null}] /\ page' \in Pages
        /\ managerPage' \in {"placeholder", "widget", "nothing"}
        /\ UNCHANGED <<pane, section, toggles>>
    BY <1>2 DEF Unmount, TypeOK, Shapes, Pages
  <2>2. CASE UNCHANGED area
    BY <2>1, <2>2 DEF TypeOK, Shapes, LayoutOK, Docked, area
  <2>3. CASE RemovePluginDock(mounted[p])
    <3>1. mounted[p] \in Address
      BY <1>2 DEF Unmount, TypeOK, Shapes
    <3>2. /\ docks' \in [Plugin -> Address \cup {Null}] /\ dockOrder' \in Seq(Plugin)
          /\ firstDock' \in Plugin \cup {None} /\ pinned' \in SUBSET Plugin
          /\ phantom' \in BOOLEAN /\ grouped' \in BOOLEAN /\ sideBySide' \in BOOLEAN
          /\ LayoutOK'
      BY <2>3, <3>1, Removed
    <3> QED
      BY <2>1, <3>2 DEF TypeOK, Shapes
  <2> QED
    BY <1>2, <2>2, <2>3 DEF Unmount
<1>3. ASSUME NEW s \in Sections, ShowSection(s),
             UNCHANGED <<mounted, pane, managerPage, area, toggles>>
      PROVE  TypeOK'
  <2>1. section' \in Sections /\ page' \in Pages
    BY <1>0, <1>3, PageShown
  <2> QED
    BY <1>3, <2>1 DEF TypeOK, Shapes, LayoutOK, Docked, area
<1>4. CASE ToggleLayoutMode
  <2>1. toggles' \in 0..MaxToggles
    BY <1>4 DEF ToggleLayoutMode, TypeOK, Shapes
  <2> QED
    BY <1>4, <2>1 DEF ToggleLayoutMode, TypeOK, Shapes, LayoutOK, Docked, area
<1>5. CASE RunToggle
  <2>1. toggles' \in 0..MaxToggles
    BY <1>5 DEF RunToggle, TypeOK, Shapes
  <2>2. CASE Len(dockOrder) < 2
    BY <1>5, <2>1, <2>2 DEF RunToggle, TypeOK, Shapes, LayoutOK, Docked
  <2>3. CASE ~(Len(dockOrder) < 2)
    <3>1. /\ sideBySide' = ~sideBySide /\ grouped' = TRUE /\ firstDock' = Head(dockOrder)
          /\ UNCHANGED <<mounted, pane, managerPage, section, page, docks, dockOrder, phantom, pinned>>
      BY <1>5, <2>3 DEF RunToggle
    <3>2. Head(dockOrder) \in ToSet(dockOrder) /\ Head(dockOrder) \in Plugin /\ dockOrder # <<>>
      BY <2>3 DEF TypeOK, Shapes, ToSet
    <3>3. ~(Len(dockOrder) = 1) /\ None \notin Plugin
      BY <2>3
    <3>4. phantom = FALSE
      BY <3>3 DEF TypeOK, Shapes, LayoutOK
    <3>5. pinned = {}
      BY <3>4 DEF TypeOK, LayoutOK
    <3>6. LayoutOK'
      BY <3>1, <3>2, <3>3, <3>4, <3>5 DEF TypeOK, Shapes, LayoutOK, Docked
    <3> QED
      BY <2>1, <3>1, <3>2, <3>6 DEF TypeOK, Shapes
  <2> QED
    BY <2>2, <2>3
<1>6. CASE UNCHANGED vars
  BY <1>6 DEF vars, TypeOK, Shapes, LayoutOK, Docked
<1> QED
  BY <1>0, <1>1, <1>2, <1>3, <1>4, <1>5, <1>6 DEF Next, ActivateApp, SelectSection

\* Whenever a queued layout switch runs and however docks come and go, with the
\* package manager unloaded or not (WorkspaceArea::addPluginDock,
\* removePluginDock, toggleLayoutModeForTesting): shapes, and the layout.
THEOREM TypeCorrect == Spec => []TypeOK
<1>1. Init => TypeOK
  BY Starts
<1>2. TypeOK /\ [Next]_vars => TypeOK'
  BY TypeStep
<1> QED
  BY <1>1, <1>2, PTL DEF Spec

-----------------------------------------------------------------------------
(* Where the widgets are *)

\* The pane is the manager's widget, its page is in the stack, and no two
\* plugins share an address: then the address alone tells a dock from the pane.
Places ==
    /\ WidgetsAreShown
    /\ managerPage # "nothing"
    /\ mounted[Manager] = pane
    /\ \A p, q \in Plugin : mounted[p] = mounted[q] /\ mounted[p] # Null => p = q

LEMMA PlacesStart == Init => Places
  BY DEF Init, Places, WidgetsAreShown, DocksFollowWidgets, SectionIsShown, PageOf, Plugin

LEMMA SectionFollows ==
    ASSUME NEW s \in Sections, ShowSection(s), managerPage # "nothing", SectionIsShown
    PROVE  SectionIsShown'
  BY DEF ShowSection, SectionIsShown, PageOf

LEMMA PlacesStep == ManagerStays /\ TypeOK /\ Places /\ [Next]_vars => Places'
<1> SUFFICES ASSUME ManagerStays, TypeOK, Places, [Next]_vars PROVE Places'
  OBVIOUS
<1> USE DEF Places, WidgetsAreShown
<1>0. Shapes /\ Manager \in Plugin /\ 0 \in Sections
  BY DEF TypeOK, Plugin, Sections
<1>1. ASSUME NEW p \in Plugin, Mount(p)
      PROVE  Places'
  <2>1. mounted[p] = Null
    BY <1>1 DEF Mount
  <2>2. PICK widget \in Address \ Live :
          /\ mounted' = [mounted EXCEPT ![p] = widget]
          /\ \/ /\ p = Manager /\ pane = Null
                /\ pane' = widget
                /\ managerPage' = "widget"
                /\ UNCHANGED <<section, page, area>>
             \/ /\ p # Manager \/ pane # Null
                /\ AddPluginDock(p, widget)
                /\ ShowSection(0)
                /\ UNCHANGED <<pane, managerPage>>
    BY <1>1 DEF Mount
  <2>3. /\ widget # Null /\ \A q \in Plugin : mounted[q] # widget
        /\ mounted'[p] = widget /\ \A q \in Plugin \ {p} : mounted'[q] = mounted[q]
    BY <1>0, <2>2 DEF Live, Shapes
  <2>4. \A q, r \in Plugin : mounted'[q] = mounted'[r] /\ mounted'[q] # Null => q = r
    BY <2>3
  <2>5. CASE p = Manager
    <3>1. /\ pane = Null /\ pane' = widget /\ managerPage' = "widget"
          /\ UNCHANGED <<section, page, docks>>
      BY <2>1, <2>2, <2>5 DEF area
    <3>2. DocksFollowWidgets'
      BY <2>3, <2>5, <3>1 DEF DocksFollowWidgets
    <3> QED
      BY <2>3, <2>4, <2>5, <3>1, <3>2 DEF SectionIsShown
  <2>6. CASE p # Manager
    <3>1. AddPluginDock(p, widget) /\ ShowSection(0) /\ UNCHANGED <<pane, managerPage>>
      BY <2>2, <2>6
    <3>2. SectionIsShown'
      BY <1>0, <3>1, SectionFollows
    <3>3. docks[p] = Null
      BY <2>1 DEF DocksFollowWidgets
    <3>4. docks' = [docks EXCEPT ![p] = widget]
      BY <3>1, <3>3 DEF AddPluginDock
    <3>5. DocksFollowWidgets'
      BY <1>0, <2>3, <3>1, <3>4 DEF DocksFollowWidgets, Shapes
    <3> QED
      BY <1>0, <2>3, <2>4, <2>6, <3>1, <3>2, <3>5
  <2> QED
    BY <2>5, <2>6
<1>2. ASSUME NEW p \in Plugin, Unmount(p)
      PROVE  Places'
  <2>1. /\ p # Manager /\ mounted[p] # Null
        /\ mounted' = [mounted EXCEPT ![p] = Null]
        /\ UNCHANGED <<pane, section, managerPage, page>>
        /\ mounted[p] # pane => RemovePluginDock(mounted[p])
    BY <1>2 DEF Unmount
  <2>2. mounted[p] # pane
    BY <1>0, <2>1
  <2>3. \A q \in Plugin : docks[q] = mounted[p] => q = p
    BY <2>1, <2>2 DEF DocksFollowWidgets
  <2>4. docks' = [docks EXCEPT ![p] = Null]
    <3>1. docks[p] = mounted[p]
      BY <2>2 DEF DocksFollowWidgets
    <3> QED
      BY <2>1, <2>2, <2>3, <3>1 DEF RemovePluginDock
  <2>5. /\ mounted'[p] = Null /\ docks'[p] = Null
        /\ \A q \in Plugin \ {p} : mounted'[q] = mounted[q] /\ docks'[q] = docks[q]
    BY <1>0, <2>1, <2>4 DEF Shapes
  <2>6. DocksFollowWidgets'
    BY <2>1, <2>5 DEF DocksFollowWidgets
  <2> QED
    BY <1>0, <2>1, <2>5, <2>6 DEF SectionIsShown
<1>3. ASSUME NEW s \in Sections, ShowSection(s), UNCHANGED <<mounted, pane, managerPage, area>>
      PROVE  Places'
  <2>1. SectionIsShown'
    BY <1>3, SectionFollows
  <2> QED
    BY <1>3, <2>1 DEF DocksFollowWidgets, area
<1>4. CASE ToggleLayoutMode \/ RunToggle
  BY <1>4 DEF ToggleLayoutMode, RunToggle, area, DocksFollowWidgets, SectionIsShown
<1>5. CASE UNCHANGED vars
  BY <1>5 DEF vars, DocksFollowWidgets, SectionIsShown
<1> QED
  BY <1>0, <1>1, <1>2, <1>3, <1>4, <1>5 DEF Next, ActivateApp, SelectSection

\* As long as package_manager_ui is not unloaded, every mounted widget is in
\* its dock or in the pane, no dock outlives its widget although addresses are
\* used again, and the page on screen is the section's (MainContainer.cpp,
\* WorkspaceArea.cpp).
THEOREM EverythingShown == ManagerStays => (Spec => []WidgetsAreShown)
<1> SUFFICES ASSUME ManagerStays PROVE Spec => []WidgetsAreShown
  OBVIOUS
<1>1. Init => Places
  BY PlacesStart
<1>2. TypeOK /\ Places /\ [Next]_vars => Places'
  BY PlacesStep
<1>3. Places => WidgetsAreShown
  BY DEF Places
<1> QED
  BY <1>1, <1>2, <1>3, TypeCorrect, PTL DEF Spec
=============================================================================
