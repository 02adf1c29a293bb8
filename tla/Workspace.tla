------------------------------ MODULE Workspace ------------------------------
(***************************************************************************)
(* Where a loaded plugin's widget is shown: the docks of WorkspaceArea and *)
(* the content stack of MainContainer.                                     *)
(*                                                                         *)
(* UIPluginManager announces each widget that appears or is about to go    *)
(* (module PluginLifecycle); MainContainer puts package_manager_ui in a    *)
(* page of its own and everything else in a dock.  Widgets are addresses:  *)
(* one that was freed can be handed out again, and m_pmuiWidget and        *)
(* m_firstDock are plain pointers.                                         *)
(*                                                                         *)
(* Abstracted: geometry, icons, styling, which tab is in front, overlay.   *)
(***************************************************************************)
EXTENDS Naturals, Sequences, SequencesExt

CONSTANTS
  App,          \* UI plugins other than the package manager's
  Manager,      \* package_manager_ui
  Address,      \* where widgets can live
  MaxToggles,   \* bound: layout switches queued at once
  ManagerStays  \* TRUE: package_manager_ui is never unloaded

Plugin == App \cup {Manager}
Null == 0
None == "none"
Pages == 0..2
Sections == 0..3

ASSUME WorkspaceAssumption ==
    /\ Manager \notin App /\ None \notin Plugin
    /\ Null \notin Address /\ Address \subseteq Nat
    /\ MaxToggles \in Nat /\ ManagerStays \in BOOLEAN

VARIABLES
  mounted,     \* m_uiModuleWidgets: plugin -> its widget
  pane,        \* m_pmuiWidget
  managerPage, \* what the stack has at index 2: "placeholder", "widget", "nothing"
  section,     \* MainUIBackend::m_currentActiveSectionIndex
  page,        \* the content stack's current index
  docks,       \* m_docks: plugin -> the widget in its dock
  dockOrder,   \* m_dockOrder
  firstDock,   \* m_firstDock
  phantom,     \* m_phantomDock exists
  pinned,      \* docks that cannot be dragged
  grouped,     \* QMainWindow::GroupedDragging
  sideBySide,  \* m_sideBySide
  toggles      \* layout switches queued on the event loop

vars == <<mounted, pane, managerPage, section, page, docks, dockOrder, firstDock, phantom,
          pinned, grouped, sideBySide, toggles>>
area == <<docks, dockOrder, firstDock, phantom, pinned, grouped, sideBySide>>

Live   == {mounted[p] : p \in Plugin} \ {Null}
Docked == {p \in Plugin : docks[p] # Null}

-----------------------------------------------------------------------------
(* WorkspaceArea *)

RemovePhantom(first) ==
    /\ phantom' = FALSE
    /\ pinned' = IF phantom THEN pinned \ {first} ELSE pinned
    /\ grouped' = (grouped \/ phantom)

\* A tab bar only shows from the second tab on, so a lone dock gets an
\* invisible companion, and must not be dragged away from it.
EnsurePhantomTab_InGridToo(order, first, pins) ==
    IF ~phantom /\ first # None /\ Len(order) = 1
      THEN phantom' = TRUE /\ pinned' = pins \cup {first} /\ grouped' = FALSE
      ELSE UNCHANGED <<phantom, grouped>> /\ pinned' = pins

EnsurePhantomTab(order, first, pins) ==
    IF ~sideBySide /\ ~phantom /\ first # None /\ Len(order) = 1
      THEN phantom' = TRUE /\ pinned' = pins \cup {first} /\ grouped' = FALSE
      ELSE UNCHANGED <<phantom, grouped>> /\ pinned' = pins

AddPluginDock(p, widget) ==
    \/ /\ docks[p] # Null
       /\ UNCHANGED area
    \/ /\ docks[p] = Null
       /\ docks' = [docks EXCEPT ![p] = widget]
       /\ dockOrder' = Append(dockOrder, p)
       /\ firstDock' = IF firstDock = None THEN p ELSE firstDock
       /\ UNCHANGED sideBySide
       /\ IF firstDock # None /\ ~sideBySide THEN RemovePhantom(firstDock)
                                             ELSE EnsurePhantomTab(dockOrder', firstDock', pinned)

\* The dock that holds the widget, found by the widget's address.  A plugin is
\* in the order once (LayoutOK), so removeAll removes one.
RemovePluginDock_KeepsEntry(widget) ==
    \/ /\ \A p \in Plugin : docks[p] # widget
       /\ UNCHANGED area
    \/ \E p \in Plugin :
          /\ docks[p] = widget
          /\ UNCHANGED docks
          /\ dockOrder' = RemoveFirst(dockOrder, p)
          /\ firstDock' = IF firstDock # p THEN firstDock
                          ELSE IF dockOrder' = <<>> THEN None ELSE Head(dockOrder')
          /\ UNCHANGED sideBySide
          /\ IF dockOrder' = <<>> THEN RemovePhantom(p)
             ELSE EnsurePhantomTab(dockOrder', firstDock', pinned \ {p})

RemovePluginDock(widget) ==
    \/ /\ \A p \in Plugin : docks[p] # widget
       /\ UNCHANGED area
    \/ \E p \in Plugin :
          /\ docks[p] = widget
          /\ docks' = [docks EXCEPT ![p] = Null]
          /\ dockOrder' = RemoveFirst(dockOrder, p)
          /\ firstDock' = IF firstDock # p THEN firstDock
                          ELSE IF dockOrder' = <<>> THEN None ELSE Head(dockOrder')
          /\ UNCHANGED sideBySide
          /\ IF dockOrder' = <<>> THEN RemovePhantom(p)
             ELSE EnsurePhantomTab(dockOrder', firstDock', pinned \ {p})

\* Ctrl+Shift+L; the switch itself runs from the event loop.
ToggleLayoutMode ==
    /\ toggles < MaxToggles /\ toggles' = toggles + 1
    /\ UNCHANGED <<mounted, pane, managerPage, section, page, area>>

RunToggle ==
    /\ toggles > 0 /\ toggles' = toggles - 1
    /\ IF Len(dockOrder) < 2
         THEN UNCHANGED <<sideBySide, grouped, firstDock>>
         ELSE sideBySide' = ~sideBySide /\ grouped' = TRUE /\ firstDock' = Head(dockOrder)
    /\ UNCHANGED <<mounted, pane, managerPage, section, page, docks, dockOrder, phantom, pinned>>

-----------------------------------------------------------------------------
(* MainContainer *)

PageOf(s) == CASE s = 0 -> 0 [] s = 2 -> 2 [] OTHER -> 1

\* onViewIndexChanged: an index the stack does not have is ignored.  Section 2
\* also asks for the manager when there is no pane (a Mount may follow).
ShowSection(s) ==
    IF s = section THEN UNCHANGED <<section, page>>
    ELSE /\ section' = s
         /\ page' = IF PageOf(s) = 2 /\ managerPage = "nothing" THEN page ELSE PageOf(s)

SelectSection(s) ==
    /\ s # section
    /\ ShowSection(s)
    /\ UNCHANGED <<mounted, pane, managerPage, area, toggles>>

\* onPluginLoaded: pluginWindowRequested, then navigateToApps.  The manager
\* takes the place of its placeholder and does not steal the view.
Mount(p) ==
    /\ mounted[p] = Null
    /\ \E widget \in Address \ Live :
          /\ mounted' = [mounted EXCEPT ![p] = widget]
          /\ \/ /\ p = Manager /\ pane = Null
                /\ pane' = widget
                /\ managerPage' = "widget"
                /\ UNCHANGED <<section, page, area>>
             \/ /\ p # Manager \/ pane # Null
                /\ AddPluginDock(p, widget)
                /\ ShowSection(0)
                /\ UNCHANGED <<pane, managerPage>>
    /\ UNCHANGED toggles

\* activateApp
ActivateApp(p) ==
    /\ p \in App /\ mounted[p] # Null
    /\ ShowSection(0)
    /\ UNCHANGED <<mounted, pane, managerPage, area, toggles>>

\* unloadUiModuleImpl, teardownUiPluginWidget: pluginWindowRemoveRequested, then
\* the widget goes, and takes the page it fills out of the stack.
Unmount(p) ==
    /\ mounted[p] # Null
    /\ p = Manager => ~ManagerStays
    /\ mounted' = [mounted EXCEPT ![p] = Null]
    /\ IF mounted[p] = pane THEN UNCHANGED area ELSE RemovePluginDock(mounted[p])
    /\ IF p = Manager /\ docks[p] = Null
         THEN managerPage' = "nothing" /\ page' = IF page = 2 THEN 1 ELSE page
         ELSE UNCHANGED <<managerPage, page>>
    /\ UNCHANGED <<pane, section, toggles>>

-----------------------------------------------------------------------------
Init ==
    /\ mounted = [p \in Plugin |-> Null]
    /\ pane = Null /\ managerPage = "placeholder"
    /\ section = 0 /\ page = 0
    /\ docks = [p \in Plugin |-> Null] /\ dockOrder = <<>> /\ firstDock = None
    /\ phantom = FALSE /\ pinned = {} /\ grouped = TRUE
    /\ sideBySide = FALSE /\ toggles = 0

Next ==
    \/ \E p \in Plugin : Mount(p) \/ Unmount(p) \/ ActivateApp(p)
    \/ \E s \in Sections : SelectSection(s)
    \/ ToggleLayoutMode \/ RunToggle

Spec == Init /\ [][Next]_vars

-----------------------------------------------------------------------------
(* Properties *)

Shapes ==
    /\ mounted \in [Plugin -> Address \cup {Null}]
    /\ pane \in Address \cup {Null}
    /\ managerPage \in {"placeholder", "widget", "nothing"}
    /\ section \in Sections /\ page \in Pages
    /\ docks \in [Plugin -> Address \cup {Null}]
    /\ dockOrder \in Seq(Plugin)
    /\ firstDock \in Plugin \cup {None}
    /\ phantom \in BOOLEAN /\ grouped \in BOOLEAN /\ sideBySide \in BOOLEAN
    /\ pinned \in SUBSET Plugin
    /\ toggles \in 0..MaxToggles

\* The phantom is there exactly when one dock stands alone under tabs; only
\* then is that dock pinned and group dragging off.  The anchor for the next
\* dock is one that exists.
LayoutOK ==
    /\ ToSet(dockOrder) = Docked /\ IsInjective(dockOrder)
    /\ firstDock = None <=> dockOrder = <<>>
    /\ firstDock # None => firstDock \in Docked
    /\ phantom <=> Len(dockOrder) = 1 /\ ~sideBySide
    /\ pinned = IF phantom THEN {firstDock} ELSE {}
    /\ grouped <=> ~phantom

\* Shapes, and the layout: however docks come and go and whenever a queued
\* switch between tabs and grid runs, the phantom tab that keeps a lone dock's
\* tab bar visible is there when it is needed and only then, so no dock is left
\* without a tab bar, undraggable, or anchored to one that is gone.
TypeOK == Shapes /\ LayoutOK

\* Every widget of a loaded plugin sits in exactly one place, and no dock
\* outlives its widget.
DocksFollowWidgets ==
    \A p \in Plugin : docks[p] = IF mounted[p] = pane THEN Null ELSE mounted[p]

\* The stack shows the page of the selected section: 2 is package_manager_ui, or
\* its "Loading" placeholder (src/MainContainer.cpp:365-368).
SectionIsShown == page = PageOf(section)

\* Every loaded plugin's widget is where the user can get at it and no dock
\* shows a widget that was destroyed; the page on screen is that of the section
\* the sidebar marks.
WidgetsAreShown == DocksFollowWidgets /\ SectionIsShown
=============================================================================
