--------------------------------- MODULE Group ---------------------------------
(***************************************************************************)
(* src/group.cpp on src/AModule.cpp: a group of modules, perhaps with a      *)
(* drawer that is revealed under the pointer or by a click.                  *)
(*                                                                         *)
(* With always-visible-class the modules that carry it stay outside the      *)
(* drawer, but never none.  Modules update when they like; timers reveal     *)
(* after a delay and set the cursor once there is a window.                  *)
(***************************************************************************)
EXTENDS Naturals, FiniteSets

CONSTANTS GroupModules,     \* the modules of the group
          FirstModule,      \* the one that was added first
          MaxGroupNews      \* bound on updates and on what the pointer does

ASSUME FirstModuleAssumption == FirstModule \in GroupModules
ASSUME GroupAssumption == IsFiniteSet(GroupModules) /\ MaxGroupNews \in Nat

VARIABLES groupConfig,      \* alwaysVisible, emptyIfDrawerEmpty, clickToReveal, delay
          classed,          \* modules that carry the class
          notUpdated,       \* those whose class changed and whose update() has not run
          visibleModules,   \* modules that are not hidden
          outside,          \* modules in box; the others are in revealer_box
          emptyClass,       \* the group's style class "empty"
          revealed,         \* show_group() or hide_group()
          pointerIn, revealTimer, everEntered,
          windowKnown, cursorTimer, cursorSet,
          groupAlive, groupNews

groupModel == <<classed, notUpdated, visibleModules, outside, emptyClass>>
groupPointer == <<revealed, pointerIn, revealTimer, everEntered>>
groupCursor == <<windowKnown, cursorTimer, cursorSet>>
groupVars == <<groupConfig, groupModel, groupPointer, groupCursor, groupAlive, groupNews>>

InDrawer == GroupModules \ outside
GroupBudget == groupAlive /\ groupNews < MaxGroupNews /\ groupNews' = groupNews + 1

-----------------------------------------------------------------------------
\* Group::update(): the group is empty when nothing in it is visible, or nothing in the drawer.
EmptyNow(visible, out) ==
  IF groupConfig.emptyIfDrawerEmpty THEN visible \ out = {} ELSE visible = {}

\* hide_current_widget_if_inactive() and show_widget(), or hide_widget() unless the
\* module is the only one outside.
ManagedUnswapped(m) == \* mutant: the widget that was kept as the only one stays
  IF m \in classed THEN outside \cup {m}
  ELSE IF Cardinality(outside) <= 1 THEN outside ELSE outside \ {m}

ManageVisibility(m) ==
  IF m \in classed
  THEN (IF Cardinality(outside) = 1 THEN outside \cap classed ELSE outside) \cup {m}
  ELSE IF Cardinality(outside) <= 1 THEN outside ELSE outside \ {m}

\* A module learns something: its update() will set its class.
ClassChanges(m) ==
  /\ GroupBudget /\ groupConfig.alwaysVisible
  /\ classed' = IF m \in classed THEN classed \ {m} ELSE classed \cup {m}
  /\ notUpdated' = notUpdated \cup {m}
  /\ UNCHANGED <<groupConfig, visibleModules, outside, emptyClass, groupPointer, groupCursor, groupAlive>>

\* update() of a module shows or hides it, which the group hears, and then emits
\* signal_updated, to which the group listens for the sake of always-visible-class.
ModuleUpdated(m, show) ==
  /\ GroupBudget
  /\ notUpdated' = notUpdated \ {m}
  /\ visibleModules' = IF show THEN visibleModules \cup {m} ELSE visibleModules \ {m}
  /\ emptyClass' = IF visibleModules' # visibleModules THEN EmptyNow(visibleModules', outside) ELSE emptyClass
  /\ outside' = IF groupConfig.alwaysVisible THEN ManageVisibility(m) ELSE outside
  /\ UNCHANGED <<groupConfig, classed, groupPointer, groupCursor, groupAlive>>

-----------------------------------------------------------------------------
MouseEnter ==
  /\ GroupBudget /\ ~pointerIn /\ windowKnown
  /\ pointerIn' = TRUE /\ everEntered' = TRUE
  /\ revealTimer' = (~groupConfig.clickToReveal /\ groupConfig.delay)
  /\ revealed' = (revealed \/ (~groupConfig.clickToReveal /\ ~groupConfig.delay))
  /\ UNCHANGED <<groupConfig, groupModel, groupCursor, groupAlive>>

\* Going to a module inside the group is no leave.
MouseLeave ==
  /\ GroupBudget /\ pointerIn
  /\ pointerIn' = FALSE
  /\ revealTimer' = (revealTimer /\ groupConfig.clickToReveal)
  /\ revealed' = (revealed /\ groupConfig.clickToReveal)
  /\ UNCHANGED <<groupConfig, groupModel, groupCursor, groupAlive, everEntered>>

RevealTimeout ==
  /\ revealTimer
  /\ revealTimer' = FALSE /\ revealed' = TRUE
  /\ UNCHANGED <<groupConfig, groupModel, groupCursor, groupAlive, groupNews, pointerIn, everEntered>>

\* handleToggle() with click-to-reveal.
ToggleDrawer ==
  /\ GroupBudget /\ pointerIn /\ groupConfig.clickToReveal
  /\ revealed' = ~revealed
  /\ UNCHANGED <<groupConfig, groupModel, groupCursor, groupAlive, pointerIn, everEntered, revealTimer>>

-----------------------------------------------------------------------------
\* setCursor() tries every second until the event box has a window.
Realized ==
  /\ groupAlive /\ ~windowKnown
  /\ windowKnown' = TRUE
  /\ UNCHANGED <<groupConfig, groupModel, groupPointer, cursorTimer, cursorSet, groupAlive, groupNews>>

CursorTimeout ==
  /\ cursorTimer
  /\ cursorSet' = windowKnown /\ cursorTimer' = ~windowKnown
  /\ UNCHANGED <<groupConfig, groupModel, groupPointer, windowKnown, groupAlive, groupNews>>

\* ~Group() and ~AModule().
DestroyGroup ==
  /\ groupAlive
  /\ groupAlive' = FALSE
  /\ revealTimer' = FALSE /\ cursorTimer' = FALSE
  /\ UNCHANGED <<groupConfig, groupModel, revealed, pointerIn, everEntered, windowKnown, cursorSet, groupNews>>

GroupInit ==
  /\ groupConfig \in [alwaysVisible : BOOLEAN, emptyIfDrawerEmpty : BOOLEAN,
                      clickToReveal : BOOLEAN, delay : BOOLEAN]
  /\ classed = {} /\ notUpdated = {} /\ visibleModules = GroupModules
  /\ outside = {FirstModule}
  /\ emptyClass = EmptyNow(GroupModules, {FirstModule})
  /\ revealed \in BOOLEAN
  /\ pointerIn = FALSE /\ revealTimer = FALSE /\ everEntered = FALSE
  /\ windowKnown = FALSE /\ cursorTimer \in BOOLEAN /\ cursorSet = FALSE
  /\ groupAlive = TRUE /\ groupNews = 0

GroupNext ==
  \/ \E m \in GroupModules : ClassChanges(m) \/ \E show \in BOOLEAN : ModuleUpdated(m, show)
  \/ MouseEnter \/ MouseLeave \/ RevealTimeout \/ ToggleDrawer
  \/ Realized \/ CursorTimeout
  \/ DestroyGroup

GroupSpec == GroupInit /\ [][GroupNext]_groupVars

-----------------------------------------------------------------------------
GroupTypeOK ==
  /\ classed \cup notUpdated \cup visibleModules \cup outside \subseteq GroupModules
  /\ {emptyClass, revealed, pointerIn, revealTimer, everEntered, windowKnown, cursorTimer, cursorSet, groupAlive}
       \subseteq BOOLEAN
  /\ groupNews \in 0..MaxGroupNews

\* Whatever the order in which modules gain the class, lose it and update: once all have
\* updated, the drawer hides none that carries it, and outside are those that do, or one
\* that does not when none does (group.cpp:134-168).
DrawerShowsActive ==
  /\ outside # {}
  /\ groupConfig.alwaysVisible /\ notUpdated = {} =>
       IF classed = {} THEN Cardinality(outside) = 1 ELSE outside = classed

\* The drawer is open only under the pointer, and no timer opens it, nor touches the group,
\* after the pointer or the group has gone (group.cpp:108-114, 176-217, AModule.cpp:101-106).
DrawerFollowsPointer ==
  /\ ~groupConfig.clickToReveal /\ everEntered /\ ~pointerIn => ~revealed /\ ~revealTimer
  /\ ~groupAlive => ~revealTimer /\ ~cursorTimer

\* man/waybar.5.scd.in, empty-if-drawer-empty: the group is empty when its drawer is.  A module
\* that always-visible-class moves into or out of the drawer does not make update() run.
EmptyClassAgrees == emptyClass = EmptyNow(visibleModules, outside)
=============================================================================
