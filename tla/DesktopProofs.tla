---------------------------- MODULE DesktopProofs ----------------------------
(***************************************************************************)
(* The bars and what is in them, for every set of modules, monitors and      *)
(* items and every configuration of sway: a group's drawer, the suspension   *)
(* of modules, the visibility sway decides, the bars of each monitor, the    *)
(* tray.                                                                     *)
(***************************************************************************)
EXTENDS MCDesktop, FiniteSetTheorems, TLAPS

-----------------------------------------------------------------------------
\* Group.  What a module whose update() has run since its class changed has come to: with
\* the class it is outside the drawer; without, it is inside or the only one outside.
Settled(m) ==
  /\ m \in classed => m \in outside
  /\ m \notin classed /\ m \in outside => outside = {m}

\* No timer waits to reveal the drawer unless the pointer is over the group.
TimerUnderPointer ==
  /\ revealTimer => pointerIn /\ ~groupConfig.clickToReveal
  /\ pointerIn => everEntered

GroupInv ==
  /\ outside # {} /\ outside \subseteq GroupModules
  /\ groupConfig.alwaysVisible => \A m \in GroupModules \ notUpdated : Settled(m)
  /\ classed \subseteq GroupModules
  /\ TimerUnderPointer /\ DrawerFollowsPointer

LEMMA SmallSets ==
  ASSUME NEW S \in SUBSET GroupModules
  PROVE  /\ Cardinality(S) \in Nat
         /\ Cardinality(S) = 1 <=> \E x : S = {x}
         /\ Cardinality(S) = 0 <=> S = {}
<1>1. IsFiniteSet(S)
  BY GroupAssumption, FS_Subset DEF GroupAssumption
<1> QED  BY <1>1, FS_CardinalityType, FS_Singleton, FS_EmptySet

\* The only widget outside is swapped, and never taken away.
LEMMA ManagedSettles ==
  ASSUME outside # {}, outside \subseteq GroupModules, classed \subseteq GroupModules,
         NEW m \in GroupModules, outside' = ManageVisibility(m), UNCHANGED classed
  PROVE  /\ outside' # {} /\ outside' \subseteq GroupModules
         /\ Settled(m)'
         /\ \A n \in GroupModules : Settled(n) => Settled(n)'
<1>0. /\ Cardinality(outside) \in Nat /\ Cardinality(outside) # 0
      /\ Cardinality(outside) = 1 <=> \E x : outside = {x}
  BY SmallSets
<1>1. CASE m \in classed /\ Cardinality(outside) = 1
  <2>1. PICK x : outside = {x}
    BY <1>0, <1>1
  <2>2. outside' = (outside \cap classed) \cup {m}
    BY <1>1 DEF ManageVisibility
  <2> QED  BY <1>1, <2>1, <2>2 DEF Settled
<1>2. CASE m \in classed /\ Cardinality(outside) # 1
  <2>1. outside' = outside \cup {m}
    BY <1>2 DEF ManageVisibility
  <2>2. \A n : outside # {n}
    BY <1>0, <1>2
  <2> QED  BY <1>2, <2>1, <2>2 DEF Settled
<1>3. CASE m \notin classed /\ Cardinality(outside) = 1
  <2>1. outside' = outside
    BY <1>0, <1>3 DEF ManageVisibility
  <2>2. PICK x : outside = {x}
    BY <1>0, <1>3
  <2> QED  BY <1>3, <2>1, <2>2 DEF Settled
<1>4. CASE m \notin classed /\ Cardinality(outside) # 1
  <2>1. outside' = outside \ {m}
    BY <1>0, <1>4 DEF ManageVisibility
  <2>2. \A n : outside # {n}
    BY <1>0, <1>4
  <2>3. PICK x \in outside : x # m
    <3>1. outside # {m}
      BY <2>2
    <3> QED  BY <3>1
  <2> QED  BY <1>4, <2>1, <2>2, <2>3 DEF Settled
<1> QED  BY <1>1, <1>2, <1>3, <1>4

LEMMA GroupKeeps == GroupInv /\ [GroupNext]_groupVars => GroupInv'
<1> SUFFICES ASSUME GroupInv, [GroupNext]_groupVars PROVE GroupInv'
  OBVIOUS
<1>1. ASSUME NEW m \in GroupModules, ClassChanges(m) PROVE GroupInv'
  BY <1>1 DEF ClassChanges, GroupBudget, GroupInv, Settled, TimerUnderPointer, DrawerFollowsPointer, groupPointer, groupCursor
<1>2. ASSUME NEW m \in GroupModules, NEW show \in BOOLEAN, ModuleUpdated(m, show) PROVE GroupInv'
  <2>1. TimerUnderPointer' /\ DrawerFollowsPointer'
    BY <1>2 DEF ModuleUpdated, GroupBudget, GroupInv, TimerUnderPointer, DrawerFollowsPointer, groupPointer, groupCursor
  <2>2. /\ classed' = classed /\ notUpdated' = notUpdated \ {m} /\ groupConfig' = groupConfig
        /\ outside' = IF groupConfig.alwaysVisible THEN ManageVisibility(m) ELSE outside
    BY <1>2 DEF ModuleUpdated
  <2>3. CASE groupConfig.alwaysVisible
    <3>1. /\ outside' # {} /\ outside' \subseteq GroupModules
          /\ Settled(m)'
          /\ \A n \in GroupModules : Settled(n) => Settled(n)'
      BY <2>2, <2>3, ManagedSettles DEF GroupInv
    <3> QED  BY <2>1, <2>2, <2>3, <3>1 DEF GroupInv
  <2>4. CASE ~groupConfig.alwaysVisible
    BY <2>1, <2>2, <2>4 DEF GroupInv
  <2> QED  BY <2>3, <2>4
<1>3. CASE MouseEnter \/ MouseLeave \/ RevealTimeout \/ ToggleDrawer \/ Realized \/ CursorTimeout \/ DestroyGroup
  <2>1. UNCHANGED <<groupConfig, groupModel>>
    BY <1>3 DEF MouseEnter, MouseLeave, RevealTimeout, ToggleDrawer, Realized, CursorTimeout, DestroyGroup
  <2>2. TimerUnderPointer' /\ DrawerFollowsPointer'
    <3> USE DEF GroupBudget, GroupInv, TimerUnderPointer, DrawerFollowsPointer, groupPointer, groupCursor
    <3>1. CASE MouseEnter  BY <3>1 DEF MouseEnter
    <3>2. CASE MouseLeave  BY <3>2 DEF MouseLeave
    <3>3. CASE RevealTimeout  BY <3>3 DEF RevealTimeout
    <3>4. CASE ToggleDrawer  BY <3>4 DEF ToggleDrawer
    <3>5. CASE Realized  BY <3>5 DEF Realized
    <3>6. CASE CursorTimeout  BY <3>6 DEF CursorTimeout
    <3>7. CASE DestroyGroup  BY <3>7 DEF DestroyGroup
    <3> QED  BY <1>3, <3>1, <3>2, <3>3, <3>4, <3>5, <3>6, <3>7
  <2> QED  BY <2>1, <2>2 DEF GroupInv, Settled, groupModel
<1>4. CASE UNCHANGED groupVars
  BY <1>4 DEF groupVars, groupModel, groupPointer, groupCursor, GroupInv, Settled, TimerUnderPointer, DrawerFollowsPointer
<1> QED  BY <1>1, <1>2, <1>3, <1>4 DEF GroupNext

LEMMA GroupInvImplies == GroupInv => DrawerFollows
<1> SUFFICES ASSUME GroupInv PROVE DrawerFollows
  OBVIOUS
<1>1. ASSUME groupConfig.alwaysVisible, notUpdated = {}
      PROVE  IF classed = {} THEN Cardinality(outside) = 1 ELSE outside = classed
  <2>1. /\ \A m \in GroupModules : Settled(m)
        /\ outside # {} /\ outside \subseteq GroupModules /\ classed \subseteq GroupModules
    BY <1>1 DEF GroupInv
  <2>2. CASE classed = {}
    <3>1. PICK x \in outside : TRUE
      BY <2>1
    <3>2. outside = {x}
      BY <2>1, <2>2 DEF Settled
    <3>3. Cardinality(outside) = 1
      BY <2>1, <3>2, SmallSets
    <3> QED  BY <2>2, <3>3
  <2>3. CASE classed # {}
    BY <2>1, <2>3 DEF Settled
  <2> QED  BY <2>2, <2>3
<1> QED  BY <1>1 DEF GroupInv, DrawerFollows, DrawerShowsActive

LEMMA GroupInvariant == GroupSpec => []GroupInv
<1>1. GroupInit => GroupInv
  BY FirstModuleAssumption DEF FirstModuleAssumption, GroupInit, GroupInv, Settled, TimerUnderPointer, DrawerFollowsPointer
<1> QED  BY <1>1, GroupKeeps, PTL DEF GroupSpec

\* For any number of modules, that gain and lose the class and update in any order: once all
\* have updated the drawer hides none that carries it, and never all; it is open only under
\* the pointer, and no timer outlives the group (group.cpp:108-217, AModule.cpp:101-106).
THEOREM DrawerAlwaysFollows == GroupSpec => []DrawerFollows
BY GroupInvariant, GroupInvImplies, PTL

-----------------------------------------------------------------------------
\* No module is suspended before the window was mapped for the first time.
AwakeAtFirst == barPhase = "making" => suspendedModules = {}

\* Only the modules of the bar, and only those with disable-on-sleep, are suspended.
OnlySleepers == suspendedModules \subseteq ModuleSet \cap Sleepers

\* The modules go after the destructor has begun, and then the window is not listened to.
FreedLate == barPhase \in {"making", "alive"} => barFreed = {}
Unconnected == barPhase \in {"freeing", "closing", "gone"} => ~mapConnected

BarInv ==
  /\ barPhase \in {"making", "alive", "freeing", "closing", "gone"}
  /\ mapConnected \in BOOLEAN
  /\ AwakeAtFirst /\ OnlySleepers /\ FreedLate /\ Unconnected /\ SuspendFollowsMap

\* What sway does, and what the bar's window shows of it, leaves the modules alone.
LEMMA VisibilityKeeps == BarInv /\ UNCHANGED barLife => BarInv'
  BY DEF BarInv, AwakeAtFirst, OnlySleepers, FreedLate, Unconnected, SuspendFollowsMap, ModuleSet, barLife

\* A module is made while none sleeps.
LEMMA MakingKeeps == ASSUME BarInv, NEW made \in BOOLEAN, GetModule(made) PROVE BarInv'
<1>1. barPhase = "making" /\ suspendedModules = {} /\ barFreed = {}
  BY DEF GetModule, BarInv, AwakeAtFirst, FreedLate
<1>2. UNCHANGED <<barPhase, barFreed, mapConnected, suspendedModules, barTouched>>
  BY DEF GetModule
<1> QED
  BY <1>1, <1>2 DEF BarInv, AwakeAtFirst, OnlySleepers, FreedLate, Unconnected, SuspendFollowsMap

\* Map, unmap and destruction.
LEMMA LifeKeeps ==
  BarInv /\ (ShowAll \/ MapChanges \/ DestroyBar \/ FreeBarModules \/ CloseWindow) => BarInv'
<1> SUFFICES ASSUME BarInv, ShowAll \/ MapChanges \/ DestroyBar \/ FreeBarModules \/ CloseWindow PROVE BarInv'
  OBVIOUS
<1> USE DEF BarInv, AwakeAtFirst, OnlySleepers, FreedLate, Unconnected, SuspendFollowsMap
<1>1. ModuleSet' = ModuleSet
  BY DEF ShowAll, MapChanges, DestroyBar, FreeBarModules, CloseWindow, ModuleSet
<1>2. CASE ShowAll  BY <1>1, <1>2 DEF ShowAll, ToggleSuspend
<1>3. CASE MapChanges
  <2>1. barFreed = {} /\ ~barTouched'
    BY <1>3 DEF MapChanges, ToggleSuspend
  <2>2. suspendedModules' = IF barMapped THEN ModuleSet \cap Sleepers ELSE {}
    BY <1>3 DEF MapChanges, ToggleSuspend
  <2> QED  BY <1>1, <1>3, <2>1, <2>2 DEF MapChanges
<1>4. CASE DestroyBar  BY <1>1, <1>4 DEF DestroyBar
<1>5. CASE FreeBarModules  BY <1>1, <1>5 DEF FreeBarModules
<1>6. CASE CloseWindow
  <2>1. ~mapConnected
    BY <1>6 DEF CloseWindow
  <2>2. UNCHANGED <<suspendedModules, barTouched, mapConnected>>
    BY <1>6, <2>1 DEF CloseWindow
  <2> QED  BY <1>1, <1>6, <2>1, <2>2 DEF CloseWindow
<1> QED  BY <1>2, <1>3, <1>4, <1>5, <1>6

LEMMA BarInvariant == BarSpec => []BarInv
<1>1. BarInit => BarInv
  BY DEF BarInit, BarInv, AwakeAtFirst, OnlySleepers, FreedLate, Unconnected, SuspendFollowsMap
<1>2. BarInv /\ [BarNext]_barVars => BarInv'
  <2> SUFFICES ASSUME BarInv, [BarNext]_barVars PROVE BarInv'
    OBVIOUS
  <2>1. CASE UNCHANGED barVars  BY <2>1, VisibilityKeeps DEF barVars
  <2>2. CASE ModifierChanges \/ BindingRuns \/ BindingModeChanges \/ (\E w \in UrgentWs : UrgencyChanges(w))
             \/ (\E c \in BarConfigs : BarConfigChanges(c)) \/ OtherBarChanges
    BY <2>2, VisibilityKeeps
    DEF ModifierChanges, BindingRuns, BindingModeChanges, UrgencyChanges, BarConfigChanges, OtherBarChanges, BarNews
  <2>3. CASE \/ OnBarState \/ OnBarConfig \/ OnOtherBar \/ OnBinding \/ OnMode \/ OnWorkspace \/ OnCmd \/ ClearNoAction
             \/ OnVisibilityUpdate \/ OnModeUpdate \/ OnUrgencyUpdate \/ OnConfigUpdate
    <3>1. UNCHANGED barLife
      BY <2>3 DEF OnBarState, OnBarConfig, OnOtherBar, OnBinding, OnMode, OnWorkspace, OnIpcEvent, OnCmd, ClearNoAction,
                  IpcStep, OnVisibilityUpdate, OnModeUpdate, OnUrgencyUpdate, OnConfigUpdate, BarIpcUpdate
    <3> QED  BY <3>1, VisibilityKeeps
  <2>4. CASE \E value \in BOOLEAN : SetVisible(value)  BY <2>4, VisibilityKeeps DEF SetVisible
  <2>5. CASE \E made \in BOOLEAN : GetModule(made)  BY <2>5, MakingKeeps
  <2>6. CASE ShowAll \/ MapChanges \/ DestroyBar \/ FreeBarModules \/ CloseWindow  BY <2>6, LifeKeeps
  <2> QED  BY <2>1, <2>2, <2>3, <2>4, <2>5, <2>6 DEF BarNext
<1> QED  BY <1>1, <1>2, PTL DEF BarSpec

\* Modules sleep exactly while their bar's window is unmapped, and none is called once it is
\* freed: neither by the unmap that destroying the window emits (bar.cpp:354-359, 759-774).
THEOREM SuspendedWhileUnmapped == BarSpec => []SuspendFollowsMap
<1>1. BarInv => SuspendFollowsMap  BY DEF BarInv
<1> QED  BY <1>1, BarInvariant, PTL

-----------------------------------------------------------------------------
\* Bar and sway.  What is on the wire, and what the worker and the main thread will have made
\* of the flags once they have read each event on it.
BarEvents ==
  [name : {"bar_state_update"}, held : BOOLEAN, used : BOOLEAN] \cup [name : {"binding", "other bar"}]
  \cup [name : {"mode"}, set : BOOLEAN] \cup [name : {"workspace"}, urgent : BOOLEAN]
  \cup [name : {"barconfig_update"}, config : BarConfigs]

\* The i-th event on the wire w is its last of that name; w has none of that name; w has one,
\* and the last of them is in G.
IsLast(w, name, i) ==
  /\ i \in 1..Len(w) /\ w[i].name = name
  /\ \A j \in 1..Len(w) : j > i => w[j].name # name
Absent(w, name) == \A j \in 1..Len(w) : w[j].name # name
Said(w, name, G) == \E i \in 1..Len(w) : IsLast(w, name, i) /\ w[i] \in G

\* When a queue has been handled, its flag says what its last signal said.
Held(held) == [name : {"bar_state_update"}, held : {held}, used : BOOLEAN]
ModifierTold ==
  IF signalVisible = <<>> THEN visibleByModifier = modifierHeld
  ELSE signalVisible[Len(signalVisible)].held = modifierHeld
Set(set) == [name : {"mode"}, set : {set}]
ModeTold ==
  IF signalMode = <<>> THEN visibleByMode => bindingMode ELSE signalMode[Len(signalMode)] = bindingMode
NotUrgent == [name : {"workspace"}, urgent : {FALSE}]
UrgencyTold ==
  \/ "urgency" \in missed \/ ipcPc = "ask"
  \/ IF signalUrgency = <<>> THEN visibleByUrgency = FALSE ELSE signalUrgency[Len(signalUrgency)] = FALSE
Config(c) == [name : {"barconfig_update"}, config : {c}]
ConfigTold ==
  IF signalConfig = <<>> THEN barConfig = swayConfig ELSE signalConfig[Len(signalConfig)] = swayConfig

\* With the wire read to its end and the queues handled the flags say what is so in sway.
ModifierKnown ==
  \/ "modifier" \in missed /\ modifierHeld
  \/ Said(barWire, "bar_state_update", Held(modifierHeld))
  \/ Absent(barWire, "bar_state_update") /\ ModifierTold
ModeKnown ==
  \/ Said(barWire, "mode", Set(bindingMode))
  \/ Absent(barWire, "mode") /\ ModeTold
UrgencyKnown ==
  urgentNow = {} =>
    \/ Said(barWire, "workspace", NotUrgent)
    \/ Absent(barWire, "workspace") /\ UrgencyTold
ConfigKnown ==
  \/ "config" \in missed
  \/ Said(barWire, "barconfig_update", Config(swayConfig))
  \/ Absent(barWire, "barconfig_update") /\ ConfigTold

\* The bar shows what the flags say, unless a signal said otherwise.
FlagsDecide == signalled \/ barMode = IpcMode(barConfig, visibleByModifier, visibleByMode, visibleByUrgency)

\* What was done with the key after its last press among the first k - 1 events will have
\* cleared modifier_no_action_, or has, with no press left to set it again.
Action(e) == e.name \in {"binding", "mode", "workspace"}
Press(e) == e.name = "bar_state_update" /\ e.held
Acted(w, k) ==
  \E j \in 1..Len(w) : j < k /\ Action(w[j]) /\ \A h \in 1..Len(w) : j < h /\ h < k => ~Press(w[h])
Unpressed(w, k) == \A h \in 1..Len(w) : h < k => ~Press(w[h])
Cleared == "press" \in missed \/ ipcPc # "recv" \/ (~modifierNoAction /\ ~PressQueued)
ActedBy(k) == Acted(barWire, k) \/ (Cleared /\ Unpressed(barWire, k))
UsedKnown ==
  /\ modifierUsed => ActedBy(Len(barWire) + 1)
  /\ \A i \in 1..Len(barWire) :
       barWire[i].name = "bar_state_update" /\ ~barWire[i].held /\ barWire[i].used => ActedBy(i)

\* The same of a release that is queued: it finds the flag cleared.
QueuedKnown ==
  \A j \in 1..Len(signalVisible) :
    ~signalVisible[j].held /\ signalVisible[j].used =>
      \/ "press" \in missed
      \/ ~modifierNoAction /\ \A h \in 1..Len(signalVisible) : h < j => ~signalVisible[h].held

VisibleSignals == [held : BOOLEAN, used : BOOLEAN]
SwayTypeOK ==
  /\ barWire \in Seq(BarEvents) /\ ipcPc \in {"recv", "ask", "clear"} /\ missed \subseteq Excuses
  /\ signalVisible \in Seq(VisibleSignals) /\ signalMode \in Seq(BOOLEAN)
  /\ signalUrgency \in Seq(BOOLEAN) /\ signalConfig \in Seq(BarConfigs)
  /\ modifierHeld \in BOOLEAN /\ modifierUsed \in BOOLEAN /\ bindingMode \in BOOLEAN /\ urgentNow \subseteq UrgentWs
  /\ barConfig \in BarConfigs /\ swayConfig \in BarConfigs
  /\ visibleByModifier \in BOOLEAN /\ visibleByMode \in BOOLEAN /\ visibleByUrgency \in BOOLEAN
  /\ modifierNoAction \in BOOLEAN /\ signalled \in BOOLEAN
  /\ modifierReset \in {"press", "release"}

SwayInv ==
  /\ SwayTypeOK
  /\ ModifierKnown /\ ModeKnown /\ UrgencyKnown /\ ConfigKnown /\ FlagsDecide
  /\ UsedKnown /\ QueuedKnown /\ ReleaseSparesUsedModifier

\* The names tell the events apart.
LEMMA EventFields ==
  ASSUME NEW e \in BarEvents
  PROVE  /\ e.name \in {"bar_state_update", "binding", "other bar", "mode", "workspace", "barconfig_update"}
         /\ e.name = "bar_state_update" => e.held \in BOOLEAN /\ e.used \in BOOLEAN /\ e \in Held(e.held)
         /\ e.name = "mode" => e.set \in BOOLEAN /\ e \in Set(e.set)
         /\ e.name = "workspace" => e.urgent \in BOOLEAN /\ (e \in NotUrgent <=> e.urgent = FALSE)
         /\ e.name = "barconfig_update" => e.config \in BarConfigs /\ e \in Config(e.config)
<1>1. CASE e \in [name : {"bar_state_update"}, held : BOOLEAN, used : BOOLEAN]
  BY <1>1 DEF Held
<1>2. CASE e \in [name : {"binding", "other bar"}]
  BY <1>2
<1>3. CASE e \in [name : {"mode"}, set : BOOLEAN]
  BY <1>3 DEF Set
<1>4. CASE e \in [name : {"workspace"}, urgent : BOOLEAN]
  BY <1>4 DEF NotUrgent
<1>5. CASE e \in [name : {"barconfig_update"}, config : BarConfigs]
  BY <1>5 DEF Config
<1> QED  BY <1>1, <1>2, <1>3, <1>4, <1>5 DEF BarEvents

\* What a set of events of one name says.
LEMMA GoodFields ==
  /\ \A b : \A e \in Held(b) : e.held = b
  /\ \A b : \A e \in Set(b) : e.set = b
  /\ \A c : \A e \in Config(c) : e.config = c
BY DEF Held, Set, Config

\* v is w with the event e put on it; v is w with its first event taken off.
Appended(v, w, e) ==
  /\ Len(w) \in Nat /\ Len(v) = Len(w) + 1 /\ v[Len(v)] = e
  /\ \A i \in 1..Len(w) : v[i] = w[i] /\ i \in 1..Len(v)
  /\ \A i \in 1..Len(v) : i \in 1..Len(w) \/ i = Len(v)
Taken(v, w) ==
  /\ Len(v) \in Nat /\ Len(w) = Len(v) + 1
  /\ \A i \in 1..Len(v) : i + 1 \in 1..Len(w) /\ v[i] = w[i + 1]

\* An event is put on the wire.
LEMMA WireAppend ==
  ASSUME NEW w \in Seq(BarEvents), NEW e \in BarEvents, NEW v, v = Append(w, e)
  PROVE  /\ Appended(v, w, e) /\ v \in Seq(BarEvents)
         /\ \A G : e \in G => Said(v, e.name, G)
         /\ \A n : n # e.name => /\ Absent(w, n) => Absent(v, n)
                                /\ \A G : Said(w, n, G) => Said(v, n, G)
<1>1. /\ v \in Seq(BarEvents) /\ Len(v) = Len(w) + 1 /\ v[Len(v)] = e
      /\ \A i \in 1..Len(w) : v[i] = w[i]
      /\ Len(w) \in Nat
  OBVIOUS
<1>2. /\ \A j \in 1..Len(v) : j \in 1..Len(w) \/ j = Len(v)
      /\ \A i \in 1..Len(w) : v[i] = w[i] /\ i \in 1..Len(v)
  BY <1>1
<1>3. IsLast(v, e.name, Len(v)) /\ Len(v) \in 1..Len(v)
  BY <1>1 DEF IsLast
<1>4. ASSUME NEW n, n # e.name, Absent(w, n) PROVE Absent(v, n)
  BY <1>1, <1>2, <1>4 DEF Absent
<1>5. ASSUME NEW n, n # e.name, NEW G, Said(w, n, G) PROVE Said(v, n, G)
  <2>1. PICK i \in 1..Len(w) : IsLast(w, n, i) /\ w[i] \in G
    BY <1>5 DEF Said
  <2>2. IsLast(v, n, i) /\ v[i] \in G
    BY <1>1, <1>2, <1>5, <2>1 DEF IsLast
  <2> QED  BY <1>2, <2>1, <2>2 DEF Said
<1> QED  BY <1>1, <1>2, <1>3, <1>4, <1>5 DEF Appended, Said

\* The first event is taken off it.
LEMMA WireTail ==
  ASSUME NEW w \in Seq(BarEvents), w # <<>>, NEW v, v = Tail(w)
  PROVE  /\ Taken(v, w) /\ v \in Seq(BarEvents) /\ Head(w) = w[1] /\ Head(w) \in BarEvents
         /\ \A n : Absent(w, n) => Absent(v, n) /\ Head(w).name # n
         /\ \A n : \A G : Said(w, n, G) =>
              Said(v, n, G) \/ (Absent(v, n) /\ Head(w).name = n /\ Head(w) \in G)
<1>1. /\ v \in Seq(BarEvents) /\ Len(v) \in Nat /\ Len(w) = Len(v) + 1
      /\ Head(w) = w[1] /\ Head(w) \in BarEvents
      /\ \A i \in 1..Len(v) : i + 1 \in 1..Len(w) /\ v[i] = w[i + 1]
  OBVIOUS
<1>2. ASSUME NEW n, Absent(w, n) PROVE Absent(v, n) /\ w[1].name # n
  BY <1>1, <1>2 DEF Absent
<1>3. ASSUME NEW n, NEW G, Said(w, n, G)
      PROVE  Said(v, n, G) \/ (Absent(v, n) /\ w[1].name = n /\ w[1] \in G)
  <2>0. PICK i \in 1..Len(w) : IsLast(w, n, i) /\ w[i] \in G
    BY <1>3 DEF Said
  <2>1. CASE i = 1
    BY <1>1, <2>0, <2>1 DEF IsLast, Absent
  <2>2. CASE i > 1
    <3>1. i - 1 \in 1..Len(v) /\ v[i - 1] = w[i]
      BY <1>1, <2>2
    <3>2. ASSUME NEW j \in 1..Len(v), j > i - 1 PROVE v[j].name # n
      BY <1>1, <2>0, <3>2 DEF IsLast
    <3>3. IsLast(v, n, i - 1)
      BY <2>0, <3>1, <3>2 DEF IsLast
    <3> QED  BY <2>0, <3>1, <3>3 DEF Said
  <2> QED  BY <2>1, <2>2
<1> QED  BY <1>1, <1>2, <1>3 DEF Taken

\* A signal is queued, and the first one taken.
LEMMA QueueAppend ==
  ASSUME NEW S, NEW q \in Seq(S), NEW x \in S, NEW r, r = Append(q, x)
  PROVE  /\ r \in Seq(S) /\ r # <<>> /\ Len(r) = Len(q) + 1 /\ r[Len(r)] = x /\ Len(q) \in Nat
         /\ \A i \in 1..Len(q) : r[i] = q[i]
OBVIOUS

LEMMA QueueTail ==
  ASSUME NEW S, NEW q \in Seq(S), q # <<>>, NEW r, r = Tail(q)
  PROVE  /\ r \in Seq(S) /\ Head(q) = q[1] /\ Head(q) \in S /\ Len(q) = Len(r) + 1 /\ Len(r) \in Nat
         /\ \A i \in 1..Len(r) : r[i] = q[i + 1]
         /\ r = <<>> => q[Len(q)] = Head(q)
         /\ r # <<>> => r[Len(r)] = q[Len(q)]
<1>1. r \in Seq(S) /\ Head(q) = q[1] /\ Head(q) \in S /\ Len(q) = Len(r) + 1 /\ Len(r) \in Nat
  OBVIOUS
<1>2. \A i \in 1..Len(r) : r[i] = q[i + 1]
  OBVIOUS
<1>3. r = <<>> => Len(r) = 0
  OBVIOUS
<1>4. r # <<>> => Len(r) \in 1..Len(r)
  BY <1>1
<1> QED  BY <1>1, <1>2, <1>3, <1>4

LEMMA ActedAppend ==
  ASSUME NEW w, NEW e, NEW v, Appended(v, w, e)
  PROVE  /\ \A k \in 1..Len(v) : (Acted(w, k) => Acted(v, k)) /\ (Unpressed(w, k) => Unpressed(v, k))
         /\ Action(e) => Acted(v, Len(v) + 1)
         /\ ~Press(e) => /\ Acted(w, Len(w) + 1) => Acted(v, Len(v) + 1)
                         /\ Unpressed(w, Len(w) + 1) => Unpressed(v, Len(v) + 1)
<1>1. /\ Len(w) \in Nat /\ Len(v) = Len(w) + 1 /\ v[Len(v)] = e
      /\ \A i \in 1..Len(w) : v[i] = w[i] /\ i \in 1..Len(v)
      /\ \A i \in 1..Len(v) : i \in 1..Len(w) \/ i = Len(v)
  BY DEF Appended
<1>2. ASSUME NEW k \in 1..Len(v), Acted(w, k) PROVE Acted(v, k)
  <2>1. PICK j \in 1..Len(w) : j < k /\ Action(w[j]) /\ \A h \in 1..Len(w) : j < h /\ h < k => ~Press(w[h])
    BY <1>2 DEF Acted
  <2>2. \A h \in 1..Len(v) : j < h /\ h < k => ~Press(v[h])
    BY <1>1, <2>1
  <2> QED  BY <1>1, <2>1, <2>2 DEF Acted
<1>3. ASSUME NEW k \in 1..Len(v), Unpressed(w, k) PROVE Unpressed(v, k)
  BY <1>1, <1>3 DEF Unpressed
<1>4. ASSUME Action(e) PROVE Acted(v, Len(v) + 1)
  <2>1. Len(v) \in 1..Len(v) /\ Len(v) < Len(v) + 1 /\ Action(v[Len(v)])
    BY <1>1, <1>4
  <2>2. \A h \in 1..Len(v) : ~(Len(v) < h /\ h < Len(v) + 1)
    BY <1>1
  <2> QED  BY <2>1, <2>2 DEF Acted
<1>5. ASSUME ~Press(e), Acted(w, Len(w) + 1) PROVE Acted(v, Len(v) + 1)
  <2>1. PICK j \in 1..Len(w) :
          j < Len(w) + 1 /\ Action(w[j]) /\ \A h \in 1..Len(w) : j < h /\ h < Len(w) + 1 => ~Press(w[h])
    BY <1>5 DEF Acted
  <2>2. j \in 1..Len(v) /\ j < Len(v) + 1 /\ Action(v[j])
    BY <1>1, <2>1
  <2>3. \A h \in 1..Len(v) : j < h /\ h < Len(v) + 1 => ~Press(v[h])
    BY <1>1, <1>5, <2>1
  <2> QED  BY <2>2, <2>3 DEF Acted
<1>6. ASSUME ~Press(e), Unpressed(w, Len(w) + 1) PROVE Unpressed(v, Len(v) + 1)
  BY <1>1, <1>6 DEF Unpressed
<1> QED  BY <1>2, <1>3, <1>4, <1>5, <1>6

LEMMA ActedTail ==
  ASSUME NEW w, NEW v, Taken(v, w), NEW k \in 1..(Len(v) + 1)
  PROVE  /\ Acted(w, k + 1) => Acted(v, k) \/ (Action(w[1]) /\ Unpressed(v, k))
         /\ Unpressed(w, k + 1) => ~Press(w[1]) /\ Unpressed(v, k)
<1>1. /\ Len(v) \in Nat /\ Len(w) = Len(v) + 1
      /\ \A i \in 1..Len(v) : i + 1 \in 1..Len(w) /\ v[i] = w[i + 1]
  BY DEF Taken
<1>2. ASSUME Acted(w, k + 1) PROVE Acted(v, k) \/ (Action(w[1]) /\ Unpressed(v, k))
  <2>1. PICK j \in 1..Len(w) : j < k + 1 /\ Action(w[j]) /\ \A h \in 1..Len(w) : j < h /\ h < k + 1 => ~Press(w[h])
    BY <1>2 DEF Acted
  <2>2. CASE j = 1
    BY <1>1, <2>1, <2>2 DEF Unpressed
  <2>3. CASE j > 1
    <3>1. j - 1 \in 1..Len(v) /\ j - 1 < k /\ v[j - 1] = w[j]
      BY <1>1, <2>1, <2>3
    <3>2. \A h \in 1..Len(v) : j - 1 < h /\ h < k => ~Press(v[h])
      BY <1>1, <2>1, <2>3
    <3> QED  BY <2>1, <3>1, <3>2 DEF Acted
  <2> QED  BY <2>2, <2>3
<1>3. ASSUME Unpressed(w, k + 1) PROVE ~Press(w[1]) /\ Unpressed(v, k)
  BY <1>1, <1>3 DEF Unpressed
<1> QED  BY <1>2, <1>3

\* sway tells of everything that changes.
LEMMA SentKnown ==
  ASSUME SwayInv, NEW e \in BarEvents, barWire' = Append(barWire, e), UNCHANGED <<barQueues, ipcFlags, ipcPc>>,
         \A x \in missed : x # "modifier" /\ x # "config" => x \in missed',
         IF e.name = "bar_state_update" THEN e.held = modifierHeld'
         ELSE UNCHANGED modifierHeld /\ ("modifier" \in missed => "modifier" \in missed'),
         IF e.name = "mode" THEN e.set = bindingMode' ELSE UNCHANGED bindingMode,
         IF e.name = "workspace" THEN urgentNow' = {} => e.urgent = FALSE ELSE UNCHANGED urgentNow,
         IF e.name = "barconfig_update" THEN e.config = swayConfig'
         ELSE UNCHANGED swayConfig /\ ("config" \in missed => "config" \in missed')
  PROVE  ModifierKnown' /\ ModeKnown' /\ UrgencyKnown' /\ ConfigKnown'
<1>0. /\ barWire \in Seq(BarEvents)
      /\ UNCHANGED <<visibleByModifier, visibleByMode, visibleByUrgency, barConfig>>
      /\ UNCHANGED <<signalVisible, signalMode, signalUrgency, signalConfig>>
  BY DEF SwayInv, SwayTypeOK, ipcFlags, barQueues
<1>v. PICK v : v = barWire'
  OBVIOUS
<1>w. PICK w \in Seq(BarEvents) : w = barWire
  BY <1>0
<1>1. /\ \A G : e \in G => Said(v, e.name, G)
      /\ \A n : n # e.name => /\ Absent(w, n) => Absent(v, n)
                             /\ \A G : Said(w, n, G) => Said(v, n, G)
  BY <1>w, <1>v, WireAppend
<1>2. ModifierKnown'
  <2>1. CASE e.name = "bar_state_update"
    BY <1>1, <1>v, <2>1, EventFields DEF ModifierKnown
  <2>2. CASE e.name # "bar_state_update"
    <3>1. modifierHeld' = modifierHeld /\ ("modifier" \in missed => "modifier" \in missed')
      BY <2>2
    <3>2. ModifierTold' = ModifierTold
      BY <1>0, <3>1 DEF ModifierTold
    <3>3. ModifierKnown
      BY DEF SwayInv
    <3> QED  BY <1>1, <1>v, <1>w, <2>2, <3>1, <3>2, <3>3 DEF ModifierKnown
  <2> QED  BY <2>1, <2>2
<1>3. ModeKnown'
  <2>1. CASE e.name = "mode"
    BY <1>1, <1>v, <2>1, EventFields DEF ModeKnown
  <2>2. CASE e.name # "mode"
    <3>1. bindingMode' = bindingMode
      BY <2>2
    <3>2. ModeTold' = ModeTold
      BY <1>0, <3>1 DEF ModeTold
    <3>3. ModeKnown
      BY DEF SwayInv
    <3> QED  BY <1>1, <1>v, <1>w, <2>2, <3>1, <3>2, <3>3 DEF ModeKnown
  <2> QED  BY <2>1, <2>2
<1>4. UrgencyKnown'
  <2>1. CASE e.name = "workspace"
    BY <1>1, <1>v, <2>1, EventFields DEF UrgencyKnown, NotUrgent
  <2>2. CASE e.name # "workspace"
    <3>1. urgentNow' = urgentNow
      BY <2>2
    <3>2. UrgencyTold => UrgencyTold'
      BY <1>0 DEF UrgencyTold
    <3>3. UrgencyKnown
      BY DEF SwayInv
    <3> QED  BY <1>1, <1>v, <1>w, <2>2, <3>1, <3>2, <3>3 DEF UrgencyKnown, NotUrgent
  <2> QED  BY <2>1, <2>2
<1>5. ConfigKnown'
  <2>1. CASE e.name = "barconfig_update"
    BY <1>1, <1>v, <2>1, EventFields DEF ConfigKnown
  <2>2. CASE e.name # "barconfig_update"
    <3>1. swayConfig' = swayConfig /\ ("config" \in missed => "config" \in missed')
      BY <2>2
    <3>2. ConfigTold' = ConfigTold
      BY <1>0, <3>1 DEF ConfigTold
    <3>3. ConfigKnown
      BY DEF SwayInv
    <3> QED  BY <1>1, <1>v, <1>w, <2>2, <3>1, <3>2, <3>3 DEF ConfigKnown
  <2> QED  BY <2>1, <2>2
<1> QED  BY <1>2, <1>3, <1>4, <1>5

LEMMA SentUsed ==
  ASSUME SwayInv, NEW e \in BarEvents, barWire' = Append(barWire, e),
         UNCHANGED <<modifierNoAction, signalVisible, ipcPc>>, "press" \in missed => "press" \in missed',
         modifierUsed' => Action(e) \/ (modifierUsed /\ ~Press(e)),
         e.name = "bar_state_update" /\ ~e.held /\ e.used => modifierUsed
  PROVE  UsedKnown'
<1>0. barWire \in Seq(BarEvents) /\ UsedKnown
  BY DEF SwayInv, SwayTypeOK
<1>v. PICK v : v = barWire'
  OBVIOUS
<1>w. PICK w \in Seq(BarEvents) : w = barWire
  BY <1>0
<1>1. Appended(v, w, e)
  BY <1>w, <1>v, WireAppend
<1>c. Cleared => Cleared'
  BY DEF Cleared, PressQueued
<1>2. \A k \in 1..Len(v) : ActedBy(k) => ActedBy(k)'
  BY <1>1, <1>c, <1>w, <1>v, ActedAppend DEF ActedBy
<1>3. ASSUME modifierUsed' PROVE ActedBy(Len(v) + 1)'
  <2>1. CASE Action(e)
    BY <1>1, <1>v, <2>1, ActedAppend DEF ActedBy
  <2>2. CASE modifierUsed /\ ~Press(e)
    <3>1. ActedBy(Len(w) + 1)
      BY <1>0, <1>w, <2>2 DEF UsedKnown
    <3> QED  BY <1>1, <1>c, <1>w, <1>v, <2>2, <3>1, ActedAppend DEF ActedBy
  <2> QED  BY <1>3, <2>1, <2>2
<1>4. ASSUME NEW i \in 1..Len(v), v[i].name = "bar_state_update" /\ ~v[i].held /\ v[i].used
      PROVE  ActedBy(i)
  <2>1. CASE i \in 1..Len(w)
    BY <1>0, <1>1, <1>4, <1>w, <2>1 DEF UsedKnown, Appended
  <2>2. CASE i = Len(v)
    <3>1. modifierUsed /\ i = Len(w) + 1
      BY <1>1, <1>4, <2>2 DEF Appended
    <3> QED  BY <1>0, <1>w, <3>1 DEF UsedKnown
  <2> QED  BY <1>1, <2>1, <2>2 DEF Appended
<1>5. ASSUME NEW i \in 1..Len(v), v[i].name = "bar_state_update" /\ ~v[i].held /\ v[i].used
      PROVE  ActedBy(i)'
  BY <1>2, <1>4, <1>5
<1> QED  BY <1>3, <1>5, <1>v DEF UsedKnown

LEMMA EventsMade ==
  /\ \A held, used \in BOOLEAN : [name |-> "bar_state_update", held |-> held, used |-> used] \in BarEvents
  /\ \A set \in BOOLEAN : [name |-> "mode", set |-> set] \in BarEvents
  /\ \A urgent \in BOOLEAN : [name |-> "workspace", urgent |-> urgent] \in BarEvents
BY DEF BarEvents

\* The steps of sway.
LEMMA SwaySends ==
  ASSUME SwayInv, ModifierChanges \/ BindingRuns \/ BindingModeChanges \/ (\E w \in UrgentWs : UrgencyChanges(w))
                  \/ (\E c \in BarConfigs : BarConfigChanges(c)) \/ OtherBarChanges
  PROVE  SwayInv'
<1>0. /\ modifierHeld \in BOOLEAN /\ modifierUsed \in BOOLEAN /\ bindingMode \in BOOLEAN /\ urgentNow \subseteq UrgentWs
      /\ barWire \in Seq(BarEvents) /\ swayConfig \in BarConfigs /\ missed \subseteq Excuses
  BY DEF SwayInv, SwayTypeOK
<1>1. PICK e \in BarEvents :
        /\ BarNews(e)
        /\ \A x \in missed : x # "modifier" /\ x # "config" => x \in missed'
        /\ IF e.name = "bar_state_update" THEN e.held = modifierHeld'
           ELSE UNCHANGED modifierHeld /\ ("modifier" \in missed => "modifier" \in missed')
        /\ IF e.name = "mode" THEN e.set = bindingMode' ELSE UNCHANGED bindingMode
        /\ IF e.name = "workspace" THEN urgentNow' = {} => e.urgent = FALSE ELSE UNCHANGED urgentNow
        /\ IF e.name = "barconfig_update" THEN e.config = swayConfig'
           ELSE UNCHANGED swayConfig /\ ("config" \in missed => "config" \in missed')
        /\ modifierUsed' => Action(e) \/ (modifierUsed /\ ~Press(e))
        /\ e.name = "bar_state_update" /\ ~e.held /\ e.used => modifierUsed
        /\ modifierHeld' \in BOOLEAN /\ modifierUsed' \in BOOLEAN /\ bindingMode' \in BOOLEAN /\ urgentNow' \subseteq UrgentWs
        /\ swayConfig' \in BarConfigs /\ missed' \subseteq missed
  <2>1. CASE ModifierChanges
    <3>1. PICK e \in BarEvents : e = [name |-> "bar_state_update", held |-> ~modifierHeld, used |-> modifierUsed]
      BY <1>0, EventsMade
    <3>2. e.name = "bar_state_update" /\ e.held = ~modifierHeld /\ e.used = modifierUsed
      BY <3>1
    <3>3. /\ BarNews(e) /\ modifierHeld' = ~modifierHeld /\ UNCHANGED <<bindingMode, urgentNow, swayConfig>>
          /\ modifierUsed' = (modifierUsed /\ modifierHeld) /\ missed' = missed \ {"modifier"}
      BY <2>1, <3>1 DEF ModifierChanges
    <3> QED  BY <1>0, <3>2, <3>3 DEF Press
  <2>2. CASE BindingRuns
    <3>1. PICK e \in BarEvents : e = [name |-> "binding"]
      BY DEF BarEvents
    <3>2. e.name = "binding" /\ Action(e)
      BY <3>1 DEF Action
    <3>3. BarNews(e) /\ UNCHANGED <<modifierHeld, bindingMode, urgentNow, swayConfig, missed>> /\ modifierUsed' = modifierHeld
      BY <2>2, <3>1 DEF BindingRuns
    <3> QED  BY <1>0, <3>2, <3>3
  <2>3. CASE BindingModeChanges
    <3>1. PICK e \in BarEvents : e = [name |-> "mode", set |-> ~bindingMode]
      BY <1>0, EventsMade
    <3>2. e.name = "mode" /\ e.set = ~bindingMode /\ Action(e)
      BY <3>1 DEF Action
    <3>3. /\ BarNews(e) /\ bindingMode' = ~bindingMode /\ UNCHANGED <<modifierHeld, urgentNow, swayConfig, missed>>
          /\ modifierUsed' = modifierHeld
      BY <2>3, <3>1 DEF BindingModeChanges
    <3> QED  BY <1>0, <3>2, <3>3
  <2>4. CASE \E w \in UrgentWs : UrgencyChanges(w)
    <3>0. PICK w \in UrgentWs : UrgencyChanges(w)
      BY <2>4
    <3>1. PICK e \in BarEvents : e = [name |-> "workspace", urgent |-> w \notin urgentNow]
      BY EventsMade
    <3>2. e.name = "workspace" /\ e.urgent = (w \notin urgentNow) /\ Action(e)
      BY <3>1 DEF Action
    <3>3. /\ BarNews(e) /\ UNCHANGED <<modifierHeld, bindingMode, swayConfig, missed>> /\ modifierUsed' = modifierHeld
          /\ urgentNow' = IF w \in urgentNow THEN urgentNow \ {w} ELSE urgentNow \cup {w}
      BY <3>0, <3>1 DEF UrgencyChanges
    <3>4. urgentNow' = {} => e.urgent = FALSE
      BY <3>2, <3>3
    <3>5. urgentNow' \subseteq UrgentWs
      BY <1>0, <3>3
    <3> QED  BY <1>0, <3>2, <3>3, <3>4, <3>5
  <2>5. CASE \E c \in BarConfigs : BarConfigChanges(c)
    <3>0. PICK c \in BarConfigs : BarConfigChanges(c)
      BY <2>5
    <3>1. PICK e \in BarEvents : e = [name |-> "barconfig_update", config |-> c]
      BY DEF BarEvents
    <3>2. e.name = "barconfig_update" /\ e.config = c
      BY <3>1
    <3>3. /\ BarNews(e) /\ UNCHANGED <<modifierHeld, modifierUsed, bindingMode, urgentNow>>
          /\ swayConfig' = c /\ missed' = missed \ {"config"}
      BY <3>0, <3>1 DEF BarConfigChanges
    <3> QED  BY <1>0, <3>2, <3>3 DEF Press
  <2>6. CASE OtherBarChanges
    <3>1. PICK e \in BarEvents : e = [name |-> "other bar"]
      BY DEF BarEvents
    <3>2. e.name = "other bar"
      BY <3>1
    <3>3. BarNews(e) /\ UNCHANGED <<modifierHeld, modifierUsed, bindingMode, urgentNow, swayConfig, missed>>
      BY <2>6, <3>1 DEF OtherBarChanges, barSway
    <3> QED  BY <1>0, <3>2, <3>3 DEF Press
  <2> QED  BY <2>1, <2>2, <2>3, <2>4, <2>5, <2>6
<1>2. /\ barWire' = Append(barWire, e) /\ UNCHANGED <<barMode, modifierReset, ipcPc, barQueues, ipcFlags, signalled>>
      /\ UNCHANGED <<signalVisible, modifierNoAction>>
  BY <1>1 DEF BarNews, barQueues, ipcFlags
<1>3. ModifierKnown' /\ ModeKnown' /\ UrgencyKnown' /\ ConfigKnown'
  BY <1>1, <1>2, SentKnown
<1>4. "press" \in missed => "press" \in missed'
  BY <1>1
<1>5. UsedKnown'
  BY <1>1, <1>2, <1>4, SentUsed
<1>6. QueuedKnown'
  BY <1>2, <1>4 DEF SwayInv, QueuedKnown
<1>7. FlagsDecide' /\ ReleaseSparesUsedModifier'
  BY <1>2 DEF SwayInv, FlagsDecide, ReleaseSparesUsedModifier, ipcFlags
<1>8. SwayTypeOK'
  <2>1. barWire' \in Seq(BarEvents)
    BY <1>0, <1>2
  <2> QED  BY <1>0, <1>1, <1>2, <2>1 DEF SwayInv, SwayTypeOK, ipcFlags, barQueues
<1> QED  BY <1>3, <1>5, <1>6, <1>7, <1>8 DEF SwayInv

\* The worker reads an event.  What is known of the other kinds is known still.
Reads(e) ==
  /\ barWire # <<>> /\ e = Head(barWire) /\ barWire' = Tail(barWire)
  /\ UNCHANGED <<barSway, barMode, modifierReset, signalled, barConfig>>
  /\ UNCHANGED <<visibleByModifier, visibleByMode, visibleByUrgency, resetWhileUsed>>

LEMMA ReadEvent ==
  ASSUME SwayInv, NEW name, OnIpcEvent(name), NEW e, e = Head(barWire)
  PROVE  /\ Reads(e) /\ e.name = name /\ e \in BarEvents /\ barWire' \in Seq(BarEvents)
         /\ \A n : Absent(barWire, n) => Absent(barWire', n) /\ e.name # n
         /\ \A n : \A G : Said(barWire, n, G) => Said(barWire', n, G) \/ (Absent(barWire', n) /\ e.name = n /\ e \in G)
<1>1. Reads(e) /\ e.name = name
  BY DEF OnIpcEvent, Reads
<1>2. barWire \in Seq(BarEvents)
  BY DEF SwayInv, SwayTypeOK
<1>w. PICK w \in Seq(BarEvents) : w = barWire
  BY <1>2
<1>v. PICK v : v = barWire'
  OBVIOUS
<1>3. /\ v \in Seq(BarEvents) /\ Head(w) \in BarEvents
      /\ \A n : Absent(w, n) => Absent(v, n) /\ Head(w).name # n
      /\ \A n : \A G : Said(w, n, G) => Said(v, n, G) \/ (Absent(v, n) /\ Head(w).name = n /\ Head(w) \in G)
  BY <1>1, <1>w, <1>v, WireTail DEF Reads
<1> QED  BY <1>1, <1>3, <1>w, <1>v

LEMMA ModifierUnread ==
  ASSUME SwayInv, NEW name, OnIpcEvent(name), name # "bar_state_update", UNCHANGED signalVisible,
         "modifier" \in missed => "modifier" \in missed'
  PROVE  ModifierKnown'
<1>1. /\ Absent(barWire, "bar_state_update") => Absent(barWire', "bar_state_update")
      /\ \A G : Said(barWire, "bar_state_update", G) => Said(barWire', "bar_state_update", G)
  BY ReadEvent
<1>2. UNCHANGED <<modifierHeld, visibleByModifier>>
  BY DEF OnIpcEvent, barSway
<1>3. ModifierTold' = ModifierTold
  BY <1>2 DEF ModifierTold
<1> QED  BY <1>1, <1>2, <1>3 DEF SwayInv, ModifierKnown

LEMMA ModeUnread ==
  ASSUME SwayInv, NEW name, OnIpcEvent(name), name # "mode", UNCHANGED signalMode
  PROVE  ModeKnown'
<1>1. /\ Absent(barWire, "mode") => Absent(barWire', "mode")
      /\ \A G : Said(barWire, "mode", G) => Said(barWire', "mode", G)
  BY ReadEvent
<1>2. UNCHANGED <<bindingMode, visibleByMode>>
  BY DEF OnIpcEvent, barSway
<1>3. ModeTold' = ModeTold
  BY <1>2 DEF ModeTold
<1> QED  BY <1>1, <1>2, <1>3 DEF SwayInv, ModeKnown

LEMMA UrgencyUnread ==
  ASSUME SwayInv, NEW name, OnIpcEvent(name), name # "workspace", UNCHANGED <<signalUrgency, ipcPc>>,
         "urgency" \in missed => "urgency" \in missed'
  PROVE  UrgencyKnown'
<1>1. /\ Absent(barWire, "workspace") => Absent(barWire', "workspace")
      /\ \A G : Said(barWire, "workspace", G) => Said(barWire', "workspace", G)
  BY ReadEvent
<1>2. UNCHANGED <<urgentNow, visibleByUrgency>>
  BY DEF OnIpcEvent, barSway
<1>3. UrgencyTold => UrgencyTold'
  BY <1>2 DEF UrgencyTold
<1> QED  BY <1>1, <1>2, <1>3 DEF SwayInv, UrgencyKnown, NotUrgent

LEMMA ConfigUnread ==
  ASSUME SwayInv, NEW name, OnIpcEvent(name), name # "barconfig_update", UNCHANGED signalConfig,
         "config" \in missed => "config" \in missed'
  PROVE  ConfigKnown'
<1>1. /\ Absent(barWire, "barconfig_update") => Absent(barWire', "barconfig_update")
      /\ \A G : Said(barWire, "barconfig_update", G) => Said(barWire', "barconfig_update", G)
  BY ReadEvent
<1>2. UNCHANGED <<swayConfig, barConfig>>
  BY DEF OnIpcEvent, barSway
<1>3. ConfigTold' = ConfigTold
  BY <1>2 DEF ConfigTold
<1> QED  BY <1>1, <1>2, <1>3 DEF SwayInv, ConfigKnown

LEMMA ReadUsed ==
  ASSUME SwayInv, NEW name, OnIpcEvent(name), NEW e, e = Head(barWire),
         Action(e) => Cleared', Cleared /\ ~Press(e) => Cleared'
  PROVE  /\ UsedKnown'
         /\ e.name = "bar_state_update" /\ ~e.held /\ e.used => Cleared
<1>0. barWire \in Seq(BarEvents) /\ barWire # <<>> /\ UsedKnown /\ UNCHANGED modifierUsed /\ barWire' = Tail(barWire)
  BY DEF SwayInv, SwayTypeOK, OnIpcEvent, barSway
<1>w. PICK w \in Seq(BarEvents) : w = barWire
  BY <1>0
<1>v. PICK v : v = barWire'
  OBVIOUS
<1>1. Taken(v, w) /\ e = w[1]
  BY <1>0, <1>w, <1>v, WireTail
<1>2. ASSUME NEW k \in 1..(Len(v) + 1), ActedBy(k + 1) PROVE ActedBy(k)'
  <2>1. CASE Acted(w, k + 1)
    BY <1>1, <1>v, <2>1, ActedTail DEF ActedBy
  <2>2. CASE Cleared /\ Unpressed(w, k + 1)
    BY <1>1, <1>v, <2>2, ActedTail DEF ActedBy
  <2> QED  BY <1>2, <1>w, <2>1, <2>2 DEF ActedBy
<1>3. ASSUME modifierUsed' PROVE ActedBy(Len(v) + 1)'
  <2>1. Len(w) = Len(v) + 1 /\ Len(v) + 1 \in 1..(Len(v) + 1)
    BY <1>1 DEF Taken
  <2>2. ActedBy(Len(v) + 1 + 1)
    BY <1>0, <1>3, <1>w, <2>1 DEF UsedKnown
  <2> QED  BY <1>2, <2>1, <2>2
<1>4. ASSUME NEW i \in 1..Len(v), v[i].name = "bar_state_update" /\ ~v[i].held /\ v[i].used
      PROVE  ActedBy(i)'
  <2>1. /\ i \in 1..(Len(v) + 1) /\ i + 1 \in 1..Len(barWire)
        /\ barWire[i + 1].name = "bar_state_update" /\ ~barWire[i + 1].held /\ barWire[i + 1].used
    BY <1>1, <1>4, <1>w DEF Taken
  <2>2. ActedBy(i + 1)
    BY <1>0, <2>1 DEF UsedKnown
  <2> QED  BY <1>2, <2>1, <2>2
<1>5. ASSUME e.name = "bar_state_update" /\ ~e.held /\ e.used PROVE Cleared
  <2>1. ActedBy(1)
    BY <1>0, <1>1, <1>5, <1>w DEF UsedKnown, Taken
  <2> QED  BY <2>1 DEF ActedBy, Acted
<1> QED  BY <1>3, <1>4, <1>5, <1>v DEF UsedKnown

\* modifier_no_action_ is cleared, too early when a press is still queued.
LEMMA ClearedNow == ASSUME SwayInv, NoActionCleared, UNCHANGED signalVisible PROVE Cleared' /\ missed \subseteq missed'
<1>1. CASE PressQueued
  BY <1>1 DEF NoActionCleared, Cleared
<1>2. CASE ~PressQueued
  BY <1>2 DEF NoActionCleared, Cleared, PressQueued
<1> QED  BY <1>1, <1>2

LEMMA ClearedKeepsQueued ==
  ASSUME SwayInv, UNCHANGED signalVisible, modifierNoAction' => modifierNoAction,
         "press" \in missed => "press" \in missed'
  PROVE  QueuedKnown'
BY DEF SwayInv, QueuedKnown

\* The bar's mode, the flags and what becomes of the rest.
LEMMA ReadRest ==
  ASSUME SwayInv, NEW name, OnIpcEvent(name), modifierNoAction' \in BOOLEAN, missed' \subseteq Excuses,
         ipcPc' \in {"recv", "ask", "clear"},
         signalVisible' \in Seq(VisibleSignals), signalMode' \in Seq(BOOLEAN),
         signalUrgency' \in Seq(BOOLEAN), signalConfig' \in Seq(BarConfigs)
  PROVE  SwayTypeOK' /\ FlagsDecide' /\ ReleaseSparesUsedModifier'
<1>1. /\ Reads(Head(barWire)) /\ barWire' \in Seq(BarEvents)
  BY ReadEvent
<1>2. SwayTypeOK /\ FlagsDecide /\ ReleaseSparesUsedModifier
  BY DEF SwayInv
<1>3. SwayTypeOK'
  BY <1>1, <1>2 DEF Reads, SwayTypeOK, barSway
<1>4. FlagsDecide' /\ ReleaseSparesUsedModifier'
  BY <1>1, <1>2 DEF Reads, FlagsDecide, ReleaseSparesUsedModifier
<1> QED  BY <1>3, <1>4

\* The worker: each event it reads.
LEMMA BarStateRead == ASSUME SwayInv, OnBarState PROVE SwayInv'
<1>e. PICK e : e = Head(barWire)
  OBVIOUS
<1>1. /\ OnIpcEvent("bar_state_update")
      /\ signalVisible' = Append(signalVisible, [held |-> e.held, used |-> e.used])
      /\ missed' = IF e.held /\ signalVisible = <<>> THEN missed \ {"press"} ELSE missed
      /\ UNCHANGED <<ipcPc, signalMode, signalUrgency, signalConfig, modifierNoAction>>
  BY <1>e DEF OnBarState
<1>2. /\ Reads(e) /\ e.name = "bar_state_update" /\ e \in BarEvents
      /\ \A n : Absent(barWire, n) => Absent(barWire', n) /\ e.name # n
      /\ \A n : \A G : Said(barWire, n, G) => Said(barWire', n, G) \/ (Absent(barWire', n) /\ e.name = n /\ e \in G)
  BY <1>1, <1>e, ReadEvent
<1>3. e.held \in BOOLEAN /\ e.used \in BOOLEAN /\ ~Action(e)
  BY <1>2, EventFields DEF Action
<1>q. PICK x \in VisibleSignals : x = [held |-> e.held, used |-> e.used]
  BY <1>3 DEF VisibleSignals
<1>x. x.held = e.held /\ x.used = e.used
  BY <1>q
<1>4. SwayTypeOK
  BY DEF SwayInv
<1>5. /\ signalVisible' \in Seq(VisibleSignals) /\ signalVisible' # <<>>
      /\ Len(signalVisible') = Len(signalVisible) + 1 /\ signalVisible'[Len(signalVisible')] = x /\ Len(signalVisible) \in Nat
      /\ \A i \in 1..Len(signalVisible) : signalVisible'[i] = signalVisible[i]
  BY <1>1, <1>4, <1>q, QueueAppend DEF SwayTypeOK
<1>6. ModeKnown' /\ UrgencyKnown' /\ ConfigKnown'
  BY <1>1, ModeUnread, UrgencyUnread, ConfigUnread
<1>7. ModifierKnown'
  <2>1. CASE "modifier" \in missed /\ modifierHeld
    BY <1>1, <1>2, <2>1 DEF Reads, barSway, ModifierKnown
  <2>2. CASE Said(barWire, "bar_state_update", Held(modifierHeld))
    <3>1. Said(barWire', "bar_state_update", Held(modifierHeld))
          \/ (Absent(barWire', "bar_state_update") /\ e.held = modifierHeld)
      BY <1>2, <2>2, GoodFields
    <3>2. modifierHeld' = modifierHeld
      BY <1>2 DEF Reads, barSway
    <3>3. e.held = modifierHeld => ModifierTold'
      BY <1>5, <1>x, <3>2 DEF ModifierTold
    <3> QED  BY <3>1, <3>2, <3>3 DEF ModifierKnown
  <2>3. ~Absent(barWire, "bar_state_update")
    BY <1>2
  <2> QED  BY <2>1, <2>2, <2>3 DEF SwayInv, ModifierKnown
<1>8. Cleared /\ ~Press(e) => Cleared'
  <2> SUFFICES ASSUME Cleared, ~Press(e) PROVE Cleared'
    OBVIOUS
  <2>1. ~e.held
    BY <1>2 DEF Press
  <2>2. ~PressQueued => ~PressQueued'
    BY <1>5, <1>x, <2>1 DEF PressQueued
  <2> QED  BY <1>1, <2>1, <2>2 DEF Cleared
<1>9. UsedKnown' /\ (~e.held /\ e.used => Cleared)
  BY <1>1, <1>2, <1>3, <1>8, <1>e, ReadUsed
<1>10. QueuedKnown'
  <2> SUFFICES ASSUME NEW j \in 1..Len(signalVisible'), ~signalVisible'[j].held, signalVisible'[j].used
               PROVE  "press" \in missed' \/ (~modifierNoAction' /\ \A h \in 1..Len(signalVisible') : h < j => ~signalVisible'[h].held)
    BY DEF QueuedKnown
  <2>1. CASE j = Len(signalVisible')
    <3>1. Cleared /\ missed' = missed
      BY <1>1, <1>5, <1>9, <1>x, <2>1
    <3>2. ipcPc = "recv"
      BY <1>1 DEF OnIpcEvent
    <3>3. "press" \in missed \/ (~modifierNoAction /\ ~PressQueued)
      BY <3>1, <3>2 DEF Cleared
    <3>4. ASSUME ~PressQueued, NEW h \in 1..Len(signalVisible'), h < j PROVE ~signalVisible'[h].held
      <4>1. h \in 1..Len(signalVisible) /\ h \in DOMAIN signalVisible /\ signalVisible'[h] = signalVisible[h]
        BY <1>4, <1>5, <2>1, <3>4 DEF SwayTypeOK
      <4> QED  BY <3>4, <4>1 DEF PressQueued
    <3> QED  BY <1>1, <3>1, <3>3, <3>4
  <2>2. CASE j # Len(signalVisible')
    <3>1. j \in 1..Len(signalVisible) /\ signalVisible'[j] = signalVisible[j] /\ signalVisible # <<>>
      BY <1>5, <2>2
    <3>2. missed' = missed
      BY <1>1, <3>1
    <3>3. "press" \in missed \/ (~modifierNoAction /\ \A h \in 1..Len(signalVisible) : h < j => ~signalVisible[h].held)
      BY <3>1 DEF SwayInv, QueuedKnown
    <3>4. ASSUME NEW h \in 1..Len(signalVisible'), h < j PROVE h \in 1..Len(signalVisible) /\ signalVisible'[h] = signalVisible[h]
      BY <1>5, <3>1, <3>4
    <3> QED  BY <1>1, <3>2, <3>3, <3>4
  <2> QED  BY <2>1, <2>2
<1>11. SwayTypeOK' /\ FlagsDecide' /\ ReleaseSparesUsedModifier'
  <2>1. missed' \subseteq Excuses
    BY <1>1, <1>4 DEF SwayTypeOK
  <2> QED  BY <1>1, <1>4, <1>5, <2>1, ReadRest DEF SwayTypeOK
<1> QED  BY <1>6, <1>7, <1>9, <1>10, <1>11 DEF SwayInv

LEMMA BarConfigRead == ASSUME SwayInv, OnBarConfig PROVE SwayInv'
<1>e. PICK e : e = Head(barWire)
  OBVIOUS
<1>1. /\ OnIpcEvent("barconfig_update") /\ signalConfig' = Append(signalConfig, e.config)
      /\ UNCHANGED <<ipcPc, signalVisible, signalMode, signalUrgency, modifierNoAction, missed>>
  BY <1>e DEF OnBarConfig
<1>2. /\ Reads(e) /\ e.name = "barconfig_update" /\ e \in BarEvents
      /\ \A n : Absent(barWire, n) => Absent(barWire', n) /\ e.name # n
      /\ \A n : \A G : Said(barWire, n, G) => Said(barWire', n, G) \/ (Absent(barWire', n) /\ e.name = n /\ e \in G)
  BY <1>1, <1>e, ReadEvent
<1>3. e.config \in BarConfigs /\ ~Action(e)
  BY <1>2, EventFields DEF Action
<1>4. SwayTypeOK
  BY DEF SwayInv
<1>5. signalConfig' \in Seq(BarConfigs) /\ signalConfig' # <<>> /\ signalConfig'[Len(signalConfig')] = e.config
  BY <1>1, <1>3, <1>4, QueueAppend DEF SwayTypeOK
<1>6. ModifierKnown' /\ ModeKnown' /\ UrgencyKnown'
  BY <1>1, ModifierUnread, ModeUnread, UrgencyUnread
<1>7. ConfigKnown'
  <2>1. CASE "config" \in missed
    BY <1>1, <2>1 DEF ConfigKnown
  <2>2. CASE Said(barWire, "barconfig_update", Config(swayConfig))
    <3>1. Said(barWire', "barconfig_update", Config(swayConfig))
          \/ (Absent(barWire', "barconfig_update") /\ e.config = swayConfig)
      BY <1>2, <2>2, GoodFields
    <3>2. swayConfig' = swayConfig
      BY <1>2 DEF Reads, barSway
    <3>3. e.config = swayConfig => ConfigTold'
      BY <1>5, <3>2 DEF ConfigTold
    <3> QED  BY <3>1, <3>2, <3>3 DEF ConfigKnown
  <2>3. ~Absent(barWire, "barconfig_update")
    BY <1>2
  <2> QED  BY <2>1, <2>2, <2>3 DEF SwayInv, ConfigKnown
<1>8. Cleared' = Cleared
  BY <1>1 DEF Cleared, PressQueued
<1>9. UsedKnown'
  BY <1>1, <1>3, <1>8, <1>e, ReadUsed
<1>10. QueuedKnown'
  BY <1>1 DEF SwayInv, QueuedKnown
<1>11. SwayTypeOK' /\ FlagsDecide' /\ ReleaseSparesUsedModifier'
  BY <1>1, <1>4, <1>5, ReadRest DEF SwayTypeOK
<1> QED  BY <1>6, <1>7, <1>9, <1>10, <1>11 DEF SwayInv

LEMMA OtherBarRead == ASSUME SwayInv, OnOtherBar PROVE SwayInv'
<1>e. PICK e : e = Head(barWire)
  OBVIOUS
<1>1. /\ OnIpcEvent("other bar") /\ UNCHANGED <<ipcPc, modifierNoAction, missed>>
      /\ UNCHANGED <<signalVisible, signalMode, signalUrgency, signalConfig>>
  BY DEF OnOtherBar, barQueues
<1>2. e.name = "other bar"
  BY <1>1, <1>e, ReadEvent
<1>3. ModifierKnown' /\ ModeKnown' /\ UrgencyKnown' /\ ConfigKnown'
  BY <1>1, ModifierUnread, ModeUnread, UrgencyUnread, ConfigUnread
<1>4. Cleared' = Cleared
  BY <1>1 DEF Cleared, PressQueued
<1>5. UsedKnown'
  BY <1>1, <1>2, <1>4, <1>e, ReadUsed DEF Action
<1>6. QueuedKnown'
  BY <1>1 DEF SwayInv, QueuedKnown
<1>7. SwayTypeOK' /\ FlagsDecide' /\ ReleaseSparesUsedModifier'
  <2>1. SwayTypeOK
    BY DEF SwayInv
  <2> QED  BY <1>1, <2>1, ReadRest DEF SwayTypeOK
<1> QED  BY <1>3, <1>5, <1>6, <1>7 DEF SwayInv

LEMMA BindingRead == ASSUME SwayInv, OnBinding PROVE SwayInv'
<1>e. PICK e : e = Head(barWire)
  OBVIOUS
<1>1. /\ OnIpcEvent("binding") /\ UNCHANGED ipcPc /\ NoActionCleared
      /\ UNCHANGED <<signalVisible, signalMode, signalUrgency, signalConfig>>
  BY DEF OnBinding, barQueues
<1>2. Cleared' /\ missed \subseteq missed' /\ modifierNoAction' = FALSE
  BY <1>1, ClearedNow DEF NoActionCleared
<1>3. ModifierKnown' /\ ModeKnown' /\ UrgencyKnown' /\ ConfigKnown'
  BY <1>1, <1>2, ModifierUnread, ModeUnread, UrgencyUnread, ConfigUnread
<1>4. e.name = "binding"
  BY <1>1, <1>e, ReadEvent
<1>5. UsedKnown'
  BY <1>1, <1>2, <1>4, <1>e, ReadUsed
<1>6. QueuedKnown'
  BY <1>1, <1>2, ClearedKeepsQueued
<1>7. SwayTypeOK' /\ FlagsDecide' /\ ReleaseSparesUsedModifier'
  <2>1. SwayTypeOK
    BY DEF SwayInv
  <2>2. missed' \subseteq Excuses
    BY <1>1, <2>1 DEF NoActionCleared, SwayTypeOK, Excuses
  <2> QED  BY <1>1, <1>2, <2>1, <2>2, ReadRest DEF SwayTypeOK
<1> QED  BY <1>3, <1>5, <1>6, <1>7 DEF SwayInv

LEMMA ModeRead == ASSUME SwayInv, OnMode PROVE SwayInv'
<1>e. PICK e : e = Head(barWire)
  OBVIOUS
<1>1. /\ OnIpcEvent("mode") /\ signalMode' = Append(signalMode, e.set) /\ ipcPc' = "clear"
      /\ UNCHANGED <<signalVisible, signalUrgency, signalConfig, modifierNoAction, missed>>
  BY <1>e DEF OnMode
<1>2. /\ Reads(e) /\ e.name = "mode" /\ e \in BarEvents
      /\ \A n : Absent(barWire, n) => Absent(barWire', n) /\ e.name # n
      /\ \A n : \A G : Said(barWire, n, G) => Said(barWire', n, G) \/ (Absent(barWire', n) /\ e.name = n /\ e \in G)
  BY <1>1, <1>e, ReadEvent
<1>3. e.set \in BOOLEAN
  BY <1>2, EventFields
<1>4. SwayTypeOK
  BY DEF SwayInv
<1>5. signalMode' \in Seq(BOOLEAN) /\ signalMode' # <<>> /\ signalMode'[Len(signalMode')] = e.set
  BY <1>1, <1>3, <1>4, QueueAppend DEF SwayTypeOK
<1>6. ModifierKnown' /\ ConfigKnown'
  BY <1>1, ModifierUnread, ConfigUnread
<1>7. UrgencyKnown'
  <2>1. ipcPc = "recv"
    BY <1>1 DEF OnIpcEvent
  <2>2. UNCHANGED <<urgentNow, signalUrgency, visibleByUrgency, missed>>
    BY <1>1, <1>2 DEF Reads, barSway
  <2>3. UrgencyTold => UrgencyTold'
    BY <2>1, <2>2 DEF UrgencyTold
  <2> QED  BY <1>2, <2>2, <2>3 DEF SwayInv, UrgencyKnown, NotUrgent
<1>8. ModeKnown'
  <2>1. Said(barWire, "mode", Set(bindingMode))
    BY <1>2 DEF SwayInv, ModeKnown
  <2>2. Said(barWire', "mode", Set(bindingMode)) \/ (Absent(barWire', "mode") /\ e.set = bindingMode)
    BY <1>2, <2>1, GoodFields
  <2>3. bindingMode' = bindingMode
    BY <1>2 DEF Reads, barSway
  <2>4. e.set = bindingMode => ModeTold'
    BY <1>5, <2>3 DEF ModeTold
  <2> QED  BY <2>2, <2>3, <2>4 DEF ModeKnown
<1>9. UsedKnown'
  BY <1>1, <1>e, ReadUsed DEF Cleared
<1>10. QueuedKnown'
  BY <1>1 DEF SwayInv, QueuedKnown
<1>11. SwayTypeOK' /\ FlagsDecide' /\ ReleaseSparesUsedModifier'
  BY <1>1, <1>4, <1>5, ReadRest DEF SwayTypeOK
<1> QED  BY <1>6, <1>7, <1>8, <1>9, <1>10, <1>11 DEF SwayInv

\* The end of an urgency: either the bar shows for one, and asks; or nothing queued says so,
\* or the worker is too early.
LEMMA WorkspaceRead == ASSUME SwayInv, OnWorkspace PROVE SwayInv'
<1>e. PICK e : e = Head(barWire)
  OBVIOUS
<1>1. /\ OnIpcEvent("workspace")
      /\ signalUrgency' = IF e.urgent THEN Append(signalUrgency, TRUE) ELSE signalUrgency
      /\ ipcPc' = IF ~e.urgent /\ visibleByUrgency THEN "ask" ELSE "clear"
      /\ missed' = IF e.urgent \/ visibleByUrgency THEN missed \ {"urgency"}
                   ELSE IF UrgencyQueued THEN missed \cup {"urgency"} ELSE missed
      /\ UNCHANGED <<signalVisible, signalMode, signalConfig, modifierNoAction>>
  BY <1>e DEF OnWorkspace
<1>2. /\ Reads(e) /\ e.name = "workspace" /\ e \in BarEvents
      /\ \A n : Absent(barWire, n) => Absent(barWire', n) /\ e.name # n
      /\ \A n : \A G : Said(barWire, n, G) => Said(barWire', n, G) \/ (Absent(barWire', n) /\ e.name = n /\ e \in G)
  BY <1>1, <1>e, ReadEvent
<1>3. e.urgent \in BOOLEAN /\ (e \in NotUrgent <=> e.urgent = FALSE)
  BY <1>2, EventFields
<1>4. SwayTypeOK
  BY DEF SwayInv
<1>5. signalUrgency' \in Seq(BOOLEAN)
  <2>1. Append(signalUrgency, TRUE) \in Seq(BOOLEAN) /\ signalUrgency \in Seq(BOOLEAN)
    BY <1>4, QueueAppend DEF SwayTypeOK
  <2> QED  BY <1>1, <2>1
<1>6. /\ "press" \in missed => "press" \in missed'
      /\ "modifier" \in missed => "modifier" \in missed'
      /\ "config" \in missed => "config" \in missed'
      /\ missed' \subseteq Excuses /\ ipcPc' \in {"ask", "clear"}
  BY <1>1, <1>4 DEF SwayTypeOK, Excuses
<1>7. ModifierKnown' /\ ModeKnown' /\ ConfigKnown'
  BY <1>1, <1>6, ModifierUnread, ModeUnread, ConfigUnread
<1>8. UrgencyKnown'
  <2>0. UNCHANGED <<urgentNow, visibleByUrgency>> /\ visibleByUrgency \in BOOLEAN
    BY <1>2, <1>4 DEF Reads, barSway, SwayTypeOK
  <2> SUFFICES ASSUME urgentNow = {}
               PROVE  Said(barWire', "workspace", NotUrgent) \/ (Absent(barWire', "workspace") /\ UrgencyTold')
    BY <2>0 DEF UrgencyKnown, NotUrgent
  <2>1. Said(barWire, "workspace", NotUrgent)
    BY <1>2 DEF SwayInv, UrgencyKnown
  <2>2. Said(barWire', "workspace", NotUrgent) \/ (Absent(barWire', "workspace") /\ e.urgent = FALSE)
    BY <1>2, <1>3, <2>1
  <2>3. ASSUME e.urgent = FALSE PROVE UrgencyTold'
    <3>1. CASE visibleByUrgency
      BY <1>1, <2>3, <3>1 DEF UrgencyTold
    <3>2. CASE ~visibleByUrgency /\ UrgencyQueued
      BY <1>1, <2>3, <3>2 DEF UrgencyTold
    <3>3. CASE ~visibleByUrgency /\ ~UrgencyQueued
      <4>1. signalUrgency' = signalUrgency /\ visibleByUrgency' = FALSE
        BY <1>1, <2>0, <2>3, <3>3
      <4>2. signalUrgency # <<>> => signalUrgency[Len(signalUrgency)] = FALSE
        <5> SUFFICES ASSUME signalUrgency # <<>> PROVE signalUrgency[Len(signalUrgency)] = FALSE
          OBVIOUS
        <5>1. Len(signalUrgency) \in DOMAIN signalUrgency /\ signalUrgency[Len(signalUrgency)] \in BOOLEAN
          BY <1>4 DEF SwayTypeOK
        <5>2. signalUrgency[Len(signalUrgency)] # TRUE
          BY <3>3, <5>1 DEF UrgencyQueued
        <5> QED  BY <5>1, <5>2
      <4> QED  BY <4>1, <4>2 DEF UrgencyTold
    <3> QED  BY <3>1, <3>2, <3>3
  <2> QED  BY <2>2, <2>3
<1>9. UsedKnown'
  <2>1. Cleared'
    BY <1>6 DEF Cleared
  <2> QED  BY <1>1, <1>e, <2>1, ReadUsed
<1>10. QueuedKnown'
  BY <1>1, <1>6 DEF SwayInv, QueuedKnown
<1>11. SwayTypeOK' /\ FlagsDecide' /\ ReleaseSparesUsedModifier'
  BY <1>1, <1>4, <1>5, <1>6, ReadRest DEF SwayTypeOK
<1> QED  BY <1>7, <1>8, <1>9, <1>10, <1>11 DEF SwayInv

\* It asks, and it clears.
LEMMA WorkerGoesOn == ASSUME SwayInv, OnCmd \/ ClearNoAction PROVE SwayInv'
<1>0. SwayTypeOK
  BY DEF SwayInv
<1>1. /\ UNCHANGED <<barSway, barWire, barMode, modifierReset, signalled, barConfig>>
      /\ UNCHANGED <<visibleByModifier, visibleByMode, visibleByUrgency, resetWhileUsed>>
      /\ UNCHANGED <<signalVisible, signalMode, signalConfig>>
      /\ ipcPc' \in {"recv", "clear"}
  BY DEF OnCmd, ClearNoAction, IpcStep, barQueues
<1>2. UNCHANGED <<modifierHeld, modifierUsed, bindingMode, urgentNow, swayConfig>>
  BY <1>1 DEF barSway
<1>3. /\ missed \subseteq missed' /\ missed' \subseteq Excuses /\ Cleared'
      /\ modifierNoAction' \in BOOLEAN /\ (modifierNoAction' => modifierNoAction)
  <2>1. CASE OnCmd
    BY <1>0, <2>1 DEF OnCmd, IpcStep, SwayTypeOK, Cleared
  <2>2. CASE ClearNoAction
    <3>1. NoActionCleared
      BY <2>2 DEF ClearNoAction
    <3>2. Cleared' /\ missed \subseteq missed'
      BY <1>1, <3>1, ClearedNow
    <3>3. missed' \subseteq Excuses
      BY <1>0, <3>1 DEF NoActionCleared, SwayTypeOK, Excuses
    <3> QED  BY <3>1, <3>2, <3>3 DEF NoActionCleared
  <2> QED  BY <2>1, <2>2
<1>4. signalUrgency' \in Seq(BOOLEAN) /\ (urgentNow = {} /\ UrgencyTold => UrgencyTold')
  <2>1. CASE OnCmd
    <3>1. signalUrgency' = Append(signalUrgency, urgentNow # {}) /\ signalUrgency \in Seq(BOOLEAN)
      BY <1>0, <2>1 DEF OnCmd, SwayTypeOK
    <3>2. /\ signalUrgency' \in Seq(BOOLEAN) /\ signalUrgency' # <<>>
          /\ signalUrgency'[Len(signalUrgency')] = (urgentNow # {})
      BY <3>1, QueueAppend
    <3>3. urgentNow = {} => signalUrgency'[Len(signalUrgency')] = FALSE
      BY <3>2
    <3> QED  BY <3>2, <3>3 DEF UrgencyTold
  <2>2. CASE ClearNoAction
    <3>1. ipcPc = "clear" /\ UNCHANGED signalUrgency
      BY <2>2 DEF ClearNoAction, IpcStep, barQueues
    <3> QED  BY <1>0, <1>1, <1>3, <3>1 DEF UrgencyTold, SwayTypeOK
  <2> QED  BY <2>1, <2>2
<1>5. ModifierKnown' /\ ModeKnown' /\ ConfigKnown'
  BY <1>1, <1>2, <1>3 DEF SwayInv, ModifierKnown, ModeKnown, ConfigKnown, ModifierTold, ModeTold, ConfigTold
<1>6. UrgencyKnown'
  BY <1>1, <1>2, <1>4 DEF SwayInv, UrgencyKnown, NotUrgent
<1>7. UsedKnown'
  BY <1>1, <1>2, <1>3 DEF SwayInv, UsedKnown, ActedBy
<1>8. QueuedKnown'
  BY <1>1, <1>3, ClearedKeepsQueued
<1>9. FlagsDecide' /\ ReleaseSparesUsedModifier'
  BY <1>1 DEF SwayInv, FlagsDecide, ReleaseSparesUsedModifier
<1>10. SwayTypeOK'
  BY <1>0, <1>1, <1>2, <1>3, <1>4 DEF SwayTypeOK
<1> QED  BY <1>5, <1>6, <1>7, <1>8, <1>9, <1>10 DEF SwayInv

\* The main thread takes a signal: the flag becomes what it says, and what the queue still
\* holds will make of it what it would have.
LEMMA BarUpdates ==
  ASSUME SwayInv, BarIpcUpdate
  PROVE  /\ FlagsDecide' /\ signalled' \in BOOLEAN
         /\ UNCHANGED <<modifierHeld, modifierUsed, bindingMode, urgentNow, swayConfig>>
         /\ UNCHANGED <<barWire, ipcPc, missed, modifierReset>>
BY DEF BarIpcUpdate, FlagsDecide, barSway

LEMMA VisibilityUpdated == ASSUME SwayInv, OnVisibilityUpdate PROVE SwayInv'
<1>0. SwayTypeOK
  BY DEF SwayInv
<1>x. PICK x : x = Head(signalVisible)
  OBVIOUS
<1>c. PICK clears \in BOOLEAN :
        clears = (\/ x.held /\ modifierReset = "press"
                  \/ ~x.held /\ modifierReset = "release" /\ modifierNoAction)
  OBVIOUS
<1>1. /\ signalVisible # <<>> /\ signalVisible' = Tail(signalVisible) /\ BarIpcUpdate
      /\ visibleByModifier' = x.held /\ modifierNoAction' = (x.held \/ modifierNoAction)
      /\ visibleByUrgency' = (visibleByUrgency /\ ~clears) /\ visibleByMode' = (visibleByMode /\ ~clears)
      /\ resetWhileUsed' = (resetWhileUsed \/ (clears /\ ~x.held /\ x.used /\ "press" \notin missed))
      /\ UNCHANGED <<barConfig, signalMode, signalUrgency, signalConfig>>
  BY <1>x, <1>c DEF OnVisibilityUpdate
<1>2. /\ FlagsDecide' /\ signalled' \in BOOLEAN
      /\ UNCHANGED <<modifierHeld, modifierUsed, bindingMode, urgentNow, swayConfig>>
      /\ UNCHANGED <<barWire, ipcPc, missed, modifierReset>>
  BY <1>1, BarUpdates
<1>3. /\ signalVisible' \in Seq(VisibleSignals)
      /\ x = signalVisible[1] /\ x \in VisibleSignals
      /\ Len(signalVisible) = Len(signalVisible') + 1 /\ Len(signalVisible') \in Nat
      /\ \A i \in 1..Len(signalVisible') : signalVisible'[i] = signalVisible[i + 1]
      /\ signalVisible' = <<>> => signalVisible[Len(signalVisible)] = x
      /\ signalVisible' # <<>> => signalVisible'[Len(signalVisible')] = signalVisible[Len(signalVisible)]
  <2>q. PICK q \in Seq(VisibleSignals) : q = signalVisible
    BY <1>0 DEF SwayTypeOK
  <2>r. PICK r : r = signalVisible'
    OBVIOUS
  <2> QED  BY <1>1, <1>x, <2>q, <2>r, QueueTail
<1>4. x.held \in BOOLEAN /\ x.used \in BOOLEAN /\ modifierNoAction \in BOOLEAN
  BY <1>0, <1>3 DEF SwayTypeOK, VisibleSignals
<1>5. ModifierKnown'
  <2>1. ModifierTold => ModifierTold'
    BY <1>1, <1>2, <1>3 DEF ModifierTold
  <2> QED  BY <1>2, <2>1 DEF SwayInv, ModifierKnown
<1>6. visibleByMode' \in BOOLEAN /\ visibleByUrgency' \in BOOLEAN
      /\ (visibleByMode' => visibleByMode) /\ (visibleByUrgency = FALSE => visibleByUrgency' = FALSE)
  BY <1>0, <1>1 DEF SwayTypeOK
<1>7. ModeKnown' /\ UrgencyKnown' /\ ConfigKnown'
  <2>1. (ModeTold => ModeTold') /\ (UrgencyTold => UrgencyTold') /\ (ConfigTold => ConfigTold')
    BY <1>1, <1>2, <1>6 DEF ModeTold, UrgencyTold, ConfigTold
  <2> QED  BY <1>2, <2>1 DEF SwayInv, ModeKnown, UrgencyKnown, NotUrgent, ConfigKnown
<1>8. Cleared => Cleared'
  <2>1. ASSUME ~modifierNoAction, ~PressQueued PROVE ~modifierNoAction' /\ ~PressQueued'
    <3>1. \A i \in 1..Len(signalVisible) : i \in DOMAIN signalVisible /\ ~signalVisible[i].held
      BY <1>0, <2>1 DEF PressQueued, SwayTypeOK
    <3>2. ~x.held
      BY <1>3, <3>1
    <3>3. \A i \in DOMAIN signalVisible' : ~signalVisible'[i].held
      BY <1>3, <3>1
    <3> QED  BY <1>1, <2>1, <3>2, <3>3 DEF PressQueued
  <2> QED  BY <1>2, <2>1 DEF Cleared
<1>9. UsedKnown'
  BY <1>2, <1>8 DEF SwayInv, UsedKnown, ActedBy
<1>10. QueuedKnown'
  <2> SUFFICES ASSUME NEW j \in 1..Len(signalVisible'), ~signalVisible'[j].held, signalVisible'[j].used, "press" \notin missed
               PROVE  ~modifierNoAction' /\ \A h \in 1..Len(signalVisible') : h < j => ~signalVisible'[h].held
    BY <1>2 DEF QueuedKnown
  <2>1. j + 1 \in 1..Len(signalVisible) /\ ~signalVisible[j + 1].held /\ signalVisible[j + 1].used
    BY <1>3
  <2>2. ~modifierNoAction /\ \A h \in 1..Len(signalVisible) : h < j + 1 => ~signalVisible[h].held
    BY <2>1 DEF SwayInv, QueuedKnown
  <2>3. ~x.held
    BY <1>3, <2>1, <2>2
  <2>4. \A h \in 1..Len(signalVisible') : h < j => ~signalVisible'[h].held
    BY <1>3, <2>1, <2>2
  <2> QED  BY <1>1, <2>2, <2>3, <2>4
<1>11. ReleaseSparesUsedModifier'
  <2>1. ~x.held /\ x.used /\ "press" \notin missed => ~modifierNoAction
    BY <1>3 DEF SwayInv, QueuedKnown
  <2> QED  BY <1>1, <1>c, <2>1 DEF SwayInv, ReleaseSparesUsedModifier
<1>12. SwayTypeOK'
  BY <1>0, <1>1, <1>2, <1>3, <1>4, <1>6 DEF SwayTypeOK
<1> QED  BY <1>2, <1>5, <1>7, <1>9, <1>10, <1>11, <1>12 DEF SwayInv

\* The other three leave the key alone.
LEMMA OtherUpdates ==
  ASSUME SwayInv, BarIpcUpdate, UNCHANGED <<signalVisible, visibleByModifier, modifierNoAction, resetWhileUsed>>
  PROVE  ModifierKnown' /\ UsedKnown' /\ QueuedKnown' /\ ReleaseSparesUsedModifier'
<1>1. /\ UNCHANGED <<modifierHeld, modifierUsed>>
      /\ UNCHANGED <<barWire, ipcPc, missed>>
  BY BarUpdates
<1>2. ModifierTold' = ModifierTold /\ Cleared' = Cleared
  BY <1>1 DEF ModifierTold, Cleared, PressQueued
<1>3. ModifierKnown'
  BY <1>1, <1>2 DEF SwayInv, ModifierKnown
<1>4. UsedKnown'
  BY <1>1, <1>2 DEF SwayInv, UsedKnown, ActedBy
<1> QED  BY <1>1, <1>3, <1>4 DEF SwayInv, QueuedKnown, ReleaseSparesUsedModifier

LEMMA ModeUpdated == ASSUME SwayInv, OnModeUpdate PROVE SwayInv'
<1>0. SwayTypeOK
  BY DEF SwayInv
<1>1. /\ signalMode # <<>> /\ signalMode' = Tail(signalMode) /\ visibleByMode' = Head(signalMode) /\ BarIpcUpdate
      /\ UNCHANGED <<barConfig, visibleByModifier, visibleByUrgency, modifierNoAction, resetWhileUsed>>
      /\ UNCHANGED <<signalVisible, signalUrgency, signalConfig>>
  BY DEF OnModeUpdate
<1>2. /\ FlagsDecide' /\ signalled' \in BOOLEAN
      /\ UNCHANGED <<modifierHeld, modifierUsed, bindingMode, urgentNow, swayConfig>>
      /\ UNCHANGED <<barWire, ipcPc, missed, modifierReset>>
  BY <1>1, BarUpdates
<1>3. /\ signalMode' \in Seq(BOOLEAN) /\ visibleByMode' \in BOOLEAN
      /\ signalMode' = <<>> => signalMode[Len(signalMode)] = visibleByMode'
      /\ signalMode' # <<>> => signalMode'[Len(signalMode')] = signalMode[Len(signalMode)]
  <2>q. PICK q \in Seq(BOOLEAN) : q = signalMode
    BY <1>0 DEF SwayTypeOK
  <2>r. PICK r : r = signalMode'
    OBVIOUS
  <2> QED  BY <1>1, <2>q, <2>r, QueueTail
<1>4. ModifierKnown' /\ UsedKnown' /\ QueuedKnown' /\ ReleaseSparesUsedModifier'
  BY <1>1, OtherUpdates
<1>5. ModeKnown' /\ UrgencyKnown' /\ ConfigKnown'
  <2>1. (ModeTold => ModeTold') /\ (UrgencyTold => UrgencyTold') /\ (ConfigTold => ConfigTold')
    BY <1>1, <1>2, <1>3 DEF ModeTold, UrgencyTold, ConfigTold
  <2> QED  BY <1>2, <2>1 DEF SwayInv, ModeKnown, UrgencyKnown, NotUrgent, ConfigKnown
<1>6. SwayTypeOK'
  BY <1>0, <1>1, <1>2, <1>3 DEF SwayTypeOK
<1> QED  BY <1>2, <1>4, <1>5, <1>6 DEF SwayInv

LEMMA UrgencyUpdated == ASSUME SwayInv, OnUrgencyUpdate PROVE SwayInv'
<1>0. SwayTypeOK
  BY DEF SwayInv
<1>1. /\ signalUrgency # <<>> /\ signalUrgency' = Tail(signalUrgency) /\ visibleByUrgency' = Head(signalUrgency) /\ BarIpcUpdate
      /\ UNCHANGED <<barConfig, visibleByModifier, visibleByMode, modifierNoAction, resetWhileUsed>>
      /\ UNCHANGED <<signalVisible, signalMode, signalConfig>>
  BY DEF OnUrgencyUpdate
<1>2. /\ FlagsDecide' /\ signalled' \in BOOLEAN
      /\ UNCHANGED <<modifierHeld, modifierUsed, bindingMode, urgentNow, swayConfig>>
      /\ UNCHANGED <<barWire, ipcPc, missed, modifierReset>>
  BY <1>1, BarUpdates
<1>3. /\ signalUrgency' \in Seq(BOOLEAN) /\ visibleByUrgency' \in BOOLEAN
      /\ signalUrgency' = <<>> => signalUrgency[Len(signalUrgency)] = visibleByUrgency'
      /\ signalUrgency' # <<>> => signalUrgency'[Len(signalUrgency')] = signalUrgency[Len(signalUrgency)]
  <2>q. PICK q \in Seq(BOOLEAN) : q = signalUrgency
    BY <1>0 DEF SwayTypeOK
  <2>r. PICK r : r = signalUrgency'
    OBVIOUS
  <2> QED  BY <1>1, <2>q, <2>r, QueueTail
<1>4. ModifierKnown' /\ UsedKnown' /\ QueuedKnown' /\ ReleaseSparesUsedModifier'
  BY <1>1, OtherUpdates
<1>5. ModeKnown' /\ UrgencyKnown' /\ ConfigKnown'
  <2>1. (ModeTold => ModeTold') /\ (UrgencyTold => UrgencyTold') /\ (ConfigTold => ConfigTold')
    BY <1>1, <1>2, <1>3 DEF ModeTold, UrgencyTold, ConfigTold
  <2> QED  BY <1>2, <2>1 DEF SwayInv, ModeKnown, UrgencyKnown, NotUrgent, ConfigKnown
<1>6. SwayTypeOK'
  BY <1>0, <1>1, <1>2, <1>3 DEF SwayTypeOK
<1> QED  BY <1>2, <1>4, <1>5, <1>6 DEF SwayInv

LEMMA ConfigUpdated == ASSUME SwayInv, OnConfigUpdate PROVE SwayInv'
<1>0. SwayTypeOK
  BY DEF SwayInv
<1>1. /\ signalConfig # <<>> /\ signalConfig' = Tail(signalConfig) /\ barConfig' = Head(signalConfig) /\ BarIpcUpdate
      /\ UNCHANGED <<visibleByModifier, visibleByMode, visibleByUrgency, modifierNoAction, resetWhileUsed>>
      /\ UNCHANGED <<signalVisible, signalMode, signalUrgency>>
  BY DEF OnConfigUpdate
<1>2. /\ FlagsDecide' /\ signalled' \in BOOLEAN
      /\ UNCHANGED <<modifierHeld, modifierUsed, bindingMode, urgentNow, swayConfig>>
      /\ UNCHANGED <<barWire, ipcPc, missed, modifierReset>>
  BY <1>1, BarUpdates
<1>3. /\ signalConfig' \in Seq(BarConfigs) /\ barConfig' \in BarConfigs
      /\ signalConfig' = <<>> => signalConfig[Len(signalConfig)] = barConfig'
      /\ signalConfig' # <<>> => signalConfig'[Len(signalConfig')] = signalConfig[Len(signalConfig)]
  <2>q. PICK q \in Seq(BarConfigs) : q = signalConfig
    BY <1>0 DEF SwayTypeOK
  <2>r. PICK r : r = signalConfig'
    OBVIOUS
  <2> QED  BY <1>1, <2>q, <2>r, QueueTail
<1>4. ModifierKnown' /\ UsedKnown' /\ QueuedKnown' /\ ReleaseSparesUsedModifier'
  BY <1>1, OtherUpdates
<1>5. ModeKnown' /\ UrgencyKnown' /\ ConfigKnown'
  <2>1. (ModeTold => ModeTold') /\ (UrgencyTold => UrgencyTold') /\ (ConfigTold => ConfigTold')
    BY <1>1, <1>2, <1>3 DEF ModeTold, UrgencyTold, ConfigTold
  <2> QED  BY <1>2, <2>1 DEF SwayInv, ModeKnown, UrgencyKnown, NotUrgent, ConfigKnown
<1>6. SwayTypeOK'
  BY <1>0, <1>1, <1>2, <1>3 DEF SwayTypeOK
<1> QED  BY <1>2, <1>4, <1>5, <1>6 DEF SwayInv

\* What the bar's modules and its window do leaves all of that alone.
LEMMA OthersKeep ==
  ASSUME SwayInv,
         \/ UNCHANGED barVars
         \/ \E value \in BOOLEAN : SetVisible(value)
         \/ \E made \in BOOLEAN : GetModule(made)
         \/ ShowAll \/ MapChanges \/ DestroyBar \/ FreeBarModules \/ CloseWindow
  PROVE  SwayInv'
<1>1. /\ UNCHANGED <<barSway, barIpc, modifierReset>>
      /\ UNCHANGED <<barMode, signalled>> \/ signalled' = TRUE
  BY DEF barVars, SetVisible, GetModule, ShowAll, MapChanges, DestroyBar, FreeBarModules, CloseWindow
<1>2. /\ UNCHANGED <<modifierHeld, modifierUsed, bindingMode, urgentNow, swayConfig, barWire, ipcPc, missed>>
      /\ UNCHANGED <<signalVisible, signalMode, signalUrgency, signalConfig, resetWhileUsed>>
      /\ UNCHANGED <<barConfig, visibleByModifier, visibleByMode, visibleByUrgency, modifierNoAction>>
  BY <1>1 DEF barSway, barIpc, barQueues, ipcFlags
<1>3. SwayTypeOK' /\ FlagsDecide' /\ ReleaseSparesUsedModifier'
  <2>1. (signalled' = signalled /\ barMode' = barMode) \/ signalled' = TRUE
    BY <1>1
  <2>2. signalled' \in BOOLEAN
    BY <2>1 DEF SwayInv, SwayTypeOK
  <2>3. SwayTypeOK'
    <3>1. SwayTypeOK
      BY DEF SwayInv
    <3> QED  BY <1>1, <1>2, <2>2, <3>1 DEF SwayTypeOK
  <2>4. FlagsDecide'
    BY <1>2, <2>1 DEF SwayInv, FlagsDecide
  <2> QED  BY <1>2, <2>3, <2>4 DEF SwayInv, ReleaseSparesUsedModifier
<1>4. ModifierKnown' /\ ModeKnown' /\ UrgencyKnown' /\ ConfigKnown'
  BY <1>2 DEF SwayInv, ModifierKnown, ModeKnown, UrgencyKnown, ConfigKnown,
              ModifierTold, ModeTold, UrgencyTold, ConfigTold, NotUrgent
<1>5. UsedKnown' /\ QueuedKnown'
  BY <1>2 DEF SwayInv, UsedKnown, QueuedKnown, ActedBy, Cleared, PressQueued
<1> QED  BY <1>3, <1>4, <1>5 DEF SwayInv

LEMMA SwayKeeps == SwayInv /\ [BarNext]_barVars => SwayInv'
BY SwaySends, BarStateRead, BarConfigRead, OtherBarRead, BindingRead, ModeRead, WorkspaceRead, WorkerGoesOn,
   VisibilityUpdated, ModeUpdated, UrgencyUpdated, ConfigUpdated, OthersKeep DEF BarNext

\* With the wire read and the queues handled no event is left to come.
LEMMA SwayInvImplies == SwayInv => HiddenBarFollowsSway /\ ReleaseSparesUsedModifier
<1> SUFFICES ASSUME SwayInv, BarQuiet
             PROVE  /\ barConfig = swayConfig \/ "config" \in missed
                    /\ barConfig = [mode |-> "hide", hiddenState |-> "hide"] =>
                         /\ modifierHeld => barMode = "hide" \/ "modifier" \in missed
                         /\ barMode = "hide" => modifierHeld \/ bindingMode \/ urgentNow # {} \/ "urgency" \in missed
  BY DEF HiddenBarFollowsSway, SwayInv
<1>1. /\ Len(barWire) = 0 /\ 1..Len(barWire) = {} /\ ~signalled /\ ipcPc = "recv"
      /\ signalVisible = <<>> /\ signalMode = <<>> /\ signalUrgency = <<>> /\ signalConfig = <<>>
  BY DEF BarQuiet
<1>2. \A n : \A G : ~Said(barWire, n, G)
  BY <1>1 DEF Said
<1>3. /\ ("modifier" \in missed /\ modifierHeld) \/ visibleByModifier = modifierHeld
      /\ visibleByMode => bindingMode
      /\ urgentNow = {} => "urgency" \in missed \/ ~visibleByUrgency
      /\ "config" \in missed \/ barConfig = swayConfig
  BY <1>1, <1>2 DEF SwayInv, ModifierKnown, ModeKnown, UrgencyKnown, ConfigKnown, ModifierTold, ModeTold, UrgencyTold, ConfigTold
<1>4. barMode = IpcMode(barConfig, visibleByModifier, visibleByMode, visibleByUrgency)
  BY <1>1 DEF SwayInv, FlagsDecide
<1>5. barConfig = [mode |-> "hide", hiddenState |-> "hide"] =>
        barMode = IF visibleByModifier \/ visibleByMode \/ visibleByUrgency THEN "hide" ELSE "invisible"
  BY <1>4 DEF IpcMode, MODE_INVISIBLE
<1>6. ASSUME barConfig = [mode |-> "hide", hiddenState |-> "hide"], modifierHeld
      PROVE  barMode = "hide" \/ "modifier" \in missed
  BY <1>3, <1>5, <1>6
<1>7. ASSUME barConfig = [mode |-> "hide", hiddenState |-> "hide"], barMode = "hide", "urgency" \notin missed, urgentNow = {}
      PROVE  modifierHeld \/ bindingMode
  <2>1. visibleByModifier \/ visibleByMode
    BY <1>3, <1>5, <1>7
  <2>2. visibleByMode => bindingMode
    BY <1>3
  <2>3. visibleByModifier => modifierHeld
    BY <1>3
  <2> QED  BY <2>1, <2>2, <2>3
<1> QED  BY <1>3, <1>6, <1>7

LEMMA SwayInvariant == BarSpec => []SwayInv
<1>1. BarInit => SwayInv
  <2> SUFFICES ASSUME BarInit PROVE SwayInv
    OBVIOUS
  <2>1. /\ barWire = <<>> /\ Len(barWire) = 0 /\ 1..Len(barWire) = {} /\ ipcPc = "recv"
        /\ signalVisible = <<>> /\ signalMode = <<>> /\ signalUrgency = <<>> /\ signalConfig = <<>>
        /\ Len(signalVisible) = 0 /\ 1..Len(signalVisible) = {}
    BY DEF BarInit
  <2>2. /\ modifierHeld \in BOOLEAN /\ modifierUsed = FALSE /\ bindingMode \in BOOLEAN /\ urgentNow \subseteq UrgentWs
        /\ visibleByModifier = FALSE /\ visibleByMode = FALSE /\ visibleByUrgency = FALSE
        /\ modifierNoAction = FALSE /\ signalled = FALSE /\ resetWhileUsed = FALSE
        /\ barConfig \in BarConfigs /\ swayConfig \in BarConfigs /\ modifierReset \in {"press", "release"}
        /\ missed = (IF modifierHeld THEN {"modifier"} ELSE {}) \cup (IF barConfig # swayConfig THEN {"config"} ELSE {})
    BY DEF BarInit
  <2>3. SwayTypeOK
    <3>1. /\ barWire \in Seq(BarEvents) /\ signalVisible \in Seq(VisibleSignals) /\ signalMode \in Seq(BOOLEAN)
          /\ signalUrgency \in Seq(BOOLEAN) /\ signalConfig \in Seq(BarConfigs)
      BY <2>1
    <3>2. missed \subseteq Excuses
      BY <2>2 DEF Excuses
    <3> QED  BY <2>1, <2>2, <3>1, <3>2 DEF SwayTypeOK
  <2>4. ModifierKnown /\ ModeKnown /\ UrgencyKnown /\ ConfigKnown
    <3>1. \A n : Absent(barWire, n)
      BY <2>1 DEF Absent
    <3>2. ("modifier" \in missed /\ modifierHeld) \/ ModifierTold
      BY <2>1, <2>2 DEF ModifierTold
    <3>3. ModeTold /\ UrgencyTold /\ ("config" \in missed \/ ConfigTold)
      BY <2>1, <2>2 DEF ModeTold, UrgencyTold, ConfigTold
    <3> QED  BY <3>1, <3>2, <3>3 DEF ModifierKnown, ModeKnown, UrgencyKnown, ConfigKnown
  <2>5. FlagsDecide
    BY DEF BarInit, FlagsDecide
  <2>6. UsedKnown /\ QueuedKnown /\ ReleaseSparesUsedModifier
    BY <2>1, <2>2 DEF UsedKnown, QueuedKnown, ReleaseSparesUsedModifier
  <2> QED  BY <2>3, <2>4, <2>5, <2>6 DEF SwayInv
<1> QED  BY <1>1, SwayKeeps, PTL DEF BarSpec

\* In whatever order the key, the bindings, the modes, the workspaces and the configurations of
\* sway change, however late the worker reads of it, and in whatever order the main thread then
\* takes the signals of the four queues: at rest the bar has sway's configuration, and a hidden
\* bar is shown exactly as sway's last word says; the release of a key that was used for
\* something else changes nothing; and the bar's modules sleep exactly while it is unmapped.
\* What the client cannot know is told by missed: what sway never told it of, and the two races
\* of the worker with the main thread (bar.cpp:354-359, sway/bar.cpp:100-219).
THEOREM BarAlwaysAgrees == BarSpec => []BarAgrees
<1>1. SuspendFollowsMap /\ SwayInv => BarAgrees
  BY SwayInvImplies DEF BarAgrees
<1> QED  BY <1>1, SwayInvariant, SuspendedWhileUnmapped, PTL

-----------------------------------------------------------------------------
(* What is left of a sequence.                                               *)

\* t is s at the positions in I: each of them once.
Leaves(t, s, I) ==
  /\ Len(t) \in Nat
  /\ \A n \in 1..Len(t) : Nth(I, n) \in I /\ Nth(I, n) \in 1..Len(s) /\ t[n] = s[Nth(I, n)]
  /\ \A a, b \in 1..Len(t) : Nth(I, a) = Nth(I, b) => a = b
  /\ \A i \in I : \E n \in 1..Len(t) : Nth(I, n) = i

\* Different positions have a different number of positions below them, so that every number
\* up to theirs belongs to one of them.
Below(I, i) == {h \in I : h < i}
LEMMA NthIsOne ==
  ASSUME NEW L \in Nat, NEW I \in SUBSET (1..L)
  PROVE  /\ Cardinality(I) \in Nat
         /\ \A n \in 1..Cardinality(I) : Nth(I, n) \in I /\ Cardinality(Below(I, Nth(I, n))) = n - 1
         /\ \A i \in I : \E n \in 1..Cardinality(I) : Nth(I, n) = i
<1> PICK c : c = Cardinality(I)
  OBVIOUS
<1>1. IsFiniteSet(I) /\ c \in Nat /\ \A i \in I : i \in Nat
  <2>1. IsFiniteSet(1..L)
    BY FS_Interval
  <2>2. IsFiniteSet(I)
    BY <2>1, FS_Subset
  <2> QED  BY <2>2, FS_CardinalityType
<1>2. ASSUME NEW i \in I
      PROVE  /\ IsFiniteSet(Below(I, i)) /\ Cardinality(Below(I, i)) \in Nat
             /\ Cardinality(Below(I, i)) + 1 \in 1..c
  <2>1. Below(I, i) \in SUBSET I /\ Below(I, i) # I
    BY <1>1 DEF Below
  <2>2. IsFiniteSet(Below(I, i)) /\ Cardinality(Below(I, i)) \in Nat
    BY <1>1, <2>1, FS_Subset, FS_CardinalityType
  <2>3. Cardinality(Below(I, i)) < c
    BY <1>1, <2>1, <2>2, FS_Subset
  <2> QED  BY <1>1, <2>2, <2>3
<1>3. ASSUME NEW x \in I, NEW y \in I, x < y PROVE Cardinality(Below(I, x)) < Cardinality(Below(I, y))
  <2>1. Below(I, x) \in SUBSET Below(I, y) /\ Below(I, x) # Below(I, y)
    <3>1. x \in Nat /\ y \in Nat /\ \A h \in I : h \in Nat
      BY <1>1
    <3>2. \A h \in I : h < x => h < y
      BY <1>3, <3>1
    <3>3. x \in Below(I, y) /\ x \notin Below(I, x)
      BY <1>3, <3>1 DEF Below
    <3> QED  BY <3>2, <3>3 DEF Below
  <2>2. Cardinality(Below(I, x)) <= Cardinality(Below(I, y)) /\ Cardinality(Below(I, x)) # Cardinality(Below(I, y))
    BY <1>2, <2>1, FS_Subset
  <2> QED  BY <1>2, <2>2
<1>4. ASSUME NEW i \in I, NEW j \in I, Cardinality(Below(I, i)) = Cardinality(Below(I, j)) PROVE i = j
  <2>1. ~(i < j) /\ ~(j < i)
    BY <1>2, <1>3, <1>4
  <2>2. i \in Nat /\ j \in Nat
    BY <1>1
  <2> QED  BY <2>1, <2>2
<1>5. ASSUME NEW n \in 1..c PROVE \E i \in I : Cardinality(Below(I, i)) = n - 1
  <2>1. CASE \E i \in I : Cardinality(Below(I, i)) + 1 = n
    BY <1>2, <2>1
  <2>2. CASE \A i \in I : Cardinality(Below(I, i)) + 1 # n
    <3>1. PICK others : others = (1..c) \ {n}
      OBVIOUS
    <3>2. PICK rank : rank = [i \in I |-> Cardinality(Below(I, i)) + 1]
      OBVIOUS
    <3>3. rank \in [I -> others]
      BY <1>2, <2>2, <3>1, <3>2
    <3>4. IsFiniteSet(1..c) /\ Cardinality(1..c) = c
      BY <1>1, FS_Interval
    <3>5. IsFiniteSet(others) /\ Cardinality(others) = c - 1
      BY <3>1, <3>4, FS_RemoveElement
    <3>6. Cardinality(others) < Cardinality(I)
      BY <1>1, <3>5
    <3>7. PICK x, y \in I : x # y /\ rank[x] = rank[y]
      BY <1>1, <3>3, <3>5, <3>6, FS_PigeonHole
    <3>8. Cardinality(Below(I, x)) + 1 = Cardinality(Below(I, y)) + 1
      BY <3>2, <3>7
    <3> QED  BY <1>2, <1>4, <3>7, <3>8
  <2> QED  BY <2>1, <2>2
<1>6. ASSUME NEW n \in 1..c PROVE Nth(I, n) \in I /\ Cardinality(Below(I, Nth(I, n))) = n - 1
  BY <1>5 DEF Nth, Below
<1>7. ASSUME NEW i \in I PROVE \E n \in 1..c : Nth(I, n) = i
  <2>1. PICK n \in 1..c : n = Cardinality(Below(I, i)) + 1
    BY <1>2
  <2>2. Cardinality(Below(I, Nth(I, n))) = Cardinality(Below(I, i))
    BY <1>2, <1>6, <2>1
  <2> QED  BY <1>4, <1>6, <2>2
<1> QED  BY <1>1, <1>6, <1>7

LEMMA AtLeaves ==
  ASSUME NEW S, NEW s \in Seq(S), NEW I \in SUBSET (1..Len(s)), NEW t, t = At(s, I)
  PROVE  t \in Seq(S) /\ Leaves(t, s, I)
<1> PICK c : c = Cardinality(I)
  OBVIOUS
<1>1. /\ c \in Nat
      /\ \A n \in 1..c : Nth(I, n) \in I /\ Cardinality(Below(I, Nth(I, n))) = n - 1
      /\ \A i \in I : \E n \in 1..c : Nth(I, n) = i
  <2>1. Len(s) \in Nat
    OBVIOUS
  <2> QED  BY <2>1, NthIsOne
<1>2. t = [n \in 1..c |-> s[Nth(I, n)]]
  BY DEF At
<1>3. \A n \in 1..c : s[Nth(I, n)] \in S
  <2>1. \A i \in 1..Len(s) : s[i] \in S
    OBVIOUS
  <2>2. \A n \in 1..c : Nth(I, n) \in 1..Len(s)
    BY <1>1
  <2> QED  BY <2>1, <2>2
<1>4. t \in Seq(S) /\ Len(t) = c /\ \A n \in 1..c : t[n] = s[Nth(I, n)]
  BY <1>1, <1>2, <1>3
<1>5. ASSUME NEW a \in 1..c, NEW b \in 1..c, Nth(I, a) = Nth(I, b) PROVE a = b
  <2>1. a - 1 = b - 1
    BY <1>1, <1>5
  <2> QED  BY <1>1, <2>1
<1> QED  BY <1>1, <1>4, <1>5 DEF Leaves

-----------------------------------------------------------------------------
(* Outputs and bars.  The batch is on its way before any removal of an output *)
(* that waits for it, and everything that is complete waits or has had its turn. *)

OutputRecord == [addr : Address, monitor : Nat, run : Nat, done : BOOLEAN]

ClientTypes ==
  /\ plugs \in 0..MaxPlugs /\ monitors \subseteq 1..plugs /\ reloads \in Nat
  /\ connected \in BOOLEAN /\ scheduled \in BOOLEAN
  /\ outputs \in Seq(OutputRecord) /\ pending \in Seq(OutputRecord) /\ bars \in Seq(OutputRecord)
  /\ idles \in Seq(0..plugs) /\ failed \subseteq 1..plugs
  /\ phase \in {"bind", "run", "batch"}
  /\ cursor \in Nat /\ 1 <= cursor /\ cursor <= Len(pending) + 1
  /\ phase # "batch" => cursor = 1

\* One output for a monitor, and one at an address.
OutputsApart ==
  /\ \A i \in 1..Len(outputs) : outputs[i].monitor \in 1..plugs
  /\ \A i, j \in 1..Len(outputs) :
       outputs[i].monitor = outputs[j].monitor \/ outputs[i].addr = outputs[j].addr => i = j

\* A monitor whose removal waits does not come back.
GoneForGood == \A j \in 1..Len(idles) : idles[j] # Batch => idles[j] \notin monitors

\* Every monitor has its output, and an output without a monitor has its removal to come.
MonitorsCovered ==
  /\ connected
  /\ \A m \in monitors : \E i \in 1..Len(outputs) : outputs[i].monitor = m
  /\ \A i \in 1..Len(outputs) :
       outputs[i].monitor \in monitors \/ \E j \in 1..Len(idles) : idles[j] = outputs[i].monitor

\* o is one of the outputs now, completely known.
Placed(o) == \E i \in 1..Len(outputs) : Same(o, outputs[i]) /\ outputs[i].done
AllPlaced ==
  /\ \A b \in 1..Len(bars) : Placed(bars[b])
  /\ \A p \in 1..Len(pending) : Placed(pending[p])
  /\ \A i \in 1..Len(outputs) : outputs[i].monitor \in failed => outputs[i].done

\* Nobody waits twice, none that waits has had its turn, and none has had both outcomes.
OnlyOnce ==
  /\ \A p, q \in 1..Len(pending) : pending[p].monitor = pending[q].monitor => p = q
  /\ \A b, c \in 1..Len(bars) : bars[b].monitor = bars[c].monitor => b = c
  /\ \A p \in cursor..Len(pending) :
       pending[p].monitor \notin failed /\ \A b \in 1..Len(bars) : bars[b].monitor # pending[p].monitor
  /\ \A b \in 1..Len(bars) : bars[b].monitor \notin failed

\* An output that is complete waits, or has had its turn.
TurnsComeOrCame ==
  \A i \in 1..Len(outputs) : outputs[i].done =>
    \/ outputs[i].monitor \in failed
    \/ \E b \in 1..Len(bars) : bars[b].monitor = outputs[i].monitor
    \/ \E p \in cursor..Len(pending) : pending[p].monitor = outputs[i].monitor

\* The batch comes before the removal of any output that waits for it.
BatchFirst(w, k, ps) ==
  /\ k \in 1..Len(w) /\ w[k] = Batch
  /\ \A j \in 1..Len(w), p \in 1..Len(ps) : j < k => w[j] # ps[p].monitor
BatchComes ==
  phase = "run" =>
    /\ scheduled => \E k \in 1..Len(idles) : BatchFirst(idles, k, pending)
    /\ ~scheduled => Len(pending) = 0

Linked == MonitorsCovered /\ AllPlaced /\ OnlyOnce /\ TurnsComeOrCame /\ BatchComes

ClientInv ==
  /\ ClientTypes /\ OutputsApart /\ GoneForGood
  /\ phase = "bind" => Len(bars) = 0 /\ failed = {}
  /\ phase # "bind" => Linked

LEMMA ClientStarts == ClientInit => ClientInv
<1> SUFFICES ASSUME ClientInit PROVE ClientInv
  OBVIOUS
<1>1. /\ plugs \in 0..MaxPlugs /\ monitors = 1..plugs /\ connected = FALSE /\ scheduled = FALSE
      /\ phase = "bind" /\ cursor = 1 /\ reloads = 0 /\ failed = {}
      /\ outputs = <<>> /\ pending = <<>> /\ idles = <<>> /\ bars = <<>>
  BY DEF ClientInit
<1>2. Len(outputs) = 0 /\ Len(pending) = 0 /\ Len(idles) = 0 /\ Len(bars) = 0
  BY <1>1
<1>3. monitors \subseteq 1..plugs
  BY <1>1
<1>4. outputs \in Seq(OutputRecord) /\ pending \in Seq(OutputRecord) /\ bars \in Seq(OutputRecord)
  BY <1>1
<1>5. idles \in Seq(0..plugs) /\ failed \subseteq 1..plugs
  BY <1>1
<1>6. ClientTypes
  <2>1. scheduled \in BOOLEAN /\ connected \in BOOLEAN
    BY <1>1
  <2>2. cursor \in Nat /\ 1 <= cursor /\ cursor <= Len(pending) + 1 /\ reloads \in Nat
    BY <1>1, <1>2
  <2> QED  BY <1>1, <1>3, <1>4, <1>5, <2>1, <2>2 DEF ClientTypes
<1>7. OutputsApart /\ GoneForGood
  BY <1>2 DEF OutputsApart, GoneForGood
<1> QED  BY <1>1, <1>2, <1>6, <1>7 DEF ClientInv

\* A new monitor is larger than all there were.
LEMMA MonitorAddedKeeps == ASSUME ClientInv, MonitorAdded PROVE ClientInv'
<1>0. ClientTypes /\ OutputsApart /\ GoneForGood
  BY DEF ClientInv
<1>1. /\ plugs \in Nat /\ plugs < MaxPlugs /\ plugs' = plugs + 1 /\ monitors' = monitors \cup {plugs'}
      /\ UNCHANGED <<connected, pending, scheduled, idles, bars, phase, cursor, reloads, failed>>
  BY <1>0, ClientAssumption DEF MonitorAdded, ClientTypes, ClientAssumption
<1>2. /\ plugs' \in 0..MaxPlugs /\ monitors' \subseteq 1..plugs' /\ 0..plugs \subseteq 0..plugs' /\ 1..plugs \subseteq 1..plugs'
      /\ plugs' \notin 1..plugs /\ plugs' \notin 0..plugs
  BY <1>0, <1>1, ClientAssumption DEF ClientTypes, ClientAssumption
<1>3. idles \in Seq(0..plugs') /\ \A j \in 1..Len(idles) : idles[j] # plugs'
  BY <1>0, <1>2 DEF ClientTypes
<1>4. GoneForGood'
  BY <1>0, <1>1, <1>3 DEF GoneForGood
<1>5. CASE ~connected
  <2>1. UNCHANGED outputs /\ phase = "bind"
    BY <1>5 DEF MonitorAdded, ClientInv, Linked, MonitorsCovered
  <2>2. ClientTypes' /\ OutputsApart'
    BY <1>0, <1>1, <1>2, <1>3, <2>1 DEF ClientTypes, OutputsApart
  <2> QED  BY <1>1, <1>4, <2>1, <2>2 DEF ClientInv
<1>6. CASE connected
  <2>1. PICK a \in Address \ Addresses(outputs) : outputs' = Append(outputs, Output(a, plugs'))
    BY <1>6 DEF MonitorAdded
  <2>2. PICK o : o = Output(a, plugs')
    OBVIOUS
  <2>3. o \in OutputRecord /\ o.monitor = plugs' /\ o.addr = a /\ o.done = FALSE
    BY <1>0, <1>1, <2>2 DEF Output, OutputRecord, ClientTypes
  <2>4. /\ outputs' \in Seq(OutputRecord) /\ Len(outputs') = Len(outputs) + 1 /\ Len(outputs) \in Nat
        /\ outputs'[Len(outputs')] = o
        /\ \A i \in 1..Len(outputs) : outputs'[i] = outputs[i] /\ i \in 1..Len(outputs')
        /\ \A i \in 1..Len(outputs') : i \in 1..Len(outputs) \/ i = Len(outputs')
        /\ Len(outputs') \in 1..Len(outputs')
    BY <1>0, <2>1, <2>2, <2>3 DEF ClientTypes
  <2>5. \A i \in 1..Len(outputs) : outputs[i].addr # a /\ outputs[i].monitor # plugs'
    <3>1. \A i \in 1..Len(outputs) : outputs[i].addr \in Addresses(outputs)
      BY <1>0 DEF Addresses, ClientTypes
    <3> QED  BY <1>0, <1>2, <3>1 DEF OutputsApart
  <2>6. ClientTypes'
    BY <1>0, <1>1, <1>2, <1>3, <2>4 DEF ClientTypes
  <2>7. OutputsApart'
    <3>1. \A i \in 1..Len(outputs') : outputs'[i].monitor \in 1..plugs'
      BY <1>0, <1>1, <1>2, <2>3, <2>4 DEF OutputsApart
    <3>2. \A i, j \in 1..Len(outputs') :
            outputs'[i].monitor = outputs'[j].monitor \/ outputs'[i].addr = outputs'[j].addr => i = j
      BY <1>0, <2>3, <2>4, <2>5 DEF OutputsApart
    <3> QED  BY <3>1, <3>2 DEF OutputsApart
  <2>8. ASSUME Linked PROVE Linked'
    <3>0. MonitorsCovered /\ AllPlaced /\ OnlyOnce /\ TurnsComeOrCame /\ BatchComes
      BY <2>8 DEF Linked
    <3>1. MonitorsCovered'
      <4>1. \A m \in monitors' : \E i \in 1..Len(outputs') : outputs'[i].monitor = m
        BY <1>1, <2>3, <2>4, <3>0 DEF MonitorsCovered
      <4>2. \A i \in 1..Len(outputs') :
              outputs'[i].monitor \in monitors' \/ \E j \in 1..Len(idles) : idles[j] = outputs'[i].monitor
        BY <1>1, <2>3, <2>4, <3>0 DEF MonitorsCovered
      <4> QED  BY <1>1, <1>6, <4>1, <4>2 DEF MonitorsCovered
    <3>2. \A x : Placed(x) => Placed(x)'
      BY <2>4 DEF Placed
    <3>3. AllPlaced'
      <4>1. \A i \in 1..Len(outputs') : outputs'[i].monitor \in failed => outputs'[i].done
        <5>1. plugs' \notin failed
          BY <1>0, <1>2 DEF ClientTypes
        <5> QED  BY <2>3, <2>4, <3>0, <5>1 DEF AllPlaced
      <4> QED  BY <1>1, <3>0, <3>2, <4>1 DEF AllPlaced
    <3>4. OnlyOnce' /\ BatchComes'
      BY <1>1, <3>0 DEF OnlyOnce, BatchComes
    <3>5. TurnsComeOrCame'
      BY <1>1, <2>3, <2>4, <3>0 DEF TurnsComeOrCame
    <3> QED  BY <3>1, <3>3, <3>4, <3>5 DEF Linked
  <2> QED  BY <1>1, <1>4, <2>6, <2>7, <2>8 DEF ClientInv
<1> QED  BY <1>5, <1>6

\* The removal of a monitor is told after all that is on its way.
LEMMA MonitorRemovedKeeps == ASSUME ClientInv, NEW m \in monitors, MonitorRemoved(m) PROVE ClientInv'
<1>0. ClientTypes /\ OutputsApart /\ GoneForGood
  BY DEF ClientInv
<1>1. /\ monitors' = monitors \ {m} /\ m \in 1..plugs /\ m \in 0..plugs
      /\ UNCHANGED <<plugs, connected, outputs, pending, scheduled, bars, phase, cursor, reloads, failed>>
  BY <1>0 DEF MonitorRemoved, ClientTypes
<1>2. /\ idles' \in Seq(0..plugs) /\ Len(idles) \in Nat
      /\ \A j \in 1..Len(idles) : j \in 1..Len(idles') /\ idles'[j] = idles[j]
      /\ \A j \in 1..Len(idles') : j \in 1..Len(idles) \/ idles'[j] = m
      /\ connected => \E j \in 1..Len(idles') : idles'[j] = m
  <2>1. CASE connected
    <3>1. idles' = Append(idles, m) /\ idles \in Seq(0..plugs)
      BY <1>0, <2>1 DEF MonitorRemoved, ClientTypes
    <3>2. /\ Len(idles') = Len(idles) + 1 /\ idles'[Len(idles')] = m /\ Len(idles) \in Nat
          /\ \A j \in 1..Len(idles) : idles'[j] = idles[j]
      BY <3>1
    <3> QED  BY <1>1, <3>1, <3>2
  <2>2. CASE ~connected
    BY <1>0, <2>2 DEF MonitorRemoved, ClientTypes
  <2> QED  BY <2>1, <2>2
<1>3. ClientTypes' /\ OutputsApart'
  BY <1>0, <1>1, <1>2 DEF ClientTypes, OutputsApart
<1>4. GoneForGood'
  BY <1>0, <1>1, <1>2 DEF GoneForGood
<1>5. ASSUME Linked PROVE Linked'
  <2>0. MonitorsCovered /\ AllPlaced /\ OnlyOnce /\ TurnsComeOrCame /\ BatchComes
    BY <1>5 DEF Linked
  <2>1. MonitorsCovered'
    BY <1>1, <1>2, <2>0 DEF MonitorsCovered
  <2>2. AllPlaced' /\ OnlyOnce' /\ TurnsComeOrCame'
    BY <1>1, <2>0 DEF AllPlaced, Placed, OnlyOnce, TurnsComeOrCame
  <2>3. ASSUME NEW k \in 1..Len(idles), BatchFirst(idles, k, pending) PROVE BatchFirst(idles', k, pending)
    BY <1>2, <2>3 DEF BatchFirst
  <2>4. BatchComes'
    BY <1>1, <1>2, <2>0, <2>3 DEF BatchComes
  <2> QED  BY <2>1, <2>2, <2>4 DEF Linked
<1> QED  BY <1>1, <1>3, <1>4, <1>5 DEF ClientInv

\* An output that is complete waits; its monitor is there, so that no removal of it does.
LEMMA OutputDoneKeeps == ASSUME ClientInv, NEW i \in DOMAIN outputs, OutputDone(i) PROVE ClientInv'
<1>0. ClientTypes /\ OutputsApart /\ GoneForGood /\ i \in 1..Len(outputs)
  BY DEF ClientInv, ClientTypes
<1> DEFINE o == outputs[i]
<1>1. /\ o.monitor \in monitors /\ ~o.done /\ o \in OutputRecord /\ o.monitor \in 1..plugs
      /\ pending' = Append(pending, o) /\ scheduled' = TRUE
      /\ UNCHANGED <<monitors, plugs, connected, bars, phase, cursor, reloads, failed>>
  BY <1>0 DEF OutputDone, Pend, ClientTypes
<1>2. /\ outputs' \in Seq(OutputRecord) /\ Len(outputs') = Len(outputs)
      /\ \A h \in 1..Len(outputs) : Same(outputs[h], outputs'[h]) /\ (outputs'[h].done <=> (h = i \/ outputs[h].done))
  <2>1. outputs' = [outputs EXCEPT ![i] = [o EXCEPT !.done = TRUE]] /\ outputs \in Seq(OutputRecord)
    BY <1>0 DEF OutputDone, ClientTypes
  <2>2. /\ [o EXCEPT !.done = TRUE] \in OutputRecord /\ [o EXCEPT !.done = TRUE].done = TRUE
        /\ Same(o, [o EXCEPT !.done = TRUE])
    BY <1>1 DEF OutputRecord, Same
  <2>3. outputs' \in Seq(OutputRecord) /\ Len(outputs') = Len(outputs)
        /\ \A h \in 1..Len(outputs) : outputs'[h] = IF h = i THEN [o EXCEPT !.done = TRUE] ELSE outputs[h]
    BY <2>1, <2>2
  <2> QED  BY <2>2, <2>3 DEF Same
<1>3. /\ pending' \in Seq(OutputRecord) /\ Len(pending) \in Nat /\ Len(pending') = Len(pending) + 1
      /\ pending'[Len(pending')] = o
      /\ \A p \in 1..Len(pending) : pending'[p] = pending[p]
  BY <1>0, <1>1 DEF ClientTypes
<1>4. /\ idles' \in Seq(0..plugs) /\ Len(idles) \in Nat
      /\ \A j \in 1..Len(idles) : j \in 1..Len(idles') /\ idles'[j] = idles[j] /\ idles[j] # o.monitor
      /\ scheduled => idles' = idles
      /\ ~scheduled => Len(idles') = Len(idles) + 1 /\ idles'[Len(idles')] = Batch
  <2>1. idles \in Seq(0..plugs) /\ 0 \in 0..plugs
    BY <1>0 DEF ClientTypes
  <2>2. \A j \in 1..Len(idles) : idles[j] # o.monitor
    BY <1>0, <1>1 DEF GoneForGood, Batch
  <2>3. CASE scheduled
    BY <2>1, <2>2, <2>3 DEF OutputDone, Pend
  <2>4. CASE ~scheduled
    <3>1. idles' = Append(idles, Batch) /\ Batch \in 0..plugs
      BY <2>1, <2>4 DEF OutputDone, Pend, Batch
    <3> QED  BY <2>1, <2>2, <2>4, <3>1
  <2> QED  BY <2>3, <2>4
<1>5. \A j \in 1..Len(idles') : j \in 1..Len(idles) \/ idles'[j] = Batch
  BY <1>4
<1>6. ClientTypes'
  <2>1. cursor' <= Len(pending') + 1 /\ cursor' \in Nat
    BY <1>0, <1>1, <1>3 DEF ClientTypes
  <2>2. scheduled' \in BOOLEAN /\ connected' \in BOOLEAN
    BY <1>0, <1>1 DEF ClientTypes
  <2> QED  BY <1>0, <1>1, <1>2, <1>3, <1>4, <2>1, <2>2 DEF ClientTypes
<1>7. OutputsApart'
  BY <1>0, <1>1, <1>2 DEF OutputsApart, Same
<1>8. GoneForGood'
  BY <1>0, <1>1, <1>4, <1>5 DEF GoneForGood
<1>9. ASSUME Linked PROVE Linked'
  <2>0. MonitorsCovered /\ AllPlaced /\ OnlyOnce /\ TurnsComeOrCame /\ BatchComes
    BY <1>9 DEF Linked
  <2>1. MonitorsCovered'
    <3>1. Len(outputs') = Len(outputs) /\ \A h \in 1..Len(outputs) : outputs'[h].monitor = outputs[h].monitor
      BY <1>2 DEF Same
    <3>2. \A m \in monitors : \E h \in 1..Len(outputs') : outputs'[h].monitor = m
      BY <2>0, <3>1 DEF MonitorsCovered
    <3>3. \A h \in 1..Len(outputs') :
            outputs'[h].monitor \in monitors \/ \E j \in 1..Len(idles') : idles'[j] = outputs'[h].monitor
      BY <1>4, <2>0, <3>1 DEF MonitorsCovered
    <3> QED  BY <1>1, <2>0, <3>2, <3>3 DEF MonitorsCovered
  <2> DEFINE PlacedThen(x) == \E h \in 1..Len(outputs') : Same(x, outputs'[h]) /\ outputs'[h].done
  <2>2. \A x : Placed(x) => PlacedThen(x) /\ x.monitor # o.monitor
    BY <1>0, <1>1, <1>2 DEF Placed, Same, OutputsApart
  <2>3. PlacedThen(o)
    BY <1>0, <1>2
  <2>4. AllPlaced'
    <3>1. ASSUME NEW p \in 1..Len(pending') PROVE PlacedThen(pending'[p])
      <4> HIDE DEF PlacedThen
      <4>1. \A q \in 1..Len(pending) : PlacedThen(pending[q])
        BY <2>0, <2>2 DEF AllPlaced
      <4> QED  BY <1>3, <2>3, <4>1
    <3>2. \A h \in 1..Len(outputs') : outputs'[h].monitor \in failed => outputs'[h].done
      BY <1>2, <2>0 DEF AllPlaced, Same
    <3>3. \A b \in 1..Len(bars) : PlacedThen(bars[b])
      BY <2>0, <2>2 DEF AllPlaced
    <3>4. \A p \in 1..Len(pending') : PlacedThen(pending'[p])
      <4> HIDE DEF PlacedThen
      <4> QED  BY <3>1
    <3> QED  BY <1>1, <3>2, <3>3, <3>4 DEF AllPlaced, Placed
  <2>5. o.monitor \notin failed /\ (\A b \in 1..Len(bars) : bars[b].monitor # o.monitor)
        /\ (\A p \in 1..Len(pending) : pending[p].monitor # o.monitor)
    BY <1>0, <1>1, <2>0, <2>2 DEF AllPlaced
  <2>6. OnlyOnce'
    <3>1. \A p, q \in 1..Len(pending') : pending'[p].monitor = pending'[q].monitor => p = q
      BY <1>3, <2>0, <2>5 DEF OnlyOnce
    <3>2. \A p \in cursor..Len(pending') :
            pending'[p].monitor \notin failed /\ \A b \in 1..Len(bars) : bars[b].monitor # pending'[p].monitor
      <4>1. ASSUME NEW p \in cursor..Len(pending') PROVE (p \in 1..Len(pending) /\ p \in cursor..Len(pending)) \/ p = Len(pending')
        BY <1>0, <1>3 DEF ClientTypes
      <4> QED  BY <1>3, <2>0, <2>5, <4>1 DEF OnlyOnce
    <3> QED  BY <1>1, <2>0, <3>1, <3>2 DEF OnlyOnce
  <2>7. TurnsComeOrCame'
    <3>1. Len(pending') \in cursor..Len(pending') /\ \A p \in cursor..Len(pending) : p \in cursor..Len(pending') /\ p \in 1..Len(pending)
      BY <1>0, <1>3 DEF ClientTypes
    <3>2. ASSUME NEW h \in 1..Len(outputs), outputs'[h].done
          PROVE  \/ outputs'[h].monitor \in failed
                 \/ \E b \in 1..Len(bars) : bars[b].monitor = outputs'[h].monitor
                 \/ \E p \in cursor..Len(pending') : pending'[p].monitor = outputs'[h].monitor
      <4>1. outputs'[h].monitor = outputs[h].monitor /\ (h = i \/ outputs[h].done)
        BY <1>2, <3>2 DEF Same
      <4>2. CASE h = i
        BY <1>3, <3>1, <4>1, <4>2
      <4>3. CASE outputs[h].done
        BY <1>3, <2>0, <3>1, <4>1, <4>3 DEF TurnsComeOrCame
      <4> QED  BY <4>1, <4>2, <4>3
    <3> QED  BY <1>1, <1>2, <3>2 DEF TurnsComeOrCame
  <2>8. BatchComes'
    <3> SUFFICES ASSUME phase = "run" PROVE \E k \in 1..Len(idles') : BatchFirst(idles', k, pending')
      BY <1>1 DEF BatchComes
    <3>1. CASE scheduled
      <4>1. PICK k \in 1..Len(idles) : BatchFirst(idles, k, pending)
        BY <2>0, <3>1 DEF BatchComes
      <4>2. BatchFirst(idles', k, pending')
        BY <1>3, <1>4, <3>1, <4>1 DEF BatchFirst
      <4> QED  BY <1>4, <4>2
    <3>2. CASE ~scheduled
      <4>1. Len(pending) = 0
        BY <2>0, <3>2 DEF BatchComes
      <4>2. Len(idles') \in 1..Len(idles') /\ Len(pending') = 1 /\ pending'[1] = o
        BY <1>3, <1>4, <3>2, <4>1
      <4>3. \A j \in 1..Len(idles') : j < Len(idles') => idles'[j] # o.monitor
        BY <1>4, <3>2
      <4>4. BatchFirst(idles', Len(idles'), pending')
        <5>1. \A p \in 1..Len(pending') : pending'[p] = o
          BY <4>2
        <5> QED  BY <1>4, <3>2, <4>2, <4>3, <5>1 DEF BatchFirst
      <4> QED  BY <4>2, <4>4
    <3> QED  BY <3>1, <3>2
  <2> QED  BY <2>1, <2>4, <2>6, <2>7, <2>8 DEF Linked
<1> QED  BY <1>1, <1>6, <1>7, <1>8, <1>9 DEF ClientInv

\* What the tail of the idle sources keeps of them.
LEMMA IdlesTail ==
  ASSUME ClientTypes, idles # <<>>
  PROVE  /\ Tail(idles) \in Seq(0..plugs) /\ Len(idles) \in Nat /\ 1 \in 1..Len(idles) /\ Head(idles) = idles[1]
         /\ Head(idles) \in 0..plugs
         /\ Len(Tail(idles)) = Len(idles) - 1
         /\ \A j \in 1..Len(Tail(idles)) : j + 1 \in 1..Len(idles) /\ Tail(idles)[j] = idles[j + 1]
         /\ \A j \in 1..Len(idles) : j # 1 => j - 1 \in 1..Len(Tail(idles)) /\ Tail(idles)[j - 1] = idles[j]
<1>1. idles \in Seq(0..plugs) /\ Len(idles) \in Nat /\ Len(idles) > 0
  BY DEF ClientTypes
<1>2. Tail(idles) \in Seq(0..plugs) /\ Len(Tail(idles)) = Len(idles) - 1
      /\ \A j \in 1..Len(Tail(idles)) : Tail(idles)[j] = idles[j + 1]
  BY <1>1
<1>3. \A j \in 1..Len(idles) : j # 1 => j - 1 \in 1..Len(Tail(idles)) /\ Tail(idles)[j - 1] = idles[j]
  <2> SUFFICES ASSUME NEW j \in 1..Len(idles), j # 1
               PROVE  j - 1 \in 1..Len(Tail(idles)) /\ Tail(idles)[j - 1] = idles[j]
    OBVIOUS
  <2>1. j - 1 \in 1..Len(Tail(idles)) /\ (j - 1) + 1 = j
    BY <1>1, <1>2
  <2> QED  BY <1>2, <2>1
<1>4. 1 \in 1..Len(idles) /\ Head(idles) = idles[1] /\ Head(idles) \in 0..plugs
  <2>1. 1 \in 1..Len(idles)
    BY <1>1
  <2>2. Head(idles) = idles[1]
    BY <1>1
  <2>3. idles[1] \in 0..plugs
    <3>1. PICK kinds : kinds = 0..plugs
      OBVIOUS
    <3>2. idles \in Seq(kinds)
      BY <1>1, <3>1
    <3>3. idles[1] \in kinds
      BY <2>1, <3>2
    <3> QED  BY <3>1, <3>3
  <2> QED  BY <2>1, <2>2, <2>3
<1>5. \A j \in 1..Len(Tail(idles)) : j + 1 \in 1..Len(idles)
  BY <1>1, <1>2
<1> QED  BY <1>1, <1>2, <1>3, <1>4, <1>5

\* All that is pending is placed, so that nothing is dropped.
LEMMA BatchBeginsKeeps == ASSUME ClientInv, BatchBegins PROVE ClientInv'
<1>0. ClientTypes /\ OutputsApart /\ GoneForGood /\ Linked /\ phase = "run" /\ phase' = "batch"
  BY DEF ClientInv, BatchBegins
<1>a. MonitorsCovered /\ AllPlaced /\ OnlyOnce /\ TurnsComeOrCame
  BY <1>0 DEF Linked
<1>1. /\ idles # <<>> /\ Head(idles) = Batch /\ idles' = Tail(idles) /\ cursor = 1 /\ cursor' = 1
      /\ UNCHANGED <<monitors, plugs, connected, outputs, scheduled, bars, reloads, failed>>
  BY <1>0 DEF BatchBegins, ClientTypes
<1>2. pending \in Seq(OutputRecord) /\ Len(pending) \in Nat /\ DOMAIN pending = 1..Len(pending)
      /\ outputs \in Seq(OutputRecord) /\ DOMAIN outputs = 1..Len(outputs)
  BY <1>0 DEF ClientTypes
<1>3. pending' = At(pending, 1..Len(pending))
  <2>1. \A p \in 1..Len(pending) : pending[p].addr \in Addresses(outputs)
    BY <1>a, <1>2 DEF AllPlaced, Placed, Same, Addresses
  <2>2. {p \in DOMAIN pending : pending[p].addr \in Addresses(outputs)} = 1..Len(pending)
    BY <1>2, <2>1
  <2> QED  BY <2>2 DEF BatchBegins
<1>4. pending' \in Seq(OutputRecord) /\ Leaves(pending', pending, 1..Len(pending))
  <2>1. 1..Len(pending) \in SUBSET (1..Len(pending))
    OBVIOUS
  <2> QED  BY <1>2, <1>3, <2>1, AtLeaves
<1> DEFINE from(n) == Nth(1..Len(pending), n)
<1>5. /\ \A n \in 1..Len(pending') : from(n) \in 1..Len(pending) /\ pending'[n] = pending[from(n)]
      /\ \A a, b \in 1..Len(pending') : from(a) = from(b) => a = b
      /\ \A p \in 1..Len(pending) : \E n \in 1..Len(pending') : from(n) = p
  BY <1>4 DEF Leaves
<1> HIDE DEF from
<1>6. ClientTypes'
  <2>1. cursor' \in Nat /\ 1 <= cursor' /\ cursor' <= Len(pending') + 1
    BY <1>1, <1>4
  <2>2. idles' \in Seq(0..plugs)
    BY <1>0, <1>1, IdlesTail
  <2>3. scheduled' \in BOOLEAN /\ connected' \in BOOLEAN
    BY <1>0, <1>1 DEF ClientTypes
  <2> QED  BY <1>0, <1>1, <1>4, <2>1, <2>2, <2>3 DEF ClientTypes
<1>7. OutputsApart' /\ GoneForGood'
  BY <1>0, <1>1, IdlesTail DEF OutputsApart, GoneForGood
<1>8. MonitorsCovered'
  <2>1. \A i \in 1..Len(outputs) : outputs[i].monitor # Head(idles)
    BY <1>0, <1>1 DEF OutputsApart, Batch, ClientTypes
  <2>2. \A i \in 1..Len(outputs) :
          outputs[i].monitor \in monitors \/ \E j \in 1..Len(idles') : idles'[j] = outputs[i].monitor
    <3>1. \A j \in 1..Len(idles) : idles[j] = Head(idles) \/ \E l \in 1..Len(idles') : idles'[l] = idles[j]
      BY <1>0, <1>1, IdlesTail
    <3> QED  BY <1>a, <2>1, <3>1 DEF MonitorsCovered
  <2> QED  BY <1>1, <1>a, <2>2 DEF MonitorsCovered
<1>9. AllPlaced'
  <2>1. \A p \in 1..Len(pending') : Placed(pending[p])'
    BY <1>1, <1>5, <1>a DEF AllPlaced, Placed
  <2> QED  BY <1>1, <1>a, <2>1 DEF AllPlaced, Placed
<1>10. OnlyOnce' /\ TurnsComeOrCame'
  <2>1. \A p, q \in 1..Len(pending') : pending'[p].monitor = pending'[q].monitor => p = q
    <3>1. \A p, q \in 1..Len(pending) : pending[p].monitor = pending[q].monitor => p = q
      BY <1>a DEF OnlyOnce
    <3>2. ASSUME NEW p \in 1..Len(pending'), NEW q \in 1..Len(pending'), pending'[p].monitor = pending'[q].monitor
          PROVE  p = q
      <4>1. from(p) = from(q)
        BY <1>5, <3>1, <3>2
      <4> QED  BY <1>5, <4>1
    <3> QED  BY <3>2
  <2>2. \A p \in cursor'..Len(pending') :
          pending'[p].monitor \notin failed /\ \A b \in 1..Len(bars) : bars[b].monitor # pending'[p].monitor
    BY <1>1, <1>5, <1>a DEF OnlyOnce
  <2>3. \A p \in 1..Len(pending) : \E n \in cursor'..Len(pending') : pending'[n].monitor = pending[p].monitor
    BY <1>1, <1>5
  <2> QED  BY <1>1, <1>a, <2>1, <2>2, <2>3 DEF OnlyOnce, TurnsComeOrCame
<1> QED  BY <1>0, <1>6, <1>7, <1>8, <1>9, <1>10 DEF ClientInv, Linked, BatchComes

\* The output at the address is the one that waits.
LEMMA BatchCreatesKeeps == ASSUME ClientInv, BatchCreates PROVE ClientInv'
<1>0. ClientTypes /\ OutputsApart /\ GoneForGood /\ Linked /\ phase = "batch" /\ phase' = "batch"
  BY DEF ClientInv, BatchCreates
<1>a. MonitorsCovered /\ AllPlaced /\ OnlyOnce /\ TurnsComeOrCame
  BY <1>0 DEF Linked
<1>b. /\ outputs \in Seq(OutputRecord) /\ bars \in Seq(OutputRecord) /\ pending \in Seq(OutputRecord)
      /\ DOMAIN outputs = 1..Len(outputs) /\ Len(bars) \in Nat /\ Len(pending) \in Nat
  BY <1>0 DEF ClientTypes
<1>1. /\ cursor \in 1..Len(pending) /\ cursor \in Nat /\ cursor' = cursor + 1
      /\ UNCHANGED <<monitors, plugs, connected, outputs, pending, scheduled, idles, reloads>>
  BY <1>0 DEF BatchCreates, ClientTypes
<1>2. PICK i \in 1..Len(outputs) :
        /\ outputs[i].addr = pending[cursor].addr
        /\ \/ bars' = Append(bars, outputs[i]) /\ UNCHANGED failed
           \/ failed' = failed \cup {outputs[i].monitor} /\ UNCHANGED bars
  BY <1>b DEF BatchCreates
<1>3. outputs[i].done /\ outputs[i].monitor = pending[cursor].monitor /\ outputs[i].monitor \in 1..plugs
      /\ outputs[i] \in OutputRecord
  <2>1. PICK h \in 1..Len(outputs) : Same(pending[cursor], outputs[h]) /\ outputs[h].done
    BY <1>1, <1>a DEF AllPlaced, Placed
  <2>2. h = i
    BY <1>0, <1>2, <2>1 DEF Same, OutputsApart
  <2> QED  BY <1>0, <1>b, <2>1, <2>2 DEF Same, OutputsApart
<1>c. PICK m : m = outputs[i].monitor
  OBVIOUS
<1>4. /\ m \notin failed /\ (\A b \in 1..Len(bars) : bars[b].monitor # m)
      /\ \A p \in cursor'..Len(pending) : p \in cursor..Len(pending) /\ pending[p].monitor # m
  <2>1. cursor \in cursor..Len(pending)
    BY <1>1
  <2>2. \A p \in cursor'..Len(pending) : p \in cursor..Len(pending) /\ p \in 1..Len(pending) /\ p # cursor
    BY <1>1
  <2> QED  BY <1>1, <1>3, <1>a, <1>c, <2>1, <2>2 DEF OnlyOnce
<1>5. \A p \in cursor..Len(pending) : p \in cursor'..Len(pending) \/ pending[p].monitor = m
  BY <1>1, <1>3, <1>c
<1>6. OutputsApart' /\ GoneForGood' /\ MonitorsCovered'
  BY <1>0, <1>1, <1>a DEF OutputsApart, GoneForGood, MonitorsCovered
<1>7. cursor' \in Nat /\ 1 <= cursor' /\ cursor' <= Len(pending') + 1
  BY <1>1, <1>b
<1>8. CASE bars' = Append(bars, outputs[i]) /\ UNCHANGED failed
  <2>1. /\ bars' \in Seq(OutputRecord) /\ Len(bars') = Len(bars) + 1 /\ bars'[Len(bars')] = outputs[i]
        /\ Len(bars') \in 1..Len(bars')
        /\ \A b \in 1..Len(bars) : b \in 1..Len(bars') /\ bars'[b] = bars[b]
        /\ \A b \in 1..Len(bars') : b \in 1..Len(bars) \/ b = Len(bars')
    BY <1>3, <1>8, <1>b
  <2>2. ClientTypes'
    <3>1. scheduled' \in BOOLEAN /\ connected' \in BOOLEAN
      BY <1>0, <1>1 DEF ClientTypes
    <3> QED  BY <1>0, <1>1, <1>7, <1>8, <2>1, <3>1 DEF ClientTypes
  <2>3. AllPlaced'
    <3>1. Placed(outputs[i])
      BY <1>3 DEF Placed, Same
    <3> DEFINE PlacedThen(x) == \E h \in 1..Len(outputs') : Same(x, outputs'[h]) /\ outputs'[h].done
    <3>2. \A b \in 1..Len(bars') : PlacedThen(bars'[b])
      BY <1>1, <1>a, <2>1, <3>1 DEF AllPlaced, Placed
    <3> QED  BY <1>1, <1>8, <1>a, <3>2 DEF AllPlaced, Placed
  <2>4. OnlyOnce'
    <3>1. \A b, c \in 1..Len(bars') : bars'[b].monitor = bars'[c].monitor => b = c
      BY <1>4, <1>a, <1>c, <2>1 DEF OnlyOnce
    <3>2. \A p \in cursor'..Len(pending) :
            pending[p].monitor \notin failed /\ \A b \in 1..Len(bars') : bars'[b].monitor # pending[p].monitor
      BY <1>4, <1>a, <1>c, <2>1 DEF OnlyOnce
    <3>3. \A b \in 1..Len(bars') : bars'[b].monitor \notin failed
      BY <1>4, <1>a, <1>c, <2>1 DEF OnlyOnce
    <3> QED  BY <1>1, <1>8, <1>a, <3>1, <3>2, <3>3 DEF OnlyOnce
  <2>5. TurnsComeOrCame'
    <3>1. ASSUME NEW h \in 1..Len(outputs), outputs[h].done
          PROVE  \/ outputs[h].monitor \in failed
                 \/ \E b \in 1..Len(bars') : bars'[b].monitor = outputs[h].monitor
                 \/ \E p \in cursor'..Len(pending) : pending[p].monitor = outputs[h].monitor
      BY <1>5, <1>a, <1>c, <2>1, <3>1 DEF TurnsComeOrCame
    <3> QED  BY <1>1, <1>8, <3>1 DEF TurnsComeOrCame
  <2> QED  BY <1>0, <1>6, <2>2, <2>3, <2>4, <2>5 DEF ClientInv, Linked, BatchComes
<1>9. CASE failed' = failed \cup {outputs[i].monitor} /\ UNCHANGED bars
  <2>1. ClientTypes'
    <3>1. scheduled' \in BOOLEAN /\ connected' \in BOOLEAN
      BY <1>0, <1>1 DEF ClientTypes
    <3> QED  BY <1>0, <1>1, <1>3, <1>7, <1>9, <3>1 DEF ClientTypes
  <2>2. AllPlaced'
    <3>1. \A h \in 1..Len(outputs) : outputs[h].monitor \in failed' => outputs[h].done
      BY <1>0, <1>3, <1>9, <1>a DEF AllPlaced, OutputsApart
    <3> QED  BY <1>1, <1>9, <1>a, <3>1 DEF AllPlaced, Placed
  <2>3. OnlyOnce'
    BY <1>1, <1>4, <1>9, <1>a, <1>c DEF OnlyOnce
  <2>4. TurnsComeOrCame'
    <3>1. ASSUME NEW h \in 1..Len(outputs), outputs[h].done
          PROVE  \/ outputs[h].monitor \in failed'
                 \/ \E b \in 1..Len(bars) : bars[b].monitor = outputs[h].monitor
                 \/ \E p \in cursor'..Len(pending) : pending[p].monitor = outputs[h].monitor
      BY <1>5, <1>9, <1>a, <1>c, <3>1 DEF TurnsComeOrCame
    <3> QED  BY <1>1, <1>9, <3>1 DEF TurnsComeOrCame
  <2> QED  BY <1>0, <1>6, <2>1, <2>2, <2>3, <2>4 DEF ClientInv, Linked, BatchComes
<1> QED  BY <1>2, <1>8, <1>9

LEMMA BatchEndsKeeps == ASSUME ClientInv, BatchEnds PROVE ClientInv'
<1>0. ClientTypes /\ OutputsApart /\ GoneForGood /\ Linked /\ phase = "batch" /\ phase' = "run"
  BY DEF ClientInv, BatchEnds
<1>a. MonitorsCovered /\ AllPlaced /\ OnlyOnce /\ TurnsComeOrCame
  BY <1>0 DEF Linked
<1>1. /\ cursor > Len(pending) /\ cursor' = 1 /\ pending' = <<>> /\ scheduled' = FALSE
      /\ UNCHANGED <<monitors, plugs, connected, outputs, idles, bars, reloads, failed>>
  BY <1>0 DEF BatchEnds
<1>2. Len(pending') = 0 /\ pending' \in Seq(OutputRecord) /\ cursor..Len(pending) = {} /\ cursor'..Len(pending') = {}
  BY <1>0, <1>1 DEF ClientTypes
<1>3. ClientTypes'
  <2>1. cursor' \in Nat /\ 1 <= cursor' /\ cursor' <= Len(pending') + 1
    BY <1>1, <1>2
  <2>2. scheduled' \in BOOLEAN /\ connected' \in BOOLEAN
    BY <1>0, <1>1 DEF ClientTypes
  <2> QED  BY <1>0, <1>1, <1>2, <2>1, <2>2 DEF ClientTypes
<1>4. OutputsApart' /\ GoneForGood' /\ MonitorsCovered'
  BY <1>0, <1>1, <1>a DEF OutputsApart, GoneForGood, MonitorsCovered
<1>5. AllPlaced'
  BY <1>1, <1>2, <1>a DEF AllPlaced, Placed
<1>6. OnlyOnce' /\ TurnsComeOrCame'
  BY <1>1, <1>2, <1>a DEF OnlyOnce, TurnsComeOrCame
<1>7. BatchComes'
  BY <1>1, <1>2 DEF BatchComes
<1> QED  BY <1>0, <1>3, <1>4, <1>5, <1>6, <1>7 DEF ClientInv, Linked

\* Nothing waits for the output that goes, and its monitor is gone.
LEMMA RemovalKeeps == ASSUME ClientInv, Removal PROVE ClientInv'
<1>0. ClientTypes /\ OutputsApart /\ GoneForGood /\ Linked /\ phase = "run" /\ phase' = "run"
  BY DEF ClientInv, Removal
<1>a. MonitorsCovered /\ AllPlaced /\ OnlyOnce /\ TurnsComeOrCame /\ BatchComes
  BY <1>0 DEF Linked
<1>1. /\ idles # <<>> /\ Head(idles) # Batch /\ idles' = Tail(idles)
      /\ bars' = Elsewhere(bars, Head(idles)) /\ outputs' = Elsewhere(outputs, Head(idles))
      /\ UNCHANGED <<monitors, plugs, connected, pending, scheduled, cursor, reloads, failed>>
  BY DEF Removal
<1>b. PICK m : m = Head(idles)
  OBVIOUS
<1>2. m \notin monitors /\ m # Batch /\ m = idles[1] /\ 1 \in 1..Len(idles)
  BY <1>0, <1>1, <1>b, IdlesTail DEF GoneForGood
<1> DEFINE barsLeft == {i \in DOMAIN bars : bars[i].monitor # m}
           outputsLeft == {i \in DOMAIN outputs : outputs[i].monitor # m}
<1>3. /\ bars \in Seq(OutputRecord) /\ DOMAIN bars = 1..Len(bars) /\ Len(bars) \in Nat
      /\ outputs \in Seq(OutputRecord) /\ DOMAIN outputs = 1..Len(outputs) /\ Len(outputs) \in Nat
      /\ barsLeft \in SUBSET (1..Len(bars)) /\ outputsLeft \in SUBSET (1..Len(outputs))
  BY <1>0 DEF ClientTypes
<1>4. bars' \in Seq(OutputRecord) /\ Leaves(bars', bars, barsLeft)
  <2>1. bars' = At(bars, barsLeft)
    BY <1>1, <1>b DEF Elsewhere
  <2> HIDE DEF barsLeft
  <2> QED  BY <1>3, <2>1, AtLeaves
<1>5. outputs' \in Seq(OutputRecord) /\ Leaves(outputs', outputs, outputsLeft)
  <2>1. outputs' = At(outputs, outputsLeft)
    BY <1>1, <1>b DEF Elsewhere
  <2> HIDE DEF outputsLeft
  <2> QED  BY <1>3, <2>1, AtLeaves
<1> DEFINE fromBar(n) == Nth(barsLeft, n)
           from(n) == Nth(outputsLeft, n)
<1>6. /\ \A n \in 1..Len(bars') : fromBar(n) \in barsLeft /\ bars'[n] = bars[fromBar(n)]
      /\ \A a, b \in 1..Len(bars') : fromBar(a) = fromBar(b) => a = b
      /\ \A i \in barsLeft : \E n \in 1..Len(bars') : fromBar(n) = i
  BY <1>4 DEF Leaves
<1>7. /\ \A n \in 1..Len(outputs') : from(n) \in outputsLeft /\ outputs'[n] = outputs[from(n)]
      /\ \A a, b \in 1..Len(outputs') : from(a) = from(b) => a = b
      /\ \A i \in outputsLeft : \E n \in 1..Len(outputs') : from(n) = i
  BY <1>5 DEF Leaves
<1>c. /\ \A i : i \in barsLeft <=> i \in 1..Len(bars) /\ bars[i].monitor # m
      /\ \A i : i \in outputsLeft <=> i \in 1..Len(outputs) /\ outputs[i].monitor # m
  BY <1>3
<1> HIDE DEF from, fromBar, barsLeft, outputsLeft
<1>8. ClientTypes'
  <2>1. scheduled' \in BOOLEAN /\ connected' \in BOOLEAN
    BY <1>0, <1>1 DEF ClientTypes
  <2> QED  BY <1>0, <1>1, <1>4, <1>5, <2>1, IdlesTail DEF ClientTypes
<1>9. OutputsApart'
  <2>1. \A i \in 1..Len(outputs') : outputs'[i].monitor \in 1..plugs
    BY <1>0, <1>7, <1>c DEF OutputsApart
  <2>2. \A i, j \in 1..Len(outputs') :
          outputs'[i].monitor = outputs'[j].monitor \/ outputs'[i].addr = outputs'[j].addr => i = j
    <3>1. ASSUME NEW i \in 1..Len(outputs'), NEW j \in 1..Len(outputs'),
                 outputs'[i].monitor = outputs'[j].monitor \/ outputs'[i].addr = outputs'[j].addr
          PROVE  from(i) = from(j)
      <4>1. from(i) \in 1..Len(outputs) /\ from(j) \in 1..Len(outputs)
            /\ outputs'[i] = outputs[from(i)] /\ outputs'[j] = outputs[from(j)]
        BY <1>7, <1>c
      <4> QED  BY <1>0, <3>1, <4>1 DEF OutputsApart
    <3> QED  BY <1>7, <3>1
  <2> QED  BY <1>1, <2>1, <2>2 DEF OutputsApart
<1>10. GoneForGood'
  <2>1. \A j \in 1..Len(idles') : idles'[j] # Batch => idles'[j] \notin monitors
    BY <1>0, <1>1, IdlesTail DEF GoneForGood
  <2> QED  BY <1>1, <2>1 DEF GoneForGood
<1>d. \A j \in 1..Len(idles) : idles[j] = m \/ \E l \in 1..Len(idles') : idles'[l] = idles[j]
  BY <1>0, <1>1, <1>b, IdlesTail
<1>11. MonitorsCovered'
  <2>1. \A a \in monitors : \E n \in 1..Len(outputs') : outputs'[n].monitor = a
    <3> SUFFICES ASSUME NEW a \in monitors PROVE \E n \in 1..Len(outputs') : outputs'[n].monitor = a
      OBVIOUS
    <3>1. PICK i \in 1..Len(outputs) : outputs[i].monitor = a
      BY <1>a DEF MonitorsCovered
    <3>2. i \in outputsLeft
      BY <1>2, <1>c, <3>1
    <3> QED  BY <1>7, <3>1, <3>2
  <2>2. \A n \in 1..Len(outputs') :
          outputs'[n].monitor \in monitors \/ \E j \in 1..Len(idles') : idles'[j] = outputs'[n].monitor
    <3>1. \A i \in outputsLeft : outputs[i].monitor \in monitors \/ \E j \in 1..Len(idles') : idles'[j] = outputs[i].monitor
      BY <1>a, <1>c, <1>d DEF MonitorsCovered
    <3> QED  BY <1>7, <3>1
  <2> QED  BY <1>1, <1>a, <2>1, <2>2 DEF MonitorsCovered
<1> DEFINE PlacedThen(x) == \E h \in 1..Len(outputs') : Same(x, outputs'[h]) /\ outputs'[h].done
<1>12. \A x : Placed(x) /\ x.monitor # m => PlacedThen(x)
  <2> SUFFICES ASSUME NEW x, Placed(x), x.monitor # m PROVE PlacedThen(x)
    OBVIOUS
  <2>1. PICK i \in 1..Len(outputs) : Same(x, outputs[i]) /\ outputs[i].done
    BY DEF Placed
  <2>2. i \in outputsLeft
    BY <1>c, <2>1 DEF Same
  <2> QED  BY <1>7, <2>1, <2>2
<1>13. \A p \in 1..Len(pending) : pending[p].monitor # m
  <2>1. CASE scheduled
    <3>1. PICK k \in 1..Len(idles) : BatchFirst(idles, k, pending)
      BY <1>0, <1>a, <2>1 DEF BatchComes
    <3>2. k # 1 /\ 1 < k
      BY <1>2, <3>1 DEF BatchFirst
    <3> QED  BY <1>2, <3>1, <3>2 DEF BatchFirst
  <2>2. CASE ~scheduled
    BY <1>0, <1>a, <2>2 DEF BatchComes
  <2> QED  BY <2>1, <2>2
<1>14. AllPlaced'
  <2>1. \A b \in 1..Len(bars') : PlacedThen(bars'[b])
    <3>1. \A i \in barsLeft : PlacedThen(bars[i])
      BY <1>12, <1>a, <1>c DEF AllPlaced
    <3> QED  BY <1>6, <3>1
  <2>2. \A p \in 1..Len(pending) : PlacedThen(pending[p])
    BY <1>12, <1>13, <1>a DEF AllPlaced
  <2>3. \A n \in 1..Len(outputs') : outputs'[n].monitor \in failed => outputs'[n].done
    BY <1>7, <1>a, <1>c DEF AllPlaced
  <2> QED  BY <1>1, <2>1, <2>2, <2>3 DEF AllPlaced, Placed
<1>15. OnlyOnce'
  <2>1. \A b, c \in 1..Len(bars') : bars'[b].monitor = bars'[c].monitor => b = c
    BY <1>6, <1>a, <1>c DEF OnlyOnce
  <2>2. \A p \in cursor..Len(pending) : pending[p].monitor \notin failed /\ \A b \in 1..Len(bars') : bars'[b].monitor # pending[p].monitor
    BY <1>6, <1>a, <1>c DEF OnlyOnce
  <2>3. \A b \in 1..Len(bars') : bars'[b].monitor \notin failed
    BY <1>6, <1>a, <1>c DEF OnlyOnce
  <2> QED  BY <1>1, <1>a, <2>1, <2>2, <2>3 DEF OnlyOnce
<1>16. TurnsComeOrCame'
  <2>1. ASSUME NEW n \in 1..Len(outputs'), outputs'[n].done
        PROVE  \/ outputs'[n].monitor \in failed
               \/ \E b \in 1..Len(bars') : bars'[b].monitor = outputs'[n].monitor
               \/ \E p \in cursor..Len(pending) : pending[p].monitor = outputs'[n].monitor
    <3>1. PICK i \in outputsLeft : outputs'[n] = outputs[i]
      BY <1>7
    <3>2. i \in 1..Len(outputs) /\ outputs[i].done /\ outputs[i].monitor # m
      BY <1>c, <2>1, <3>1
    <3>3. ASSUME NEW b \in 1..Len(bars), bars[b].monitor = outputs[i].monitor
          PROVE  \E c \in 1..Len(bars') : bars'[c].monitor = outputs[i].monitor
      <4>1. b \in barsLeft
        BY <1>c, <3>2, <3>3
      <4> QED  BY <1>6, <3>3, <4>1
    <3> QED  BY <1>a, <3>1, <3>2, <3>3 DEF TurnsComeOrCame
  <2> QED  BY <1>1, <2>1 DEF TurnsComeOrCame
<1>17. BatchComes'
  <2>1. CASE scheduled
    <3>1. PICK k \in 1..Len(idles) : BatchFirst(idles, k, pending)
      BY <1>0, <1>a, <2>1 DEF BatchComes
    <3>2. k # 1 /\ k - 1 \in 1..Len(idles') /\ idles'[k - 1] = Batch
      BY <1>0, <1>1, <1>2, <3>1, IdlesTail DEF BatchFirst
    <3>3. \A j \in 1..Len(idles') : j < k - 1 => j + 1 \in 1..Len(idles) /\ j + 1 < k /\ idles'[j] = idles[j + 1]
      BY <1>0, <1>1, <3>1, IdlesTail
    <3>4. BatchFirst(idles', k - 1, pending)
      BY <3>1, <3>2, <3>3 DEF BatchFirst
    <3> QED  BY <1>1, <2>1, <3>2, <3>4 DEF BatchComes
  <2>2. CASE ~scheduled
    BY <1>0, <1>1, <1>a, <2>2 DEF BatchComes
  <2> QED  BY <2>1, <2>2
<1> QED  BY <1>0, <1>8, <1>9, <1>10, <1>11, <1>14, <1>15, <1>16, <1>17 DEF ClientInv, Linked

\* A reload leaves no bar, and forgets what threw.
LEMMA QuitLeaveKeep == ASSUME ClientInv, Quit \/ Leave \/ UNCHANGED clientVars PROVE ClientInv'
<1>0. ClientTypes /\ OutputsApart /\ GoneForGood
  BY DEF ClientInv
<1>1. CASE Quit \/ UNCHANGED clientVars
  <2>1. UNCHANGED <<monitors, plugs, connected, outputs, pending, scheduled, idles, bars, phase, cursor, reloads, failed>>
    BY <1>1 DEF Quit, clientVars
  <2>2. ClientTypes' /\ OutputsApart' /\ GoneForGood'
    BY <1>0, <2>1 DEF ClientTypes, OutputsApart, GoneForGood
  <2>3. ASSUME Linked PROVE Linked'
    <3>1. MonitorsCovered /\ AllPlaced /\ OnlyOnce /\ TurnsComeOrCame /\ BatchComes
      BY <2>3 DEF Linked
    <3>2. MonitorsCovered' /\ BatchComes'
      BY <2>1, <3>1 DEF MonitorsCovered, BatchComes
    <3>3. AllPlaced' /\ OnlyOnce' /\ TurnsComeOrCame'
      BY <2>1, <3>1 DEF AllPlaced, Placed, OnlyOnce, TurnsComeOrCame
    <3> QED  BY <3>2, <3>3 DEF Linked
  <2> QED  BY <2>1, <2>2, <2>3 DEF ClientInv
<1>2. CASE Leave
  <2>1. /\ bars' = <<>> /\ phase = "run" /\ phase' = "bind" /\ reloads' = reloads + 1 /\ failed' = {}
        /\ UNCHANGED <<monitors, plugs, connected, outputs, pending, scheduled, idles, cursor>>
    BY <1>2 DEF Leave
  <2>2. ClientTypes'
    <3>1. bars' \in Seq(OutputRecord) /\ failed' \subseteq 1..plugs /\ reloads' \in Nat
      BY <1>0, <2>1 DEF ClientTypes
    <3>2. cursor' = 1 /\ scheduled' \in BOOLEAN /\ connected' \in BOOLEAN
      BY <1>0, <2>1 DEF ClientTypes
    <3> QED  BY <1>0, <2>1, <3>1, <3>2 DEF ClientTypes
  <2>3. OutputsApart' /\ GoneForGood' /\ Len(bars') = 0
    BY <1>0, <2>1 DEF OutputsApart, GoneForGood
  <2> QED  BY <2>1, <2>2, <2>3 DEF ClientInv
<1> QED  BY <1>1, <1>2

\* As many outputs as monitors, no monitor twice: every monitor has one.
LEMMA NewOutputsCover ==
  ASSUME ClientTypes, NEW s \in NewOutputs
  PROVE  /\ s \in Seq(OutputRecord)
         /\ \A i \in 1..Len(s) : s[i].monitor \in monitors /\ s[i].run = reloads /\ s[i].done = FALSE
         /\ \A i, j \in 1..Len(s) : s[i].monitor = s[j].monitor \/ s[i].addr = s[j].addr => i = j
         /\ \A m \in monitors : \E i \in 1..Len(s) : s[i].monitor = m
<1>1. plugs \in Nat /\ monitors \subseteq 1..plugs /\ reloads \in Nat
  BY ClientAssumption DEF ClientTypes, ClientAssumption
<1> PICK c : c = Cardinality(monitors)
  OBVIOUS
<1>2. IsFiniteSet(monitors) /\ c \in Nat
  <2>1. IsFiniteSet(1..plugs)
    BY <1>1, FS_Interval
  <2>2. IsFiniteSet(monitors)
    BY <1>1, <2>1, FS_Subset
  <2> QED  BY <2>2, FS_CardinalityType
<1> DEFINE fresh == {Output(a, m) : a \in Address, m \in monitors}
<1>3. /\ s \in [1..c -> fresh]
      /\ \A i, j \in 1..c : s[i].monitor = s[j].monitor \/ s[i].addr = s[j].addr => i = j
  BY DEF NewOutputs
<1>4. \A o \in fresh : o \in OutputRecord /\ o.monitor \in monitors /\ o.run = reloads /\ o.done = FALSE
  <2>1. \A a \in Address, m \in monitors :
          /\ Output(a, m) \in OutputRecord
          /\ Output(a, m).monitor = m /\ Output(a, m).run = reloads /\ Output(a, m).done = FALSE
    BY <1>1 DEF Output, OutputRecord
  <2> QED  BY <2>1
<1> HIDE DEF fresh
<1>5. s \in Seq(OutputRecord) /\ Len(s) = c
  BY <1>2, <1>3, <1>4
<1>6. \A i \in 1..c : s[i] \in fresh
  BY <1>3
<1>7. ASSUME NEW m \in monitors, \A i \in 1..c : s[i].monitor # m PROVE FALSE
  <2>1. PICK others : others = monitors \ {m}
    OBVIOUS
  <2>2. PICK shown : shown = [i \in 1..c |-> s[i].monitor]
    OBVIOUS
  <2>3. shown \in [1..c -> others]
    BY <1>4, <1>6, <1>7, <2>1, <2>2
  <2>4. IsFiniteSet(1..c) /\ Cardinality(1..c) = c
    BY <1>2, FS_Interval
  <2>5. IsFiniteSet(others) /\ Cardinality(others) = c - 1
    BY <1>2, <2>1, FS_RemoveElement
  <2>6. Cardinality(others) < Cardinality(1..c)
    BY <1>2, <2>4, <2>5
  <2>7. PICK places : places = 1..c
    OBVIOUS
  <2>8. IsFiniteSet(places) /\ Cardinality(others) < Cardinality(places) /\ shown \in [places -> others]
    BY <2>3, <2>4, <2>6, <2>7
  <2>9. PICK i, j \in places : i # j /\ shown[i] = shown[j]
    BY <2>5, <2>8, FS_PigeonHole
  <2> QED  BY <1>3, <2>2, <2>7, <2>9
<1> QED  BY <1>3, <1>4, <1>5, <1>6, <1>7

\* A new run of Client::main() starts with an output for each monitor, and nothing waits.
LEMMA BindKeeps == ASSUME ClientInv, Bind PROVE ClientInv'
<1>0. ClientTypes /\ GoneForGood /\ Len(bars) = 0 /\ failed = {} /\ phase = "bind" /\ phase' = "run"
  BY DEF ClientInv, Bind
<1>1. /\ outputs' \in NewOutputs /\ pending' = <<>> /\ scheduled' = FALSE /\ connected' = TRUE
      /\ UNCHANGED <<monitors, plugs, idles, bars, cursor, reloads, failed>>
  BY DEF Bind
<1>2. /\ outputs' \in Seq(OutputRecord)
      /\ \A i \in 1..Len(outputs') : outputs'[i].monitor \in monitors /\ outputs'[i].done = FALSE
      /\ \A i, j \in 1..Len(outputs') : outputs'[i].monitor = outputs'[j].monitor \/ outputs'[i].addr = outputs'[j].addr => i = j
      /\ \A m \in monitors : \E i \in 1..Len(outputs') : outputs'[i].monitor = m
  <2>1. PICK s \in NewOutputs : s = outputs'
    BY <1>1
  <2> QED  BY <1>0, <2>1, NewOutputsCover
<1>3. Len(pending') = 0 /\ pending' \in Seq(OutputRecord) /\ cursor = 1 /\ cursor' = 1
  BY <1>0, <1>1 DEF ClientTypes
<1>4. ClientTypes'
  <2>1. cursor' \in Nat /\ 1 <= cursor' /\ cursor' <= Len(pending') + 1
    BY <1>3
  <2> QED  BY <1>0, <1>1, <1>2, <1>3, <2>1 DEF ClientTypes
<1>5. OutputsApart' /\ GoneForGood'
  BY <1>0, <1>1, <1>2 DEF OutputsApart, GoneForGood, ClientTypes
<1>6. MonitorsCovered'
  BY <1>1, <1>2 DEF MonitorsCovered
<1>7. AllPlaced' /\ OnlyOnce'
  BY <1>0, <1>1, <1>3 DEF AllPlaced, OnlyOnce
<1>8. TurnsComeOrCame'
  BY <1>1, <1>2 DEF TurnsComeOrCame
<1>9. BatchComes'
  BY <1>1, <1>3 DEF BatchComes
<1> QED  BY <1>0, <1>4, <1>5, <1>6, <1>7, <1>8, <1>9 DEF ClientInv, Linked

\* With no idle source left, nothing waits, and no output is without its monitor.
LEMMA ClientInvImplies == ClientInv => BarsFollowOutputs
<1> SUFFICES ASSUME ClientInv PROVE BarsFollowOutputs
  OBVIOUS
<1>0. ClientTypes
  BY DEF ClientInv
<1>1. /\ DOMAIN outputs = 1..Len(outputs) /\ DOMAIN bars = 1..Len(bars)
      /\ ToSet(outputs) = {outputs[i] : i \in 1..Len(outputs)} /\ ToSet(bars) = {bars[i] : i \in 1..Len(bars)}
  BY <1>0 DEF ClientTypes, ToSet
<1>2. CASE phase = "bind"
  <2>1. Len(bars) = 0 /\ phase # "batch" /\ phase # "run"
    BY <1>2 DEF ClientInv
  <2>2. ToSet(bars) = {} /\ 1..Len(bars) = {}
    BY <1>1, <2>1
  <2> QED  BY <1>1, <2>1, <2>2 DEF BarsFollowOutputs, BarsOnOutputs, BatchFollowsPointers, NoBarTwice, BarsSettled
<1>3. CASE phase # "bind"
  <2>0. MonitorsCovered /\ AllPlaced /\ OnlyOnce /\ TurnsComeOrCame /\ BatchComes
    BY <1>3 DEF ClientInv, Linked
  <2>1. \A x : Placed(x) => \E o \in ToSet(outputs) : Same(x, o) /\ Same(o, x) /\ o.done
    BY <1>1 DEF Placed, Same
  <2>2. BarsOnOutputs
    BY <1>1, <2>0, <2>1 DEF BarsOnOutputs, AllPlaced
  <2>3. BatchFollowsPointers
    <3>1. \A p \in cursor..Len(pending) : p \in 1..Len(pending)
      BY <1>0 DEF ClientTypes
    <3> QED  BY <2>0, <2>1, <3>1 DEF BatchFollowsPointers, AllPlaced
  <2>4. NoBarTwice
    BY <1>1, <2>0 DEF NoBarTwice, OnlyOnce
  <2>5. BarsSettled
    <3> SUFFICES ASSUME phase = "run", idles = <<>>
                 PROVE  /\ {o.monitor : o \in ToSet(outputs)} = monitors
                        /\ Barred \cup failed = {o.monitor : o \in {p \in ToSet(outputs) : p.done}} \cup failed
                        /\ failed \cap Barred = {}
      BY DEF BarsSettled
    <3>1. Len(idles) = 0 /\ 1..Len(idles) = {}
      OBVIOUS
    <3>2. Len(pending) = 0 /\ cursor..Len(pending) = {}
      <4>1. Len(pending) = 0
        BY <2>0, <3>1 DEF BatchComes
      <4>2. cursor = 1
        BY <1>0 DEF ClientTypes
      <4> QED  BY <4>1, <4>2
    <3>3. {o.monitor : o \in ToSet(outputs)} = monitors
      BY <1>1, <2>0, <3>1 DEF MonitorsCovered
    <3>4. Barred = {bars[b].monitor : b \in 1..Len(bars)}
      BY <1>1 DEF Barred
    <3>5. \A i \in 1..Len(outputs) : outputs[i].done => outputs[i].monitor \in Barred \cup failed
      BY <2>0, <3>2, <3>4 DEF TurnsComeOrCame
    <3>6. \A b \in 1..Len(bars) : \E i \in 1..Len(outputs) : outputs[i].done /\ outputs[i].monitor = bars[b].monitor
      BY <2>0 DEF AllPlaced, Placed, Same
    <3>7. {o.monitor : o \in {p \in ToSet(outputs) : p.done}} = {outputs[i].monitor : i \in {h \in 1..Len(outputs) : outputs[h].done}}
      BY <1>1
    <3>8. failed \cap Barred = {}
      BY <2>0, <3>4 DEF OnlyOnce
    <3>9. PICK complete : complete = {o.monitor : o \in {p \in ToSet(outputs) : p.done}}
      OBVIOUS
    <3>10. complete \subseteq Barred \cup failed
      BY <3>5, <3>7, <3>9
    <3>11. Barred \subseteq complete
      BY <3>4, <3>6, <3>7, <3>9
    <3>12. Barred \cup failed = complete \cup failed
      BY <3>10, <3>11
    <3> QED  BY <3>3, <3>8, <3>9, <3>12
  <2> QED  BY <2>2, <2>3, <2>4, <2>5 DEF BarsFollowOutputs
<1> QED  BY <1>2, <1>3

LEMMA ClientInvariant == ClientSpec => []ClientInv
<1>1. ClientInv /\ [ClientNext]_clientVars => ClientInv'
  BY MonitorAddedKeeps, MonitorRemovedKeeps, OutputDoneKeeps, BatchBeginsKeeps, BatchCreatesKeeps, BatchEndsKeeps,
     RemovalKeeps, QuitLeaveKeep, BindKeeps DEF ClientNext
<1> QED  BY <1>1, ClientStarts, PTL DEF ClientSpec

\* However monitors come and go, batches and removals wait for each other and the bars are
\* reloaded: no bar outlives its output, a batch makes bars for the outputs that waited, no
\* monitor has its bars twice, and at rest every monitor has those it should
\* (client.cpp:83-160, 185-210, 270-300).
THEOREM BarsAlwaysFollow == ClientSpec => []BarsFollowOutputs
BY ClientInvariant, ClientInvImplies, PTL

-----------------------------------------------------------------------------
(* The tray.  What the host does not know yet is in what the bus still has    *)
(* to deliver: of the watcher's name the last word, of an item the last that  *)
(* follows every copy of the list, of a property the answer or a signal that  *)
(* follows it.                                                                *)
ItemRecord ==
  [ready : BOOLEAN, title : Titles \cup {""}, status : Statuses \cup {""},
   pending : SUBSET ItemProperty, timer : BOOLEAN, call : {"none", "create", "getAll", "answered"}]

TrayMessage ==
  [name : {"appeared", "vanished", "cancelled"}]
  \cup [name : {"registered", "unregistered"}, item : TrayItem]
  \cup [name : {"items"}, items : SUBSET TrayItem]
  \cup [name : {"proxy", "register"}, ok : BOOLEAN, items : SUBSET TrayItem]
  \cup [name : {"create", "getAll"}, item : TrayItem, ok : BOOLEAN, title : Titles, status : Statuses]
  \cup [name : {"changed"}, item : TrayItem, property : ItemProperty]

IsName(m) == m.name \in {"appeared", "vanished"}
IsComing(i, m) == m.name \in {"registered", "unregistered"} /\ m.item = i
IsCopy(m) == m.name \in {"items", "proxy"}
IsAnswer(m) == m.name \in {"create", "getAll"}
IsChange(i, p, m) == m.name = "changed" /\ m.item = i /\ m.property = p

\* Of the messages of w after the k-th.
NoName(w, k) == \A l \in DOMAIN w : l > k => ~IsName(w[l])
NoComing(w, k, i) == \A l \in DOMAIN w : l > k => ~IsName(w[l]) /\ ~IsComing(i, w[l])
Change(w, k, i, p) == \E l \in DOMAIN w : l > k /\ IsChange(i, p, w[l])

NamesTell(w, up) ==
  \A k \in DOMAIN w : IsName(w[k]) /\ NoName(w, k) => (w[k].name = "appeared" <=> up)
ComingsTell(w, items) ==
  \A k \in DOMAIN w, i \in TrayItem :
    IsComing(i, w[k]) /\ NoComing(w, k, i) => (w[k].name = "registered" <=> i \in items)
CopiesTell(w, items) ==
  \A k \in DOMAIN w, i \in TrayItem : IsCopy(w[k]) /\ NoComing(w, k, i) => (i \in w[k].items <=> i \in items)
AnswersTell(w, title, status) ==
  \A k \in DOMAIN w : IsAnswer(w[k]) =>
    /\ w[k].title = title[w[k].item] \/ Change(w, k, w[k].item, "title")
    /\ w[k].status = status[w[k].item] \/ Change(w, k, w[k].item, "status")
OneHostAnswer(w, call, found) ==
  /\ \A k \in DOMAIN w : OfHost(w[k]) => call = "answered" /\ (w[k].name = "register" <=> found)
  /\ \A k, l \in DOMAIN w : OfHost(w[k]) /\ OfHost(w[l]) => k = l
Owned(w, items) ==
  /\ \A k \in DOMAIN w : IsAnswer(w[k]) =>
       /\ w[k].item \in DOMAIN items
       /\ items[w[k].item].call = "answered"
       /\ w[k].name = "create" <=> ~items[w[k].item].ready
  /\ \A k, l \in DOMAIN w : IsAnswer(w[k]) /\ IsAnswer(w[l]) /\ w[k].item = w[l].item => k = l
\* The watcher is never announced twice: not to a host that has not heard that it left.
NamesAlternate(w, up, fresh) ==
  /\ \A l \in DOMAIN w : w[l].name = "appeared" => fresh \/ \E j \in DOMAIN w : j < l /\ w[j].name = "vanished"
  /\ \A k, l \in DOMAIN w : k < l /\ w[k].name = "appeared" /\ w[l].name = "appeared" =>
       \E j \in DOMAIN w : k < j /\ j < l /\ w[j].name = "vanished"
  /\ \/ up
     \/ fresh /\ \A l \in DOMAIN w : w[l].name # "appeared"
     \/ \E j \in DOMAIN w : w[j].name = "vanished" /\ \A l \in DOMAIN w : l > j => w[l].name # "appeared"

\* c is w with the answers to some calls cancelled.
Cancels(w, c) ==
  /\ c \in Seq(TrayMessage) /\ DOMAIN c = DOMAIN w
  /\ \A k \in DOMAIN w : c[k] = w[k] \/ (c[k].name = "cancelled" /\ (OfHost(w[k]) \/ IsAnswer(w[k])))

LEMMA MessageFields ==
  ASSUME NEW m \in TrayMessage
  PROVE  /\ m.name \in {"registered", "unregistered", "create", "getAll", "changed"} => m.item \in TrayItem
         /\ m.name \in {"items", "proxy", "register"} => m.items \subseteq TrayItem
         /\ m.name \in {"create", "getAll"} => m.title \in Titles /\ m.status \in Statuses
         /\ m.name \in {"proxy", "register", "create", "getAll"} => m.ok \in BOOLEAN
         /\ m.name = "changed" => m.property \in ItemProperty
  BY DEF TrayMessage

LEMMA Messages ==
  /\ \A n \in {"appeared", "vanished", "cancelled"} : [name |-> n] \in TrayMessage
  /\ \A n \in {"registered", "unregistered"}, i \in TrayItem : [name |-> n, item |-> i] \in TrayMessage
  /\ \A I \in SUBSET TrayItem : [name |-> "items", items |-> I] \in TrayMessage
  /\ \A n \in {"proxy", "register"}, o \in BOOLEAN, I \in SUBSET TrayItem :
       [name |-> n, ok |-> o, items |-> I] \in TrayMessage
  /\ \A n \in {"create", "getAll"}, i \in TrayItem, o \in BOOLEAN, t \in Titles, s \in Statuses :
       [name |-> n, item |-> i, ok |-> o, title |-> t, status |-> s] \in TrayMessage
  /\ \A i \in TrayItem, p \in ItemProperty : [name |-> "changed", item |-> i, property |-> p] \in TrayMessage
  BY DEF TrayMessage

LEMMA TailOfWire ==
  ASSUME NEW w \in Seq(TrayMessage), w # <<>>
  PROVE  /\ Tail(w) \in Seq(TrayMessage) /\ DOMAIN Tail(w) = 1..(Len(w) - 1)
         /\ DOMAIN w = 1..Len(w) /\ Len(w) \in Nat \ {0} /\ Head(w) = w[1] /\ w[1] \in TrayMessage
         /\ \A k \in DOMAIN Tail(w) : k + 1 \in DOMAIN w /\ Tail(w)[k] = w[k + 1]
         /\ \A k \in DOMAIN w : k = 1 \/ (k - 1 \in DOMAIN Tail(w) /\ Tail(w)[k - 1] = w[k])
  OBVIOUS

LEMMA TailLater ==
  ASSUME NEW w \in Seq(TrayMessage), w # <<>>, NEW k \in Nat
  PROVE  /\ NoName(Tail(w), k) => NoName(w, k + 1)
         /\ \A i : NoComing(Tail(w), k, i) => NoComing(w, k + 1, i)
         /\ \A i, p : Change(w, k + 1, i, p) => Change(Tail(w), k, i, p)
<1>1. \A l \in DOMAIN w : l > k + 1 => l - 1 \in DOMAIN Tail(w) /\ l - 1 > k /\ Tail(w)[l - 1] = w[l]
  BY TailOfWire
<1>2. NoName(Tail(w), k) => NoName(w, k + 1)
  BY <1>1 DEF NoName
<1>3. \A i : NoComing(Tail(w), k, i) => NoComing(w, k + 1, i)
  BY <1>1 DEF NoComing
<1>4. \A i, p : Change(w, k + 1, i, p) => Change(Tail(w), k, i, p)
  BY <1>1 DEF Change
<1> QED  BY <1>2, <1>3, <1>4

LEMMA TailTells ==
  ASSUME NEW w \in Seq(TrayMessage), w # <<>>
  PROVE  /\ \A up : NamesTell(w, up) => NamesTell(Tail(w), up)
         /\ \A I : ComingsTell(w, I) => ComingsTell(Tail(w), I)
         /\ \A I : CopiesTell(w, I) => CopiesTell(Tail(w), I)
         /\ \A t, s : AnswersTell(w, t, s) => AnswersTell(Tail(w), t, s)
         /\ \A c, f : OneHostAnswer(w, c, f) => OneHostAnswer(Tail(w), c, f)
         /\ \A I : Owned(w, I) => Owned(Tail(w), I)
<1>1. \A k \in DOMAIN Tail(w) : k \in Nat /\ k + 1 \in DOMAIN w /\ Tail(w)[k] = w[k + 1]
  BY TailOfWire
<1>2. \A up : NamesTell(w, up) => NamesTell(Tail(w), up)
  BY <1>1, TailLater DEF NamesTell
<1>3. \A I : ComingsTell(w, I) => ComingsTell(Tail(w), I)
  BY <1>1, TailLater DEF ComingsTell
<1>4. \A I : CopiesTell(w, I) => CopiesTell(Tail(w), I)
  BY <1>1, TailLater DEF CopiesTell
<1>5. \A t, s : AnswersTell(w, t, s) => AnswersTell(Tail(w), t, s)
  BY <1>1, TailLater DEF AnswersTell
<1>6. \A c, f : OneHostAnswer(w, c, f) => OneHostAnswer(Tail(w), c, f)
  BY <1>1 DEF OneHostAnswer
<1>7. \A I : Owned(w, I) => Owned(Tail(w), I)
  BY <1>1 DEF Owned
<1> QED  BY <1>2, <1>3, <1>4, <1>5, <1>6, <1>7

LEMMA CancelLater ==
  ASSUME NEW w \in Seq(TrayMessage), NEW c, Cancels(w, c), NEW k \in Nat
  PROVE  /\ NoName(c, k) <=> NoName(w, k)
         /\ \A i : NoComing(c, k, i) <=> NoComing(w, k, i)
         /\ \A i, p : Change(w, k, i, p) <=> Change(c, k, i, p)
<1>1. DOMAIN c = DOMAIN w
  BY DEF Cancels
<1>2. \A l \in DOMAIN w : /\ IsName(c[l]) <=> IsName(w[l])
                          /\ \A i : IsComing(i, c[l]) <=> IsComing(i, w[l])
                          /\ \A i, p : IsChange(i, p, c[l]) <=> IsChange(i, p, w[l])
  BY DEF Cancels, IsName, IsComing, IsChange, OfHost, IsAnswer
<1> QED  BY <1>1, <1>2 DEF NoName, NoComing, Change

LEMMA CancelTells ==
  ASSUME NEW w \in Seq(TrayMessage), NEW c, Cancels(w, c)
  PROVE  /\ \A up : NamesTell(w, up) => NamesTell(c, up)
         /\ \A I : ComingsTell(w, I) => ComingsTell(c, I)
         /\ \A I : CopiesTell(w, I) => CopiesTell(c, I)
         /\ \A t, s : AnswersTell(w, t, s) => AnswersTell(c, t, s)
         /\ \A a, f : OneHostAnswer(w, a, f) => OneHostAnswer(c, a, f)
         /\ \A I : Owned(w, I) => Owned(c, I)
<1>1. DOMAIN c = DOMAIN w /\ \A k \in DOMAIN w : k \in Nat
  BY DEF Cancels
<1>2. \A k \in DOMAIN w : c[k] = w[k] \/ (c[k].name = "cancelled" /\ ~IsName(w[k]))
  BY DEF Cancels, OfHost, IsAnswer, IsName
<1>3. \A up : NamesTell(w, up) => NamesTell(c, up)
  BY <1>1, <1>2, CancelLater DEF NamesTell, IsName
<1>4. \A I : ComingsTell(w, I) => ComingsTell(c, I)
  BY <1>1, <1>2, CancelLater DEF ComingsTell, IsComing
<1>5. \A I : CopiesTell(w, I) => CopiesTell(c, I)
  BY <1>1, <1>2, CancelLater DEF CopiesTell, IsCopy
<1>6. \A t, s : AnswersTell(w, t, s) => AnswersTell(c, t, s)
  BY <1>1, <1>2, CancelLater DEF AnswersTell, IsAnswer
<1>7. \A a, f : OneHostAnswer(w, a, f) => OneHostAnswer(c, a, f)
  BY <1>1, <1>2 DEF OneHostAnswer, OfHost
<1>8. \A I : Owned(w, I) => Owned(c, I)
  BY <1>1, <1>2 DEF Owned, IsAnswer
<1> QED  BY <1>3, <1>4, <1>5, <1>6, <1>7, <1>8

LEMMA CancelOfItems ==
  ASSUME NEW w \in Seq(TrayMessage), NEW gone, NEW c,
         c = [k \in DOMAIN w |-> IF OfItems(gone, w[k]) THEN [name |-> "cancelled"] ELSE w[k]]
  PROVE  Cancels(w, c) /\ \A k \in DOMAIN w : ~OfItems(gone, c[k])
<1>1. DOMAIN w = 1..Len(w) /\ Len(w) \in Nat /\ [name |-> "cancelled"] \in TrayMessage
  BY Messages
<1>2. c \in Seq(TrayMessage)
  BY <1>1
<1> QED  BY <1>1, <1>2 DEF Cancels, OfItems, IsAnswer

LEMMA CancelOfAll ==
  ASSUME NEW w \in Seq(TrayMessage), NEW c,
         c = [k \in DOMAIN w |-> IF OfHost(w[k]) \/ OfItems(TrayItem, w[k]) THEN [name |-> "cancelled"] ELSE w[k]]
  PROVE  Cancels(w, c) /\ \A k \in DOMAIN c : ~IsAnswer(c[k]) /\ ~OfHost(c[k])
<1>1. DOMAIN w = 1..Len(w) /\ Len(w) \in Nat /\ [name |-> "cancelled"] \in TrayMessage /\ DOMAIN c = DOMAIN w
  BY Messages
<1>2. c \in Seq(TrayMessage)
  BY <1>1
<1>3. \A k \in DOMAIN w : IsAnswer(w[k]) => OfItems(TrayItem, w[k])
  BY MessageFields DEF IsAnswer, OfItems
<1>4. Cancels(w, c)
  BY <1>1, <1>2 DEF Cancels, OfItems, IsAnswer
<1> QED  BY <1>1, <1>3, <1>4 DEF OfHost, IsAnswer

LEMMA AppendToWire ==
  ASSUME NEW w \in Seq(TrayMessage), NEW m \in TrayMessage
  PROVE  /\ Append(w, m) \in Seq(TrayMessage) /\ DOMAIN w = 1..Len(w) /\ Len(w) \in Nat
         /\ DOMAIN Append(w, m) = 1..(Len(w) + 1) /\ Append(w, m)[Len(w) + 1] = m
         /\ \A k \in DOMAIN w : k \in DOMAIN Append(w, m) /\ Append(w, m)[k] = w[k] /\ Len(w) + 1 > k
         /\ \A k \in DOMAIN Append(w, m) : k \in DOMAIN w \/ k = Len(w) + 1
  OBVIOUS

LEMMA AppendLater ==
  ASSUME NEW w \in Seq(TrayMessage), NEW m \in TrayMessage, NEW k \in 0..Len(w)
  PROVE  /\ NoName(Append(w, m), k) <=> NoName(w, k) /\ ~IsName(m)
         /\ \A i : NoComing(Append(w, m), k, i) <=> NoComing(w, k, i) /\ ~IsName(m) /\ ~IsComing(i, m)
         /\ \A i, p : Change(Append(w, m), k, i, p) <=> Change(w, k, i, p) \/ IsChange(i, p, m)
<1>1. Len(w) + 1 > k /\ Len(w) + 1 \in DOMAIN Append(w, m)
  BY AppendToWire
<1>2. NoName(Append(w, m), k) <=> NoName(w, k) /\ ~IsName(m)
  BY <1>1, AppendToWire DEF NoName
<1>3. \A i : NoComing(Append(w, m), k, i) <=> NoComing(w, k, i) /\ ~IsName(m) /\ ~IsComing(i, m)
  BY <1>1, AppendToWire DEF NoComing
<1>4. \A i, p : Change(Append(w, m), k, i, p) <=> Change(w, k, i, p) \/ IsChange(i, p, m)
  BY <1>1, AppendToWire DEF Change
<1> QED  BY <1>2, <1>3, <1>4

LEMMA AppendTells ==
  ASSUME NEW w \in Seq(TrayMessage), NEW m \in TrayMessage
  PROVE  /\ \A up, new : /\ NamesTell(w, up)
                         /\ IF IsName(m) THEN m.name = "appeared" <=> new ELSE new = up
                         => NamesTell(Append(w, m), new)
         /\ \A I, J : /\ ComingsTell(w, I)
                      /\ \A i \in TrayItem : IsComing(i, m) => (m.name = "registered" <=> i \in J)
                      /\ IsName(m) \/ \A i \in TrayItem : IsComing(i, m) \/ (i \in J <=> i \in I)
                      => ComingsTell(Append(w, m), J)
         /\ \A I, J : /\ CopiesTell(w, I)
                      /\ IsCopy(m) => m.items = J
                      /\ IsName(m) \/ \A i \in TrayItem : IsComing(i, m) \/ (i \in J <=> i \in I)
                      => CopiesTell(Append(w, m), J)
         /\ \A t, s, u, v : /\ AnswersTell(w, t, s)
                            /\ IsAnswer(m) => m.title = u[m.item] /\ m.status = v[m.item]
                            /\ \A i \in TrayItem : u[i] = t[i] \/ IsChange(i, "title", m)
                            /\ \A i \in TrayItem : v[i] = s[i] \/ IsChange(i, "status", m)
                            => AnswersTell(Append(w, m), u, v)
<1> DEFINE a == Append(w, m)
           n == Len(w) + 1
<1>1. DOMAIN w = 1..Len(w) /\ Len(w) \in Nat /\ a \in Seq(TrayMessage) /\ n \in DOMAIN a /\ a[n] = m
  BY AppendToWire
<1>2. \A k \in DOMAIN w : k \in 0..Len(w) /\ k \in DOMAIN a /\ a[k] = w[k] /\ w[k] \in TrayMessage
  BY AppendToWire
<1>3. \A k \in DOMAIN a : k \in DOMAIN w \/ (k = n /\ k \notin DOMAIN w)
  BY AppendToWire
<1>4. \A k \in DOMAIN w : NoName(a, k) <=> NoName(w, k) /\ ~IsName(m)
  BY <1>2, AppendLater
<1>5. \A k \in DOMAIN w, i \in TrayItem : NoComing(a, k, i) <=> NoComing(w, k, i) /\ ~IsName(m) /\ ~IsComing(i, m)
  BY <1>2, AppendLater
<1>6. \A k \in DOMAIN w, i \in TrayItem, p \in ItemProperty : Change(a, k, i, p) <=> Change(w, k, i, p) \/ IsChange(i, p, m)
  BY <1>2, AppendLater
<1> HIDE DEF a, n
<1>7. ASSUME NEW up, NEW new, NamesTell(w, up), IF IsName(m) THEN m.name = "appeared" <=> new ELSE new = up
      PROVE  NamesTell(a, new)
  BY <1>1, <1>2, <1>3, <1>4, <1>7 DEF NamesTell
<1>8. ASSUME NEW I, NEW J, ComingsTell(w, I),
             \A i \in TrayItem : IsComing(i, m) => (m.name = "registered" <=> i \in J),
             IsName(m) \/ \A i \in TrayItem : IsComing(i, m) \/ (i \in J <=> i \in I)
      PROVE  ComingsTell(a, J)
  BY <1>1, <1>2, <1>3, <1>5, <1>8 DEF ComingsTell
<1>9. ASSUME NEW I, NEW J, CopiesTell(w, I), IsCopy(m) => m.items = J,
             IsName(m) \/ \A i \in TrayItem : IsComing(i, m) \/ (i \in J <=> i \in I)
      PROVE  CopiesTell(a, J)
  BY <1>1, <1>2, <1>3, <1>5, <1>9 DEF CopiesTell
<1>10. ASSUME NEW t, NEW s, NEW u, NEW v, AnswersTell(w, t, s),
              IsAnswer(m) => m.title = u[m.item] /\ m.status = v[m.item],
              \A i \in TrayItem : u[i] = t[i] \/ IsChange(i, "title", m),
              \A i \in TrayItem : v[i] = s[i] \/ IsChange(i, "status", m)
       PROVE  AnswersTell(a, u, v)
  <2>1. \A k \in DOMAIN w : IsAnswer(w[k]) => w[k].item \in TrayItem
    BY <1>2, MessageFields DEF IsAnswer
  <2>2. {"title", "status"} \subseteq ItemProperty
    BY DEF ItemProperty
  <2>3. \A k \in DOMAIN w : IsAnswer(w[k]) =>
          /\ w[k].title = u[w[k].item] \/ Change(a, k, w[k].item, "title")
          /\ w[k].status = v[w[k].item] \/ Change(a, k, w[k].item, "status")
    BY <1>6, <1>10, <2>1, <2>2 DEF AnswersTell
  <2>4. \A k \in DOMAIN a : IsAnswer(a[k]) =>
          /\ a[k].title = u[a[k].item] \/ Change(a, k, a[k].item, "title")
          /\ a[k].status = v[a[k].item] \/ Change(a, k, a[k].item, "status")
    BY <1>1, <1>2, <1>3, <1>10, <2>3
  <2> QED  BY <2>4 DEF AnswersTell
<1> QED  BY <1>7, <1>8, <1>9, <1>10 DEF a

LEMMA AppendOwned ==
  ASSUME NEW w \in Seq(TrayMessage), NEW m \in TrayMessage
  PROVE  /\ \A c, f : OneHostAnswer(w, c, f) /\ ~OfHost(m) => OneHostAnswer(Append(w, m), c, f)
         /\ \A c, f : OneHostAnswer(w, c, f) /\ c # "answered" /\ OfHost(m) /\ (m.name = "register" <=> f)
                      => OneHostAnswer(Append(w, m), "answered", f)
         /\ \A I : Owned(w, I) /\ ~IsAnswer(m) => Owned(Append(w, m), I)
         /\ \A I, J : /\ Owned(w, I) /\ IsAnswer(m) /\ I[m.item].call # "answered"
                      /\ m.item \in DOMAIN J /\ J[m.item].call = "answered" /\ (m.name = "create" <=> ~J[m.item].ready)
                      /\ DOMAIN I \subseteq DOMAIN J /\ \A i \in DOMAIN I : i = m.item \/ J[i] = I[i]
                      => Owned(Append(w, m), J)
<1> DEFINE a == Append(w, m)
           n == Len(w) + 1
<1>1. n \in DOMAIN a /\ a[n] = m
  BY AppendToWire
<1>2. \A k \in DOMAIN w : k \in DOMAIN a /\ a[k] = w[k]
  BY AppendToWire
<1>3. \A k \in DOMAIN a : k \in DOMAIN w \/ k = n
  BY AppendToWire
<1> HIDE DEF a, n
<1>4. \A c, f : OneHostAnswer(w, c, f) /\ ~OfHost(m) => OneHostAnswer(a, c, f)
  BY <1>1, <1>2, <1>3 DEF OneHostAnswer
<1>5. \A c, f : OneHostAnswer(w, c, f) /\ c # "answered" /\ OfHost(m) /\ (m.name = "register" <=> f)
                => OneHostAnswer(a, "answered", f)
  BY <1>1, <1>2, <1>3 DEF OneHostAnswer
<1>6. \A I : Owned(w, I) /\ ~IsAnswer(m) => Owned(a, I)
  BY <1>1, <1>2, <1>3 DEF Owned
<1>7. ASSUME NEW I, NEW J, Owned(w, I), IsAnswer(m), I[m.item].call # "answered",
             m.item \in DOMAIN J, J[m.item].call = "answered", m.name = "create" <=> ~J[m.item].ready,
             DOMAIN I \subseteq DOMAIN J, \A i \in DOMAIN I : i = m.item \/ J[i] = I[i]
      PROVE  Owned(a, J)
  <2>1. \A k \in DOMAIN w : IsAnswer(w[k]) => w[k].item # m.item
    BY <1>7 DEF Owned
  <2>2. \A k \in DOMAIN a : IsAnswer(a[k]) => a[k].item \in DOMAIN J /\ J[a[k].item].call = "answered"
                                             /\ (a[k].name = "create" <=> ~J[a[k].item].ready)
    BY <1>1, <1>2, <1>3, <1>7, <2>1 DEF Owned
  <2>3. \A k, l \in DOMAIN a : IsAnswer(a[k]) /\ IsAnswer(a[l]) /\ a[k].item = a[l].item => k = l
    BY <1>1, <1>2, <1>3, <1>7, <2>1 DEF Owned
  <2> QED  BY <2>2, <2>3 DEF Owned
<1> QED  BY <1>4, <1>5, <1>6, <1>7 DEF a

LEMMA AlternateTailed ==
  ASSUME NEW w \in Seq(TrayMessage), w # <<>>, NEW up, NEW f, NEW g, NamesAlternate(w, up, f),
         Head(w).name = "vanished" => g, f => g \/ Head(w).name = "appeared"
  PROVE  NamesAlternate(Tail(w), up, g)
<1> DEFINE t == Tail(w)
<1>1. 1 \in DOMAIN w /\ Head(w) = w[1] /\ DOMAIN t \subseteq Nat /\ DOMAIN w \subseteq Nat
  BY TailOfWire
<1>2. \A k \in DOMAIN t : 1 < k + 1 /\ k + 1 \in DOMAIN w /\ t[k] = w[k + 1]
  BY TailOfWire
<1>3. \A k \in DOMAIN w : k = 1 \/ (k - 1 \in DOMAIN t /\ t[k - 1] = w[k])
  BY TailOfWire
<1> HIDE DEF t
<1>4. ASSUME NEW l \in DOMAIN t, t[l].name = "appeared", ~g
      PROVE  \E j \in DOMAIN t : j < l /\ t[j].name = "vanished"
  <2>1. l + 1 \in DOMAIN w /\ w[l + 1].name = "appeared"
    BY <1>2, <1>4
  <2>2. \E j \in DOMAIN w : j < l + 1 /\ j # 1 /\ w[j].name = "vanished"
    <3>1. CASE f
      <4>1. w[1].name = "appeared" /\ 1 < l + 1
        BY <1>1, <1>2, <1>4, <3>1
      <4>2. \E j \in DOMAIN w : 1 < j /\ j < l + 1 /\ w[j].name = "vanished"
        BY <1>1, <2>1, <4>1 DEF NamesAlternate
      <4> QED  BY <1>1, <4>2
    <3>2. CASE ~f
      BY <1>1, <1>4, <2>1, <3>2 DEF NamesAlternate
    <3> QED  BY <3>1, <3>2
  <2> QED  BY <1>1, <1>3, <2>2
<1>5. ASSUME NEW k \in DOMAIN t, NEW l \in DOMAIN t, k < l, t[k].name = "appeared", t[l].name = "appeared"
      PROVE  \E j \in DOMAIN t : k < j /\ j < l /\ t[j].name = "vanished"
  <2>1. k + 1 \in DOMAIN w /\ l + 1 \in DOMAIN w /\ k + 1 < l + 1 /\ w[k + 1].name = "appeared" /\ w[l + 1].name = "appeared"
    BY <1>1, <1>2, <1>5
  <2>2. PICK j \in DOMAIN w : k + 1 < j /\ j < l + 1 /\ w[j].name = "vanished"
    BY <2>1 DEF NamesAlternate
  <2>3. j - 1 \in DOMAIN t /\ t[j - 1] = w[j]
    BY <1>1, <1>3, <2>2
  <2>4. k < j - 1 /\ j - 1 < l
    BY <1>1, <2>2
  <2> QED  BY <2>2, <2>3, <2>4
<1>6. \/ up
      \/ g /\ \A l \in DOMAIN t : t[l].name # "appeared"
      \/ \E j \in DOMAIN t : t[j].name = "vanished" /\ \A l \in DOMAIN t : l > j => t[l].name # "appeared"
  <2>1. CASE f /\ \A l \in DOMAIN w : w[l].name # "appeared"
    BY <1>1, <1>2, <2>1
  <2>2. ASSUME NEW j \in DOMAIN w, w[j].name = "vanished", \A l \in DOMAIN w : l > j => w[l].name # "appeared"
        PROVE  \/ g /\ \A l \in DOMAIN t : t[l].name # "appeared"
               \/ \E k \in DOMAIN t : t[k].name = "vanished" /\ \A l \in DOMAIN t : l > k => t[l].name # "appeared"
    <3>1. CASE j = 1
      BY <1>1, <1>2, <2>2, <3>1
    <3>2. CASE j # 1
      <4>1. j - 1 \in DOMAIN t /\ t[j - 1].name = "vanished"
        BY <1>3, <2>2, <3>2
      <4>2. \A l \in DOMAIN t : l > j - 1 => t[l].name # "appeared"
        BY <1>1, <1>2, <2>2
      <4> QED  BY <4>1, <4>2
    <3> QED  BY <3>1, <3>2
  <2> QED  BY <2>1, <2>2 DEF NamesAlternate
<1>7. NamesAlternate(t, up, g)
  BY <1>4, <1>5, <1>6 DEF NamesAlternate
<1> QED  BY <1>7 DEF t

LEMMA AlternateCancelled ==
  ASSUME NEW w \in Seq(TrayMessage), NEW c, Cancels(w, c), NEW up, NEW f, NamesAlternate(w, up, f)
  PROVE  NamesAlternate(c, up, f)
<1>1. DOMAIN c = DOMAIN w
  BY DEF Cancels
<1>2. \A l \in DOMAIN w : (c[l].name = "appeared" <=> w[l].name = "appeared") /\ (c[l].name = "vanished" <=> w[l].name = "vanished")
  BY DEF Cancels, OfHost, IsAnswer
<1> QED  BY <1>1, <1>2 DEF NamesAlternate

LEMMA AlternateAppended ==
  ASSUME NEW w \in Seq(TrayMessage), NEW m \in TrayMessage, NEW up, NEW new, NEW f, NamesAlternate(w, up, f),
         \/ ~IsName(m) /\ (new <=> up)
         \/ m.name = "appeared" /\ ~up /\ new
         \/ m.name = "vanished"
  PROVE  NamesAlternate(Append(w, m), new, f)
<1> DEFINE a == Append(w, m)
           n == Len(w) + 1
<1>1. n \in DOMAIN a /\ a[n] = m /\ DOMAIN w = 1..(n - 1) /\ n \in Nat
  BY AppendToWire
<1>2. \A k \in DOMAIN w : k \in DOMAIN a /\ a[k] = w[k] /\ k < n /\ k \in Nat /\ k # n
  BY AppendToWire
<1>3. \A k \in DOMAIN a : k \in DOMAIN w \/ k = n
  BY AppendToWire
<1> HIDE DEF a, n
<1> SUFFICES NamesAlternate(a, new, f)
  BY DEF a
<1>4. CASE m.name # "appeared"
  <2>1. \A l \in DOMAIN a : a[l].name = "appeared" => f \/ \E j \in DOMAIN a : j < l /\ a[j].name = "vanished"
    BY <1>1, <1>2, <1>3, <1>4 DEF NamesAlternate
  <2>2. \A k, l \in DOMAIN a : k < l /\ a[k].name = "appeared" /\ a[l].name = "appeared" =>
          \E j \in DOMAIN a : k < j /\ j < l /\ a[j].name = "vanished"
    BY <1>1, <1>2, <1>3, <1>4 DEF NamesAlternate
  <2>3. \/ new
        \/ f /\ \A l \in DOMAIN a : a[l].name # "appeared"
        \/ \E j \in DOMAIN a : a[j].name = "vanished" /\ \A l \in DOMAIN a : l > j => a[l].name # "appeared"
    <3>1. CASE m.name = "vanished"
      <4>1. \A l \in DOMAIN a : ~(l > n)
        BY <1>1, <1>2, <1>3
      <4> QED  BY <1>1, <3>1, <4>1
    <3>2. CASE ~IsName(m) /\ (new <=> up)
      BY <1>1, <1>2, <1>3, <1>4, <3>2 DEF NamesAlternate
    <3> QED  BY <1>4, <3>1, <3>2
  <2> QED  BY <2>1, <2>2, <2>3 DEF NamesAlternate
<1>5. CASE m.name = "appeared"
  <2>0. new /\ ~up
    BY <1>5 DEF IsName
  <2>1. \/ f /\ \A l \in DOMAIN w : w[l].name # "appeared"
        \/ \E j \in DOMAIN w : w[j].name = "vanished" /\ \A l \in DOMAIN w : l > j => w[l].name # "appeared"
    BY <2>0 DEF NamesAlternate
  <2>2. \A l \in DOMAIN a : a[l].name = "appeared" => f \/ \E j \in DOMAIN a : j < l /\ a[j].name = "vanished"
    BY <1>1, <1>2, <1>3, <2>1 DEF NamesAlternate
  <2>3. \A k \in DOMAIN w : w[k].name = "appeared" => \E j \in DOMAIN a : k < j /\ j < n /\ a[j].name = "vanished"
    <3> SUFFICES ASSUME NEW k \in DOMAIN w, w[k].name = "appeared"
                 PROVE  \E j \in DOMAIN a : k < j /\ j < n /\ a[j].name = "vanished"
      OBVIOUS
    <3>1. PICK j \in DOMAIN w : w[j].name = "vanished" /\ ~(k > j)
      BY <2>1
    <3>2. k < j
      BY <1>2, <3>1
    <3> QED  BY <1>2, <3>1, <3>2
  <2>4. \A k, l \in DOMAIN a : k < l /\ a[k].name = "appeared" /\ a[l].name = "appeared" =>
          \E j \in DOMAIN a : k < j /\ j < l /\ a[j].name = "vanished"
    <3> SUFFICES ASSUME NEW k \in DOMAIN a, NEW l \in DOMAIN a, k < l, a[k].name = "appeared", a[l].name = "appeared"
                 PROVE  \E j \in DOMAIN a : k < j /\ j < l /\ a[j].name = "vanished"
      OBVIOUS
    <3>1. k \in DOMAIN w /\ w[k].name = "appeared"
      BY <1>1, <1>2, <1>3
    <3>2. CASE l = n
      BY <2>3, <3>1, <3>2
    <3>3. CASE l \in DOMAIN w
      <4>1. \E j \in DOMAIN w : k < j /\ j < l /\ w[j].name = "vanished"
        BY <1>2, <3>1, <3>3 DEF NamesAlternate
      <4> QED  BY <1>2, <4>1
    <3> QED  BY <1>3, <3>2, <3>3
  <2> QED  BY <2>0, <2>2, <2>4 DEF NamesAlternate
<1> QED  BY <1>4, <1>5

\* What the first message says, when nothing after it says otherwise.
LEMMA HeadTells ==
  ASSUME NEW w \in Seq(TrayMessage), w # <<>>
  PROVE  /\ NoName(w, 0) <=> ~IsName(Head(w)) /\ NoName(Tail(w), 0)
         /\ \A i : NoComing(w, 0, i) <=> ~IsName(Head(w)) /\ ~IsComing(i, Head(w)) /\ NoComing(Tail(w), 0, i)
         /\ \A i, p : Change(w, 0, i, p) <=> IsChange(i, p, Head(w)) \/ Change(Tail(w), 0, i, p)
         /\ \A up : NamesTell(w, up) /\ IsName(Head(w)) /\ NoName(Tail(w), 0) => (Head(w).name = "appeared" <=> up)
         /\ \A I, i : /\ ComingsTell(w, I) /\ i \in TrayItem /\ IsComing(i, Head(w)) /\ NoComing(Tail(w), 0, i)
                      => (Head(w).name = "registered" <=> i \in I)
         /\ \A I, i : /\ CopiesTell(w, I) /\ i \in TrayItem /\ IsCopy(Head(w)) /\ NoComing(Tail(w), 0, i)
                      => (i \in Head(w).items <=> i \in I)
         /\ \A t, s : /\ AnswersTell(w, t, s) /\ IsAnswer(Head(w))
                      => /\ Head(w).title = t[Head(w).item] \/ Change(Tail(w), 0, Head(w).item, "title")
                         /\ Head(w).status = s[Head(w).item] \/ Change(Tail(w), 0, Head(w).item, "status")
         /\ \A c, f : /\ OneHostAnswer(w, c, f) /\ OfHost(Head(w))
                      => /\ c = "answered" /\ (Head(w).name = "register" <=> f)
                         /\ \A k \in DOMAIN Tail(w) : ~OfHost(Tail(w)[k])
         /\ \A I : /\ Owned(w, I) /\ IsAnswer(Head(w))
                   => /\ Head(w).item \in DOMAIN I /\ I[Head(w).item].call = "answered"
                      /\ Head(w).name = "create" <=> ~I[Head(w).item].ready
                      /\ \A k \in DOMAIN Tail(w) : IsAnswer(Tail(w)[k]) => Tail(w)[k].item # Head(w).item
<1> DEFINE t == Tail(w)
           h == Head(w)
<1>1. 1 \in DOMAIN w /\ h = w[1]
  BY TailOfWire
<1>2. \A k \in DOMAIN t : k \in Nat /\ k > 0 /\ k + 1 \in DOMAIN w /\ t[k] = w[k + 1] /\ k + 1 # 1
  BY TailOfWire
<1>3. \A k \in DOMAIN w : k > 0 /\ (k = 1 \/ (k - 1 \in DOMAIN t /\ t[k - 1] = w[k]))
  BY TailOfWire
<1>4. /\ NoName(t, 0) => NoName(w, 1)
      /\ \A i : NoComing(t, 0, i) => NoComing(w, 1, i)
      /\ \A i, p : Change(w, 1, i, p) => Change(t, 0, i, p)
  BY TailLater, 0 + 1 = 1
<1> HIDE DEF t, h
<1>5. NoName(w, 0) <=> ~IsName(h) /\ NoName(t, 0)
  BY <1>1, <1>2, <1>3 DEF NoName
<1>6. \A i : NoComing(w, 0, i) <=> ~IsName(h) /\ ~IsComing(i, h) /\ NoComing(t, 0, i)
  BY <1>1, <1>2, <1>3 DEF NoComing
<1>7. \A i, p : Change(w, 0, i, p) <=> IsChange(i, p, h) \/ Change(t, 0, i, p)
  BY <1>1, <1>2, <1>3 DEF Change
<1>8. \A up : NamesTell(w, up) /\ IsName(h) /\ NoName(t, 0) => (h.name = "appeared" <=> up)
  BY <1>1, <1>4 DEF NamesTell
<1>9. \A I, i : ComingsTell(w, I) /\ i \in TrayItem /\ IsComing(i, h) /\ NoComing(t, 0, i)
                => (h.name = "registered" <=> i \in I)
  BY <1>1, <1>4 DEF ComingsTell
<1>10. \A I, i : CopiesTell(w, I) /\ i \in TrayItem /\ IsCopy(h) /\ NoComing(t, 0, i) => (i \in h.items <=> i \in I)
  BY <1>1, <1>4 DEF CopiesTell
<1>11. \A u, s : AnswersTell(w, u, s) /\ IsAnswer(h)
                 => /\ h.title = u[h.item] \/ Change(t, 0, h.item, "title")
                    /\ h.status = s[h.item] \/ Change(t, 0, h.item, "status")
  BY <1>1, <1>4 DEF AnswersTell
<1>12. \A c, f : OneHostAnswer(w, c, f) /\ OfHost(h)
                 => /\ c = "answered" /\ (h.name = "register" <=> f)
                    /\ \A k \in DOMAIN t : ~OfHost(t[k])
  BY <1>1, <1>2 DEF OneHostAnswer
<1>13. \A I : Owned(w, I) /\ IsAnswer(h)
              => /\ h.item \in DOMAIN I /\ I[h.item].call = "answered"
                 /\ h.name = "create" <=> ~I[h.item].ready
                 /\ \A k \in DOMAIN t : IsAnswer(t[k]) => t[k].item # h.item
  BY <1>1, <1>2 DEF Owned
<1> QED  BY <1>5, <1>6, <1>7, <1>8, <1>9, <1>10, <1>11, <1>12, <1>13 DEF t, h

ItemOK(h) ==
  /\ ~h.ready => h.pending = {} /\ h.call \in {"create", "answered"}
  /\ h.ready => h.call # "create" /\ (h.call # "none" => h.pending # {})
  /\ h.call = "getAll" => h.ready
  /\ h.timer => h.call = "none" /\ h.pending # {}
  /\ h.pending # {} => h.timer \/ h.call # "none"

TrayTypes ==
  /\ appTitle \in [TrayItem -> Titles] /\ appStatus \in [TrayItem -> Statuses] /\ appUp \in [TrayItem -> BOOLEAN]
  /\ watcherItems \subseteq TrayItem /\ hostCache \subseteq TrayItem /\ trayUnseen \subseteq TrayItem
  /\ {watcherUp, watcherStale, hostWatcher, listening, retryTimer, trayShown, trayDp} \subseteq BOOLEAN
  /\ hostCall \in {"none", "proxy", "register", "answered", "failed"}
  /\ trayWire \in Seq(TrayMessage)

WireTells ==
  /\ NamesTell(trayWire, watcherUp) /\ ComingsTell(trayWire, watcherItems)
  /\ CopiesTell(trayWire, watcherItems) /\ AnswersTell(trayWire, appTitle, appStatus)

\* Since the host last heard that the watcher left it has done nothing.
HostFresh == hostCall = "none" /\ ~hostWatcher /\ ~retryTimer

\* The host has asked for what it does not have, and one answer is on its way.
HostAsks ==
  /\ listening => hostWatcher /\ hostCall = "none"
  /\ hostWatcher /\ ~listening => hostCall \in {"register", "answered", "failed"}
  /\ hostCall = "proxy" => ~hostWatcher
  /\ hostCall = "register" => hostWatcher
  /\ OneHostAnswer(trayWire, hostCall, hostWatcher)
  /\ NamesAlternate(trayWire, watcherUp, HostFresh)
  /\ NoName(trayWire, 0) /\ watcherUp => hostCall # "none" \/ retryTimer \/ listening

\* The copy of the list while it is still to be used, the items from then on.
ListKnown ==
  /\ ~listening => DOMAIN hostItems = {}
  /\ \A i \in TrayItem \ trayUnseen : NoComing(trayWire, 0, i) =>
       /\ hostWatcher /\ ~listening => (i \in hostCache <=> i \in watcherItems)
       /\ listening => (i \in DOMAIN hostItems <=> i \in watcherItems)

ItemStates ==
  /\ DOMAIN hostItems \subseteq TrayItem /\ hostItems \in [DOMAIN hostItems -> ItemRecord]
  /\ trayItems = {i \in DOMAIN hostItems : hostItems[i].ready}
  /\ \A i \in DOMAIN hostItems : ItemOK(hostItems[i])
  /\ Owned(trayWire, hostItems)

PropertyKnown(i, p, mine, real) ==
  mine = real \/ p \in hostItems[i].pending \/ Change(trayWire, 0, i, p)

PropertiesKnown ==
  \A i \in trayItems \ trayUnseen :
    /\ PropertyKnown(i, "title", hostItems[i].title, appTitle[i])
    /\ PropertyKnown(i, "status", hostItems[i].status, appStatus[i])

TrayDrawn == trayDp \/ (trayShown <=> \E i \in trayItems : hostItems[i].status # "passive")

TrayInv ==
  TrayTypes /\ WireTells /\ HostAsks /\ ListKnown /\ ItemStates /\ PropertiesKnown /\ TrayDrawn

\* At rest nothing is on its way.
LEMMA TrayInvImplies == TrayInv => TrayAgrees
<1> SUFFICES ASSUME TrayInv PROVE TrayAgrees
  OBVIOUS
<1>1. PointersLive
  BY DEF TrayInv, ItemStates, PointersLive
<1>2. ASSUME TrayQuiet, watcherUp, hostCall # "failed"
      PROVE  /\ listening
             /\ trayItems \ trayUnseen \subseteq watcherItems
             /\ (watcherItems \cap ValidItem) \ trayUnseen \subseteq trayItems
             /\ \A i \in trayItems \ trayUnseen : hostItems[i].title = appTitle[i] /\ hostItems[i].status = appStatus[i]
             /\ trayShown <=> \E i \in trayItems : hostItems[i].status # "passive"
  <2>1. DOMAIN trayWire = {}
    BY <1>2 DEF TrayQuiet
  <2>2. /\ NoName(trayWire, 0) /\ \A i : NoComing(trayWire, 0, i)
        /\ \A i, p : ~Change(trayWire, 0, i, p)
    BY <2>1 DEF NoName, NoComing, Change
  <2>3. listening
    BY <1>2, <2>2 DEF TrayInv, HostAsks, TrayQuiet
  <2>4. \A i \in DOMAIN hostItems : hostItems[i].ready /\ hostItems[i].pending = {}
    BY <1>2 DEF TrayInv, ItemStates, ItemOK, TrayQuiet
  <2>5. trayItems = DOMAIN hostItems
    BY <2>4 DEF TrayInv, ItemStates
  <2>6. \A i \in TrayItem \ trayUnseen : i \in DOMAIN hostItems <=> i \in watcherItems
    BY <2>2, <2>3 DEF TrayInv, ListKnown
  <2>7. watcherItems \subseteq TrayItem /\ DOMAIN hostItems \subseteq TrayItem
    BY DEF TrayInv, TrayTypes, ItemStates
  <2>8. \A i \in trayItems \ trayUnseen : hostItems[i].title = appTitle[i] /\ hostItems[i].status = appStatus[i]
    BY <2>2, <2>4, <2>5 DEF TrayInv, PropertiesKnown, PropertyKnown
  <2>9. trayShown <=> \E i \in trayItems : hostItems[i].status # "passive"
    BY <1>2 DEF TrayInv, TrayDrawn, TrayQuiet
  <2> QED  BY <2>3, <2>5, <2>6, <2>7, <2>8, <2>9
<1> QED  BY <1>1, <1>2 DEF TrayAgrees, RegisteredShown

LEMMA TrayStarts == TrayInit => TrayInv
<1> SUFFICES ASSUME TrayInit PROVE TrayInv
  OBVIOUS
<1>1. PICK m \in TrayMessage : trayWire = <<m>> /\ IsName(m) /\ (m.name = "appeared" <=> watcherUp)
  BY Messages DEF TrayInit, IsName
<1>2. trayWire \in Seq(TrayMessage) /\ DOMAIN trayWire = {1} /\ trayWire[1] = m
  BY <1>1
<1>3. ~IsCopy(m) /\ ~IsAnswer(m) /\ ~OfHost(m) /\ \A i : ~IsComing(i, m)
  BY <1>1 DEF IsName, IsCopy, IsAnswer, OfHost, IsComing
<1>4. WireTells
  BY <1>1, <1>2, <1>3 DEF WireTells, NamesTell, ComingsTell, CopiesTell, AnswersTell
<1>5. ~NoName(trayWire, 0)
  BY <1>1, <1>2 DEF NoName
<1>6. OneHostAnswer(trayWire, hostCall, hostWatcher) /\ Owned(trayWire, hostItems)
  BY <1>2, <1>3 DEF OneHostAnswer, Owned
<1>7. HostAsks /\ ListKnown
  <2>1. NamesAlternate(trayWire, watcherUp, HostFresh)
    BY <1>1, <1>2 DEF NamesAlternate, HostFresh, TrayInit, IsName
  <2> QED  BY <1>5, <1>6, <2>1 DEF HostAsks, ListKnown, TrayInit
<1>8. ItemStates
  BY <1>6 DEF ItemStates, TrayInit
<1>9. PropertiesKnown /\ TrayDrawn
  BY DEF PropertiesKnown, TrayDrawn, TrayInit
<1>10. TrayTypes
  BY <1>2 DEF TrayTypes, TrayInit
<1> QED  BY <1>4, <1>7, <1>8, <1>9, <1>10 DEF TrayInv

\* What happens on the bus changes nothing the host has; what it changes is said.
LEMMA BusSays ==
  ASSUME TrayInv, UNCHANGED <<hostVars, hostItems, trayItems, trayView, trayUnseen>>, TrayTypes',
         NEW m \in TrayMessage, trayWire' = Append(trayWire, m), ~OfHost(m), ~IsAnswer(m),
         IF IsName(m) THEN m.name = "appeared" <=> watcherUp' ELSE watcherUp' = watcherUp,
         m.name = "appeared" => ~watcherUp,
         \A i \in TrayItem : IsComing(i, m) => (m.name = "registered" <=> i \in watcherItems'),
         IsName(m) \/ \A i \in TrayItem : IsComing(i, m) \/ (i \in watcherItems' <=> i \in watcherItems),
         IsCopy(m) => m.items = watcherItems',
         \A i \in TrayItem : appTitle'[i] = appTitle[i] \/ IsChange(i, "title", m),
         \A i \in TrayItem : appStatus'[i] = appStatus[i] \/ IsChange(i, "status", m)
  PROVE  TrayInv'
<1> DEFINE w == trayWire
           a == Append(trayWire, m)
<1>1. w \in Seq(TrayMessage) /\ 0 \in 0..Len(w)
  BY DEF TrayInv, TrayTypes
<1>2. /\ NoName(a, 0) <=> NoName(w, 0) /\ ~IsName(m)
      /\ \A i : NoComing(a, 0, i) <=> NoComing(w, 0, i) /\ ~IsName(m) /\ ~IsComing(i, m)
      /\ \A i, p : Change(a, 0, i, p) <=> Change(w, 0, i, p) \/ IsChange(i, p, m)
  BY <1>1, AppendLater
<1>3. WireTells'
  <2>1. NamesTell(w, watcherUp) /\ ComingsTell(w, watcherItems) /\ CopiesTell(w, watcherItems)
        /\ AnswersTell(w, appTitle, appStatus)
    BY DEF TrayInv, WireTells
  <2>2. NamesTell(a, watcherUp')
    BY <1>1, <2>1, AppendTells
  <2>3. ComingsTell(a, watcherItems')
    BY <1>1, <2>1, AppendTells
  <2>4. CopiesTell(a, watcherItems')
    BY <1>1, <2>1, AppendTells
  <2>5. AnswersTell(a, appTitle', appStatus')
    <3> HIDE DEF a
    <3>1. \A u, v : /\ \A i \in TrayItem : u[i] = appTitle[i] \/ IsChange(i, "title", m)
                    /\ \A i \in TrayItem : v[i] = appStatus[i] \/ IsChange(i, "status", m)
                    => AnswersTell(a, u, v)
      BY <1>1, <2>1, AppendTells DEF a
    <3> QED  BY <3>1
  <2> QED  BY <2>2, <2>3, <2>4, <2>5 DEF WireTells
<1>4. HostAsks'
  <2>1. OneHostAnswer(a, hostCall, hostWatcher)
    BY <1>1, AppendOwned DEF TrayInv, HostAsks
  <2>2. NamesAlternate(a, watcherUp', HostFresh)
    <3>1. \/ ~IsName(m) /\ (watcherUp' <=> watcherUp)
          \/ m.name = "appeared" /\ ~watcherUp /\ watcherUp'
          \/ m.name = "vanished"
      BY DEF IsName
    <3> QED  BY <1>1, <3>1, AlternateAppended DEF TrayInv, HostAsks
  <2>3. HostFresh' <=> HostFresh
    BY DEF HostFresh, hostVars
  <2> QED  BY <1>2, <2>1, <2>2, <2>3 DEF TrayInv, HostAsks, hostVars
<1>5. ListKnown'
  <2>1. \A i \in TrayItem : NoComing(a, 0, i) => NoComing(w, 0, i) /\ (i \in watcherItems' <=> i \in watcherItems)
    BY <1>2
  <2> QED  BY <2>1 DEF TrayInv, ListKnown, hostVars
<1>6. ItemStates'
  <2>1. Owned(a, hostItems)
    BY <1>1, AppendOwned DEF TrayInv, ItemStates
  <2> QED  BY <2>1 DEF TrayInv, ItemStates
<1>7. PropertiesKnown'
  <2>1. trayItems \subseteq TrayItem
    BY DEF TrayInv, ItemStates
  <2>2. ASSUME NEW i \in trayItems \ trayUnseen
        PROVE  /\ PropertyKnown(i, "title", hostItems[i].title, appTitle[i])'
               /\ PropertyKnown(i, "status", hostItems[i].status, appStatus[i])'
    BY <1>2, <2>1, <2>2 DEF TrayInv, PropertiesKnown, PropertyKnown
  <2> QED  BY <2>2 DEF PropertiesKnown
<1>8. TrayDrawn'
  BY DEF TrayInv, TrayDrawn, trayView
<1> QED  BY <1>3, <1>4, <1>5, <1>6, <1>7, <1>8 DEF TrayInv

LEMMA AppStartsKeeps == \A i \in TrayItem : TrayInv /\ AppStarts(i) => TrayInv'
<1> SUFFICES ASSUME NEW i \in TrayItem, TrayInv, AppStarts(i) PROVE TrayInv'
  OBVIOUS
<1>1. UNCHANGED <<appTitle, appStatus, watcherUp, watcherItems, watcherStale, trayWire,
                  hostVars, hostItems, trayItems, trayView, trayUnseen>>
      /\ appUp' \in [TrayItem -> BOOLEAN]
  BY DEF AppStarts, TrayInv, TrayTypes
<1> QED  BY <1>1 DEF TrayInv, TrayTypes, WireTells, HostAsks, HostFresh, ListKnown, ItemStates, PropertiesKnown, PropertyKnown,
                     TrayDrawn, hostVars, trayView

LEMMA AppChangesKeeps ==
  ASSUME TrayInv, NEW i \in TrayItem, NEW p \in ItemProperty,
         NEW v \in IF p = "title" THEN Titles ELSE Statuses, AppChanges(i, p, v)
  PROVE  TrayInv'
<1> DEFINE m == [name |-> "changed", item |-> i, property |-> p]
<1>1. m \in TrayMessage /\ m.name = "changed" /\ IsChange(i, p, m)
  BY Messages DEF IsChange
<1>2. trayWire' = Append(trayWire, m) /\ p \in {"title", "status"}
      /\ UNCHANGED <<appUp, watcherUp, watcherItems, watcherStale, hostVars, hostItems, trayItems, trayView, trayUnseen>>
  BY DEF AppChanges, ToWaybar, ItemProperty
<1> HIDE DEF m
<1>3. ~OfHost(m) /\ ~IsAnswer(m) /\ ~IsName(m) /\ ~IsCopy(m) /\ \A j \in TrayItem : ~IsComing(j, m)
  BY <1>1 DEF OfHost, IsAnswer, IsName, IsCopy, IsComing
<1>4. /\ \A j \in TrayItem : appTitle'[j] = appTitle[j] \/ IsChange(j, "title", m)
      /\ \A j \in TrayItem : appStatus'[j] = appStatus[j] \/ IsChange(j, "status", m)
      /\ appTitle' \in [TrayItem -> Titles] /\ appStatus' \in [TrayItem -> Statuses]
  BY <1>1, <1>2 DEF AppChanges, TrayInv, TrayTypes
<1>5. TrayTypes'
  BY <1>1, <1>2, <1>4, AppendToWire DEF TrayInv, TrayTypes, hostVars, trayView
<1> QED  BY <1>1, <1>2, <1>3, <1>4, <1>5, BusSays

LEMMA RegisterItemKeeps == \A i \in TrayItem : TrayInv /\ HandleRegisterItem(i) => TrayInv'
<1> SUFFICES ASSUME NEW i \in TrayItem, TrayInv, HandleRegisterItem(i) PROVE TrayInv'
  OBVIOUS
<1> DEFINE m == [name |-> "registered", item |-> i]
<1>1. m \in TrayMessage /\ m.name = "registered" /\ m.item = i
  BY Messages
<1>2. trayWire' = Append(trayWire, m) /\ watcherItems' = watcherItems \cup {i} /\ watcherStale'
      /\ UNCHANGED <<appTitle, appStatus, appUp, watcherUp, hostVars, hostItems, trayItems, trayView, trayUnseen>>
  BY DEF HandleRegisterItem, ToWaybar
<1> HIDE DEF m
<1>3. ~OfHost(m) /\ ~IsAnswer(m) /\ ~IsName(m) /\ ~IsCopy(m) /\ \A j : IsComing(j, m) <=> j = i
  BY <1>1 DEF OfHost, IsAnswer, IsName, IsCopy, IsComing
<1>4. TrayTypes'
  <2>1. watcherStale' = TRUE
    BY DEF HandleRegisterItem
  <2> QED  BY <1>1, <1>2, <2>1, AppendToWire DEF TrayInv, TrayTypes, hostVars, trayView
<1>5. /\ \A j \in TrayItem : IsComing(j, m) => (m.name = "registered" <=> j \in watcherItems')
      /\ \A j \in TrayItem : IsComing(j, m) \/ (j \in watcherItems' <=> j \in watcherItems)
  BY <1>1, <1>2, <1>3
<1> QED  BY <1>1, <1>2, <1>3, <1>4, <1>5, BusSays

LEMMA AppGoesKeeps == \A i \in TrayItem : TrayInv /\ AppGoes(i) => TrayInv'
<1> SUFFICES ASSUME NEW i \in TrayItem, TrayInv, AppGoes(i) PROVE TrayInv'
  OBVIOUS
<1>1. UNCHANGED <<appTitle, appStatus, watcherUp, hostVars, hostItems, trayItems, trayView, trayUnseen>>
      /\ watcherItems' = watcherItems \ {i} /\ watcherStale' = (watcherStale \/ i \in watcherItems)
      /\ appUp' \in [TrayItem -> BOOLEAN]
  BY DEF AppGoes, TrayInv, TrayTypes
<1>2. CASE i \in watcherItems
  <2> DEFINE m == [name |-> "unregistered", item |-> i]
  <2>1. m \in TrayMessage /\ m.name = "unregistered" /\ m.item = i
    BY Messages
  <2>2. trayWire' = Append(trayWire, m)
    BY <1>2 DEF AppGoes, ToWaybar
  <2> HIDE DEF m
  <2>3. ~OfHost(m) /\ ~IsAnswer(m) /\ ~IsName(m) /\ ~IsCopy(m) /\ \A j : IsComing(j, m) <=> j = i
    BY <2>1 DEF OfHost, IsAnswer, IsName, IsCopy, IsComing
  <2>4. TrayTypes'
    <3>1. watcherStale' = TRUE
      BY <1>1, <1>2
    <3> QED  BY <1>1, <2>1, <2>2, <3>1, AppendToWire DEF TrayInv, TrayTypes, hostVars, trayView
  <2>5. /\ \A j \in TrayItem : IsComing(j, m) => (m.name = "registered" <=> j \in watcherItems')
        /\ \A j \in TrayItem : IsComing(j, m) \/ (j \in watcherItems' <=> j \in watcherItems)
    BY <1>1, <2>1, <2>3
  <2> QED  BY <1>1, <2>1, <2>2, <2>3, <2>4, <2>5, BusSays
<1>3. CASE i \notin watcherItems
  <2>1. trayWire' = trayWire /\ watcherItems' = watcherItems /\ watcherStale' = watcherStale
    BY <1>1, <1>3 DEF AppGoes, TrayInv, TrayTypes
  <2> QED  BY <1>1, <2>1 DEF TrayInv, TrayTypes, WireTells, HostAsks, HostFresh, ListKnown, ItemStates, PropertiesKnown, PropertyKnown,
                             TrayDrawn, hostVars, trayView
<1> QED  BY <1>2, <1>3

LEMMA ItemsEmittedKeeps == TrayInv /\ UpdateRegisteredItems => TrayInv'
<1> SUFFICES ASSUME TrayInv, UpdateRegisteredItems PROVE TrayInv'
  OBVIOUS
<1> DEFINE m == [name |-> "items", items |-> watcherItems]
<1>1. m \in TrayMessage /\ m.name = "items" /\ m.items = watcherItems
  BY Messages DEF TrayInv, TrayTypes
<1>2. trayWire' = Append(trayWire, m) /\ watcherStale' = FALSE
      /\ UNCHANGED <<appTitle, appStatus, appUp, watcherUp, watcherItems, hostVars, hostItems, trayItems, trayView, trayUnseen>>
  BY DEF UpdateRegisteredItems, ToWaybar
<1> HIDE DEF m
<1>3. ~OfHost(m) /\ ~IsAnswer(m) /\ ~IsName(m) /\ \A j : ~IsComing(j, m)
  BY <1>1 DEF OfHost, IsAnswer, IsName, IsComing
<1>4. TrayTypes'
  BY <1>1, <1>2, AppendToWire DEF TrayInv, TrayTypes, hostVars, trayView
<1> QED  BY <1>1, <1>2, <1>3, <1>4, BusSays

LEMMA WatcherMovesKeeps == TrayInv /\ WatcherComesOrGoes => TrayInv'
<1> SUFFICES ASSUME TrayInv, WatcherComesOrGoes PROVE TrayInv'
  OBVIOUS
<1>1. PICK m \in TrayMessage : trayWire' = Append(trayWire, m) /\ IsName(m) /\ (m.name = "appeared" <=> ~watcherUp)
  BY Messages DEF WatcherComesOrGoes, ToWaybar, IsName
<1>2. watcherUp' = ~watcherUp /\ watcherItems' = {} /\ watcherStale' = FALSE
      /\ UNCHANGED <<appTitle, appStatus, appUp, hostVars, hostItems, trayItems, trayView, trayUnseen>>
  BY DEF WatcherComesOrGoes
<1>3. ~OfHost(m) /\ ~IsAnswer(m) /\ ~IsCopy(m) /\ \A j : ~IsComing(j, m)
  BY <1>1 DEF OfHost, IsAnswer, IsName, IsCopy, IsComing
<1>4. TrayTypes'
  BY <1>1, <1>2, AppendToWire DEF TrayInv, TrayTypes, hostVars, trayView
<1> QED  BY <1>1, <1>2, <1>3, <1>4, BusSays

LEMMA WatcherAnswersKeeps == \A ok \in BOOLEAN : TrayInv /\ WatcherAnswers(ok) => TrayInv'
<1> SUFFICES ASSUME NEW ok \in BOOLEAN, TrayInv, WatcherAnswers(ok) PROVE TrayInv'
  OBVIOUS
<1> DEFINE w == trayWire
           m == [name |-> hostCall, ok |-> ok, items |-> watcherItems]
           a == Append(trayWire, m)
<1>1. m \in TrayMessage /\ m.name = hostCall /\ m.items = watcherItems /\ hostCall \in {"proxy", "register"}
  BY Messages DEF TrayInv, TrayTypes, WatcherAnswers
<1>2. trayWire' = Append(trayWire, m) /\ hostCall' = "answered"
      /\ UNCHANGED <<appTitle, appStatus, appUp, watcherUp, watcherItems, watcherStale,
                     hostWatcher, listening, hostCache, retries, retryTimer, hostItems, trayItems, trayView, trayUnseen>>
  BY DEF WatcherAnswers, ToWaybar
<1> HIDE DEF m
<1>3. OfHost(m) /\ ~IsAnswer(m) /\ ~IsName(m) /\ (\A j : ~IsComing(j, m)) /\ (\A j, p : ~IsChange(j, p, m))
  BY <1>1 DEF OfHost, IsAnswer, IsName, IsComing, IsChange
<1>4. w \in Seq(TrayMessage) /\ 0 \in 0..Len(w)
  BY DEF TrayInv, TrayTypes
<1>5. /\ NoName(a, 0) <=> NoName(w, 0)
      /\ \A i : NoComing(a, 0, i) <=> NoComing(w, 0, i)
      /\ \A i, p : Change(a, 0, i, p) <=> Change(w, 0, i, p)
  BY <1>1, <1>3, <1>4, AppendLater
<1>6. TrayTypes'
  BY <1>1, <1>2, AppendToWire DEF TrayInv, TrayTypes, trayView
<1>7. NamesTell(a, watcherUp) /\ ComingsTell(a, watcherItems) /\ CopiesTell(a, watcherItems)
  BY <1>1, <1>3, <1>4, AppendTells DEF TrayInv, WireTells
<1>8. AnswersTell(a, appTitle, appStatus)
  BY <1>1, <1>3, <1>4, AppendTells DEF TrayInv, WireTells
<1>9. OneHostAnswer(a, "answered", hostWatcher)
  BY <1>1, <1>3, <1>4, AppendOwned DEF TrayInv, HostAsks
<1>10. Owned(a, hostItems)
  BY <1>1, <1>3, <1>4, AppendOwned DEF TrayInv, ItemStates
<1> HIDE DEF a, w
<1>11. trayWire' = a /\ trayWire = w
  BY <1>2 DEF a, w
<1>12. HostAsks'
  <2>1. NamesAlternate(a, watcherUp, HostFresh)
    BY <1>1, <1>3, <1>4, AlternateAppended DEF TrayInv, HostAsks, a, w
  <2>2. HostFresh' = FALSE /\ HostFresh = FALSE
    BY <1>1, <1>2 DEF HostFresh
  <2> QED  BY <1>1, <1>2, <1>5, <1>9, <1>11, <2>1, <2>2 DEF TrayInv, HostAsks
<1>13. ListKnown'
  BY <1>2, <1>5, <1>11 DEF TrayInv, ListKnown
<1>14. PropertiesKnown' /\ TrayDrawn'
  BY <1>2, <1>5, <1>11 DEF TrayInv, PropertiesKnown, PropertyKnown, TrayDrawn, trayView
<1> QED  BY <1>2, <1>6, <1>7, <1>8, <1>10, <1>11, <1>12, <1>13, <1>14 DEF TrayInv, WireTells, ItemStates

LEMMA OneItemChanged ==
  ASSUME NEW H, H \in [DOMAIN H -> ItemRecord], NEW i \in DOMAIN H, NEW r \in ItemRecord,
         NEW G, G = [H EXCEPT ![i] = r]
  PROVE  /\ DOMAIN G = DOMAIN H /\ G \in [DOMAIN G -> ItemRecord] /\ G[i] = r
         /\ \A j \in DOMAIN H : j = i \/ G[j] = H[j]
  OBVIOUS

LEMMA AppAnswersKeeps == \A i \in TrayItem : TrayInv /\ AppAnswers(i) => TrayInv'
<1> SUFFICES ASSUME NEW i \in TrayItem, TrayInv, AppAnswers(i) PROVE TrayInv'
  OBVIOUS
<1> DEFINE w == trayWire
           m == [name |-> hostItems[i].call, item |-> i, ok |-> appUp[i], title |-> appTitle[i], status |-> appStatus[i]]
           a == Append(trayWire, m)
<1>1. m \in TrayMessage /\ m.name = hostItems[i].call /\ m.item = i /\ m.title = appTitle[i] /\ m.status = appStatus[i]
      /\ hostItems[i].call \in {"create", "getAll"} /\ i \in DOMAIN hostItems
  BY Messages DEF TrayInv, TrayTypes, AppAnswers
<1>2. trayWire' = Append(trayWire, m) /\ hostItems' = [hostItems EXCEPT ![i].call = "answered"]
      /\ UNCHANGED <<trayBus, hostVars, trayItems, trayView, trayUnseen>>
  BY DEF AppAnswers, ToWaybar
<1> HIDE DEF m
<1>3. ~OfHost(m) /\ IsAnswer(m) /\ ~IsName(m) /\ ~IsCopy(m) /\ (\A j : ~IsComing(j, m)) /\ (\A j, p : ~IsChange(j, p, m))
  BY <1>1 DEF OfHost, IsAnswer, IsName, IsCopy, IsComing, IsChange
<1>4. w \in Seq(TrayMessage) /\ 0 \in 0..Len(w)
  BY DEF TrayInv, TrayTypes
<1>5. /\ NoName(a, 0) <=> NoName(w, 0)
      /\ \A j : NoComing(a, 0, j) <=> NoComing(w, 0, j)
      /\ \A j, p : Change(a, 0, j, p) <=> Change(w, 0, j, p)
  BY <1>1, <1>3, <1>4, AppendLater
<1>6. TrayTypes'
  BY <1>1, <1>2, AppendToWire DEF TrayInv, TrayTypes, trayView, trayBus, hostVars
<1>7. NamesTell(a, watcherUp) /\ ComingsTell(a, watcherItems) /\ CopiesTell(a, watcherItems)
  BY <1>1, <1>3, <1>4, AppendTells DEF TrayInv, WireTells
<1>8. AnswersTell(a, appTitle, appStatus)
  BY <1>1, <1>3, <1>4, AppendTells DEF TrayInv, WireTells
<1>9. OneHostAnswer(a, hostCall, hostWatcher)
  BY <1>1, <1>3, <1>4, AppendOwned DEF TrayInv, HostAsks
<1>10. /\ DOMAIN hostItems' = DOMAIN hostItems /\ hostItems' \in [DOMAIN hostItems' -> ItemRecord]
       /\ hostItems'[i] = [hostItems[i] EXCEPT !.call = "answered"]
       /\ \A j \in DOMAIN hostItems : j = i \/ hostItems'[j] = hostItems[j]
  <2>1. hostItems[i] \in ItemRecord /\ hostItems \in [DOMAIN hostItems -> ItemRecord]
    BY <1>1 DEF TrayInv, ItemStates
  <2>2. [hostItems[i] EXCEPT !.call = "answered"] \in ItemRecord
    BY <2>1 DEF ItemRecord
  <2>3. hostItems' = [hostItems EXCEPT ![i] = [hostItems[i] EXCEPT !.call = "answered"]]
    BY <1>2
  <2> QED  BY <1>1, <2>1, <2>2, <2>3, OneItemChanged
<1>11. hostItems[i] \in ItemRecord
  BY <1>1 DEF TrayInv, ItemStates
<1>12. /\ hostItems'[i].call = "answered" /\ hostItems'[i].ready = hostItems[i].ready
       /\ hostItems'[i].pending = hostItems[i].pending /\ hostItems'[i].timer = hostItems[i].timer
       /\ hostItems'[i].title = hostItems[i].title /\ hostItems'[i].status = hostItems[i].status
  BY <1>10, <1>11 DEF ItemRecord
<1>13. m.name = "create" <=> ~hostItems[i].ready
  BY <1>1 DEF TrayInv, ItemStates, ItemOK
<1> HIDE DEF a, w
<1>14. Owned(a, hostItems')
  <2>1. \A J : /\ i \in DOMAIN J /\ J[i].call = "answered" /\ (m.name = "create" <=> ~J[i].ready)
               /\ DOMAIN hostItems \subseteq DOMAIN J /\ \A j \in DOMAIN hostItems : j = i \/ J[j] = hostItems[j]
               => Owned(a, J)
    BY <1>1, <1>3, <1>4, AppendOwned DEF TrayInv, ItemStates, a, w
  <2>2. /\ i \in DOMAIN hostItems' /\ hostItems'[i].call = "answered" /\ (m.name = "create" <=> ~hostItems'[i].ready)
        /\ DOMAIN hostItems \subseteq DOMAIN hostItems' /\ \A j \in DOMAIN hostItems : j = i \/ hostItems'[j] = hostItems[j]
    BY <1>1, <1>10, <1>12, <1>13
  <2> QED  BY <2>1, <2>2
<1>15. trayWire' = a /\ trayWire = w
  BY <1>2 DEF a, w
<1>16. HostAsks' /\ ListKnown'
  <2>1. NamesAlternate(a, watcherUp, HostFresh)
    BY <1>1, <1>3, <1>4, AlternateAppended DEF TrayInv, HostAsks, a, w
  <2> QED  BY <1>2, <1>5, <1>9, <1>10, <1>15, <2>1 DEF TrayInv, HostAsks, HostFresh, ListKnown, trayBus, hostVars
<1>17. ItemStates'
  <2>1. trayItems' = {j \in DOMAIN hostItems' : hostItems'[j].ready}
    BY <1>2, <1>10, <1>12 DEF TrayInv, ItemStates
  <2>2. \A j \in DOMAIN hostItems' : ItemOK(hostItems'[j])
    <3>1. ItemOK(hostItems[i]) /\ \A j \in DOMAIN hostItems : ItemOK(hostItems[j])
      BY <1>1 DEF TrayInv, ItemStates
    <3>2. ItemOK(hostItems'[i])
      <4>1. hostItems[i].ready => hostItems[i].pending # {}
        BY <1>1, <3>1 DEF ItemOK
      <4>2. hostItems'[i].timer = FALSE /\ hostItems'[i].ready = hostItems[i].ready
        BY <1>1, <1>11, <1>12, <3>1 DEF ItemOK, ItemRecord
      <4> QED  BY <1>12, <3>1, <4>1, <4>2 DEF ItemOK
    <3> QED  BY <1>10, <3>1, <3>2
  <2> QED  BY <1>10, <1>14, <1>15, <2>1, <2>2 DEF TrayInv, ItemStates
<1>18. \A j \in trayItems : /\ j \in DOMAIN hostItems /\ hostItems'[j].pending = hostItems[j].pending
                            /\ hostItems'[j].title = hostItems[j].title /\ hostItems'[j].status = hostItems[j].status
  BY <1>10, <1>12 DEF TrayInv, ItemStates
<1>19. PropertiesKnown' /\ TrayDrawn'
  BY <1>2, <1>5, <1>15, <1>18 DEF TrayInv, PropertiesKnown, PropertyKnown, TrayDrawn, trayView, trayBus
<1> QED  BY <1>2, <1>6, <1>7, <1>8, <1>15, <1>16, <1>17, <1>19 DEF TrayInv, WireTells, trayBus

LEMMA AskKeeps == \A i \in TrayItem : TrayInv /\ GetUpdatedProperties(i) => TrayInv'
<1> SUFFICES ASSUME NEW i \in TrayItem, TrayInv, GetUpdatedProperties(i) PROVE TrayInv'
  OBVIOUS
<1>1. i \in DOMAIN hostItems /\ hostItems[i].timer /\ hostItems[i] \in ItemRecord
      /\ hostItems' = [hostItems EXCEPT ![i].timer = FALSE, ![i].call = "getAll"]
      /\ UNCHANGED <<trayBus, trayWire, hostVars, trayItems, trayView, trayUnseen>>
  BY DEF GetUpdatedProperties, TrayInv, ItemStates
<1>2. /\ DOMAIN hostItems' = DOMAIN hostItems /\ hostItems' \in [DOMAIN hostItems' -> ItemRecord]
      /\ hostItems'[i] = [hostItems[i] EXCEPT !.timer = FALSE, !.call = "getAll"]
      /\ \A j \in DOMAIN hostItems : j = i \/ hostItems'[j] = hostItems[j]
  BY <1>1 DEF TrayInv, ItemStates, ItemRecord
<1>3. /\ hostItems'[i].call = "getAll" /\ hostItems'[i].ready = hostItems[i].ready
      /\ hostItems'[i].pending = hostItems[i].pending /\ hostItems'[i].timer = FALSE
      /\ hostItems'[i].title = hostItems[i].title /\ hostItems'[i].status = hostItems[i].status
  BY <1>1, <1>2 DEF ItemRecord
<1>4. hostItems[i].ready /\ hostItems[i].pending # {} /\ hostItems[i].call = "none"
  BY <1>1 DEF TrayInv, ItemStates, ItemOK
<1>5. Owned(trayWire, hostItems')
  <2>1. \A k \in DOMAIN trayWire : IsAnswer(trayWire[k]) => trayWire[k].item # i
    BY <1>4 DEF TrayInv, ItemStates, Owned
  <2> QED  BY <1>2, <2>1 DEF TrayInv, ItemStates, Owned
<1>6. trayItems' = {j \in DOMAIN hostItems' : hostItems'[j].ready}
  BY <1>1, <1>2, <1>3 DEF TrayInv, ItemStates
<1>7. \A j \in DOMAIN hostItems' : ItemOK(hostItems'[j])
  BY <1>1, <1>2, <1>3, <1>4 DEF TrayInv, ItemStates, ItemOK
<1>8. ItemStates'
  BY <1>1, <1>2, <1>5, <1>6, <1>7 DEF TrayInv, ItemStates
<1>9. \A j \in trayItems : /\ j \in DOMAIN hostItems /\ hostItems'[j].pending = hostItems[j].pending
                           /\ hostItems'[j].title = hostItems[j].title /\ hostItems'[j].status = hostItems[j].status
  BY <1>2, <1>3 DEF TrayInv, ItemStates
<1>10. PropertiesKnown' /\ TrayDrawn'
  BY <1>1, <1>9 DEF TrayInv, PropertiesKnown, PropertyKnown, TrayDrawn, trayView, trayBus
<1> QED  BY <1>1, <1>2, <1>8, <1>10 DEF TrayInv, TrayTypes, WireTells, HostAsks, HostFresh, ListKnown, trayBus, hostVars, trayView

\* A message is taken from the wire, and answers behind it are cancelled.
LEMMA WireHeard ==
  ASSUME TrayInv, trayWire # <<>>, NEW c, Cancels(Tail(trayWire), c)
  PROVE  /\ c \in Seq(TrayMessage)
         /\ NamesTell(c, watcherUp) /\ ComingsTell(c, watcherItems)
         /\ CopiesTell(c, watcherItems) /\ AnswersTell(c, appTitle, appStatus)
         /\ OneHostAnswer(c, hostCall, hostWatcher) /\ Owned(c, hostItems)
         /\ NoName(c, 0) <=> NoName(Tail(trayWire), 0)
         /\ \A i : NoComing(c, 0, i) <=> NoComing(Tail(trayWire), 0, i)
         /\ \A i, p : Change(c, 0, i, p) <=> Change(Tail(trayWire), 0, i, p)
<1>1. trayWire \in Seq(TrayMessage) /\ Tail(trayWire) \in Seq(TrayMessage)
  BY DEF TrayInv, TrayTypes
<1>2. /\ NamesTell(Tail(trayWire), watcherUp) /\ ComingsTell(Tail(trayWire), watcherItems)
      /\ CopiesTell(Tail(trayWire), watcherItems) /\ AnswersTell(Tail(trayWire), appTitle, appStatus)
      /\ OneHostAnswer(Tail(trayWire), hostCall, hostWatcher) /\ Owned(Tail(trayWire), hostItems)
  BY <1>1, TailTells DEF TrayInv, WireTells, HostAsks, ItemStates
<1>3. c \in Seq(TrayMessage)
  BY DEF Cancels
<1> DEFINE t == Tail(trayWire)
<1> HIDE DEF t
<1>4. t \in Seq(TrayMessage) /\ Cancels(t, c)
  BY <1>1 DEF t
<1>5. /\ NamesTell(c, watcherUp) /\ ComingsTell(c, watcherItems)
      /\ CopiesTell(c, watcherItems) /\ AnswersTell(c, appTitle, appStatus)
      /\ OneHostAnswer(c, hostCall, hostWatcher) /\ Owned(c, hostItems)
  BY <1>2, <1>4, CancelTells DEF t
<1>6. /\ NoName(c, 0) <=> NoName(t, 0)
      /\ \A i : NoComing(c, 0, i) <=> NoComing(t, 0, i)
      /\ \A i, p : Change(c, 0, i, p) <=> Change(t, 0, i, p)
  BY <1>4, CancelLater
<1> QED  BY <1>3, <1>5, <1>6 DEF t

LEMMA NothingCancelled == \A w \in Seq(TrayMessage) : Cancels(w, w)
  BY DEF Cancels

\* A message that is none of an item's is taken, and the items stay.
LEMMA ItemsStay ==
  ASSUME TrayInv, trayWire # <<>>, trayWire' = Tail(trayWire), ~IsAnswer(Head(trayWire)),
         \A i, p : ~IsChange(i, p, Head(trayWire)),
         UNCHANGED <<trayBus, hostItems, trayItems, trayView>>,
         trayUnseen \subseteq trayUnseen' \/ trayItems = {}
  PROVE  /\ trayWire' \in Seq(TrayMessage) /\ WireTells' /\ ItemStates' /\ PropertiesKnown' /\ TrayDrawn'
         /\ OneHostAnswer(trayWire', hostCall, hostWatcher)
<1>1. trayWire \in Seq(TrayMessage) /\ Cancels(Tail(trayWire), trayWire')
  BY NothingCancelled, TailOfWire DEF TrayInv, TrayTypes
<1>2. /\ trayWire' \in Seq(TrayMessage)
      /\ NamesTell(trayWire', watcherUp) /\ ComingsTell(trayWire', watcherItems)
      /\ CopiesTell(trayWire', watcherItems) /\ AnswersTell(trayWire', appTitle, appStatus)
      /\ OneHostAnswer(trayWire', hostCall, hostWatcher) /\ Owned(trayWire', hostItems)
  BY <1>1, WireHeard
<1>3. \A i, p : Change(trayWire, 0, i, p) <=> Change(trayWire', 0, i, p)
  BY <1>1, HeadTells
<1>4. WireTells' /\ ItemStates'
  BY <1>2 DEF TrayInv, WireTells, ItemStates, trayBus
<1>5. PropertiesKnown' /\ TrayDrawn'
  BY <1>3 DEF TrayInv, PropertiesKnown, PropertyKnown, TrayDrawn, trayView, trayBus
<1> QED  BY <1>2, <1>4, <1>5

LEMMA AppearedKeeps == TrayInv /\ NameAppeared => TrayInv'
<1> SUFFICES ASSUME TrayInv, NameAppeared PROVE TrayInv'
  OBVIOUS
<1>1. trayWire # <<>> /\ Head(trayWire).name = "appeared" /\ trayWire' = Tail(trayWire)
      /\ hostCall' = (IF hostCall = "none" /\ ~hostWatcher THEN "proxy" ELSE hostCall)
      /\ UNCHANGED <<trayBus, hostWatcher, listening, hostCache, retries, retryTimer, hostItems, trayItems, trayView, trayUnseen>>
  BY DEF NameAppeared, Delivered, AskForProxy
<1>2. ~IsAnswer(Head(trayWire)) /\ IsName(Head(trayWire)) /\ \A i, p : ~IsChange(i, p, Head(trayWire))
  BY <1>1 DEF IsAnswer, IsName, IsChange
<1>3. /\ trayWire' \in Seq(TrayMessage) /\ WireTells' /\ ItemStates' /\ PropertiesKnown' /\ TrayDrawn'
      /\ OneHostAnswer(trayWire', hostCall, hostWatcher)
  BY <1>1, <1>2, ItemsStay
<1>4. trayWire \in Seq(TrayMessage) /\ 1 \in DOMAIN trayWire /\ Head(trayWire) = trayWire[1]
      /\ \A j \in DOMAIN trayWire : ~(j < 1)
  BY <1>1, TailOfWire DEF TrayInv, TrayTypes
<1>5. HostFresh
  BY <1>1, <1>4 DEF TrayInv, HostAsks, NamesAlternate
<1>6. hostCall' = "proxy" /\ ~hostWatcher /\ ~listening
  BY <1>1, <1>5 DEF HostFresh, TrayInv, HostAsks
<1>7. OneHostAnswer(trayWire', hostCall', hostWatcher)
  BY <1>3, <1>5 DEF OneHostAnswer, HostFresh
<1>8. NamesAlternate(trayWire', watcherUp, HostFresh')
  BY <1>1, <1>4, AlternateTailed DEF TrayInv, HostAsks
<1>9. HostAsks' /\ ListKnown'
  BY <1>1, <1>6, <1>7, <1>8 DEF TrayInv, HostAsks, ListKnown, trayBus
<1>10. TrayTypes'
  BY <1>1, <1>3, <1>6 DEF TrayInv, TrayTypes, trayBus, trayView
<1> QED  BY <1>3, <1>9, <1>10 DEF TrayInv

LEMMA RetryKeeps == TrayInv /\ RetryFires => TrayInv'
<1> SUFFICES ASSUME TrayInv, RetryFires PROVE TrayInv'
  OBVIOUS
<1>1. retryTimer /\ retryTimer' = FALSE
      /\ hostCall' = (IF hostCall = "none" /\ ~hostWatcher THEN "proxy" ELSE hostCall)
      /\ UNCHANGED <<trayBus, trayWire, hostWatcher, listening, hostCache, retries, hostItems, trayItems, trayView, trayUnseen>>
  BY DEF RetryFires, AskForProxy
<1>2. OneHostAnswer(trayWire, hostCall', hostWatcher)
  BY <1>1 DEF OneHostAnswer, TrayInv, HostAsks
<1>3. HostFresh' = FALSE /\ HostFresh = FALSE
  BY <1>1 DEF HostFresh
<1>4. HostAsks'
  BY <1>1, <1>2, <1>3 DEF TrayInv, HostAsks, trayBus
<1>5. TrayTypes'
  BY <1>1 DEF TrayInv, TrayTypes, trayBus, trayView
<1> QED  BY <1>1, <1>4, <1>5 DEF TrayInv, WireTells, ListKnown, ItemStates, PropertiesKnown, PropertyKnown, TrayDrawn, trayBus, trayView

LEMMA CancelledKeeps == TrayInv /\ CancelledReturns => TrayInv'
<1> SUFFICES ASSUME TrayInv, CancelledReturns PROVE TrayInv'
  OBVIOUS
<1>1. trayWire # <<>> /\ Head(trayWire).name = "cancelled" /\ trayWire' = Tail(trayWire)
      /\ UNCHANGED <<trayBus, hostVars, hostItems, trayItems, trayView, trayUnseen>>
  BY DEF CancelledReturns, Delivered
<1>2. ~IsAnswer(Head(trayWire)) /\ ~IsName(Head(trayWire)) /\ (\A i, p : ~IsChange(i, p, Head(trayWire)))
      /\ \A i : ~IsComing(i, Head(trayWire))
  BY <1>1 DEF IsAnswer, IsName, IsChange, IsComing
<1>3. /\ trayWire' \in Seq(TrayMessage) /\ WireTells' /\ ItemStates' /\ PropertiesKnown' /\ TrayDrawn'
      /\ OneHostAnswer(trayWire', hostCall, hostWatcher)
  BY <1>1, <1>2, ItemsStay
<1>4. trayWire \in Seq(TrayMessage)
  BY DEF TrayInv, TrayTypes
<1>5. (NoName(trayWire, 0) <=> NoName(trayWire', 0)) /\ \A i : NoComing(trayWire, 0, i) <=> NoComing(trayWire', 0, i)
  BY <1>1, <1>2, <1>4, HeadTells
<1>6. HostFresh' <=> HostFresh
  BY <1>1 DEF HostFresh, hostVars
<1>7. NamesAlternate(trayWire', watcherUp, HostFresh')
  BY <1>1, <1>4, <1>6, AlternateTailed DEF TrayInv, HostAsks
<1>8. HostAsks' /\ ListKnown'
  BY <1>1, <1>3, <1>5, <1>7 DEF TrayInv, HostAsks, ListKnown, trayBus, hostVars
<1>9. TrayTypes'
  BY <1>1, <1>3 DEF TrayInv, TrayTypes, trayBus, trayView, hostVars
<1> QED  BY <1>3, <1>8, <1>9 DEF TrayInv

LEMMA ItemsChangedKeeps == TrayInv /\ ItemsChanged => TrayInv'
<1> SUFFICES ASSUME TrayInv, ItemsChanged PROVE TrayInv'
  OBVIOUS
<1>1. trayWire # <<>> /\ Head(trayWire).name = "items" /\ trayWire' = Tail(trayWire)
      /\ hostCache' = (IF hostWatcher THEN Head(trayWire).items ELSE hostCache)
      /\ trayUnseen' = (IF listening THEN trayUnseen ELSE {})
      /\ UNCHANGED <<trayBus, hostCall, hostWatcher, listening, retries, retryTimer, hostItems, trayItems, trayView>>
  BY DEF ItemsChanged, Delivered
<1>2. ~IsAnswer(Head(trayWire)) /\ ~IsName(Head(trayWire)) /\ (\A i, p : ~IsChange(i, p, Head(trayWire)))
      /\ (\A i : ~IsComing(i, Head(trayWire))) /\ IsCopy(Head(trayWire))
  BY <1>1 DEF IsAnswer, IsName, IsChange, IsComing, IsCopy
<1>3. /\ trayWire' \in Seq(TrayMessage) /\ WireTells' /\ ItemStates' /\ PropertiesKnown' /\ TrayDrawn'
      /\ OneHostAnswer(trayWire', hostCall, hostWatcher)
  <2>1. ~listening => trayItems = {}
    BY DEF TrayInv, ListKnown, ItemStates
  <2>2. trayUnseen \subseteq trayUnseen' \/ trayItems = {}
    BY <1>1, <2>1
  <2> QED  BY <1>1, <1>2, <2>2, ItemsStay
<1>4. trayWire \in Seq(TrayMessage) /\ Head(trayWire) \in TrayMessage
  BY <1>1, TailOfWire DEF TrayInv, TrayTypes
<1>5. (NoName(trayWire, 0) <=> NoName(trayWire', 0)) /\ \A i : NoComing(trayWire, 0, i) <=> NoComing(trayWire', 0, i)
  BY <1>1, <1>2, <1>4, HeadTells
<1>6. HostFresh' <=> HostFresh
  BY <1>1 DEF HostFresh
<1>7. NamesAlternate(trayWire', watcherUp, HostFresh')
  BY <1>1, <1>4, <1>6, AlternateTailed DEF TrayInv, HostAsks
<1>8. HostAsks'
  BY <1>1, <1>3, <1>5, <1>7 DEF TrayInv, HostAsks, trayBus
<1>9. \A i \in TrayItem : NoComing(trayWire', 0, i) => (i \in Head(trayWire).items <=> i \in watcherItems)
  BY <1>1, <1>2, <1>4, HeadTells DEF TrayInv, WireTells
<1>10. ListKnown'
  <2>1. CASE listening
    BY <1>1, <1>5, <2>1 DEF TrayInv, ListKnown, trayBus
  <2>2. CASE ~listening
    BY <1>1, <1>9, <2>2 DEF TrayInv, ListKnown, trayBus
  <2> QED  BY <2>1, <2>2
<1>11. Head(trayWire).items \subseteq TrayItem
  BY <1>1, <1>4, MessageFields
<1>12. TrayTypes'
  BY <1>1, <1>3, <1>11 DEF TrayInv, TrayTypes, trayBus, trayView
<1> QED  BY <1>3, <1>8, <1>10, <1>12 DEF TrayInv

LEMMA ProxyReadyKeeps == TrayInv /\ HostProxyReady => TrayInv'
<1> SUFFICES ASSUME TrayInv, HostProxyReady PROVE TrayInv'
  OBVIOUS
<1>1. trayWire # <<>> /\ Head(trayWire).name = "proxy" /\ trayWire' = Tail(trayWire)
      /\ UNCHANGED <<trayBus, listening, hostItems, trayItems, trayView>>
  BY DEF HostProxyReady, Delivered
<1>2. ~IsAnswer(Head(trayWire)) /\ ~IsName(Head(trayWire)) /\ (\A i, p : ~IsChange(i, p, Head(trayWire)))
      /\ (\A i : ~IsComing(i, Head(trayWire))) /\ IsCopy(Head(trayWire)) /\ OfHost(Head(trayWire))
  BY <1>1 DEF IsAnswer, IsName, IsChange, IsComing, IsCopy, OfHost
<1>3. trayWire \in Seq(TrayMessage) /\ Head(trayWire) \in TrayMessage
  BY <1>1, TailOfWire DEF TrayInv, TrayTypes
<1>4. hostCall = "answered" /\ ~hostWatcher /\ \A k \in DOMAIN trayWire' : ~OfHost(trayWire'[k])
  BY <1>1, <1>2, <1>3, HeadTells DEF TrayInv, HostAsks
<1>5. ~listening /\ trayItems = {} /\ DOMAIN hostItems = {}
  BY <1>4 DEF TrayInv, HostAsks, ListKnown, ItemStates
<1>6. trayWire' \in Seq(TrayMessage) /\ WireTells' /\ ItemStates' /\ PropertiesKnown' /\ TrayDrawn'
  BY <1>1, <1>2, <1>5, ItemsStay
<1>7. \A c, f : OneHostAnswer(trayWire', c, f)
  BY <1>4 DEF OneHostAnswer
<1>8. NamesAlternate(trayWire', watcherUp, HostFresh')
  <2>1. ~HostFresh
    BY <1>4 DEF HostFresh
  <2> QED  BY <1>1, <1>3, <2>1, AlternateTailed DEF TrayInv, HostAsks
<1>9. \A i \in TrayItem : NoComing(trayWire', 0, i) => (i \in Head(trayWire).items <=> i \in watcherItems)
  BY <1>1, <1>2, <1>3, HeadTells DEF TrayInv, WireTells
<1>10. Head(trayWire).items \subseteq TrayItem
  BY <1>1, <1>3, MessageFields
<1>11. CASE Head(trayWire).ok
  <2>1. hostWatcher' = TRUE /\ hostCall' = "register" /\ hostCache' = Head(trayWire).items /\ trayUnseen' = {}
        /\ UNCHANGED retryTimer
    BY <1>11 DEF HostProxyReady
  <2>2. HostAsks' /\ ListKnown'
    BY <1>1, <1>5, <1>7, <1>8, <1>9, <2>1 DEF HostAsks, ListKnown, trayBus
  <2>3. TrayTypes'
    BY <1>1, <1>6, <1>10, <2>1 DEF TrayInv, TrayTypes, trayBus, trayView
  <2> QED  BY <1>6, <2>2, <2>3 DEF TrayInv
<1>12. CASE ~Head(trayWire).ok
  <2>1. /\ hostCall' = (IF retries < MaxRetries THEN "none" ELSE "failed")
        /\ retryTimer' = (retryTimer \/ retries < MaxRetries)
        /\ UNCHANGED <<hostWatcher, hostCache, trayUnseen>>
    BY <1>12 DEF HostProxyReady
  <2>2. hostCall' = "failed" \/ (hostCall' = "none" /\ retryTimer' = TRUE)
    BY <2>1
  <2>3. retryTimer' \in BOOLEAN
    BY <2>1
  <2>4. HostAsks' /\ ListKnown'
    BY <1>1, <1>4, <1>5, <1>7, <1>8, <2>1, <2>2 DEF HostAsks, ListKnown, trayBus
  <2>5. TrayTypes'
    BY <1>1, <1>6, <2>1, <2>2, <2>3 DEF TrayInv, TrayTypes, trayBus, trayView
  <2> QED  BY <1>6, <2>4, <2>5 DEF TrayInv
<1> QED  BY <1>11, <1>12

LEMMA VanishedKeeps == TrayInv /\ NameVanished => TrayInv'
<1> SUFFICES ASSUME TrayInv, NameVanished PROVE TrayInv'
  OBVIOUS
<1>1. trayWire # <<>> /\ Head(trayWire).name = "vanished"
      /\ hostCall' = "none" /\ hostWatcher' = FALSE /\ listening' = FALSE /\ hostCache' = {}
      /\ retryTimer' = FALSE /\ hostItems' = <<>> /\ trayItems' = {} /\ trayUnseen' = {}
      /\ trayDp' = (trayDp \/ DOMAIN hostItems # {})
      /\ UNCHANGED <<trayBus, trayShown>>
  BY DEF NameVanished, Delivered
<1>2. trayWire \in Seq(TrayMessage) /\ Tail(trayWire) \in Seq(TrayMessage)
  BY <1>1, TailOfWire DEF TrayInv, TrayTypes
<1>3. PICK c : c = trayWire'
  OBVIOUS
<1>4. Cancels(Tail(trayWire), c) /\ \A k \in DOMAIN c : ~IsAnswer(c[k]) /\ ~OfHost(c[k])
  <2>1. PICK t \in Seq(TrayMessage) : t = Tail(trayWire)
    BY <1>2
  <2>2. c = [k \in DOMAIN t |-> IF OfHost(t[k]) \/ OfItems(TrayItem, t[k]) THEN [name |-> "cancelled"] ELSE t[k]]
    BY <1>3, <2>1 DEF NameVanished, Cancel
  <2> QED  BY <2>1, <2>2, CancelOfAll
<1>5. /\ c \in Seq(TrayMessage)
      /\ NamesTell(c, watcherUp) /\ ComingsTell(c, watcherItems)
      /\ CopiesTell(c, watcherItems) /\ AnswersTell(c, appTitle, appStatus)
      /\ NoName(c, 0) <=> NoName(Tail(trayWire), 0)
  BY <1>1, <1>4, WireHeard
<1>7. \A a, f, I : OneHostAnswer(c, a, f) /\ Owned(c, I)
  BY <1>4 DEF OneHostAnswer, Owned
<1>8. HostFresh' = TRUE
  BY <1>1 DEF HostFresh
<1>9. NamesAlternate(c, watcherUp, HostFresh')
  <2>1. NamesAlternate(Tail(trayWire), watcherUp, HostFresh')
    BY <1>1, <1>2, <1>8, AlternateTailed DEF TrayInv, HostAsks
  <2> QED  BY <1>2, <1>4, <2>1, AlternateCancelled
<1>10. NoName(c, 0) => ~watcherUp
  <2>1. IsName(Head(trayWire)) /\ NamesTell(trayWire, watcherUp)
    BY <1>1 DEF IsName, TrayInv, WireTells
  <2> QED  BY <1>1, <1>2, <1>5, <2>1, HeadTells
<1>11. HostAsks' /\ ListKnown'
  BY <1>1, <1>3, <1>7, <1>9, <1>10 DEF HostAsks, ListKnown, trayBus
<1>12. ItemStates' /\ PropertiesKnown'
  BY <1>1, <1>3, <1>7 DEF ItemStates, PropertiesKnown
<1>13. TrayDrawn'
  <2>1. DOMAIN hostItems = {} => trayItems = {}
    BY DEF TrayInv, ItemStates
  <2> QED  BY <1>1, <2>1 DEF TrayInv, TrayDrawn
<1>14. trayDp' \in BOOLEAN
  BY <1>1 DEF TrayInv, TrayTypes
<1>15. TrayTypes' /\ WireTells'
  BY <1>1, <1>3, <1>5, <1>14 DEF TrayInv, TrayTypes, WireTells, trayBus
<1> QED  BY <1>11, <1>12, <1>13, <1>15 DEF TrayInv

\* The new items are asked for, those there are stay as they are.
LEMMA ItemsMade ==
  ASSUME TrayInv, NEW new \in SUBSET TrayItem
  PROVE  /\ DOMAIN WithItems(new) = DOMAIN hostItems \cup new
         /\ WithItems(new) \in [DOMAIN hostItems \cup new -> ItemRecord]
         /\ \A i \in DOMAIN hostItems : WithItems(new)[i] = hostItems[i]
         /\ \A i \in new \ DOMAIN hostItems : WithItems(new)[i] = NewItem
         /\ ItemOK(NewItem) /\ ~NewItem.ready
<1>1. NewItem \in ItemRecord
  BY DEF NewItem, ItemRecord
<1>2. ItemOK(NewItem) /\ ~NewItem.ready
  BY DEF NewItem, ItemOK
<1>3. WithItems(new) = [i \in DOMAIN hostItems \cup new |-> IF i \in DOMAIN hostItems THEN hostItems[i] ELSE NewItem]
  BY DEF WithItems
<1>4. hostItems \in [DOMAIN hostItems -> ItemRecord]
  BY DEF TrayInv, ItemStates
<1> QED  BY <1>1, <1>2, <1>3, <1>4

LEMMA ItemsAdded ==
  ASSUME TrayInv, NEW new \in SUBSET TrayItem, hostItems' = WithItems(new), Owned(trayWire', hostItems),
         UNCHANGED <<appTitle, appStatus, trayItems, trayView>>,
         \A i, p : Change(trayWire, 0, i, p) <=> Change(trayWire', 0, i, p),
         trayItems \ trayUnseen' \subseteq trayItems \ trayUnseen
  PROVE  ItemStates' /\ PropertiesKnown' /\ TrayDrawn'
<1>1. /\ DOMAIN hostItems' = DOMAIN hostItems \cup new
      /\ hostItems' \in [DOMAIN hostItems' -> ItemRecord]
      /\ \A i \in DOMAIN hostItems : hostItems'[i] = hostItems[i]
      /\ \A i \in new \ DOMAIN hostItems : hostItems'[i] = NewItem
      /\ ItemOK(NewItem) /\ ~NewItem.ready
  BY ItemsMade
<1>2. trayItems' = {i \in DOMAIN hostItems' : hostItems'[i].ready}
  BY <1>1 DEF TrayInv, ItemStates
<1>3. \A i \in DOMAIN hostItems' : ItemOK(hostItems'[i])
  BY <1>1 DEF TrayInv, ItemStates
<1>4. Owned(trayWire', hostItems')
  BY <1>1 DEF Owned
<1>5. ItemStates'
  BY <1>1, <1>2, <1>3, <1>4 DEF TrayInv, ItemStates
<1>6. \A i \in trayItems : i \in DOMAIN hostItems /\ hostItems'[i] = hostItems[i]
  BY <1>1 DEF TrayInv, ItemStates
<1>7. PropertiesKnown' /\ TrayDrawn'
  BY <1>6 DEF TrayInv, PropertiesKnown, PropertyKnown, TrayDrawn, trayView
<1> QED  BY <1>5, <1>7

LEMMA RegisterHostKeeps == TrayInv /\ RegisterHost => TrayInv'
<1> SUFFICES ASSUME TrayInv, RegisterHost PROVE TrayInv'
  OBVIOUS
<1>1. trayWire # <<>> /\ Head(trayWire).name = "register" /\ trayWire' = Tail(trayWire)
      /\ UNCHANGED <<trayBus, hostWatcher, hostCache, retries, retryTimer, trayItems, trayView, trayUnseen>>
  BY DEF RegisterHost, Delivered
<1>2. ~IsAnswer(Head(trayWire)) /\ ~IsName(Head(trayWire)) /\ (\A i, p : ~IsChange(i, p, Head(trayWire)))
      /\ (\A i : ~IsComing(i, Head(trayWire))) /\ OfHost(Head(trayWire))
  BY <1>1 DEF IsAnswer, IsName, IsChange, IsComing, OfHost
<1>3. trayWire \in Seq(TrayMessage) /\ Cancels(Tail(trayWire), trayWire')
  BY <1>1, NothingCancelled, TailOfWire DEF TrayInv, TrayTypes
<1>4. hostCall = "answered" /\ hostWatcher /\ \A k \in DOMAIN trayWire' : ~OfHost(trayWire'[k])
  BY <1>1, <1>2, <1>3, HeadTells DEF TrayInv, HostAsks
<1>5. ~listening /\ DOMAIN hostItems = {}
  BY <1>4 DEF TrayInv, HostAsks, ListKnown
<1>6. /\ trayWire' \in Seq(TrayMessage)
      /\ NamesTell(trayWire', watcherUp) /\ ComingsTell(trayWire', watcherItems)
      /\ CopiesTell(trayWire', watcherItems) /\ AnswersTell(trayWire', appTitle, appStatus)
      /\ Owned(trayWire', hostItems)
  BY <1>1, <1>3, WireHeard
<1>7. /\ NoName(trayWire, 0) <=> NoName(trayWire', 0)
      /\ \A i : NoComing(trayWire, 0, i) <=> NoComing(trayWire', 0, i)
      /\ \A i, p : Change(trayWire, 0, i, p) <=> Change(trayWire', 0, i, p)
  BY <1>1, <1>2, <1>3, HeadTells
<1>8. \A c, f : OneHostAnswer(trayWire', c, f)
  BY <1>4 DEF OneHostAnswer
<1>9. NamesAlternate(trayWire', watcherUp, HostFresh')
  <2>1. ~HostFresh
    BY <1>4 DEF HostFresh
  <2> QED  BY <1>1, <1>3, <2>1, AlternateTailed DEF TrayInv, HostAsks
<1>10. WireTells'
  BY <1>1, <1>6 DEF WireTells, trayBus
<1>11. CASE Head(trayWire).ok
  <2>1. listening' = TRUE /\ hostCall' = "none" /\ hostItems' = WithItems(hostCache)
    BY <1>11 DEF RegisterHost
  <2>2. hostCache \in SUBSET TrayItem
    BY DEF TrayInv, TrayTypes
  <2>3. ItemStates' /\ PropertiesKnown' /\ TrayDrawn'
    BY <1>1, <1>6, <1>7, <2>1, <2>2, ItemsAdded DEF trayBus
  <2>4. DOMAIN hostItems' = hostCache
    BY <1>5, <2>1, <2>2, ItemsMade
  <2>5. HostAsks' /\ ListKnown'
    BY <1>1, <1>4, <1>5, <1>7, <1>8, <1>9, <2>1, <2>4 DEF TrayInv, HostAsks, ListKnown, trayBus
  <2>6. TrayTypes'
    BY <1>1, <1>6, <2>1 DEF TrayInv, TrayTypes, trayBus, trayView
  <2> QED  BY <1>10, <2>3, <2>5, <2>6 DEF TrayInv
<1>12. CASE ~Head(trayWire).ok
  <2>1. hostCall' = "failed" /\ UNCHANGED <<listening, hostItems>>
    BY <1>12 DEF RegisterHost
  <2>2. ItemStates' /\ PropertiesKnown' /\ TrayDrawn'
    BY <1>1, <1>2, <2>1, ItemsStay
  <2>3. HostAsks' /\ ListKnown'
    BY <1>1, <1>4, <1>5, <1>7, <1>8, <1>9, <2>1 DEF TrayInv, HostAsks, ListKnown, trayBus
  <2>4. TrayTypes'
    BY <1>1, <1>6, <2>1 DEF TrayInv, TrayTypes, trayBus, trayView
  <2> QED  BY <1>10, <2>2, <2>3, <2>4 DEF TrayInv
<1> QED  BY <1>11, <1>12

LEMMA RegisteredKeeps == TrayInv /\ ItemRegistered => TrayInv'
<1> SUFFICES ASSUME TrayInv, ItemRegistered PROVE TrayInv'
  OBVIOUS
<1>1. trayWire # <<>> /\ Head(trayWire).name = "registered" /\ trayWire' = Tail(trayWire)
      /\ UNCHANGED <<trayBus, hostVars, trayItems, trayView>>
  BY DEF ItemRegistered, Delivered
<1>2. PICK i : i = Head(trayWire).item
  OBVIOUS
<1>3. trayWire \in Seq(TrayMessage) /\ Cancels(Tail(trayWire), trayWire') /\ Head(trayWire) \in TrayMessage
  BY <1>1, NothingCancelled, TailOfWire DEF TrayInv, TrayTypes
<1>4. ~IsAnswer(Head(trayWire)) /\ ~IsName(Head(trayWire)) /\ (\A j, p : ~IsChange(j, p, Head(trayWire)))
      /\ (\A j : IsComing(j, Head(trayWire)) <=> j = i) /\ i \in TrayItem
  BY <1>1, <1>2, <1>3, MessageFields DEF IsAnswer, IsName, IsChange, IsComing
<1>5. /\ trayWire' \in Seq(TrayMessage)
      /\ NamesTell(trayWire', watcherUp) /\ ComingsTell(trayWire', watcherItems)
      /\ CopiesTell(trayWire', watcherItems) /\ AnswersTell(trayWire', appTitle, appStatus)
      /\ OneHostAnswer(trayWire', hostCall, hostWatcher) /\ Owned(trayWire', hostItems)
  BY <1>1, <1>3, WireHeard
<1>6. /\ NoName(trayWire, 0) <=> NoName(trayWire', 0)
      /\ \A j : NoComing(trayWire, 0, j) <=> j # i /\ NoComing(trayWire', 0, j)
      /\ \A j, p : Change(trayWire, 0, j, p) <=> Change(trayWire', 0, j, p)
      /\ NoComing(trayWire', 0, i) => i \in watcherItems
  BY <1>1, <1>3, <1>4, HeadTells DEF TrayInv, WireTells
<1>7. HostAsks'
  <2>1. HostFresh' <=> HostFresh
    BY <1>1 DEF HostFresh, hostVars
  <2>2. NamesAlternate(trayWire', watcherUp, HostFresh')
    BY <1>1, <1>3, <2>1, AlternateTailed DEF TrayInv, HostAsks
  <2> QED  BY <1>1, <1>5, <1>6, <2>2 DEF TrayInv, HostAsks, trayBus, hostVars
<1>8. WireTells'
  BY <1>1, <1>5 DEF WireTells, trayBus
<1>9. CASE listening
  <2>1. hostItems' = WithItems({i}) /\ trayUnseen' = trayUnseen \ ({i} \ DOMAIN hostItems)
    BY <1>2, <1>9 DEF ItemRegistered
  <2>2. trayItems \ trayUnseen' \subseteq trayItems \ trayUnseen
    BY <2>1 DEF TrayInv, ItemStates
  <2>3. ItemStates' /\ PropertiesKnown' /\ TrayDrawn'
    BY <1>1, <1>4, <1>5, <1>6, <2>1, <2>2, ItemsAdded DEF trayBus
  <2>4. DOMAIN hostItems' = DOMAIN hostItems \cup {i}
    BY <1>4, <2>1, ItemsMade
  <2>5. ListKnown'
    <3>1. ASSUME NEW j \in TrayItem \ trayUnseen', NoComing(trayWire', 0, j)
          PROVE  j \in DOMAIN hostItems' <=> j \in watcherItems
      <4>1. CASE j = i
        BY <1>6, <2>4, <3>1, <4>1
      <4>2. CASE j # i
        BY <1>6, <1>9, <2>1, <2>4, <3>1, <4>2 DEF TrayInv, ListKnown
      <4> QED  BY <4>1, <4>2
    <3> QED  BY <1>1, <1>9, <3>1 DEF ListKnown, trayBus, hostVars
  <2>6. TrayTypes'
    BY <1>1, <1>5, <2>1 DEF TrayInv, TrayTypes, trayBus, trayView, hostVars
  <2> QED  BY <1>7, <1>8, <2>3, <2>5, <2>6 DEF TrayInv
<1>10. CASE ~listening
  <2>1. trayUnseen' = trayUnseen \cup {i} /\ UNCHANGED hostItems
    BY <1>2, <1>10 DEF ItemRegistered
  <2>2. ItemStates' /\ PropertiesKnown' /\ TrayDrawn'
    BY <1>1, <1>4, <2>1, ItemsStay
  <2>3. ListKnown'
    BY <1>1, <1>6, <1>10, <2>1 DEF TrayInv, ListKnown, trayBus, hostVars
  <2>4. TrayTypes'
    BY <1>1, <1>4, <1>5, <2>1 DEF TrayInv, TrayTypes, trayBus, trayView, hostVars
  <2> QED  BY <1>7, <1>8, <2>2, <2>3, <2>4 DEF TrayInv
<1> QED  BY <1>9, <1>10

\* Items are erased, and answers to them cancelled; what is left is as it was.
LEMMA ItemsErased ==
  ASSUME TrayInv, NEW w \in Seq(TrayMessage), Owned(w, hostItems), AnswersTell(w, appTitle, appStatus), NEW gone, NEW c,
         Cancels(w, c), \A k \in DOMAIN w : ~OfItems(gone, c[k]),
         trayWire' = c, hostItems' = Restrict(hostItems, DOMAIN hostItems \ gone), trayItems' = trayItems \ gone,
         UNCHANGED <<appTitle, appStatus>>,
         \A i, p : Change(trayWire, 0, i, p) => Change(w, 0, i, p),
         trayUnseen \subseteq trayUnseen'
  PROVE  ItemStates' /\ PropertiesKnown'
<1>1. DOMAIN hostItems' = DOMAIN hostItems \ gone /\ \A i \in DOMAIN hostItems' : hostItems'[i] = hostItems[i]
  BY DEF Restrict
<1>2. hostItems' \in [DOMAIN hostItems' -> ItemRecord]
  BY <1>1 DEF TrayInv, ItemStates, Restrict
<1>3. trayItems' = {i \in DOMAIN hostItems' : hostItems'[i].ready}
  BY <1>1 DEF TrayInv, ItemStates
<1>4. \A i \in DOMAIN hostItems' : ItemOK(hostItems'[i])
  BY <1>1 DEF TrayInv, ItemStates
<1>5. Owned(c, hostItems')
  <2>1. Owned(c, hostItems) /\ DOMAIN c = DOMAIN w
    BY CancelTells DEF Cancels
  <2>2. \A k \in DOMAIN c : IsAnswer(c[k]) => c[k].item \in DOMAIN hostItems'
    BY <1>1, <2>1 DEF Owned, OfItems, IsAnswer
  <2> QED  BY <1>1, <2>1, <2>2 DEF Owned
<1>6. ItemStates'
  BY <1>1, <1>2, <1>3, <1>4, <1>5 DEF TrayInv, ItemStates
<1>7. \A i \in trayItems' : i \in trayItems /\ hostItems'[i] = hostItems[i]
  BY <1>1, <1>3
<1>8. \A i, p : Change(trayWire, 0, i, p) => Change(trayWire', 0, i, p)
  BY CancelLater
<1>9. PropertiesKnown'
  BY <1>7, <1>8 DEF TrayInv, PropertiesKnown, PropertyKnown
<1> QED  BY <1>6, <1>9

LEMMA UnregisteredKeeps == TrayInv /\ ItemUnregistered => TrayInv'
<1> SUFFICES ASSUME TrayInv, ItemUnregistered PROVE TrayInv'
  OBVIOUS
<1>1. trayWire # <<>> /\ Head(trayWire).name = "unregistered" /\ UNCHANGED <<trayBus, hostVars, trayShown>>
  BY DEF ItemUnregistered, Delivered
<1>2. PICK i : i = Head(trayWire).item
  OBVIOUS
<1>3. trayWire \in Seq(TrayMessage) /\ Tail(trayWire) \in Seq(TrayMessage) /\ Head(trayWire) \in TrayMessage
  BY <1>1, TailOfWire DEF TrayInv, TrayTypes
<1>4. ~IsAnswer(Head(trayWire)) /\ ~IsName(Head(trayWire)) /\ (\A j, p : ~IsChange(j, p, Head(trayWire)))
      /\ (\A j : IsComing(j, Head(trayWire)) <=> j = i) /\ i \in TrayItem
  BY <1>1, <1>2, <1>3, MessageFields DEF IsAnswer, IsName, IsChange, IsComing
<1>5. PICK c : /\ c = trayWire' /\ Cancels(Tail(trayWire), c)
               /\ listening => \A k \in DOMAIN Tail(trayWire) : ~OfItems({i}, c[k])
  <2>1. CASE listening
    <3>1. PICK t \in Seq(TrayMessage) : t = Tail(trayWire)
      BY <1>3
    <3>2. trayWire' = [k \in DOMAIN t |-> IF OfItems({i}, t[k]) THEN [name |-> "cancelled"] ELSE t[k]]
      BY <1>2, <2>1, <3>1 DEF ItemUnregistered, WireWithout, Cancel
    <3> QED  BY <3>1, <3>2, CancelOfItems
  <2>2. CASE ~listening
    <3>1. trayWire' = Tail(trayWire)
      BY <2>2 DEF ItemUnregistered
    <3> QED  BY <1>3, <2>2, <3>1, NothingCancelled
  <2> QED  BY <2>1, <2>2
<1>6. /\ c \in Seq(TrayMessage)
      /\ NamesTell(c, watcherUp) /\ ComingsTell(c, watcherItems)
      /\ CopiesTell(c, watcherItems) /\ AnswersTell(c, appTitle, appStatus)
      /\ OneHostAnswer(c, hostCall, hostWatcher) /\ Owned(c, hostItems)
      /\ NoName(c, 0) <=> NoName(Tail(trayWire), 0)
      /\ \A j : NoComing(c, 0, j) <=> NoComing(Tail(trayWire), 0, j)
      /\ \A j, p : Change(c, 0, j, p) <=> Change(Tail(trayWire), 0, j, p)
  BY <1>1, <1>5, WireHeard
<1>7. /\ NoName(trayWire, 0) <=> NoName(c, 0)
      /\ \A j : NoComing(trayWire, 0, j) <=> j # i /\ NoComing(c, 0, j)
      /\ \A j, p : Change(trayWire, 0, j, p) <=> Change(Tail(trayWire), 0, j, p)
      /\ NoComing(c, 0, i) => i \notin watcherItems
  BY <1>1, <1>3, <1>4, <1>6, HeadTells DEF TrayInv, WireTells
<1>8. HostAsks'
  <2>1. HostFresh' <=> HostFresh
    BY <1>1 DEF HostFresh, hostVars
  <2>2. NamesAlternate(Tail(trayWire), watcherUp, HostFresh')
    BY <1>1, <1>3, <2>1, AlternateTailed DEF TrayInv, HostAsks
  <2>3. NamesAlternate(c, watcherUp, HostFresh')
    BY <1>3, <1>5, <2>2, AlternateCancelled
  <2> QED  BY <1>1, <1>5, <1>6, <1>7, <2>3 DEF TrayInv, HostAsks, trayBus, hostVars
<1>9. WireTells'
  BY <1>1, <1>5, <1>6 DEF WireTells, trayBus
<1>10. Owned(Tail(trayWire), hostItems) /\ AnswersTell(Tail(trayWire), appTitle, appStatus)
  BY <1>1, <1>3, TailTells DEF TrayInv, WireTells, ItemStates
<1>11. CASE listening
  <2>1. /\ hostItems' = Restrict(hostItems, DOMAIN hostItems \ {i}) /\ trayItems' = trayItems \ {i}
        /\ trayDp' = (trayDp \/ {i} \cap trayItems # {}) /\ trayUnseen' = trayUnseen
    BY <1>2, <1>11 DEF ItemUnregistered, Erase
  <2>2. ItemStates' /\ PropertiesKnown'
    BY <1>1, <1>3, <1>5, <1>7, <1>10, <1>11, <2>1, ItemsErased DEF trayBus
  <2>3. DOMAIN hostItems' = DOMAIN hostItems \ {i} /\ \A j \in DOMAIN hostItems' : hostItems'[j] = hostItems[j]
    BY <2>1 DEF Restrict
  <2>4. ListKnown'
    <3>1. ASSUME NEW j \in TrayItem \ trayUnseen, NoComing(c, 0, j)
          PROVE  j \in DOMAIN hostItems' <=> j \in watcherItems
      <4>1. CASE j = i
        BY <1>7, <2>3, <3>1, <4>1
      <4>2. CASE j # i
        BY <1>7, <1>11, <2>3, <3>1, <4>2 DEF TrayInv, ListKnown
      <4> QED  BY <4>1, <4>2
    <3> QED  BY <1>1, <1>5, <1>11, <2>1, <3>1 DEF ListKnown, trayBus, hostVars
  <2>5. TrayDrawn' /\ trayDp' \in BOOLEAN
    <3>1. CASE i \in trayItems
      BY <2>1, <3>1 DEF TrayDrawn
    <3>2. CASE i \notin trayItems
      <4>1. trayItems' = trayItems /\ trayDp' = trayDp /\ \A j \in trayItems : hostItems'[j] = hostItems[j]
        BY <2>1, <2>3, <3>2 DEF TrayInv, ItemStates, TrayTypes
      <4> QED  BY <1>1, <4>1 DEF TrayInv, TrayDrawn, TrayTypes
    <3> QED  BY <3>1, <3>2
  <2>6. TrayTypes'
    BY <1>1, <1>5, <1>6, <2>1, <2>5 DEF TrayInv, TrayTypes, trayBus, hostVars
  <2> QED  BY <1>8, <1>9, <2>2, <2>4, <2>5, <2>6 DEF TrayInv
<1>12. CASE ~listening
  <2>1. trayWire' = Tail(trayWire) /\ trayUnseen' = trayUnseen \cup {i} /\ UNCHANGED <<hostItems, trayItems, trayDp>>
    BY <1>2, <1>12 DEF ItemUnregistered
  <2>2. ItemStates' /\ PropertiesKnown' /\ TrayDrawn'
    BY <1>1, <1>4, <2>1, ItemsStay DEF trayView
  <2>3. ListKnown'
    BY <1>1, <1>5, <1>7, <1>12, <2>1 DEF TrayInv, ListKnown, trayBus, hostVars
  <2>4. TrayTypes'
    BY <1>1, <1>4, <1>5, <1>6, <2>1 DEF TrayInv, TrayTypes, trayBus, hostVars
  <2> QED  BY <1>8, <1>9, <2>2, <2>3, <2>4 DEF TrayInv
<1> QED  BY <1>11, <1>12

\* A message of an item is taken, and the host stays as it is.
LEMMA HostStays ==
  ASSUME TrayInv, trayWire # <<>>, Head(trayWire).name \in {"changed", "create", "getAll"},
         Cancels(Tail(trayWire), trayWire'), UNCHANGED <<trayBus, hostVars>>
  PROVE  /\ trayWire \in Seq(TrayMessage) /\ Tail(trayWire) \in Seq(TrayMessage)
         /\ Head(trayWire) \in TrayMessage /\ Head(trayWire).item \in TrayItem
         /\ trayWire' \in Seq(TrayMessage) /\ WireTells' /\ HostAsks' /\ Owned(trayWire', hostItems)
         /\ \A i : NoComing(trayWire, 0, i) <=> NoComing(trayWire', 0, i)
         /\ \A i, p : Change(trayWire, 0, i, p) <=> IsChange(i, p, Head(trayWire)) \/ Change(trayWire', 0, i, p)
<1>1. trayWire \in Seq(TrayMessage) /\ Tail(trayWire) \in Seq(TrayMessage) /\ Head(trayWire) \in TrayMessage
  BY TailOfWire DEF TrayInv, TrayTypes
<1>2. ~IsName(Head(trayWire)) /\ \A i : ~IsComing(i, Head(trayWire))
  BY DEF IsName, IsComing
<1>3. /\ trayWire' \in Seq(TrayMessage)
      /\ NamesTell(trayWire', watcherUp) /\ ComingsTell(trayWire', watcherItems)
      /\ CopiesTell(trayWire', watcherItems) /\ AnswersTell(trayWire', appTitle, appStatus)
      /\ OneHostAnswer(trayWire', hostCall, hostWatcher) /\ Owned(trayWire', hostItems)
      /\ NoName(trayWire', 0) <=> NoName(Tail(trayWire), 0)
      /\ \A i : NoComing(trayWire', 0, i) <=> NoComing(Tail(trayWire), 0, i)
      /\ \A i, p : Change(trayWire', 0, i, p) <=> Change(Tail(trayWire), 0, i, p)
  BY WireHeard
<1>4. /\ NoName(trayWire, 0) <=> NoName(trayWire', 0)
      /\ \A i : NoComing(trayWire, 0, i) <=> NoComing(trayWire', 0, i)
      /\ \A i, p : Change(trayWire, 0, i, p) <=> IsChange(i, p, Head(trayWire)) \/ Change(trayWire', 0, i, p)
  BY <1>1, <1>2, <1>3, HeadTells
<1>5. HostAsks'
  <2>1. HostFresh' <=> HostFresh
    BY DEF HostFresh, hostVars
  <2>2. NamesAlternate(Tail(trayWire), watcherUp, HostFresh')
    BY <1>1, <2>1, AlternateTailed DEF TrayInv, HostAsks
  <2>3. NamesAlternate(trayWire', watcherUp, HostFresh')
    BY <1>1, <2>2, AlternateCancelled
  <2> QED  BY <1>3, <1>4, <2>3 DEF TrayInv, HostAsks, trayBus, hostVars
<1>6. WireTells'
  BY <1>3 DEF WireTells, trayBus
<1>7. Head(trayWire).item \in TrayItem
  BY <1>1, MessageFields
<1> QED  BY <1>1, <1>3, <1>4, <1>5, <1>6, <1>7

LEMMA ItemChangedKeeps == TrayInv /\ ItemChanged => TrayInv'
<1> SUFFICES ASSUME TrayInv, ItemChanged PROVE TrayInv'
  OBVIOUS
<1>1. trayWire # <<>> /\ Head(trayWire).name = "changed" /\ trayWire' = Tail(trayWire)
      /\ UNCHANGED <<trayBus, hostVars, trayItems, trayView, trayUnseen>>
  BY DEF ItemChanged, Delivered
<1>2. PICK i, p : i = Head(trayWire).item /\ p = Head(trayWire).property
  OBVIOUS
<1>3. Cancels(Tail(trayWire), trayWire')
  BY <1>1, NothingCancelled, TailOfWire DEF TrayInv, TrayTypes
<1>4. /\ trayWire' \in Seq(TrayMessage) /\ WireTells' /\ HostAsks' /\ Owned(trayWire', hostItems)
      /\ Head(trayWire) \in TrayMessage /\ i \in TrayItem
      /\ \A j : NoComing(trayWire, 0, j) <=> NoComing(trayWire', 0, j)
      /\ \A j, q : Change(trayWire, 0, j, q) <=> (j = i /\ q = p) \/ Change(trayWire', 0, j, q)
  BY <1>1, <1>2, <1>3, HostStays DEF IsChange
<1>5. p \in ItemProperty
  BY <1>1, <1>2, <1>4, MessageFields
<1>6. TrayTypes'
  BY <1>1, <1>4 DEF TrayInv, TrayTypes, trayBus, hostVars, trayView
<1>7. CASE i \in DOMAIN hostItems /\ hostItems[i].ready
  <2>1. hostItems' = [hostItems EXCEPT ![i].pending = @ \cup {p}, ![i].timer = @ \/ hostItems[i].pending = {}]
    BY <1>2, <1>7 DEF ItemChanged, OnSignal
  <2>2. PICK h : h = hostItems[i]
    OBVIOUS
  <2>3. h \in ItemRecord /\ hostItems \in [DOMAIN hostItems -> ItemRecord] /\ ItemOK(h) /\ h.ready
    BY <1>7, <2>2 DEF TrayInv, ItemStates
  <2>4. PICK r : r = [h EXCEPT !.pending = @ \cup {p}, !.timer = @ \/ h.pending = {}]
    OBVIOUS
  <2>5. /\ r \in ItemRecord /\ r.ready = h.ready /\ r.call = h.call /\ r.title = h.title /\ r.status = h.status
        /\ r.pending = h.pending \cup {p} /\ r.timer = (h.timer \/ h.pending = {})
    BY <1>5, <2>3, <2>4 DEF ItemRecord
  <2>6. hostItems' = [hostItems EXCEPT ![i] = r]
    BY <1>7, <2>1, <2>2, <2>3, <2>4
  <2>7. /\ DOMAIN hostItems' = DOMAIN hostItems /\ hostItems' \in [DOMAIN hostItems' -> ItemRecord] /\ hostItems'[i] = r
        /\ \A j \in DOMAIN hostItems : j = i \/ hostItems'[j] = hostItems[j]
    BY <1>7, <2>3, <2>5, <2>6, OneItemChanged
  <2>8. ItemOK(r)
    BY <2>3, <2>5 DEF ItemOK, ItemRecord
  <2>9. ItemStates'
    <3>1. trayItems' = {j \in DOMAIN hostItems' : hostItems'[j].ready}
      BY <1>1, <2>2, <2>5, <2>7 DEF TrayInv, ItemStates
    <3>2. \A j \in DOMAIN hostItems' : ItemOK(hostItems'[j])
      BY <2>7, <2>8 DEF TrayInv, ItemStates
    <3>3. Owned(trayWire', hostItems')
      BY <1>4, <2>2, <2>5, <2>7 DEF Owned
    <3> QED  BY <2>7, <3>1, <3>2, <3>3 DEF TrayInv, ItemStates
  <2>10. \A j \in trayItems : /\ hostItems'[j].title = hostItems[j].title /\ hostItems'[j].status = hostItems[j].status
                              /\ hostItems'[j].pending = IF j = i THEN hostItems[j].pending \cup {p} ELSE hostItems[j].pending
    BY <2>2, <2>5, <2>7 DEF TrayInv, ItemStates
  <2>11. PropertiesKnown' /\ TrayDrawn'
    <3>1. /\ trayItems' = trayItems /\ UNCHANGED trayBus
          /\ PropertiesKnown /\ TrayDrawn
      BY <1>1, <1>4 DEF TrayInv, trayView
    <3>2. PropertiesKnown'
      BY <1>1, <1>4, <2>10, <3>1 DEF PropertiesKnown, PropertyKnown, trayBus
    <3>3. TrayDrawn'
      BY <1>1, <1>4, <2>10, <3>1 DEF TrayDrawn, trayView, trayBus
    <3> QED  BY <3>2, <3>3
  <2>12. ListKnown'
    BY <1>1, <1>4, <2>7 DEF TrayInv, ListKnown, trayBus, hostVars
  <2> QED  BY <1>4, <1>6, <2>9, <2>11, <2>12 DEF TrayInv
<1>8. CASE ~(i \in DOMAIN hostItems /\ hostItems[i].ready)
  <2>1. hostItems' = hostItems
    BY <1>2, <1>8 DEF ItemChanged
  <2>2. i \notin trayItems
    BY <1>8 DEF TrayInv, ItemStates
  <2>3. ItemStates' /\ ListKnown'
    BY <1>1, <1>4, <2>1 DEF TrayInv, ItemStates, ListKnown, trayBus, hostVars
  <2>4. PropertiesKnown' /\ TrayDrawn'
    BY <1>1, <1>4, <2>1, <2>2 DEF TrayInv, PropertiesKnown, PropertyKnown, TrayDrawn, trayView, trayBus
  <2> QED  BY <1>4, <1>6, <2>3, <2>4 DEF TrayInv
<1> QED  BY <1>7, <1>8

LEMMA UpdatedKeeps == TrayInv /\ ProcessUpdatedProperties => TrayInv'
<1> SUFFICES ASSUME TrayInv, ProcessUpdatedProperties PROVE TrayInv'
  OBVIOUS
<1>1. trayWire # <<>> /\ Head(trayWire).name = "getAll" /\ trayWire' = Tail(trayWire)
      /\ UNCHANGED <<trayBus, hostVars, trayItems, trayShown>>
  BY DEF ProcessUpdatedProperties, Delivered
<1>2. PICK m : m = Head(trayWire)
  OBVIOUS
<1>3. PICK i : i = m.item
  OBVIOUS
<1>4. Cancels(Tail(trayWire), trayWire')
  BY <1>1, NothingCancelled, TailOfWire DEF TrayInv, TrayTypes
<1>5. /\ trayWire \in Seq(TrayMessage) /\ trayWire' \in Seq(TrayMessage) /\ WireTells' /\ HostAsks' /\ Owned(trayWire', hostItems)
      /\ m \in TrayMessage /\ i \in TrayItem
      /\ \A j : NoComing(trayWire, 0, j) <=> NoComing(trayWire', 0, j)
      /\ \A j, q : Change(trayWire, 0, j, q) <=> Change(trayWire', 0, j, q)
  BY <1>1, <1>2, <1>3, <1>4, HostStays DEF IsChange
<1>6. /\ i \in DOMAIN hostItems /\ hostItems[i].call = "answered" /\ hostItems[i].ready
      /\ \A k \in DOMAIN trayWire' : IsAnswer(trayWire'[k]) => trayWire'[k].item # i
      /\ m.title = appTitle[i] \/ Change(trayWire', 0, i, "title")
      /\ m.status = appStatus[i] \/ Change(trayWire', 0, i, "status")
  <2>1. IsAnswer(m) /\ Owned(trayWire, hostItems) /\ AnswersTell(trayWire, appTitle, appStatus)
    BY <1>1, <1>2 DEF IsAnswer, TrayInv, ItemStates, WireTells
  <2> QED  BY <1>1, <1>2, <1>3, <1>5, <2>1, HeadTells
<1>7. m.title \in Titles /\ m.status \in Statuses /\ m.ok \in BOOLEAN
  BY <1>1, <1>2, <1>5, MessageFields
<1>8. PICK h : h = hostItems[i]
  OBVIOUS
<1>9. h \in ItemRecord /\ hostItems \in [DOMAIN hostItems -> ItemRecord] /\ ItemOK(h) /\ h.ready /\ h.call = "answered"
  BY <1>6, <1>8 DEF TrayInv, ItemStates
<1>10. PICK taken : taken = IF m.ok THEN h.pending ELSE {}
  OBVIOUS
<1>11. PICK r : r = [h EXCEPT !.title = IF "title" \in taken THEN m.title ELSE @,
                              !.status = IF "status" \in taken THEN m.status ELSE @, !.pending = {}, !.call = "none"]
  OBVIOUS
<1>12. /\ r \in ItemRecord /\ r.ready = h.ready /\ r.call = "none" /\ r.pending = {} /\ r.timer = h.timer
       /\ r.title = (IF "title" \in taken THEN m.title ELSE h.title)
       /\ r.status = (IF "status" \in taken THEN m.status ELSE h.status)
  BY <1>7, <1>9, <1>11 DEF ItemRecord
<1>13. /\ hostItems' = [hostItems EXCEPT ![i] = r]
       /\ trayDp' = (trayDp \/ "status" \in taken)
       /\ trayUnseen' = IF m.ok THEN trayUnseen ELSE trayUnseen \cup {i}
  <2>1. /\ trayDp' = (trayDp \/ "status" \in IF m.ok THEN hostItems[i].pending ELSE {})
        /\ trayUnseen' = IF m.ok THEN trayUnseen ELSE trayUnseen \cup {i}
    BY <1>2, <1>3 DEF ProcessUpdatedProperties
  <2>2. taken = IF m.ok THEN hostItems[i].pending ELSE {}
    BY <1>8, <1>10
  <2>3. hostItems' = [hostItems EXCEPT ![i] = r]
    BY <1>2, <1>3, <1>8, <1>11, <2>2, Zenon DEF ProcessUpdatedProperties
  <2> QED  BY <1>8, <1>10, <2>1, <2>3
<1>14. /\ DOMAIN hostItems' = DOMAIN hostItems /\ hostItems' \in [DOMAIN hostItems' -> ItemRecord] /\ hostItems'[i] = r
       /\ \A j \in DOMAIN hostItems : j = i \/ hostItems'[j] = hostItems[j]
  BY <1>6, <1>9, <1>12, <1>13, OneItemChanged
<1>15. ItemOK(r)
  <2>1. h.timer = FALSE
    BY <1>9 DEF ItemOK, ItemRecord
  <2> QED  BY <1>9, <1>12, <2>1 DEF ItemOK
<1>16. ItemStates'
  <2>1. trayItems' = {j \in DOMAIN hostItems' : hostItems'[j].ready}
    BY <1>1, <1>8, <1>12, <1>14 DEF TrayInv, ItemStates
  <2>2. \A j \in DOMAIN hostItems' : ItemOK(hostItems'[j])
    BY <1>14, <1>15 DEF TrayInv, ItemStates
  <2>3. Owned(trayWire', hostItems')
    BY <1>5, <1>6, <1>14 DEF Owned
  <2> QED  BY <1>14, <2>1, <2>2, <2>3 DEF TrayInv, ItemStates
<1>17. PropertiesKnown'
  <2>1. ASSUME NEW j \in trayItems \ trayUnseen'
        PROVE  /\ PropertyKnown(j, "title", hostItems[j].title, appTitle[j])'
               /\ PropertyKnown(j, "status", hostItems[j].status, appStatus[j])'
    <3>1. j \in trayItems \ trayUnseen /\ j \in DOMAIN hostItems
      BY <1>13, <2>1 DEF TrayInv, ItemStates
    <3>2. CASE j # i
      <4>1. hostItems'[j] = hostItems[j]
        BY <1>14, <3>1, <3>2
      <4> QED  BY <1>1, <1>5, <3>1, <4>1 DEF TrayInv, PropertiesKnown, PropertyKnown, trayBus
    <3>3. CASE j = i
      <4>1. m.ok /\ taken = h.pending
        BY <1>10, <1>13, <2>1, <3>3
      <4>2. /\ h.title = appTitle[i] \/ "title" \in h.pending \/ Change(trayWire', 0, i, "title")
            /\ h.status = appStatus[i] \/ "status" \in h.pending \/ Change(trayWire', 0, i, "status")
        BY <1>5, <1>8, <3>1, <3>3 DEF TrayInv, PropertiesKnown, PropertyKnown
      <4>3. /\ r.title = appTitle[i] \/ Change(trayWire', 0, i, "title")
            /\ r.status = appStatus[i] \/ Change(trayWire', 0, i, "status")
        BY <1>6, <1>12, <4>1, <4>2
      <4> QED  BY <1>1, <1>14, <3>3, <4>3 DEF PropertyKnown, trayBus
    <3> QED  BY <3>2, <3>3
  <2> QED  BY <1>1, <2>1 DEF PropertiesKnown
<1>18. TrayDrawn' /\ trayDp' \in BOOLEAN
  <2>1. CASE "status" \in taken
    BY <1>13, <2>1 DEF TrayDrawn
  <2>2. CASE "status" \notin taken
    <3>1. trayDp' = trayDp
      BY <1>13, <2>2 DEF TrayInv, TrayTypes
    <3>2. \A j \in trayItems : hostItems'[j].status = hostItems[j].status
      BY <1>8, <1>12, <1>14, <2>2 DEF TrayInv, ItemStates
    <3> QED  BY <1>1, <3>1, <3>2 DEF TrayInv, TrayDrawn, TrayTypes
  <2> QED  BY <2>1, <2>2
<1>19. ListKnown'
  BY <1>1, <1>5, <1>13, <1>14 DEF TrayInv, ListKnown, trayBus, hostVars
<1>20. TrayTypes'
  BY <1>1, <1>5, <1>13, <1>18 DEF TrayInv, TrayTypes, trayBus, hostVars
<1> QED  BY <1>5, <1>16, <1>17, <1>18, <1>19, <1>20 DEF TrayInv

LEMMA ItemReadyKeeps == TrayInv /\ ItemProxyReady => TrayInv'
<1> SUFFICES ASSUME TrayInv, ItemProxyReady PROVE TrayInv'
  OBVIOUS
<1>1. trayWire # <<>> /\ Head(trayWire).name = "create" /\ UNCHANGED <<trayBus, hostVars, trayShown>>
  BY DEF ItemProxyReady, Delivered
<1>2. PICK m : m = Head(trayWire)
  OBVIOUS
<1>3. PICK i : i = m.item
  OBVIOUS
<1>4. trayWire \in Seq(TrayMessage) /\ Tail(trayWire) \in Seq(TrayMessage)
  BY <1>1, TailOfWire DEF TrayInv, TrayTypes
<1>5. PICK h : h = hostItems[i]
  OBVIOUS
<1>6. PICK r : r = [h EXCEPT !.ready = TRUE, !.title = m.title, !.status = m.status, !.call = "none"]
  OBVIOUS
<1>7. PICK known : known = [hostItems EXCEPT ![i] = r]
  OBVIOUS
<1>8. PICK gone : gone = IF m.ok /\ i \in ValidItem THEN IgnoredNow(known) ELSE {i}
  OBVIOUS
<1>9. /\ hostItems' = Restrict(known, DOMAIN known \ gone)
      /\ trayItems' = (trayItems \cup {i}) \ gone
      /\ trayWire' = WireWithout(gone)
      /\ trayUnseen' = trayUnseen \cup gone
      /\ trayDp' = (trayDp \/ m.ok)
  BY <1>2, <1>3, <1>5, <1>6, <1>7, <1>8, Zenon DEF ItemProxyReady
<1>10. Cancels(Tail(trayWire), trayWire') /\ \A k \in DOMAIN Tail(trayWire) : ~OfItems(gone, trayWire'[k])
  <2>1. PICK t \in Seq(TrayMessage) : t = Tail(trayWire)
    BY <1>4
  <2>2. trayWire' = [k \in DOMAIN t |-> IF OfItems(gone, t[k]) THEN [name |-> "cancelled"] ELSE t[k]]
    BY <1>9, <2>1 DEF WireWithout, Cancel
  <2> QED  BY <2>1, <2>2, CancelOfItems
<1>11. /\ trayWire' \in Seq(TrayMessage) /\ WireTells' /\ HostAsks' /\ Owned(trayWire', hostItems)
       /\ m \in TrayMessage /\ i \in TrayItem
       /\ \A j : NoComing(trayWire, 0, j) <=> NoComing(trayWire', 0, j)
       /\ \A j, q : Change(trayWire, 0, j, q) <=> Change(trayWire', 0, j, q)
  BY <1>1, <1>2, <1>3, <1>10, HostStays DEF IsChange
<1>12. /\ i \in DOMAIN hostItems /\ hostItems[i].call = "answered" /\ ~hostItems[i].ready
       /\ \A k \in DOMAIN Tail(trayWire) : IsAnswer(Tail(trayWire)[k]) => Tail(trayWire)[k].item # i
       /\ m.title = appTitle[i] \/ Change(Tail(trayWire), 0, i, "title")
       /\ m.status = appStatus[i] \/ Change(Tail(trayWire), 0, i, "status")
  <2>1. IsAnswer(m) /\ Owned(trayWire, hostItems) /\ AnswersTell(trayWire, appTitle, appStatus)
    BY <1>1, <1>2 DEF IsAnswer, TrayInv, ItemStates, WireTells
  <2> QED  BY <1>1, <1>2, <1>3, <1>4, <2>1, HeadTells
<1>13. /\ m.title = appTitle[i] \/ Change(trayWire', 0, i, "title")
       /\ m.status = appStatus[i] \/ Change(trayWire', 0, i, "status")
  BY <1>4, <1>10, <1>12, CancelLater
<1>14. \A k \in DOMAIN trayWire' : IsAnswer(trayWire'[k]) => trayWire'[k].item # i /\ trayWire'[k].item \notin gone
  <2>1. \A k \in DOMAIN trayWire' : k \in DOMAIN Tail(trayWire) /\ (IsAnswer(trayWire'[k]) => trayWire'[k] = Tail(trayWire)[k])
    BY <1>10 DEF Cancels, IsAnswer
  <2> QED  BY <1>10, <1>12, <2>1 DEF OfItems, IsAnswer
<1>15. m.title \in Titles /\ m.status \in Statuses /\ m.ok \in BOOLEAN
  BY <1>1, <1>2, <1>11, MessageFields
<1>16. h \in ItemRecord /\ hostItems \in [DOMAIN hostItems -> ItemRecord] /\ ItemOK(h) /\ ~h.ready /\ h.call = "answered"
  BY <1>5, <1>12 DEF TrayInv, ItemStates
<1>17. /\ r \in ItemRecord /\ r.ready = TRUE /\ r.call = "none" /\ r.pending = h.pending /\ r.timer = h.timer
       /\ r.title = m.title /\ r.status = m.status
  BY <1>6, <1>15, <1>16 DEF ItemRecord
<1>18. /\ DOMAIN known = DOMAIN hostItems /\ known \in [DOMAIN known -> ItemRecord] /\ known[i] = r
       /\ \A j \in DOMAIN hostItems : j = i \/ known[j] = hostItems[j]
  BY <1>7, <1>12, <1>16, <1>17, OneItemChanged
<1>19. DOMAIN hostItems' = DOMAIN hostItems \ gone /\ \A j \in DOMAIN hostItems' : hostItems'[j] = known[j]
  BY <1>9, <1>18 DEF Restrict
<1>20. ItemOK(r)
  BY <1>16, <1>17 DEF ItemOK, ItemRecord
<1>21. ItemStates'
  <2>1. trayItems' = {j \in DOMAIN hostItems' : hostItems'[j].ready}
    <3>1. \A j \in DOMAIN hostItems : known[j].ready <=> j \in trayItems \cup {i}
      BY <1>17, <1>18 DEF TrayInv, ItemStates
    <3>2. trayItems \cup {i} \subseteq DOMAIN hostItems
      BY <1>12 DEF TrayInv, ItemStates
    <3>3. \A j \in DOMAIN hostItems' : hostItems'[j].ready <=> j \in trayItems'
      BY <1>9, <1>19, <3>1
    <3>4. trayItems' \subseteq DOMAIN hostItems'
      BY <1>9, <1>19, <3>2
    <3> QED  BY <3>3, <3>4
  <2>2. \A j \in DOMAIN hostItems' : ItemOK(hostItems'[j])
    BY <1>18, <1>19, <1>20 DEF TrayInv, ItemStates
  <2>3. Owned(trayWire', hostItems')
    BY <1>11, <1>14, <1>18, <1>19 DEF Owned
  <2>4. hostItems' \in [DOMAIN hostItems' -> ItemRecord]
    BY <1>9, <1>18, <1>19 DEF Restrict
  <2> QED  BY <1>19, <2>1, <2>2, <2>3, <2>4 DEF TrayInv, ItemStates
<1>22. PropertiesKnown'
  <2>1. ASSUME NEW j \in trayItems' \ trayUnseen'
        PROVE  /\ PropertyKnown(j, "title", hostItems[j].title, appTitle[j])'
               /\ PropertyKnown(j, "status", hostItems[j].status, appStatus[j])'
    <3>1. j \in DOMAIN hostItems' /\ hostItems'[j] = known[j]
      BY <1>19, <1>21, <2>1 DEF ItemStates
    <3>2. CASE j = i
      <4>1. hostItems'[j].title = m.title /\ hostItems'[j].status = m.status
        BY <1>17, <1>18, <3>1, <3>2
      <4> QED  BY <1>1, <1>13, <3>2, <4>1 DEF PropertyKnown, trayBus
    <3>3. CASE j # i
      <4>1. j \in trayItems \ trayUnseen /\ hostItems'[j] = hostItems[j]
        BY <1>9, <1>18, <1>19, <2>1, <3>1, <3>3
      <4> QED  BY <1>1, <1>11, <4>1 DEF TrayInv, PropertiesKnown, PropertyKnown, trayBus
    <3> QED  BY <3>2, <3>3
  <2> QED  BY <2>1 DEF PropertiesKnown
<1>23. TrayDrawn' /\ trayDp' \in BOOLEAN
  <2>1. CASE m.ok
    BY <1>9, <2>1 DEF TrayDrawn
  <2>2. CASE ~m.ok
    <3>1. gone = {i} /\ i \notin trayItems /\ trayDp' = trayDp
      BY <1>8, <1>9, <1>12, <1>15, <2>2 DEF TrayInv, ItemStates, TrayTypes
    <3>2. trayItems' = trayItems /\ \A j \in trayItems : hostItems'[j] = hostItems[j]
      BY <1>9, <1>18, <1>19, <3>1 DEF TrayInv, ItemStates
    <3> QED  BY <1>1, <3>1, <3>2 DEF TrayInv, TrayDrawn, TrayTypes
  <2> QED  BY <2>1, <2>2
<1>24. listening
  BY <1>12 DEF TrayInv, ListKnown
<1>25. ListKnown'
  BY <1>1, <1>9, <1>11, <1>19, <1>24 DEF TrayInv, ListKnown, trayBus, hostVars
<1>26. gone \subseteq TrayItem
  BY <1>8, <1>11, <1>18 DEF IgnoredNow, TrayInv, ItemStates
<1>27. TrayTypes'
  BY <1>1, <1>9, <1>11, <1>23, <1>26 DEF TrayInv, TrayTypes, trayBus, hostVars
<1> QED  BY <1>11, <1>21, <1>22, <1>23, <1>25, <1>27 DEF TrayInv

LEMMA TrayUpdateKeeps == TrayInv /\ TrayUpdate => TrayInv'
<1> SUFFICES ASSUME TrayInv, TrayUpdate PROVE TrayInv'
  OBVIOUS
<1>1. PICK gone : gone = IgnoredNow(hostItems)
  OBVIOUS
<1>2. /\ hostItems' = Restrict(hostItems, DOMAIN hostItems \ gone)
      /\ trayItems' = trayItems \ gone
      /\ trayUnseen' = trayUnseen \cup gone
      /\ trayDp' = (gone \cap trayItems # {})
      /\ trayShown' = \E i \in trayItems \ gone : hostItems[i].status # "passive"
      /\ UNCHANGED <<trayBus, hostVars>>
  BY <1>1 DEF TrayUpdate
<1>3. trayWire \in Seq(TrayMessage)
  BY DEF TrayInv, TrayTypes
<1>4. Cancels(trayWire, trayWire') /\ \A k \in DOMAIN trayWire : ~OfItems(gone, trayWire'[k])
  <2>1. PICK t \in Seq(TrayMessage) : t = trayWire
    BY <1>3
  <2>2. trayWire' = [k \in DOMAIN t |-> IF OfItems(gone, t[k]) THEN [name |-> "cancelled"] ELSE t[k]]
    BY <1>1, <2>1 DEF TrayUpdate, Cancel
  <2> QED  BY <2>1, <2>2, CancelOfItems
<1>5. trayWire' \in Seq(TrayMessage)
  BY <1>4 DEF Cancels
<1>6. /\ NoName(trayWire, 0) <=> NoName(trayWire', 0)
      /\ \A i : NoComing(trayWire, 0, i) <=> NoComing(trayWire', 0, i)
  BY <1>3, <1>4, CancelLater
<1>7. WireTells' /\ OneHostAnswer(trayWire', hostCall, hostWatcher)
  BY <1>2, <1>3, <1>4, CancelTells DEF TrayInv, WireTells, HostAsks, trayBus
<1>8. NamesAlternate(trayWire', watcherUp, HostFresh)
  BY <1>3, <1>4, AlternateCancelled DEF TrayInv, HostAsks
<1>9. HostAsks'
  BY <1>2, <1>6, <1>7, <1>8 DEF TrayInv, HostAsks, HostFresh, trayBus, hostVars
<1>10. ItemStates' /\ PropertiesKnown'
  <2>1. trayUnseen \subseteq trayUnseen' /\ UNCHANGED <<appTitle, appStatus>>
    BY <1>2 DEF trayBus
  <2> QED  BY <1>2, <1>3, <1>4, <2>1, ItemsErased DEF TrayInv, ItemStates, WireTells
<1>11. DOMAIN hostItems' = DOMAIN hostItems \ gone /\ \A i \in DOMAIN hostItems' : hostItems'[i] = hostItems[i]
  BY <1>2 DEF Restrict
<1>12. ListKnown'
  BY <1>2, <1>6, <1>11 DEF TrayInv, ListKnown, trayBus, hostVars
<1>13. TrayDrawn'
  <2>1. \A i \in trayItems' : hostItems'[i] = hostItems[i]
    BY <1>10, <1>11 DEF ItemStates
  <2> QED  BY <1>2, <2>1 DEF TrayDrawn
<1>14. gone \subseteq TrayItem
  BY <1>1 DEF IgnoredNow, TrayInv, ItemStates
<1>15. trayDp' \in BOOLEAN /\ trayShown' \in BOOLEAN
  BY <1>2
<1>16. TrayTypes'
  BY <1>2, <1>5, <1>14, <1>15 DEF TrayInv, TrayTypes, trayBus, hostVars
<1> QED  BY <1>7, <1>9, <1>10, <1>12, <1>13, <1>16 DEF TrayInv

LEMMA TrayInvariant == TraySpec => []TrayInv
<1>1. TrayInv /\ [TrayNext]_trayVars => TrayInv'
  <2> SUFFICES ASSUME TrayInv, [TrayNext]_trayVars PROVE TrayInv'
    OBVIOUS
  <2>1. CASE UNCHANGED trayVars
    BY <2>1 DEF trayVars, trayBus, hostVars, trayView, TrayInv, TrayTypes, WireTells, HostAsks, HostFresh, ListKnown,
                ItemStates, PropertiesKnown, PropertyKnown, TrayDrawn
  <2>2. ASSUME NEW i \in TrayItem, NEW v \in Titles, AppChanges(i, "title", v) PROVE TrayInv'
    BY <2>2, AppChangesKeeps DEF ItemProperty
  <2>3. ASSUME NEW i \in TrayItem, NEW v \in Statuses, AppChanges(i, "status", v) PROVE TrayInv'
    BY <2>3, AppChangesKeeps DEF ItemProperty
  <2>4. ASSUME NEW i \in TrayItem,
               AppStarts(i) \/ AppGoes(i) \/ AppAnswers(i) \/ HandleRegisterItem(i) \/ GetUpdatedProperties(i)
        PROVE  TrayInv'
    BY <2>4, AppStartsKeeps, AppGoesKeeps, AppAnswersKeeps, RegisterItemKeeps, AskKeeps
  <2>5. CASE UpdateRegisteredItems \/ WatcherComesOrGoes \/ \E ok \in BOOLEAN : WatcherAnswers(ok)
    BY <2>5, ItemsEmittedKeeps, WatcherMovesKeeps, WatcherAnswersKeeps
  <2>6. CASE NameAppeared \/ NameVanished \/ HostProxyReady \/ RetryFires \/ RegisterHost
    BY <2>6, AppearedKeeps, VanishedKeeps, ProxyReadyKeeps, RetryKeeps, RegisterHostKeeps
  <2>7. CASE ItemRegistered \/ ItemUnregistered \/ ItemsChanged \/ CancelledReturns
    BY <2>7, RegisteredKeeps, UnregisteredKeeps, ItemsChangedKeeps, CancelledKeeps
  <2>8. CASE ItemProxyReady \/ ItemChanged \/ ProcessUpdatedProperties \/ TrayUpdate
    BY <2>8, ItemReadyKeeps, ItemChangedKeeps, UpdatedKeeps, TrayUpdateKeeps
  <2> QED  BY <2>1, <2>2, <2>3, <2>4, <2>5, <2>6, <2>7, <2>8 DEF TrayNext
<1> QED  BY <1>1, TrayStarts, PTL DEF TraySpec

\* For any items, any number of retries and however the names, the calls, their answers and the
\* signals of the bus are ordered: the tray points only at items that the host owns and that are
\* ready, and at rest it shows the registered items as they are, except those whose coming or
\* going was not announced to a host that listened, that were ignored or did not answer
\* (host.cpp:101-261, item.cpp:117-156, 317-376, tray.cpp:61-116).
THEOREM TrayAlwaysAgrees == TraySpec => []TrayAgrees
BY TrayInvariant, TrayInvImplies, PTL

-----------------------------------------------------------------------------
(* The types of all of them.                                                  *)

LEMMA GroupTyped == GroupSpec => []GroupTypeOK
<1>1. GroupInit => GroupTypeOK
  <2> SUFFICES ASSUME GroupInit PROVE GroupTypeOK
    OBVIOUS
  <2>1. emptyClass \in BOOLEAN /\ outside \subseteq GroupModules
    BY FirstModuleAssumption DEF FirstModuleAssumption, GroupInit, EmptyNow
  <2>2. /\ classed = {} /\ notUpdated = {} /\ visibleModules = GroupModules /\ groupNews = 0
        /\ pointerIn = FALSE /\ revealTimer = FALSE /\ everEntered = FALSE /\ windowKnown = FALSE /\ cursorSet = FALSE
        /\ groupAlive = TRUE /\ revealed \in BOOLEAN /\ cursorTimer \in BOOLEAN
    BY DEF GroupInit
  <2>3. {emptyClass, revealed, pointerIn, revealTimer, everEntered, windowKnown, cursorTimer, cursorSet, groupAlive}
          \subseteq BOOLEAN
    BY <2>1, <2>2, Zenon
  <2> QED  BY <2>1, <2>2, <2>3, GroupAssumption DEF GroupAssumption, GroupTypeOK
<1>2. GroupInv' /\ GroupTypeOK /\ [GroupNext]_groupVars => GroupTypeOK'
  <2> SUFFICES ASSUME GroupInv', GroupTypeOK, [GroupNext]_groupVars PROVE GroupTypeOK'
    OBVIOUS
  <2> USE GroupAssumption DEF GroupAssumption, GroupTypeOK, groupModel, groupPointer, groupCursor, GroupBudget
  <2>1. CASE UNCHANGED groupVars
    BY <2>1 DEF groupVars
  <2>2. ASSUME NEW m \in GroupModules, ClassChanges(m) PROVE GroupTypeOK'
    BY <2>2 DEF ClassChanges
  <2>3. ASSUME NEW m \in GroupModules, NEW show \in BOOLEAN, ModuleUpdated(m, show) PROVE GroupTypeOK'
    <3>1. visibleModules' \subseteq GroupModules /\ emptyClass' \in BOOLEAN /\ outside' \subseteq GroupModules
      BY <2>3 DEF ModuleUpdated, GroupInv, EmptyNow
    <3> QED  BY <2>3, <3>1 DEF ModuleUpdated
  <2>4. CASE MouseEnter
    BY <2>4 DEF MouseEnter
  <2>5. CASE MouseLeave
    <3>1. revealTimer' \in BOOLEAN /\ revealed' \in BOOLEAN /\ pointerIn' = FALSE
      BY <2>5 DEF MouseLeave
    <3>2. UNCHANGED <<groupModel, groupCursor, groupAlive, everEntered>> /\ groupNews' \in 0..MaxGroupNews
      BY <2>5 DEF MouseLeave
    <3> QED  BY <3>1, <3>2
  <2>6. CASE RevealTimeout
    BY <2>6 DEF RevealTimeout
  <2>7. CASE ToggleDrawer
    BY <2>7 DEF ToggleDrawer
  <2>8. CASE Realized \/ CursorTimeout \/ DestroyGroup
    BY <2>8 DEF Realized, CursorTimeout, DestroyGroup
  <2> QED  BY <2>1, <2>2, <2>3, <2>4, <2>5, <2>6, <2>7, <2>8 DEF GroupNext
<1> QED  BY <1>1, <1>2, GroupInvariant, PTL DEF GroupSpec

\* What is left of the types of the bar.
BarRest ==
  /\ barMapped \in BOOLEAN /\ barTouched \in BOOLEAN /\ barVisible \in BOOLEAN /\ resetWhileUsed \in BOOLEAN
  /\ barNews \in 0..MaxBarNews
  /\ barMode \in {MODE_INVISIBLE, ConfiguredMode} \cup {c.mode : c \in BarConfigs}

LEMMA BarTyped == BarSpec => []BarTypeOK
<1>1. BarInit => BarRest
  <2> SUFFICES ASSUME BarInit PROVE BarRest
    OBVIOUS
  <2>1. barMode \in {MODE_INVISIBLE, barConfig.mode} /\ barConfig \in BarConfigs
    BY DEF BarInit, IpcMode
  <2>2. barNews = 0 /\ barMapped = FALSE /\ barTouched = FALSE /\ barVisible \in BOOLEAN /\ resetWhileUsed = FALSE
    BY DEF BarInit
  <2>3. barMode \in {MODE_INVISIBLE, ConfiguredMode} \cup {c.mode : c \in BarConfigs}
    BY <2>1
  <2>4. barMapped \in BOOLEAN /\ barTouched \in BOOLEAN /\ barVisible \in BOOLEAN /\ resetWhileUsed \in BOOLEAN
    BY <2>2
  <2>5. barNews \in 0..MaxBarNews
    BY <2>2, BarNewsAssumption DEF BarNewsAssumption
  <2> QED  BY <2>3, <2>4, <2>5 DEF BarRest
<1>2. SwayInv /\ SwayInv' /\ BarInv /\ BarRest /\ [BarNext]_barVars => BarRest'
  <2> SUFFICES ASSUME SwayInv, SwayInv', BarInv, BarRest, [BarNext]_barVars PROVE BarRest'
    OBVIOUS
  <2> USE DEF BarRest
  <2>0. barConfig' \in BarConfigs
    BY DEF SwayInv, SwayTypeOK
  <2>1. BarIpcUpdate => barMode' \in {MODE_INVISIBLE, ConfiguredMode} \cup {c.mode : c \in BarConfigs}
    BY <2>0 DEF BarIpcUpdate, IpcMode
  <2>2. CASE UNCHANGED barVars
    <3>1. UNCHANGED <<barLife, barNews, barVisible, barMode, ipcFlags>>
      BY <2>2 DEF barVars, barIpc
    <3> QED  BY <3>1 DEF barLife, ipcFlags
  <2>3. CASE ModifierChanges \/ BindingRuns \/ BindingModeChanges \/ (\E w \in UrgentWs : UrgencyChanges(w))
             \/ (\E c \in BarConfigs : BarConfigChanges(c)) \/ OtherBarChanges
    <3>1. UNCHANGED <<barLife, barVisible, barMode, ipcFlags>> /\ barNews < MaxBarNews /\ barNews' = barNews + 1
      BY <2>3 DEF ModifierChanges, BindingRuns, BindingModeChanges, UrgencyChanges, BarConfigChanges, OtherBarChanges, BarNews
    <3> QED  BY <3>1, BarNewsAssumption DEF BarNewsAssumption, barLife, ipcFlags
  <2>4. CASE OnVisibilityUpdate
    <3>1. resetWhileUsed' \in BOOLEAN
      BY <2>4 DEF OnVisibilityUpdate
    <3>2. UNCHANGED <<barNews, barLife, barVisible>>
      BY <2>4 DEF OnVisibilityUpdate, BarIpcUpdate
    <3> QED  BY <2>1, <2>4, <3>1, <3>2 DEF OnVisibilityUpdate, barLife
  <2>5. CASE \/ OnBarState \/ OnBarConfig \/ OnOtherBar \/ OnBinding \/ OnMode \/ OnWorkspace \/ OnCmd \/ ClearNoAction
    <3>1. UNCHANGED <<barNews, barLife, barVisible, barMode, resetWhileUsed>>
      BY <2>5 DEF OnBarState, OnBarConfig, OnOtherBar, OnBinding, OnMode, OnWorkspace, OnIpcEvent, OnCmd, ClearNoAction, IpcStep
    <3> QED  BY <3>1 DEF barLife
  <2>9. CASE OnModeUpdate \/ OnUrgencyUpdate \/ OnConfigUpdate
    <3>1. BarIpcUpdate /\ UNCHANGED resetWhileUsed
      BY <2>9 DEF OnModeUpdate, OnUrgencyUpdate, OnConfigUpdate
    <3>2. UNCHANGED <<barNews, barLife, barVisible>>
      BY <3>1 DEF BarIpcUpdate
    <3> QED  BY <2>1, <3>1, <3>2 DEF barLife
  <2>6. CASE \E value \in BOOLEAN : SetVisible(value)
    BY <2>6, BarNewsAssumption DEF BarNewsAssumption, SetVisible, barIpc, ipcFlags, barLife
  <2>7. CASE \E made \in BOOLEAN : GetModule(made)
    BY <2>7 DEF GetModule, barIpc, ipcFlags
  <2>8. CASE ShowAll \/ MapChanges \/ DestroyBar \/ FreeBarModules \/ CloseWindow
    <3>1. barTouched' \in BOOLEAN /\ barMapped' \in BOOLEAN
      BY <2>8 DEF ShowAll, MapChanges, DestroyBar, FreeBarModules, CloseWindow, ToggleSuspend
    <3>2. UNCHANGED <<barVisible, barMode, ipcFlags>>
      BY <2>8 DEF ShowAll, MapChanges, DestroyBar, FreeBarModules, CloseWindow, barIpc
    <3>3. barNews' = barNews \/ (barNews < MaxBarNews /\ barNews' = barNews + 1)
      BY <2>8 DEF ShowAll, MapChanges, DestroyBar, FreeBarModules, CloseWindow
    <3> QED  BY <3>1, <3>2, <3>3, BarNewsAssumption DEF BarNewsAssumption, ipcFlags
  <2> QED  BY <2>2, <2>3, <2>4, <2>5, <2>6, <2>7, <2>8, <2>9 DEF BarNext
<1>3. BarInv /\ SwayInv /\ BarRest => BarTypeOK
  BY DEF BarInv, SwayInv, SwayTypeOK, OnlySleepers, BarTypeOK, BarRest
<1>4. BarSpec => []BarRest
  BY <1>1, <1>2, BarInvariant, SwayInvariant, PTL DEF BarSpec
<1> QED  BY <1>3, <1>4, BarInvariant, SwayInvariant, PTL

\* Every output that is held was made in this run or an earlier one, for a monitor that appeared.
Dated == [addr : Address, monitor : 1..plugs, run : 0..reloads, done : BOOLEAN]
ClientRest ==
  /\ reloads \in 0..MaxReloads /\ quitting \in BOOLEAN /\ (quitting => reloads < MaxReloads)
  /\ outputs \in Seq(Dated) /\ pending \in Seq(Dated) /\ bars \in Seq(Dated)

LEMMA ClientRestKeeps == ASSUME ClientInv, ClientRest, [ClientNext]_clientVars PROVE ClientRest'
<1> USE ClientAssumption DEF ClientAssumption
<1>0. /\ plugs \in Nat /\ reloads \in Nat
      /\ outputs \in Seq(OutputRecord) /\ outputs \in Seq(Dated) /\ pending \in Seq(Dated) /\ bars \in Seq(Dated)
  BY DEF ClientInv, ClientTypes, ClientRest
<1>1. ASSUME plugs' = plugs, reloads' \in Nat, reloads <= reloads' PROVE \A s \in Seq(Dated) : s \in Seq(Dated')
  <2>1. Dated \subseteq Dated'
    BY <1>0, <1>1 DEF Dated
  <2> QED  BY <2>1
<1>2. ASSUME UNCHANGED <<plugs, reloads>> PROVE Dated' = Dated
  BY <1>2 DEF Dated
<1>3. CASE UNCHANGED clientVars
  BY <1>2, <1>3 DEF clientVars, ClientRest
<1>4. CASE MonitorAdded
  <2>1. plugs' = plugs + 1 /\ UNCHANGED <<reloads, quitting, pending, bars>>
    BY <1>4 DEF MonitorAdded
  <2>2. Dated \subseteq Dated' /\ \A a \in Address : Output(a, plugs') \in Dated'
    BY <1>0, <2>1 DEF Dated, Output
  <2>3. \A s \in Seq(Dated) : s \in Seq(Dated')
    BY <2>2
  <2>4. outputs' \in Seq(Dated')
    <3>1. CASE UNCHANGED outputs  BY <1>0, <2>3, <3>1
    <3>2. ASSUME NEW a \in Address, outputs' = Append(outputs, Output(a, plugs')) PROVE outputs' \in Seq(Dated')
      BY <1>0, <2>2, <2>3, <3>2
    <3> QED  BY <1>4, <3>1, <3>2 DEF MonitorAdded
  <2> QED  BY <1>0, <2>1, <2>3, <2>4 DEF ClientRest
<1>5. CASE (\E m \in monitors : MonitorRemoved(m)) \/ BatchEnds \/ Quit
  <2>1. UNCHANGED <<plugs, reloads, outputs, bars>> /\ (pending' = pending \/ pending' = <<>>)
        /\ (quitting' = quitting \/ (quitting' = TRUE /\ reloads < MaxReloads))
    BY <1>5 DEF MonitorRemoved, BatchEnds, Quit
  <2>2. pending' \in Seq(Dated)
    <3>1. CASE pending' = pending  BY <1>0, <3>1
    <3>2. CASE pending' = <<>>  BY <3>2
    <3> QED  BY <2>1, <3>1, <3>2
  <2>3. quitting' \in BOOLEAN /\ (quitting' => reloads < MaxReloads)
    <3>1. CASE quitting' = quitting  BY <3>1 DEF ClientRest
    <3>2. CASE quitting' = TRUE /\ reloads < MaxReloads  BY <3>2
    <3> QED  BY <2>1, <3>1, <3>2
  <2> QED  BY <1>0, <1>2, <2>1, <2>2, <2>3 DEF ClientRest
<1>6. ASSUME NEW i \in DOMAIN outputs, OutputDone(i) PROVE ClientRest'
  <2>1. UNCHANGED <<plugs, reloads, quitting, bars>> /\ outputs' = [outputs EXCEPT ![i].done = TRUE]
        /\ pending' = Append(pending, outputs[i])
    BY <1>6 DEF OutputDone, Pend
  <2>2. outputs[i] \in Dated /\ [outputs[i] EXCEPT !.done = TRUE] \in Dated
    <3>1. outputs[i] \in Dated
      BY <1>0
    <3> QED  BY <3>1 DEF Dated
  <2>3. outputs' \in Seq(Dated) /\ pending' \in Seq(Dated)
    BY <1>0, <2>1, <2>2
  <2> QED  BY <1>0, <1>2, <2>1, <2>3 DEF ClientRest
<1>7. CASE BatchBegins
  <2>1. UNCHANGED <<plugs, reloads, quitting, outputs, bars>>
    BY <1>7 DEF BatchBegins
  <2> DEFINE I == {i \in DOMAIN pending : pending[i].addr \in Addresses(outputs)}
  <2>2. pending' = At(pending, I)
    BY <1>7 DEF BatchBegins
  <2>3. I \in SUBSET (1..Len(pending))
    BY <1>0
  <2> HIDE DEF I
  <2>4. pending' \in Seq(Dated)
    BY <1>0, <2>2, <2>3, AtLeaves
  <2> QED  BY <1>0, <1>2, <2>1, <2>4 DEF ClientRest
<1>8. CASE BatchCreates
  <2>1. UNCHANGED <<plugs, reloads, quitting, outputs, pending>>
    BY <1>8 DEF BatchCreates
  <2>2. bars' \in Seq(Dated)
    BY <1>0, <1>8 DEF BatchCreates
  <2> QED  BY <1>0, <1>2, <2>1, <2>2 DEF ClientRest
<1>9. CASE Leave
  <2>1. UNCHANGED <<plugs, outputs, pending>> /\ quitting' = FALSE /\ bars' = <<>> /\ reloads' = reloads + 1
    BY <1>9 DEF Leave
  <2>2. reloads' \in 0..MaxReloads /\ ~quitting'
    <3>1. reloads < MaxReloads
      BY <1>9 DEF Leave, ClientRest
    <3> QED  BY <1>0, <2>1, <3>1
  <2>3. outputs' \in Seq(Dated') /\ pending' \in Seq(Dated') /\ bars' \in Seq(Dated')
    BY <1>0, <1>1, <2>1
  <2> QED  BY <2>1, <2>2, <2>3 DEF ClientRest
<1>10. CASE Removal
  <2>1. UNCHANGED <<plugs, reloads, quitting, pending>>
    BY <1>10 DEF Removal
  <2>2. ASSUME NEW s \in Seq(Dated), NEW m PROVE Elsewhere(s, m) \in Seq(Dated)
    <3> DEFINE I == {i \in DOMAIN s : s[i].monitor # m}
    <3>1. I \in SUBSET (1..Len(s)) /\ Elsewhere(s, m) = At(s, I)
      BY DEF Elsewhere
    <3> HIDE DEF I
    <3> QED  BY <3>1, AtLeaves
  <2>3. outputs' \in Seq(Dated) /\ bars' \in Seq(Dated)
    BY <1>0, <1>10, <2>2 DEF Removal
  <2> QED  BY <1>0, <1>2, <2>1, <2>3 DEF ClientRest
<1>11. CASE Bind
  <2>1. UNCHANGED <<plugs, reloads, quitting, bars>> /\ pending' = <<>> /\ outputs' \in NewOutputs
    BY <1>11 DEF Bind
  <2>2. /\ outputs' \in Seq(OutputRecord) /\ monitors \subseteq 1..plugs
        /\ \A i \in 1..Len(outputs') : outputs'[i].monitor \in monitors /\ outputs'[i].run = reloads
    BY <2>1, NewOutputsCover DEF ClientInv, ClientTypes
  <2>3. ASSUME NEW i \in 1..Len(outputs') PROVE outputs'[i] \in Dated
    <3>1. outputs'[i] \in OutputRecord
      BY <2>2
    <3>2. outputs'[i].monitor \in monitors /\ outputs'[i].run = reloads
      BY <2>2
    <3>3. reloads \in 0..reloads /\ monitors \subseteq 1..plugs
      BY <1>0, <2>2
    <3> QED  BY <3>1, <3>2, <3>3 DEF OutputRecord, Dated
  <2>4. outputs' \in Seq(Dated) /\ pending' \in Seq(Dated)
    BY <2>1, <2>2, <2>3
  <2> QED  BY <1>0, <1>2, <2>1, <2>4 DEF ClientRest
<1> QED  BY <1>3, <1>4, <1>5, <1>6, <1>7, <1>8, <1>9, <1>10, <1>11 DEF ClientNext

LEMMA ClientTyped == ClientSpec => []ClientTypeOK
<1>1. ClientInit => ClientRest
  <2> SUFFICES ASSUME ClientInit PROVE ClientRest
    OBVIOUS
  <2>1. reloads = 0 /\ quitting = FALSE /\ outputs = <<>> /\ pending = <<>> /\ bars = <<>>
    BY DEF ClientInit
  <2>2. outputs \in Seq(Dated) /\ pending \in Seq(Dated) /\ bars \in Seq(Dated)
    BY <2>1
  <2>3. reloads \in 0..MaxReloads
    BY <2>1, ClientAssumption DEF ClientAssumption
  <2>4. quitting \in BOOLEAN /\ ~quitting
    BY <2>1
  <2> QED  BY <2>2, <2>3, <2>4 DEF ClientRest
<1>2. ClientInv /\ ClientRest => ClientTypeOK
  <2> SUFFICES ASSUME ClientInv, ClientRest PROVE ClientTypeOK
    OBVIOUS
  <2>1. ASSUME NEW s \in Seq(Dated), NEW o \in ToSet(s) PROVE IsOutput(o)
    <3>1. o \in Dated
      BY <2>1 DEF ToSet
    <3> QED  BY <3>1 DEF Dated, IsOutput
  <2>2. \A o \in ToSet(outputs) \cup ToSet(pending) \cup ToSet(bars) : IsOutput(o)
    BY <2>1 DEF ClientRest
  <2>3. ToSet(idles) \subseteq {Batch} \cup 1..plugs /\ cursor \in 1..(Len(pending) + 1)
    BY ClientAssumption DEF ClientAssumption, ClientInv, ClientTypes, ToSet, Batch
  <2>4. \A i, j \in DOMAIN outputs :
          outputs[i].monitor = outputs[j].monitor \/ outputs[i].addr = outputs[j].addr => i = j
    <3>1. DOMAIN outputs = 1..Len(outputs)
      BY DEF ClientInv, ClientTypes
    <3> QED  BY <3>1 DEF ClientInv, OutputsApart
  <2> QED  BY <2>2, <2>3, <2>4 DEF ClientInv, ClientTypes, ClientRest, ClientTypeOK
<1> QED  BY <1>1, <1>2, ClientRestKeeps, ClientInvariant, PTL DEF ClientSpec

LEMMA TrayTyped == TraySpec => []TrayTypeOK
<1> DEFINE Rest == retries \in 0..MaxRetries /\ trayNews \in 0..MaxTrayNews
<1>1. TrayInit => Rest
  BY TrayAssumption DEF TrayAssumption, TrayInit
<1>2. Rest /\ [TrayNext]_trayVars => Rest'
  <2> SUFFICES ASSUME Rest, [TrayNext]_trayVars PROVE Rest'
    OBVIOUS
  <2> USE TrayAssumption DEF TrayAssumption, TrayNews, trayBus, hostVars
  <2>1. CASE UNCHANGED trayVars
    BY <2>1 DEF trayVars
  <2>2. ASSUME NEW i \in TrayItem, NEW p, NEW v, AppChanges(i, p, v) PROVE Rest'
    BY <2>2 DEF AppChanges
  <2>3. ASSUME NEW i \in TrayItem,
               AppStarts(i) \/ AppGoes(i) \/ AppAnswers(i) \/ HandleRegisterItem(i) \/ GetUpdatedProperties(i)
        PROVE  Rest'
    BY <2>3 DEF AppStarts, AppGoes, AppAnswers, HandleRegisterItem, GetUpdatedProperties
  <2>4. CASE UpdateRegisteredItems \/ WatcherComesOrGoes \/ \E ok \in BOOLEAN : WatcherAnswers(ok)
    <3>1. TrayNews \/ UNCHANGED trayNews
      BY <2>4 DEF UpdateRegisteredItems, WatcherComesOrGoes, WatcherAnswers
    <3>2. UNCHANGED retries
      BY <2>4 DEF UpdateRegisteredItems, WatcherComesOrGoes, WatcherAnswers
    <3> QED  BY <3>1, <3>2
  <2>5. CASE NameAppeared \/ NameVanished \/ RetryFires \/ RegisterHost
    BY <2>5 DEF NameAppeared, NameVanished, RetryFires, RegisterHost
  <2>6. CASE HostProxyReady
    BY <2>6 DEF HostProxyReady
  <2>7. CASE ItemRegistered \/ ItemUnregistered \/ ItemsChanged \/ CancelledReturns
    BY <2>7 DEF ItemRegistered, ItemUnregistered, ItemsChanged, CancelledReturns
  <2>8. CASE ItemProxyReady \/ ItemChanged \/ ProcessUpdatedProperties \/ TrayUpdate
    BY <2>8 DEF ItemProxyReady, ItemChanged, ProcessUpdatedProperties, TrayUpdate
  <2> QED  BY <2>1, <2>2, <2>3, <2>4, <2>5, <2>6, <2>7, <2>8 DEF TrayNext
<1>3. TrayInv /\ Rest => TrayTypeOK
  <2> SUFFICES ASSUME TrayInv, Rest PROVE TrayTypeOK
    OBVIOUS
  <2>1. \A i \in DOMAIN hostItems : hostItems[i].pending \subseteq ItemProperty
    BY DEF TrayInv, ItemStates, ItemRecord
  <2>2. trayItems \subseteq TrayItem
    BY DEF TrayInv, ItemStates
  <2> QED  BY <2>1, <2>2 DEF TrayInv, TrayTypes, ItemStates, TrayTypeOK
<1> QED  BY <1>1, <1>2, <1>3, TrayInvariant, PTL DEF TraySpec
-----------------------------------------------------------------------------
(* The components of MCDesktop: a step is one of a component, or leaves it     *)
(* alone.                                                                     *)

LEMMA StepsOfDesktop ==
  ASSUME Next
  PROVE  [ClientNext]_clientVars /\ [BarNext]_barVars /\ [GroupNext]_groupVars /\ [TrayNext]_trayVars /\ part' = part
<1>1. CASE InOutputsStep
  <2>1. UNCHANGED <<part, barVars, groupVars, trayVars>>
    BY <1>1 DEF InOutputsStep, InOutputs
  <2>2. ClientNext
    BY <1>1 DEF InOutputsStep, InOutputs, ClientNext
  <2> QED  BY <2>1, <2>2
<1>2. CASE InBarStep
  <2>1. UNCHANGED <<part, clientVars, groupVars, trayVars>>
    BY <1>2 DEF InBarStep, InBar
  <2>2. BarNext
    BY <1>2 DEF InBarStep, InBar, BarNext
  <2> QED  BY <2>1, <2>2
<1>5. CASE InSwayStep
  <2>1. UNCHANGED <<part, clientVars, groupVars, trayVars>>
    BY <1>5 DEF InSwayStep, InSway
  <2>2. BarNext
    BY <1>5 DEF InSwayStep, InSway, BarNext
  <2> QED  BY <2>1, <2>2
<1>3. CASE InGroupStep
  <2>1. UNCHANGED <<part, clientVars, barVars, trayVars>>
    BY <1>3 DEF InGroupStep, InGroup
  <2>2. GroupNext
    BY <1>3 DEF InGroupStep, InGroup, GroupNext
  <2> QED  BY <2>1, <2>2
<1>4. CASE InTrayStep
  <2>1. UNCHANGED <<part, clientVars, barVars, groupVars>>
    BY <1>4 DEF InTrayStep, InTray
  <2>2. TrayNext
    BY <1>4 DEF InTrayStep, InTray, TrayNext
  <2> QED  BY <2>1, <2>2
<1> QED  BY <1>1, <1>2, <1>3, <1>4, <1>5 DEF Next

\* The variables of the bars, of a group and of the tray have the types of the classes they are
\* members of, whatever runs; every output that is held is for a monitor that appeared, and
\* outputs_ has one for a monitor and one at an address (client.cpp, bar.cpp, group.cpp, sni).
THEOREM DesktopTyped == Spec => []DesktopTypeOK
<1>1. Init => ClientInit /\ BarInit /\ GroupInit /\ TrayInit /\ part \in Parts
  BY DEF Init
<1>2. [Next]_<<part, clientVars, barVars, groupVars, trayVars>> =>
        /\ [ClientNext]_clientVars /\ [BarNext]_barVars /\ [GroupNext]_groupVars /\ [TrayNext]_trayVars
        /\ part' = part
  <2>1. ASSUME UNCHANGED <<part, clientVars, barVars, groupVars, trayVars>>
        PROVE  UNCHANGED <<clientVars, barVars, groupVars, trayVars>> /\ part' = part
    BY <2>1
  <2> QED  BY <2>1, StepsOfDesktop
<1>3. Spec => ClientSpec /\ BarSpec /\ GroupSpec /\ TraySpec
  BY <1>1, <1>2, PTL DEF Spec, ClientSpec, BarSpec, GroupSpec, TraySpec
<1>4. part \in Parts /\ part' = part => (part \in Parts)'
  OBVIOUS
<1>5. Spec => [](part \in Parts)
  BY <1>1, <1>2, <1>4, PTL DEF Spec
<1>6. part \in Parts /\ ClientTypeOK /\ BarTypeOK /\ GroupTypeOK /\ TrayTypeOK => DesktopTypeOK
  BY DEF DesktopTypeOK
<1> QED  BY <1>3, <1>5, <1>6, ClientTyped, BarTyped, GroupTyped, TrayTyped, PTL

=============================================================================
