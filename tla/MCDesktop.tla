----------------------------- MODULE MCDesktop ------------------------------
(***************************************************************************)
(* The bar and the modules of the desktop's services, over small instances. *)
(* They share no state and never call each other, so that the states of all *)
(* of them are those of each: part says which one runs, and the others rest *)
(* in one of their initial states.  A bar runs twice: its life, with what sway *)
(* does left out, and its talk with sway while it is alive.                  *)
(***************************************************************************)
EXTENDS ClientOutputs, Bar, Group, Tray

VARIABLE part   \* the component that runs

Parts == {"outputs", "bar", "sway", "group", "tray"}

ModulesOfBar == <<"m1", "m2">>
SwayBarConfigs == {[mode |-> m, hiddenState |-> "hide"] : m \in {"hide", "dock", "invisible"}}

\* The initial state a component rests in while another one runs.
InOutputsRests == plugs = 0
InBarRests == barVisible /\ modifierReset = "press"
InSwayRests ==
  /\ barConfig = [mode |-> "hide", hiddenState |-> "hide"] /\ swayConfig = barConfig
  /\ ~modifierHeld /\ ~bindingMode /\ urgentNow = {}
InGroupRests == ~revealed /\ ~cursorTimer /\ \A f \in DOMAIN groupConfig : ~groupConfig[f]
InTrayRests == ~watcherUp /\ \A i \in TrayItem : appTitle[i] = "plain" /\ appStatus[i] = "active" /\ ~appUp[i]

Init ==
  /\ part \in Parts
  /\ ClientInit /\ (part # "outputs" => InOutputsRests)
  /\ BarInit /\ (part # "sway" => InSwayRests) /\ (part \notin {"bar", "sway"} => InBarRests)
  /\ GroupInit /\ (part # "group" => InGroupRests)
  /\ TrayInit /\ (part # "tray" => InTrayRests)

\* A step of one component.
InOutputs(A) == part = "outputs" /\ A /\ UNCHANGED <<part, barVars, groupVars, trayVars>>
InBar(A) == part = "bar" /\ A /\ UNCHANGED <<part, clientVars, groupVars, trayVars>>
InSway(A) == part = "sway" /\ A /\ UNCHANGED <<part, clientVars, groupVars, trayVars>>
InGroup(A) == part = "group" /\ A /\ UNCHANGED <<part, clientVars, barVars, trayVars>>
InTray(A) == part = "tray" /\ A /\ UNCHANGED <<part, clientVars, barVars, groupVars>>

InOutputsStep ==
  \/ InOutputs(MonitorAdded)
  \/ \E m \in monitors : InOutputs(MonitorRemoved(m))
  \/ \E i \in DOMAIN outputs : InOutputs(OutputDone(i))
  \/ InOutputs(BatchBegins)
  \/ InOutputs(BatchCreates)
  \/ InOutputs(BatchEnds)
  \/ InOutputs(Removal)
  \/ InOutputs(Quit)
  \/ InOutputs(Leave)
  \/ InOutputs(Bind)

InBarStep ==
  \/ \E value \in BOOLEAN : InBar(SetVisible(value))
  \/ \E made \in BOOLEAN : InBar(GetModule(made))
  \/ InBar(ShowAll)
  \/ InBar(MapChanges)
  \/ InBar(DestroyBar)
  \/ InBar(FreeBarModules)
  \/ InBar(CloseWindow)

InSwayStep ==
  \/ InSway(ModifierChanges)
  \/ InSway(BindingRuns)
  \/ InSway(BindingModeChanges)
  \/ \E w \in UrgentWs : InSway(UrgencyChanges(w))
  \/ \E c \in BarConfigs : InSway(BarConfigChanges(c))
  \/ InSway(OtherBarChanges)
  \/ InSway(OnBarState)
  \/ InSway(OnBarConfig)
  \/ InSway(OnOtherBar)
  \/ InSway(OnBinding)
  \/ InSway(OnMode)
  \/ InSway(OnWorkspace)
  \/ InSway(OnCmd)
  \/ InSway(ClearNoAction)
  \/ InSway(OnVisibilityUpdate)
  \/ InSway(OnModeUpdate)
  \/ InSway(OnUrgencyUpdate)
  \/ InSway(OnConfigUpdate)
  \/ \E value \in BOOLEAN : InSway(SetVisible(value))
  \/ InSway(GetModule(TRUE))
  \/ InSway(ShowAll)

InGroupStep ==
  \/ \E m \in GroupModules : InGroup(ClassChanges(m)) \/ \E show \in BOOLEAN : InGroup(ModuleUpdated(m, show))
  \/ InGroup(MouseEnter)
  \/ InGroup(MouseLeave)
  \/ InGroup(RevealTimeout)
  \/ InGroup(ToggleDrawer)
  \/ InGroup(Realized)
  \/ InGroup(CursorTimeout)
  \/ InGroup(DestroyGroup)

InTrayStep ==
  \/ \E i \in TrayItem :
       \/ InTray(AppStarts(i)) \/ InTray(AppGoes(i)) \/ InTray(AppAnswers(i)) \/ InTray(HandleRegisterItem(i))
       \/ InTray(GetUpdatedProperties(i))
       \/ \E v \in Titles \ {appTitle[i]} : InTray(AppChanges(i, "title", v))
       \/ \E v \in Statuses \ {appStatus[i]} : InTray(AppChanges(i, "status", v))
  \/ InTray(UpdateRegisteredItems)
  \/ InTray(WatcherComesOrGoes)
  \/ \E ok \in BOOLEAN : InTray(WatcherAnswers(ok))
  \/ InTray(NameAppeared)
  \/ InTray(NameVanished)
  \/ InTray(HostProxyReady)
  \/ InTray(RetryFires)
  \/ InTray(RegisterHost)
  \/ InTray(ItemRegistered)
  \/ InTray(ItemUnregistered)
  \/ InTray(ItemsChanged)
  \/ InTray(ItemProxyReady)
  \/ InTray(ItemChanged)
  \/ InTray(ProcessUpdatedProperties)
  \/ InTray(CancelledReturns)
  \/ InTray(TrayUpdate)

Next == InOutputsStep \/ InBarStep \/ InSwayStep \/ InGroupStep \/ InTrayStep

Spec == Init /\ [][Next]_<<part, clientVars, barVars, groupVars, trayVars>>

-----------------------------------------------------------------------------
\* The types of all of them.
DesktopTypeOK == part \in Parts /\ ClientTypeOK /\ BarTypeOK /\ GroupTypeOK /\ TrayTypeOK

\* Monitors and bars: no batch follows a stale pointer, no monitor gets its bars twice,
\* and the bars become those of the monitors there are (client.cpp:97-205).
BarsFollowOutputs == BarsOnOutputs /\ BatchFollowsPointers /\ NoBarTwice /\ BarsSettled

\* The bar's modules sleep while its window is unmapped, and none is called once freed; a
\* hidden bar is shown exactly as sway's last word says, and the release of a modifier that
\* was used for something else changes nothing (bar.cpp:354-359, sway/bar.cpp:100-219).
BarAgrees == SuspendFollowsMap /\ HiddenBarFollowsSway /\ ReleaseSparesUsedModifier

\* The drawer shows outside what is active and inside what is not, and is open while the
\* pointer is in it (group.cpp).
DrawerFollows == DrawerShowsActive /\ DrawerFollowsPointer
=============================================================================
