---------------------------------- MODULE Bar ----------------------------------
(***************************************************************************)
(* src/bar.cpp, and sway's control of a bar, src/modules/sway/bar.cpp.       *)
(*                                                                         *)
(* A bar makes its modules one by one, shows its window, and from then on    *)
(* suspends and resumes modules with it.  Its mode is set by signals (toggle, *)
(* show, hide) and, with "ipc", by BarIpcClient: a worker reads sway's events *)
(* off the wire, clears modifier_no_action_ itself, and hands the rest to the *)
(* main thread through four SafeSignals, each with a queue and a dispatcher  *)
(* of its own, so that the main thread may take them in any order.           *)
(*                                                                         *)
(* The bar has sway/mode and sway/workspaces, without which the events of    *)
(* modes and workspaces are not subscribed to, and its connection to sway    *)
(* holds.  The model begins where the client has subscribed: its             *)
(* configuration was asked for before, and what sway did until then is       *)
(* not told again.                                                         *)
(***************************************************************************)
EXTENDS Naturals, Sequences

CONSTANTS BarModules,   \* the modules of the configuration
          Sleepers,     \* those with disable-on-sleep
          UrgentWs,     \* workspaces that may become urgent
          BarConfigs,   \* the configurations sway may give: [mode, hiddenState]
          MaxBarNews    \* bound on what happens in sway, and on signals and maps

ASSUME BarNewsAssumption == MaxBarNews \in Nat

VARIABLES modifierHeld,     \* sway: the bar's modifier key is down
          modifierUsed,     \* history: something else was done while it was
          bindingMode,      \* sway: the binding mode is not the default
          urgentNow,        \* sway: workspaces that are urgent
          swayConfig,       \* sway: the bar's configuration
          barNews,
          barWire,          \* events of sway the worker has not read
          ipcPc,            \* the worker: "recv", "ask" (sendCmd), "clear" (the flag)
          signalVisible, signalMode, signalUrgency, signalConfig,
          barPhase,         \* "making", "alive", "freeing", "closing", "gone"
          modulesAll,       \* modules_all_, in order
          modulesLeft,      \* modules still to be made
          barFreed,         \* modules destroyed
          barMapped, mapConnected,
          suspendedModules,
          barTouched,       \* history: a module was called after it was freed
          barVisible,       \* Bar::visible
          barMode,          \* last_mode_
          modifierReset,    \* "modifier-reset"
          barConfig,        \* bar_config_
          visibleByModifier, visibleByMode, visibleByUrgency, modifierNoAction,
          resetWhileUsed,   \* history: a release that followed other use cleared the flags
          missed,           \* history: what the client could not know, see Excuses
          signalled         \* history: a signal set the mode since sway last did

barSway == <<modifierHeld, modifierUsed, bindingMode, urgentNow, swayConfig>>
barQueues == <<signalVisible, signalMode, signalUrgency, signalConfig>>
barLife == <<barPhase, modulesAll, modulesLeft, barFreed, barMapped, mapConnected, suspendedModules, barTouched>>
ipcFlags == <<barConfig, visibleByModifier, visibleByMode, visibleByUrgency, modifierNoAction, resetWhileUsed>>
barIpc == <<barWire, ipcPc, barQueues, ipcFlags, missed>>
barVars == <<barSway, barNews, barIpc, barLife, barVisible, barMode, modifierReset, signalled>>

\* "modifier", "config": sway has not told of it since the client subscribed, and it changed
\* before.  "urgency": the worker passed over the end of an urgency that the main thread had
\* not handled yet.  "press": it cleared modifier_no_action_ before the main thread had
\* handled the press.
Excuses == {"modifier", "config", "urgency", "press"}

\* The preset "invisible", where setMode() makes the window transparent.
MODE_INVISIBLE == "invisible"
ConfiguredMode == "default"

-----------------------------------------------------------------------------
\* sway.  What the worker has read before the bar is alive is what it would have read then,
\* before the main thread handles any of it.
BarNews(e) ==
  /\ barPhase = "alive" /\ barNews < MaxBarNews
  /\ barNews' = barNews + 1
  /\ barWire' = Append(barWire, e)
  /\ UNCHANGED <<ipcPc, barQueues, ipcFlags, barLife, barVisible, barMode, modifierReset, signalled>>

ModifierChanges ==
  /\ modifierHeld' = ~modifierHeld
  /\ modifierUsed' = (modifierUsed /\ modifierHeld)
  /\ BarNews([name |-> "bar_state_update", held |-> ~modifierHeld, used |-> modifierUsed])
  /\ missed' = missed \ {"modifier"}
  /\ UNCHANGED <<bindingMode, urgentNow, swayConfig>>

\* A key binding runs, or the workspaces change in another way than by an urgency.
BindingRuns ==
  /\ modifierUsed' = modifierHeld
  /\ BarNews([name |-> "binding"])
  /\ UNCHANGED <<modifierHeld, bindingMode, urgentNow, swayConfig, missed>>

BindingModeChanges ==
  /\ bindingMode' = ~bindingMode
  /\ modifierUsed' = modifierHeld
  /\ BarNews([name |-> "mode", set |-> ~bindingMode])
  /\ UNCHANGED <<modifierHeld, urgentNow, swayConfig, missed>>

UrgencyChanges(w) ==
  /\ urgentNow' = IF w \in urgentNow THEN urgentNow \ {w} ELSE urgentNow \cup {w}
  /\ modifierUsed' = modifierHeld
  /\ BarNews([name |-> "workspace", urgent |-> w \notin urgentNow])
  /\ UNCHANGED <<modifierHeld, bindingMode, swayConfig, missed>>

BarConfigChanges(c) ==
  /\ swayConfig' = c
  /\ BarNews([name |-> "barconfig_update", config |-> c])
  /\ missed' = missed \ {"config"}
  /\ UNCHANGED <<modifierHeld, modifierUsed, bindingMode, urgentNow>>

\* The state or the configuration of a bar with another id.
OtherBarChanges ==
  /\ BarNews([name |-> "other bar"])
  /\ UNCHANGED <<barSway, missed>>

-----------------------------------------------------------------------------
\* The worker: onIpcEvent() and, in the middle of it, onCmd().
OnIpcEvent(name) ==
  /\ barPhase = "alive"
  /\ ipcPc = "recv" /\ barWire # <<>> /\ Head(barWire).name = name
  /\ barWire' = Tail(barWire)
  /\ UNCHANGED <<barSway, barNews, barLife, barVisible, barMode, modifierReset, signalled, barConfig,
                 visibleByModifier, visibleByMode, visibleByUrgency, resetWhileUsed>>

PressQueued == \E i \in DOMAIN signalVisible : signalVisible[i].held
UrgencyQueued == \E i \in DOMAIN signalUrgency : signalUrgency[i]

NoActionCleared ==
  /\ modifierNoAction' = FALSE
  /\ missed' = IF PressQueued THEN missed \cup {"press"} ELSE missed

OnBarState ==
  /\ OnIpcEvent("bar_state_update")
  /\ signalVisible' = Append(signalVisible, [held |-> Head(barWire).held, used |-> Head(barWire).used])
  /\ missed' = IF Head(barWire).held /\ signalVisible = <<>> THEN missed \ {"press"} ELSE missed
  /\ UNCHANGED <<ipcPc, signalMode, signalUrgency, signalConfig, modifierNoAction>>

OnBarConfig ==
  /\ OnIpcEvent("barconfig_update")
  /\ signalConfig' = Append(signalConfig, Head(barWire).config)
  /\ UNCHANGED <<ipcPc, signalVisible, signalMode, signalUrgency, modifierNoAction, missed>>

OnOtherBar ==
  /\ OnIpcEvent("other bar")
  /\ UNCHANGED <<ipcPc, barQueues, modifierNoAction, missed>>

OnBinding ==
  /\ OnIpcEvent("binding")
  /\ NoActionCleared
  /\ UNCHANGED <<ipcPc, barQueues>>

OnMode ==
  /\ OnIpcEvent("mode")
  /\ signalMode' = Append(signalMode, Head(barWire).set)
  /\ ipcPc' = "clear"
  /\ UNCHANGED <<signalVisible, signalUrgency, signalConfig, modifierNoAction, missed>>

\* A workspace that is no longer urgent, while the bar shows for one, makes it ask for all
\* workspaces.  The flag is the one the main thread has got to.
OnWorkspace ==
  /\ OnIpcEvent("workspace")
  /\ LET urgent == Head(barWire).urgent
     IN /\ signalUrgency' = IF urgent THEN Append(signalUrgency, TRUE) ELSE signalUrgency
        /\ ipcPc' = IF ~urgent /\ visibleByUrgency THEN "ask" ELSE "clear"
        /\ missed' = IF urgent \/ visibleByUrgency THEN missed \ {"urgency"}
                     ELSE IF UrgencyQueued THEN missed \cup {"urgency"} ELSE missed
  /\ UNCHANGED <<signalVisible, signalMode, signalConfig, modifierNoAction>>

IpcStep(from, to) ==
  /\ barPhase = "alive"
  /\ ipcPc = from /\ ipcPc' = to
  /\ UNCHANGED <<barSway, barNews, barWire, barLife, barVisible, barMode, modifierReset, signalled, barConfig,
                 visibleByModifier, visibleByMode, visibleByUrgency, resetWhileUsed>>

OnCmdKeeping == \* mutant: it does not look whether another workspace is still urgent
  /\ IpcStep("ask", "clear")
  /\ signalUrgency' = Append(signalUrgency, TRUE)
  /\ UNCHANGED <<signalVisible, signalMode, signalConfig, modifierNoAction, missed>>

OnCmd ==
  /\ IpcStep("ask", "clear")
  /\ signalUrgency' = Append(signalUrgency, urgentNow # {})
  /\ UNCHANGED <<signalVisible, signalMode, signalConfig, modifierNoAction, missed>>

ClearNoAction ==
  /\ IpcStep("clear", "recv")
  /\ NoActionCleared
  /\ UNCHANGED barQueues

-----------------------------------------------------------------------------
\* The main thread.  update() decides; Bar::setMode() follows.
IpcMode(c, modifier, mode, urgency) ==
  IF c.mode = "invisible" THEN MODE_INVISIBLE
  ELSE IF c.mode # "hide" \/ c.hiddenState # "hide" \/ modifier \/ mode \/ urgency THEN c.mode
  ELSE MODE_INVISIBLE

BarIpcUpdate ==
  /\ barPhase = "alive"
  /\ barMode' = IpcMode(barConfig', visibleByModifier', visibleByMode', visibleByUrgency')
  /\ signalled' = FALSE
  /\ UNCHANGED <<barSway, barNews, barWire, ipcPc, barLife, barVisible, modifierReset, missed>>

\* A key press, or a release after nothing else was done with the key, hides the bar.
OnVisibilityUpdate ==
  /\ signalVisible # <<>> /\ signalVisible' = Tail(signalVisible)
  /\ LET held == Head(signalVisible).held
         clears == \/ held /\ modifierReset = "press"
                   \/ ~held /\ modifierReset = "release" /\ modifierNoAction
     IN /\ visibleByModifier' = held
        /\ modifierNoAction' = (held \/ modifierNoAction)
        /\ visibleByUrgency' = (visibleByUrgency /\ ~clears)
        /\ visibleByMode' = (visibleByMode /\ ~clears)
        /\ resetWhileUsed' = (resetWhileUsed \/ (clears /\ ~held /\ Head(signalVisible).used /\ "press" \notin missed))
  /\ UNCHANGED <<barConfig, signalMode, signalUrgency, signalConfig>>
  /\ BarIpcUpdate

OnModeUpdate ==
  /\ signalMode # <<>> /\ signalMode' = Tail(signalMode)
  /\ visibleByMode' = Head(signalMode)
  /\ UNCHANGED <<barConfig, visibleByModifier, visibleByUrgency, modifierNoAction, resetWhileUsed>>
  /\ UNCHANGED <<signalVisible, signalUrgency, signalConfig>>
  /\ BarIpcUpdate

OnUrgencyUpdate ==
  /\ signalUrgency # <<>> /\ signalUrgency' = Tail(signalUrgency)
  /\ visibleByUrgency' = Head(signalUrgency)
  /\ UNCHANGED <<barConfig, visibleByModifier, visibleByMode, modifierNoAction, resetWhileUsed>>
  /\ UNCHANGED <<signalVisible, signalMode, signalConfig>>
  /\ BarIpcUpdate

OnConfigUpdate ==
  /\ signalConfig # <<>> /\ signalConfig' = Tail(signalConfig)
  /\ barConfig' = Head(signalConfig)
  /\ UNCHANGED <<visibleByModifier, visibleByMode, visibleByUrgency, modifierNoAction, resetWhileUsed>>
  /\ UNCHANGED <<signalVisible, signalMode, signalUrgency>>
  /\ BarIpcUpdate

-----------------------------------------------------------------------------
\* Signals: toggle(), show(), hide().
SetVisible(value) ==
  /\ barPhase = "alive" /\ barNews < MaxBarNews
  /\ barNews' = barNews + 1
  /\ barVisible' = value
  /\ barMode' = IF value THEN ConfiguredMode ELSE MODE_INVISIBLE
  /\ signalled' = TRUE
  /\ UNCHANGED <<barSway, barIpc, barLife, modifierReset>>

\* getModules() leaves out a module whose constructor throws.
GetModule(made) ==
  /\ barPhase = "making" /\ modulesLeft # <<>>
  /\ modulesLeft' = Tail(modulesLeft)
  /\ modulesAll' = IF made THEN Append(modulesAll, Head(modulesLeft)) ELSE modulesAll
  /\ UNCHANGED <<barSway, barNews, barIpc, barPhase, barFreed, barMapped, mapConnected, suspendedModules,
                 barTouched, barVisible, barMode, modifierReset, signalled>>

ModuleSet == {modulesAll[i] : i \in DOMAIN modulesAll}

\* toggleSuspend() walks modules_all_, whatever has become of the modules.
ToggleSuspend(suspend) ==
  /\ suspendedModules' = IF suspend THEN suspendedModules \cup (ModuleSet \cap Sleepers)
                         ELSE suspendedModules \ ModuleSet
  /\ barTouched' = (barTouched \/ ModuleSet \cap barFreed # {})

\* window.show_all(): the window is mapped for the first time.
ShowAll ==
  /\ barPhase = "making" /\ modulesLeft = <<>>
  /\ barPhase' = "alive" /\ barMapped' = TRUE
  /\ ToggleSuspend(FALSE)
  /\ UNCHANGED <<barSway, barNews, barIpc, modulesAll, modulesLeft, barFreed, mapConnected,
                 barVisible, barMode, modifierReset, signalled>>

MapChanges ==
  /\ barPhase = "alive" /\ barNews < MaxBarNews
  /\ barNews' = barNews + 1
  /\ barMapped' = ~barMapped
  /\ ToggleSuspend(barMapped)
  /\ UNCHANGED <<barSway, barIpc, barPhase, modulesAll, modulesLeft, barFreed, mapConnected,
                 barVisible, barMode, modifierReset, signalled>>

\* ~Bar(), and then its members from last to first: the modules go before the window.
DestroyBar ==
  /\ barPhase = "alive" /\ barPhase' = "freeing"
  /\ mapConnected' = FALSE
  /\ UNCHANGED <<barSway, barNews, barIpc, modulesAll, modulesLeft, barFreed, barMapped,
                 suspendedModules, barTouched, barVisible, barMode, modifierReset, signalled>>

FreeBarModules ==
  /\ barPhase = "freeing" /\ barPhase' = "closing"
  /\ barFreed' = ModuleSet
  /\ UNCHANGED <<barSway, barNews, barIpc, modulesAll, modulesLeft, barMapped, mapConnected,
                 suspendedModules, barTouched, barVisible, barMode, modifierReset, signalled>>

\* Destroying a mapped window unmaps it.
CloseWindow ==
  /\ barPhase = "closing" /\ barPhase' = "gone"
  /\ barMapped' = FALSE
  /\ IF barMapped /\ mapConnected THEN ToggleSuspend(TRUE) ELSE UNCHANGED <<suspendedModules, barTouched>>
  /\ UNCHANGED <<barSway, barNews, barIpc, modulesAll, modulesLeft, barFreed, mapConnected,
                 barVisible, barMode, modifierReset, signalled>>

-----------------------------------------------------------------------------
BarInit ==
  /\ modifierHeld \in BOOLEAN /\ modifierUsed = FALSE /\ bindingMode \in BOOLEAN /\ urgentNow \in SUBSET UrgentWs
  /\ barNews = 0 /\ barWire = <<>> /\ ipcPc = "recv"
  /\ signalVisible = <<>> /\ signalMode = <<>> /\ signalUrgency = <<>> /\ signalConfig = <<>>
  /\ barPhase = "making" /\ modulesAll = <<>> /\ modulesLeft = BarModules /\ barFreed = {}
  /\ barMapped = FALSE /\ mapConnected = TRUE /\ suspendedModules = {} /\ barTouched = FALSE
  /\ barVisible \in BOOLEAN
  /\ modifierReset \in {"press", "release"}
  /\ barConfig \in BarConfigs /\ swayConfig \in BarConfigs
  /\ missed = (IF modifierHeld THEN {"modifier"} ELSE {}) \cup (IF barConfig # swayConfig THEN {"config"} ELSE {})
  /\ visibleByModifier = FALSE /\ visibleByMode = FALSE /\ visibleByUrgency = FALSE
  /\ modifierNoAction = FALSE /\ resetWhileUsed = FALSE /\ signalled = FALSE
  /\ barMode = IpcMode(barConfig, FALSE, FALSE, FALSE)

BarNext ==
  \/ ModifierChanges
  \/ BindingRuns
  \/ BindingModeChanges
  \/ \E w \in UrgentWs : UrgencyChanges(w)
  \/ \E c \in BarConfigs : BarConfigChanges(c)
  \/ OtherBarChanges
  \/ OnBarState \/ OnBarConfig \/ OnOtherBar \/ OnBinding \/ OnMode \/ OnWorkspace \/ OnCmd \/ ClearNoAction
  \/ OnVisibilityUpdate \/ OnModeUpdate \/ OnUrgencyUpdate \/ OnConfigUpdate
  \/ \E value \in BOOLEAN : SetVisible(value)
  \/ \E made \in BOOLEAN : GetModule(made)
  \/ ShowAll
  \/ MapChanges
  \/ DestroyBar
  \/ FreeBarModules
  \/ CloseWindow

BarSpec == BarInit /\ [][BarNext]_barVars

-----------------------------------------------------------------------------
BarTypeOK ==
  /\ {modifierHeld, modifierUsed, bindingMode, barMapped, mapConnected, barTouched, barVisible,
      visibleByModifier, visibleByMode, visibleByUrgency, modifierNoAction, resetWhileUsed, signalled}
       \subseteq BOOLEAN
  /\ urgentNow \subseteq UrgentWs /\ barNews \in 0..MaxBarNews
  /\ barPhase \in {"making", "alive", "freeing", "closing", "gone"}
  /\ suspendedModules \subseteq Sleepers /\ {barConfig, swayConfig} \subseteq BarConfigs
  /\ ipcPc \in {"recv", "ask", "clear"} /\ missed \subseteq Excuses
  /\ barMode \in {MODE_INVISIBLE, ConfiguredMode} \cup {c.mode : c \in BarConfigs}

\* Modules sleep exactly while their bar's window is unmapped, and none is called once it is
\* freed: neither by the unmap that destroying the window emits (bar.cpp:354-359, 759-774).
SuspendFollowsMap ==
  /\ barPhase = "alive" => suspendedModules = IF barMapped THEN {} ELSE ModuleSet \cap Sleepers
  /\ ~barTouched

\* The worker has read everything and the main thread has handled it.
BarQuiet ==
  /\ barPhase = "alive" /\ barWire = <<>> /\ ipcPc = "recv" /\ ~signalled
  /\ signalVisible = <<>> /\ signalMode = <<>> /\ signalUrgency = <<>> /\ signalConfig = <<>>

\* At rest the client has sway's configuration, and a bar that sway hides is shown while the
\* modifier is held, and otherwise only for a binding mode or a workspace that really is
\* urgent, in whatever order the four queues were handled (sway/bar.cpp:100-219).  It stays
\* shown for no workspace when the worker read of its end before the main thread had handled
\* its beginning (113).
HiddenBarFollowsSway ==
  BarQuiet =>
    /\ barConfig = swayConfig \/ "config" \in missed
    /\ barConfig = [mode |-> "hide", hiddenState |-> "hide"] =>
         /\ modifierHeld => barMode = "hide" \/ "modifier" \in missed
         /\ barMode = "hide" => modifierHeld \/ bindingMode \/ urgentNow # {} \/ "urgency" \in missed

\* sway/bar.cpp:194: a release clears the flags only if the key was not used for another
\* action, unless the worker read of that action before the main thread handled the press.
ReleaseSparesUsedModifier == ~resetWhileUsed
=============================================================================
