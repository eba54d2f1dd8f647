--------------------------- MODULE MCCompositors ----------------------------
(***************************************************************************)
(* The modules that follow a compositor, over small instances.  They share  *)
(* no state and never call each other, so that the states of all of them are *)
(* those of each: part says which one runs, and the others rest in one of   *)
(* their initial states.                                                    *)
(***************************************************************************)
EXTENDS HyprlandWorkspaces, HyprlandIpc, Niri, ExtWorkspaces, Taskbar, Sway

VARIABLE part   \* the component that runs

Parts == {"hyprland", "hyprland_ipc", "niri", "ext_workspaces", "taskbar", "sway"}

Bars == {{"language", "windowcount"}, {"window"}, {"submap"}}
Numbers == [n1 |-> 1, n3 |-> 3, a |-> -1, b |-> -1, p2 |-> 2, q |-> -1]
Layouts == {{"us"}, {"us", "de"}, {"fr"}}
Configured == <<"p2", "q">>
NiriConfigurations == {[all |-> FALSE, populated |-> FALSE, separate |-> TRUE], [all |-> TRUE, populated |-> TRUE, separate |-> FALSE]}
Names == {[number |-> 2, letters |-> 2], [number |-> 10, letters |-> 1], [number |-> -1, letters |-> 3]}
XwConfigurations == {[all |-> FALSE, activeOnly |-> FALSE, ignoreHidden |-> TRUE], [all |-> TRUE, activeOnly |-> TRUE, ignoreHidden |-> FALSE]}
AppOrder == [unknown |-> 3, a |-> 1, b |-> 2]
TaskbarConfigurations == {
  [all |-> FALSE, activeOnly |-> FALSE, sort |-> TRUE, squash |-> {"a"}, ignore |-> {"t"}, replace |-> [x \in {} |-> x], order |-> AppOrder],
  [all |-> TRUE, activeOnly |-> TRUE, sort |-> FALSE, squash |-> {"*"}, ignore |-> {"b"}, replace |-> [b |-> "a"], order |-> AppOrder]}

\* The initial state a component rests in while another one runs.
HyprlandRests == monitorOf = [w \in HyprWs |-> "none"]
HyprIpcRests == layout = (CHOOSE l \in Layout : TRUE) /\ submap = DefaultMap /\ life["submap"] = "none"
InNiriRests == niri.wins = [x \in {} |-> NoWin] /\ niri.ws[CHOOSE w \in NiriWs : TRUE] = [output |-> "ours", active |-> TRUE, focused |-> TRUE, urgent |-> FALSE, win |-> NoWin] /\ niriConfig.all
InExtRests == xwConfig.all /\ xwGroups = [g \in {CHOOSE g \in XwGroup : TRUE} |-> [here |-> TRUE, spaces |-> {CHOOSE s \in XwSpace : TRUE}]] /\ xwSpaces[1].name.number = 2
InTaskbarRests == tbConfig.all
InSwayRests == swayKind = "mode" /\ swayTruth = "default"

Init ==
  /\ part \in Parts
  /\ HyprWsInit /\ (part # "hyprland" => HyprlandRests)
  /\ IpcInit /\ (part # "hyprland_ipc" => HyprIpcRests)
  /\ NiriInit /\ (part # "niri" => InNiriRests)
  /\ XwInit /\ (part # "ext_workspaces" => InExtRests)
  /\ TaskbarInit /\ (part # "taskbar" => InTaskbarRests)
  /\ SwayInit /\ (part # "sway" => InSwayRests)

\* A step of one component.
Hyprland(A) == part = "hyprland" /\ A /\ UNCHANGED <<part, ipcVars, niriVars, xwVars, tbVars, swayVars>>
HyprIpc(A) == part = "hyprland_ipc" /\ A /\ UNCHANGED <<part, hyprWsVars, niriVars, xwVars, tbVars, swayVars>>
InNiri(A) == part = "niri" /\ A /\ UNCHANGED <<part, hyprWsVars, ipcVars, xwVars, tbVars, swayVars>>
InExt(A) == part = "ext_workspaces" /\ A /\ UNCHANGED <<part, hyprWsVars, ipcVars, niriVars, tbVars, swayVars>>
InTaskbar(A) == part = "taskbar" /\ A /\ UNCHANGED <<part, hyprWsVars, ipcVars, niriVars, xwVars, swayVars>>
InSway(A) == part = "sway" /\ A /\ UNCHANGED <<part, hyprWsVars, ipcVars, niriVars, xwVars, tbVars>>

HyprlandStep ==
  \/ \E w \in HyprWs, m \in {"here", "elsewhere"} : Hyprland(WsCreated(w, m)) \/ Hyprland(WsMoved(w, m))
  \/ \E w \in HyprWs : Hyprland(WsDestroyed(w))
  \/ \E x \in HyprWin, w \in HyprWs : Hyprland(WinOpened(x, w)) \/ Hyprland(WinMoved(x, w))
  \/ \E x \in HyprWin : Hyprland(WinClosed(x))
  \/ Hyprland(ConfigReloaded)
  \/ Hyprland(Construct)
  \/ Hyprland(RegisterIpc)
  \/ Hyprland(Unheard)
  \/ Hyprland(OnWorkspaceCreated)
  \/ Hyprland(OnWorkspaceDestroyed)
  \/ Hyprland(OnWorkspaceMoved)
  \/ Hyprland(OnWindowOpened)
  \/ Hyprland(OnWindowClosed)
  \/ Hyprland(OnWindowMoved)
  \/ Hyprland(OnConfigReloaded)
  \/ Hyprland(DoUpdate)

HyprIpcStep ==
  \/ HyprIpc(WindowOpens)
  \/ HyprIpc(WindowCloses)
  \/ \E l \in Layout, ours \in BOOLEAN : HyprIpc(LayoutChanges(l, ours))
  \/ \E k \in Keymap : HyprIpc(SubmapChanges(k))
  \/ \E m \in LabelModule :
       \/ HyprIpc(MakeModule(m)) \/ HyprIpc(RegisterForIPC(m)) \/ HyprIpc(LeaveModule(m)) \/ HyprIpc(UnregisterForIPC(m)) \/ HyprIpc(FreeModule(m))
       \/ HyprIpc(UpdateBegins(m)) \/ HyprIpc(UpdateEnds(m))
  \/ HyprIpc(LockWindows)
  \/ HyprIpc(ReadEvent)
  \/ \E m \in LabelModule : HyprIpc(AskingOnEvent(m)) \/ HyprIpc(HearingLocks(m))
  \/ HyprIpc(LanguageOnEvent)
  \/ HyprIpc(SubmapOnEvent)
  \/ HyprIpc(Called)
  \/ HyprIpc(SocketCloses)

InNiriStep ==
  \/ \E w \in NiriWs, focused \in BOOLEAN : InNiri(WorkspaceSwitched(w, focused))
  \/ \E x \in NiriWin, w \in NiriWs : InNiri(NiriWindowOpens(x, w))
  \/ \E x \in NiriWin, y \in NiriWin \cup {NoWin} : InNiri(NiriWindowCloses(x, y))
  \/ \E x \in NiriWin, w \in NiriWs, y \in NiriWin \cup {NoWin} : InNiri(NiriWindowMoves(x, w, y))
  \/ \E w \in NiriWs : InNiri(WorkspaceUrgent(w))
  \/ \E w \in NiriWs, o \in Outputs \cup {"none"} : InNiri(WorkspaceListChanges(w, o))
  \/ InNiri(LayerFocus)
  \/ \E count \in NiriLayouts, idx \in 0..1 : InNiri(NiriLayoutChanges(count, idx))
  \/ InNiri(StreamEnds)
  \/ InNiri(ConnectToSocket)
  \/ InNiri(ParseIPC)
  \/ \E m \in NiriModules : InNiri(NiriUpdate(m))

InExtStep ==
  \/ \E g \in XwGroup : InExt(GroupCreated(g))
  \/ \E g \in XwGroup : InExt(GroupRemoved(g))
  \/ \E g \in XwGroup, here \in BOOLEAN : InExt(GroupMoves(g, here))
  \/ \E g \in XwGroup, s \in XwSpace : InExt(WorkspaceEnters(g, s))
  \/ \E g \in XwGroup, s \in XwSpace : InExt(WorkspaceLeaves(g, s))
  \/ \E s \in XwSpace, n \in XwName : InExt(WorkspaceCreated(s, n))
  \/ \E s \in XwSpace, n \in XwName : InExt(WorkspaceNamed(s, n))
  \/ \E s \in XwSpace, state \in {{}, {"active"}, {"urgent", "hidden"}} : InExt(WorkspaceState(s, state))
  \/ \E s \in XwSpace : InExt(WorkspaceRemoved(s))
  \/ InExt(XwHandleDone)
  \/ InExt(XwUpdate)

InTaskbarStep ==
  \/ \E w \in TbWin, app \in TbApp, title \in TbTitle, here \in BOOLEAN : InTaskbar(TaskAppears(w, app, title, here))
  \/ \E w \in TbWin, title \in TbTitle : InTaskbar(TitleChanges(w, title))
  \/ \E w \in TbWin, app \in TbApp \ {""} : InTaskbar(AppIdChanges(w, app))
  \/ \E w \in TbWin, ours \in BOOLEAN : InTaskbar(OutputEntered(w, ours))
  \/ \E w \in TbWin, ours \in BOOLEAN : InTaskbar(OutputLeft(w, ours))
  \/ \E w \in TbWin, state \in {{}, {"active"}, {"active", "maximized"}, {"minimized"}} : InTaskbar(StateChanges(w, state))
  \/ \E w \in TbWin : InTaskbar(TaskDone(w))
  \/ \E w \in TbWin : InTaskbar(TaskCloses(w))
  \/ \E s \in TbSpace : InTaskbar(SpaceCreated(s))
  \/ \E s \in TbSpace : InTaskbar(SpaceActivated(s))
  \/ \E s \in TbSpace : InTaskbar(HandleWorkspaceRemoved(s))
  \/ InTaskbar(HandleWorkspaceDone)
  \/ InTaskbar(TaskbarUpdate)

InSwayStep ==
  \/ \E w \in SwayWs : InSway(WorkspaceInit(w)) \/ InSway(WorkspaceEmpty(w))
  \/ InSway(WindowChanges)
  \/ \E m \in SwayModes : InSway(ModeChanges(m))
  \/ \E l \in UNION Keymaps : InSway(LayoutSwitched(l)) \/ \E s \in Keymaps : InSway(KeymapChanges(s, l))
  \/ InSway(SwayAnswers)
  \/ InSway(SwayDropsUs)
  \/ InSway(SendSubscribe)
  \/ InSway(Subscribed)
  \/ InSway(EventBeforeReply)
  \/ InSway(FirstAsk)
  \/ InSway(ConstructorThrows)
  \/ InSway(ReadsEvent)
  \/ InSway(LosesConnection)
  \/ InSway(ReplyMissing)
  \/ InSway(Reopen)
  \/ InSway(Resubscribed)
  \/ InSway(TreeOnEvent)
  \/ InSway(ModeOnEvent)
  \/ InSway(SwayLanguageOnEvent)
  \/ InSway(SwayUpdate)

Next == HyprlandStep \/ HyprIpcStep \/ InNiriStep \/ InExtStep \/ InTaskbarStep \/ InSwayStep

Spec == Init /\ [][Next]_<<part, hyprWsVars, ipcVars, niriVars, xwVars, tbVars, swayVars>>

-----------------------------------------------------------------------------
\* The types of all of them.
CompositorsTypeOK == part \in Parts /\ HyprWsTypeOK /\ IpcTypeOK /\ NiriTypeOK /\ XwTypeOK /\ TaskbarTypeOK /\ SwayTypeOK

\* At rest the Hyprland modules show the compositor's workspaces, windows, layout and
\* submap (workspaces.cpp, window.cpp, windowcount.cpp, language.cpp, submap.cpp), but
\* for the races each of the three names.
HyprlandAgrees == WorkspacesAgree /\ WindowsAgree /\ LabelsAgree

\* The buttons of wlr/taskbar and of ext/workspaces fit the windows and workspaces whose
\* handles exist, in whatever order events come and handles go, and those of sway/workspaces
\* are in sway's order, the configured ones between them (taskbar.cpp, workspace_manager.cpp,
\* sway/workspaces.cpp:146).
ButtonsAgree == TaskbarFits /\ ExtWorkspacesAgree /\ SwayOrderKept
=============================================================================
