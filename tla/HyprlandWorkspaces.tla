------------------------- MODULE HyprlandWorkspaces -------------------------
(***************************************************************************)
(* src/modules/hyprland/workspaces.cpp: a bar's copy of the compositor's     *)
(* workspaces and of the windows in them.                                   *)
(*                                                                         *)
(* The copy starts from a snapshot and then follows events.  Their handlers *)
(* run on the IPC thread and mostly queue: workspaces to create and to      *)
(* remove, windows to create.  The main thread works the queues off in      *)
(* doUpdate(), up to 7 ms after the last event.  Handlers and doUpdate()    *)
(* hold m_mutex, and are one step each here; what they ask the compositor   *)
(* is answered from its state of that moment, which may be ahead of the     *)
(* events that are still on the wire.                                       *)
(*                                                                         *)
(* "here" stands for the workspaces that pass the module's filters: its     *)
(* monitor (or all-outputs), show-special, ignore-workspaces.               *)
(***************************************************************************)
EXTENDS Naturals, Sequences, SequencesExt, Subsequences

CONSTANTS HyprWs,       \* ids of workspaces
          HyprWin,      \* addresses of windows
          NoWs,         \* where a window is that is not open
          Persistent,   \* persistent-workspaces of this monitor, by number
          MaxHyprNews   \* bound on what happens in the compositor

ASSUME HyprAssumption ==
  /\ IsFiniteSet(HyprWs) /\ Persistent \subseteq HyprWs /\ NoWs \notin HyprWs
  /\ MaxHyprNews \in Nat

VARIABLES monitorOf,        \* the compositor: where each workspace is
          placeOf,          \* the compositor: the workspace of each window
          hyprNews,         \* how much has happened
          hyprWire,         \* events written to the socket and not yet handled
          hyprPhase,        \* "start", "snapshot" (init() has run), "registered"
          windowMap,        \* m_workspaces: the windows of each listed workspace
          persistent,       \* those with m_isPersistentConfig
          workspacesToCreate, workspacesToRemove, windowsToCreate,
          orphans,          \* m_orphanWindowMap
          refresh,          \* dp or m_debounceTimer is pending
          raced,            \* history: workspaces and windows whose events met a
                            \* snapshot or a queued creation
          dropped           \* history: windows that went with a removed workspace

hyprWorld == <<monitorOf, placeOf, hyprNews>>
hyprQueues == <<workspacesToCreate, workspacesToRemove, windowsToCreate>>
hyprModel == <<windowMap, persistent, orphans>>
hyprWsVars == <<hyprWorld, hyprWire, hyprPhase, hyprModel, hyprQueues, refresh, raced, dropped>>

Listed == DOMAIN windowMap
Existing == {w \in HyprWs : monitorOf[w] # "none"}
WindowsOn(w) == {x \in HyprWin : placeOf[x] = w}
Queued(x) == \E i \in DOMAIN windowsToCreate : windowsToCreate[i].win = x

-----------------------------------------------------------------------------
\* The compositor: every change writes its event.
News(event) ==
  /\ hyprNews < MaxHyprNews
  /\ hyprNews' = hyprNews + 1
  /\ hyprWire' = Append(hyprWire, event)
  /\ UNCHANGED <<hyprPhase, hyprModel, hyprQueues, refresh, raced, dropped>>

WsCreated(w, m) ==
  /\ monitorOf[w] = "none"
  /\ monitorOf' = [monitorOf EXCEPT ![w] = m]
  /\ News([name |-> "createworkspacev2", ws |-> w])
  /\ UNCHANGED placeOf

WsDestroyed(w) ==
  /\ monitorOf[w] # "none" /\ WindowsOn(w) = {}
  /\ monitorOf' = [monitorOf EXCEPT ![w] = "none"]
  /\ News([name |-> "destroyworkspacev2", ws |-> w])
  /\ UNCHANGED placeOf

WsMoved(w, m) ==
  /\ monitorOf[w] \notin {"none", m}
  /\ monitorOf' = [monitorOf EXCEPT ![w] = m]
  /\ News([name |-> "moveworkspacev2", ws |-> w, monitor |-> m])
  /\ UNCHANGED placeOf

WinOpened(x, w) ==
  /\ placeOf[x] = NoWs /\ w \in Existing
  /\ placeOf' = [placeOf EXCEPT ![x] = w]
  /\ News([name |-> "openwindow", win |-> x, ws |-> w])
  /\ UNCHANGED monitorOf

WinMoved(x, w) ==
  /\ placeOf[x] \notin {NoWs, w} /\ w \in Existing
  /\ placeOf' = [placeOf EXCEPT ![x] = w]
  /\ News([name |-> "movewindowv2", win |-> x, ws |-> w])
  /\ UNCHANGED monitorOf

WinClosed(x) ==
  /\ placeOf[x] # NoWs
  /\ placeOf' = [placeOf EXCEPT ![x] = NoWs]
  /\ News([name |-> "closewindow", win |-> x])
  /\ UNCHANGED monitorOf

ConfigReloaded ==
  /\ News([name |-> "configreloaded"])
  /\ UNCHANGED <<monitorOf, placeOf>>

-----------------------------------------------------------------------------
Creation(w, wins, p) == [ws |-> w, wins |-> wins, persistent |-> p]

\* What is on the wire when a snapshot is taken is in the snapshot, and comes again.
OnWire == {hyprWire[i] : i \in DOMAIN hyprWire}
Replayed == {e.win : e \in {f \in OnWire : f.name \in {"openwindow", "movewindowv2", "closewindow"}}}
            \cup {e.ws : e \in {f \in OnWire : f.name \in {"destroyworkspacev2", "moveworkspacev2"}}}

\* init(): initializeWorkspaces() with loadPersistentWorkspacesFromConfig(), which
\* queue everything anew, and extendOrphans() for what is not here.
Snapshot ==
  LET here == {w \in Existing : monitorOf[w] = "here"}
      found == SetToSeq({Creation(w, WindowsOn(w), FALSE) : w \in here})
      configured == SetToSeq({Creation(w, WindowsOn(w), TRUE) : w \in Persistent})
  IN /\ workspacesToRemove' = workspacesToRemove \o SetToSeq(Listed)
     /\ workspacesToCreate' = workspacesToCreate \o found \o configured
     /\ orphans' = orphans \cup UNION {WindowsOn(w) : w \in Existing \ here}

HyprWsInit ==
  /\ monitorOf \in [HyprWs -> {"none", "here", "elsewhere"}]
  /\ placeOf \in [HyprWin -> Existing \cup {NoWs}]
  /\ hyprNews = 0 /\ hyprWire = <<>>
  /\ hyprPhase = "start"
  /\ windowMap = <<>> /\ persistent = {} /\ orphans = {}
  /\ workspacesToCreate = <<>> /\ workspacesToRemove = <<>> /\ windowsToCreate = <<>>
  /\ refresh = FALSE
  /\ raced = {} /\ dropped = {}

\* The constructor, up to registerIpc().
Construct ==
  /\ hyprPhase = "start"
  /\ hyprPhase' = "snapshot"
  /\ Snapshot
  /\ raced' = Replayed
  /\ refresh' = TRUE
  /\ UNCHANGED <<hyprWorld, hyprWire, windowMap, persistent, windowsToCreate, dropped>>

RegisterIpc ==
  /\ hyprPhase = "snapshot"
  /\ hyprPhase' = "registered"
  /\ UNCHANGED <<hyprWorld, hyprWire, hyprModel, hyprQueues, refresh, raced, dropped>>

-----------------------------------------------------------------------------
\* The IPC thread: parseIPC() finds no handler of this module, or runs onEvent().
Subject(e) == IF "win" \in DOMAIN e THEN {e.win} ELSE IF "ws" \in DOMAIN e THEN {e.ws} ELSE {}

Unheard ==
  /\ hyprPhase # "registered" /\ hyprWire # <<>>
  /\ hyprWire' = Tail(hyprWire)
  /\ raced' = IF hyprPhase = "snapshot" THEN raced \cup Subject(Head(hyprWire)) ELSE raced
  /\ UNCHANGED <<hyprWorld, hyprPhase, hyprModel, hyprQueues, refresh, dropped>>

\* What an event is about that is still queued in a form the handlers do not correct:
\* they take no creation back, nor a window out of one.
Races(e) ==
  {c.ws : c \in {d \in ToSet(workspacesToCreate) :
                   e.name \in {"destroyworkspacev2", "moveworkspacev2"} /\ d.ws = e.ws}} \cup
  {x \in HyprWin :
     \/ e.name \in {"movewindowv2", "closewindow"} /\ x = e.win
        /\ \E c \in ToSet(workspacesToCreate) : x \in c.wins
     \/ e.name = "closewindow" /\ x = e.win /\ Queued(x)}

\* onEvent(): the handler, then dp.emit().
Heard(name) ==
  /\ hyprPhase = "registered"
  /\ hyprWire # <<>> /\ Head(hyprWire).name = name
  /\ hyprWire' = Tail(hyprWire)
  /\ refresh' = TRUE
  /\ raced' = raced \cup Races(Head(hyprWire)) \cup
       (IF name = "configreloaded" THEN Replayed
        ELSE IF name = "moveworkspacev2" THEN Replayed \cap WindowsOn(Head(hyprWire).ws) ELSE {})
  /\ UNCHANGED <<hyprWorld, hyprPhase, persistent, dropped>>

\* Asks for the workspaces there are now: one that is gone again, or not here, is
\* not queued.  The windows come with a move only; of a workspace that another one
\* precedes in the answer they are registered as orphans as well.
QueueCreation(w, wins) ==
  /\ IF monitorOf[w] = "here"
     THEN workspacesToCreate' = Append(workspacesToCreate, Creation(w, wins, FALSE))
     ELSE UNCHANGED workspacesToCreate
  /\ \/ UNCHANGED orphans
     \/ Existing \ {w} # {} /\ orphans' = orphans \cup wins

OnWorkspaceCreated ==
  /\ Heard("createworkspacev2")
  /\ QueueCreation(Head(hyprWire).ws, {})
  /\ UNCHANGED <<windowMap, workspacesToRemove, windowsToCreate>>

\* A creation that is still queued is not taken back.
OnWorkspaceDestroyed ==
  /\ Heard("destroyworkspacev2")
  /\ workspacesToRemove' = Append(workspacesToRemove, Head(hyprWire).ws)
  /\ UNCHANGED <<windowMap, workspacesToCreate, windowsToCreate, orphans>>

OnWorkspaceMoved ==
  /\ Heard("moveworkspacev2")
  /\ LET w == Head(hyprWire).ws IN
     IF Head(hyprWire).monitor = "here"
     THEN /\ QueueCreation(w, WindowsOn(w))
          /\ UNCHANGED workspacesToRemove
     ELSE /\ workspacesToRemove' = Append(workspacesToRemove, w)
          /\ UNCHANGED <<workspacesToCreate, orphans>>
  /\ UNCHANGED <<windowMap, windowsToCreate>>

WindowPayload(x, w) == [win |-> x, ws |-> w, age |-> 0]

OnWindowOpened ==
  /\ Heard("openwindow")
  /\ windowsToCreate' = Append(windowsToCreate, WindowPayload(Head(hyprWire).win, Head(hyprWire).ws))
  /\ UNCHANGED <<windowMap, workspacesToCreate, workspacesToRemove, orphans>>

\* Workspace::closeWindow() of the first workspace that has it.
Without(x) ==
  IF \E w \in Listed : x \in windowMap[w]
  THEN \E w \in Listed : x \in windowMap[w] /\ windowMap' = [windowMap EXCEPT ![w] = @ \ {x}]
  ELSE UNCHANGED windowMap

\* A window that is still queued is not taken back.
OnWindowClosed ==
  /\ Heard("closewindow")
  /\ LET x == Head(hyprWire).win IN
     /\ orphans' = orphans \ {x}
     /\ Without(x)
  /\ UNCHANGED hyprQueues

OnWindowMovedDropping == \* mutant: an orphan that comes to a workspace is not looked up
  /\ Heard("movewindowv2")
  /\ LET x == Head(hyprWire).win  w == Head(hyprWire).ws IN
     IF Queued(x) THEN
       /\ LET i == SelectInSeq(windowsToCreate, LAMBDA p : p.win = x)
          IN windowsToCreate' = [windowsToCreate EXCEPT ![i].ws = w]
       /\ UNCHANGED <<windowMap, orphans>>
     ELSE
       /\ Without(x)
       /\ orphans' = orphans \ {x}
       /\ windowsToCreate' = IF \E v \in Listed : x \in windowMap[v]
                             THEN Append(windowsToCreate, WindowPayload(x, w)) ELSE windowsToCreate
  /\ UNCHANGED <<workspacesToCreate, workspacesToRemove>>

\* From the queue, else from the workspace it was in, else from the orphans.
OnWindowMoved ==
  /\ Heard("movewindowv2")
  /\ LET x == Head(hyprWire).win  w == Head(hyprWire).ws IN
     IF Queued(x) THEN
       /\ LET i == SelectInSeq(windowsToCreate, LAMBDA p : p.win = x)
          IN windowsToCreate' = [windowsToCreate EXCEPT ![i].ws = w]
       /\ UNCHANGED <<windowMap, orphans>>
     ELSE
       /\ Without(x)
       /\ orphans' = orphans \ {x}
       /\ windowsToCreate' = IF x \in orphans \/ \E v \in Listed : x \in windowMap[v]
                             THEN Append(windowsToCreate, WindowPayload(x, w)) ELSE windowsToCreate
  /\ UNCHANGED <<workspacesToCreate, workspacesToRemove>>

OnConfigReloaded ==
  /\ Heard("configreloaded")
  /\ Snapshot
  /\ UNCHANGED <<windowMap, windowsToCreate>>

-----------------------------------------------------------------------------
\* removeWorkspacesToRemove() keeps persistent workspaces.
Kept == {w \in Listed : w \notin ToSet(workspacesToRemove) \/ w \in persistent}

\* createWorkspacesToCreate(): a workspace that is listed is not made again.
FirstCreation(w) == workspacesToCreate[SelectInSeq(workspacesToCreate, LAMBDA c : c.ws = w)]
Created == [w \in Kept \cup {c.ws : c \in ToSet(workspacesToCreate)} |->
              IF w \in Kept THEN windowMap[w] ELSE FirstCreation(w).wins]

\* The windows of a workspace that is removed go with it, into no map.
Dropped == (UNION {windowMap[w] : w \in Listed}) \ (UNION {Created[w] : w \in DOMAIN Created})

\* updateWindowsToCreate(): a window whose workspace is not listed is kept for two
\* more updates and then becomes an orphan.
CREATION_TIMEOUT == 2
Inserted == {p \in ToSet(windowsToCreate) : p.ws \in DOMAIN Created}
NotCreated == ToSet(windowsToCreate) \ Inserted
Waiting(p) == p.age < CREATION_TIMEOUT
StillWaiting == {i \in DOMAIN windowsToCreate : windowsToCreate[i] \in NotCreated /\ Waiting(windowsToCreate[i])}
Aged(s) == [i \in DOMAIN s |-> [s[i] EXCEPT !.age = @ + 1]]

\* doUpdate() on the debounce timer.
DoUpdate ==
  /\ hyprPhase = "registered" /\ refresh
  /\ windowMap' = [w \in DOMAIN Created |-> Created[w] \cup {p.win : p \in {q \in Inserted : q.ws = w}}]
  /\ persistent' = (persistent \cap Kept) \cup {c.ws : c \in {d \in ToSet(workspacesToCreate) : d.persistent}}
  /\ workspacesToCreate' = <<>> /\ workspacesToRemove' = <<>>
  /\ windowsToCreate' = Aged(At(windowsToCreate, StillWaiting))
  /\ orphans' = orphans \cup {p.win : p \in {q \in NotCreated : ~Waiting(q)}}
  /\ refresh' = (Inserted # {})
  /\ dropped' = dropped \cup Dropped
  /\ UNCHANGED raced
  /\ UNCHANGED <<hyprWorld, hyprWire, hyprPhase>>

-----------------------------------------------------------------------------
CompositorStep ==
  \/ \E w \in HyprWs, m \in {"here", "elsewhere"} : WsCreated(w, m) \/ WsMoved(w, m)
  \/ \E w \in HyprWs : WsDestroyed(w)
  \/ \E x \in HyprWin, w \in HyprWs : WinOpened(x, w) \/ WinMoved(x, w)
  \/ \E x \in HyprWin : WinClosed(x)
  \/ ConfigReloaded

HyprWsNext ==
  \/ CompositorStep
  \/ Construct
  \/ RegisterIpc
  \/ Unheard
  \/ OnWorkspaceCreated
  \/ OnWorkspaceDestroyed
  \/ OnWorkspaceMoved
  \/ OnWindowOpened
  \/ OnWindowClosed
  \/ OnWindowMoved
  \/ OnConfigReloaded
  \/ DoUpdate

HyprWsSpec == HyprWsInit /\ [][HyprWsNext]_hyprWsVars

-----------------------------------------------------------------------------
HyprWsTypeOK ==
  /\ monitorOf \in [HyprWs -> {"none", "here", "elsewhere"}]
  /\ placeOf \in [HyprWin -> HyprWs \cup {NoWs}]
  /\ hyprNews \in 0..MaxHyprNews /\ Len(hyprWire) <= hyprNews
  /\ hyprPhase \in {"start", "snapshot", "registered"}
  /\ Listed \subseteq HyprWs /\ persistent \subseteq Persistent
  /\ \A w \in Listed : windowMap[w] \subseteq HyprWin
  /\ \A c \in ToSet(workspacesToCreate) : c.ws \in HyprWs /\ c.wins \subseteq HyprWin
  /\ ToSet(workspacesToRemove) \subseteq HyprWs
  /\ \A p \in ToSet(windowsToCreate) : p.win \in HyprWin /\ p.ws \in HyprWs /\ p.age \in 0..CREATION_TIMEOUT
  /\ orphans \cup dropped \subseteq HyprWin /\ raced \subseteq HyprWs \cup HyprWin
  /\ refresh \in BOOLEAN

AtRest == hyprPhase = "registered" /\ hyprWire = <<>> /\ ~refresh

\* After all events and updates the bar lists the workspaces that are here and the
\* persistent ones, whatever the order of creations, moves, reloads and updates;
\* but for those that raced with a snapshot or with their own queued creation
\* (workspaces.cpp:124-155, 362-434, 884-929).
WorkspacesAgree ==
  AtRest => \A w \in HyprWs \ raced : w \in Listed <=> monitorOf[w] = "here" \/ w \in Persistent

\* And a listed workspace shows the windows that are in it, wherever they have been
\* in the meantime: on a workspace of another bar, queued, or as orphans
\* (workspaces.cpp:503-571, 1102-1126).
WindowsAgree ==
  AtRest => \A w \in Listed \ raced, x \in HyprWin \ (raced \cup dropped) :
              x \in windowMap[w] <=> placeOf[x] = w
=============================================================================
