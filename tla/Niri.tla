--------------------------------- MODULE Niri ---------------------------------
(***************************************************************************)
(* src/modules/niri: the mirror of niri's state that a listener thread keeps  *)
(* from the event stream, and the modules that show it.                      *)
(*                                                                         *)
(* The thread applies an event under dataMutex_, then has the modules that     *)
(* registered for it called; they emit dp, and update() reads the mirror on   *)
(* the main thread, perhaps after further events.  When the stream ends the   *)
(* thread connects again, and is told everything anew.                       *)
(***************************************************************************)
EXTENDS Integers, Sequences, SequencesExt

CONSTANTS NiriWs,       \* workspaces
          NiriWin,      \* windows
          NoWin,        \* a null window id
          NiriLayouts,  \* numbers of layouts a keyboard may have
          NiriConfigs,  \* [all outputs, populated workspaces only, separate outputs]
          MaxNiriNews, MaxNiriDrops   \* bounds on niri's changes, and on lost connections

ASSUME NiriAssumption == NoWin \notin NiriWin

VARIABLES niriConfig,
          niri,         \* what niri has
          niriWire,     \* the event stream
          niriUp,       \* the thread is connected
          mirror,       \* workspaces_, windows_, keyboardLayout*
          langCopy,     \* layouts_ (their number) and current_idx_ of the language module
          niriDp,       \* the modules that are to update
          niriView,     \* what they show
          niriNews, niriDrops,
          niriUntold    \* history: the active window changed, and no event of windows told of it

niriTruth == <<niri, niriNews, niriDrops>>
niriVars == <<niriConfig, niriTruth, niriWire, niriUp, mirror, langCopy, niriDp, niriView, niriUntold>>

Outputs == {"ours", "other"}
NiriModules == {"workspaces", "window", "language"}

(* A workspace has its output, whether it is the active one there and the     *)
(* focused one, whether it is urgent, and its active window.                 *)
ActiveOn(n, o) == {w \in DOMAIN n.ws : n.ws[w].output = o /\ n.ws[w].active}
FocusedWs(n) == {w \in DOMAIN n.ws : n.ws[w].focused}
WinsOn(n, w) == {x \in DOMAIN n.wins : n.wins[x] = w}
FocusedWin(n) == IF n.layer \/ FocusedWs(n) = {} THEN NoWin ELSE n.ws[CHOOSE w \in FocusedWs(n) : TRUE].win

\* What the window module shows: the active window of the focused workspace, or of the one
\* that is active on the bar's output; whether there is none, and whether it is alone.
WindowLabel(n) ==
  LET ws == IF niriConfig.separate THEN ActiveOn(n, "ours") ELSE FocusedWs(n)
      win == IF ws = {} THEN NoWin ELSE n.ws[CHOOSE w \in ws : TRUE].win
      known == win \in DOMAIN n.wins
  IN [win |-> IF known THEN win ELSE NoWin, empty |-> win = NoWin,
      solo |-> known /\ \A x \in DOMAIN n.wins : x # win => n.wins[x] # n.wins[win]]

-----------------------------------------------------------------------------
\* niri.  A change is told of by events, and by one of the focus if that changes too, and a
\* window that is new does not say so itself.
OfWindows == {"WindowsChanged", "WindowOpenedOrChanged", "WindowClosed", "WindowFocusChanged"}

NiriChange(n, events) ==
  /\ niriNews < MaxNiriNews /\ niriNews' = niriNews + 1
  /\ niri' = n
  /\ LET said == \E e \in ToSet(events) : e.kind = "WindowOpenedOrChanged" /\ e.focused /\ e.win \notin DOMAIN niri.wins
         focus == IF FocusedWin(n) = FocusedWin(niri) \/ said THEN <<>>
                  ELSE <<[kind |-> "WindowFocusChanged", win |-> FocusedWin(n)]>>
         told == \E e \in ToSet(events \o focus) : e.kind \in OfWindows
     IN /\ niriWire' = IF niriUp THEN niriWire \o events \o focus ELSE niriWire
        /\ niriUntold' = (~told /\ (niriUntold \/ WindowLabel(n) # WindowLabel(niri)))
  /\ UNCHANGED <<niriConfig, niriDrops, niriUp, mirror, langCopy, niriDp, niriView>>

\* Activating w takes the place of the workspace that was active on its output.
WorkspaceSwitched(w, focused) ==
  /\ w \in DOMAIN niri.ws
  /\ IF focused THEN ~niri.ws[w].focused
     ELSE ~niri.ws[w].active /\ \A v \in FocusedWs(niri) : niri.ws[v].output # niri.ws[w].output
  /\ LET ws == [v \in DOMAIN niri.ws |->
                  [niri.ws[v] EXCEPT !.active = IF niri.ws[v].output = niri.ws[w].output THEN v = w ELSE @,
                                     !.focused = IF focused THEN v = w ELSE @]]
     IN NiriChange([niri EXCEPT !.ws = ws], <<[kind |-> "WorkspaceActivated", ws |-> w, focused |-> focused]>>)

WithWin(n, x, w) == [n EXCEPT !.ws[w].win = x, !.wins = [y \in DOMAIN @ \cup {x} |-> IF y = x THEN w ELSE @[y]]]

NiriWindowOpens(x, w) ==
  /\ x \notin DOMAIN niri.wins /\ w \in DOMAIN niri.ws
  /\ NiriChange(WithWin(niri, x, w),
       <<[kind |-> "WorkspaceActiveWindowChanged", ws |-> w, win |-> x],
         [kind |-> "WindowOpenedOrChanged", win |-> x, ws |-> w, focused |-> FocusedWin(WithWin(niri, x, w)) = x]>>)

WindowGone(n, x, y) ==
  LET w == n.wins[x] IN
  [n EXCEPT !.ws[w].win = y, !.wins = [z \in DOMAIN @ \ {x} |-> @[z]]]

NiriWindowCloses(x, y) ==
  /\ x \in DOMAIN niri.wins
  /\ LET w == niri.wins[x]  left == WinsOn(niri, w) \ {x} IN
     /\ IF niri.ws[w].win # x THEN y = niri.ws[w].win ELSE IF left = {} THEN y = NoWin ELSE y \in left
     /\ NiriChange(WindowGone(niri, x, y),
          <<[kind |-> "WorkspaceActiveWindowChanged", ws |-> w, win |-> y], [kind |-> "WindowClosed", win |-> x]>>)

NiriWindowMoves(x, v, y) ==
  /\ x \in DOMAIN niri.wins /\ v \in DOMAIN niri.ws \ {niri.wins[x]}
  /\ LET w == niri.wins[x]  left == WinsOn(niri, w) \ {x}  n == WithWin(WindowGone(niri, x, y), x, v) IN
     /\ IF niri.ws[w].win # x THEN y = niri.ws[w].win ELSE IF left = {} THEN y = NoWin ELSE y \in left
     /\ NiriChange(n,
          <<[kind |-> "WorkspaceActiveWindowChanged", ws |-> w, win |-> y],
            [kind |-> "WorkspaceActiveWindowChanged", ws |-> v, win |-> x],
            [kind |-> "WindowOpenedOrChanged", win |-> x, ws |-> v, focused |-> FocusedWin(n) = x]>>)

WorkspaceUrgent(w) ==
  /\ w \in DOMAIN niri.ws
  /\ NiriChange([niri EXCEPT !.ws[w].urgent = ~@],
       <<[kind |-> "WorkspaceUrgencyChanged", ws |-> w, urgent |-> ~niri.ws[w].urgent]>>)

\* A workspace comes, goes, or moves to another output, where it is not active.
WorkspaceListChanges(w, o) ==
  /\ IF w \in DOMAIN niri.ws
     THEN ~niri.ws[w].active /\ niri.ws[w].output # o /\ (o = "none" => WinsOn(niri, w) = {})
     ELSE o # "none"
  /\ LET old == IF w \in DOMAIN niri.ws THEN niri.ws[w] ELSE [output |-> o, active |-> FALSE, focused |-> FALSE, urgent |-> FALSE, win |-> NoWin]
         ws == [v \in (DOMAIN niri.ws \cup {w}) \ (IF o = "none" THEN {w} ELSE {}) |->
                  IF v = w THEN [old EXCEPT !.output = o] ELSE niri.ws[v]]
     IN NiriChange([niri EXCEPT !.ws = ws], <<[kind |-> "WorkspacesChanged", all |-> ws]>>)

\* A launcher takes the keyboard from the windows, or gives it back.
LayerFocus == NiriChange([niri EXCEPT !.layer = ~@], <<>>)

NiriLayoutChanges(count, idx) ==
  /\ idx < count /\ [count |-> count, idx |-> idx] # niri.kb
  /\ NiriChange([niri EXCEPT !.kb = [count |-> count, idx |-> idx]],
       <<IF count = niri.kb.count THEN [kind |-> "KeyboardLayoutSwitched", idx |-> idx]
         ELSE [kind |-> "KeyboardLayoutsChanged", kb |-> [count |-> count, idx |-> idx]]>>)

Everything ==
  <<[kind |-> "WorkspacesChanged", all |-> niri.ws],
    [kind |-> "WindowsChanged", all |-> niri.wins, focused |-> FocusedWin(niri)],
    [kind |-> "KeyboardLayoutsChanged", kb |-> niri.kb]>>

\* What had been sent is lost with the connection.
StreamEnds ==
  /\ niriUp /\ niriDrops < MaxNiriDrops /\ niriDrops' = niriDrops + 1
  /\ niriUp' = FALSE /\ niriWire' = <<>>
  /\ UNCHANGED <<niriConfig, niri, niriNews, mirror, langCopy, niriDp, niriView, niriUntold>>

\* startIPC(): the loop connects, and asks for the stream.
ConnectToSocket ==
  /\ ~niriUp /\ niriUp' = TRUE
  /\ niriWire' = Everything /\ niriUntold' = FALSE
  /\ UNCHANGED <<niriConfig, niriTruth, mirror, langCopy, niriDp, niriView>>

-----------------------------------------------------------------------------
\* parseIPC(), under dataMutex_.
ApplyTo(m, e) ==
  CASE e.kind = "WorkspacesChanged" -> [m EXCEPT !.ws = e.all]
    [] e.kind = "WorkspaceActivated" ->
         IF e.ws \notin DOMAIN m.ws THEN m
         ELSE [m EXCEPT !.ws = [v \in DOMAIN m.ws |->
                [m.ws[v] EXCEPT !.active = IF m.ws[v].output = m.ws[e.ws].output THEN v = e.ws ELSE @,
                             !.focused = IF e.focused THEN v = e.ws ELSE @]]]
    [] e.kind = "WorkspaceActiveWindowChanged" ->
         IF e.ws \in DOMAIN m.ws THEN [m EXCEPT !.ws[e.ws].win = e.win] ELSE m
    [] e.kind = "WorkspaceUrgencyChanged" ->
         IF e.ws \in DOMAIN m.ws THEN [m EXCEPT !.ws[e.ws].urgent = e.urgent] ELSE m
    [] e.kind = "WindowsChanged" -> [m EXCEPT !.wins = e.all, !.focused = {e.focused} \ {NoWin}]
    [] e.kind = "WindowOpenedOrChanged" ->
         [m EXCEPT !.wins = [x \in DOMAIN @ \cup {e.win} |-> IF x = e.win THEN e.ws ELSE @[x]],
                   !.focused = IF ~e.focused THEN @ \ {e.win}
                               ELSE IF e.win \in DOMAIN m.wins THEN @ \cup {e.win} ELSE {e.win}]
    [] e.kind = "WindowClosed" ->
         [m EXCEPT !.wins = [x \in DOMAIN @ \ {e.win} |-> @[x]], !.focused = @ \ {e.win}]
    [] e.kind = "WindowFocusChanged" -> [m EXCEPT !.focused = {e.win} \cap DOMAIN m.wins]
    [] e.kind = "KeyboardLayoutsChanged" -> [m EXCEPT !.kb = e.kb]
    [] e.kind = "KeyboardLayoutSwitched" -> [m EXCEPT !.kb.idx = e.idx]
    [] OTHER -> m

\* What the modules registered for.
OfKeyboards == {"KeyboardLayoutsChanged", "KeyboardLayoutSwitched"}
RegisteredBut(kind, unheard) ==
  IF kind \in unheard THEN {}
  ELSE CASE kind \in OfKeyboards -> {"language"}
         [] kind \in OfWindows -> {"workspaces", "window"}
         [] OTHER -> {"workspaces"}

RegisteredUnfocused(kind) == RegisteredBut(kind, {"WindowFocusChanged"}) \* mutant: the focus is not heard of
Registered(kind) == RegisteredBut(kind, {})

\* The language module copies the layouts while its handler runs.
ParseIPC ==
  /\ niriUp /\ niriWire # <<>>
  /\ LET e == Head(niriWire)  m == ApplyTo(mirror, e) IN
     /\ mirror' = m
     /\ langCopy' = CASE e.kind = "KeyboardLayoutsChanged" -> m.kb
                      [] e.kind = "KeyboardLayoutSwitched" -> [langCopy EXCEPT !.idx = m.kb.idx]
                      [] OTHER -> langCopy
     /\ niriDp' = niriDp \cup Registered(e.kind)
  /\ niriWire' = Tail(niriWire)
  /\ UNCHANGED <<niriConfig, niriTruth, niriUp, niriView, niriUntold>>

-----------------------------------------------------------------------------
\* update() of each module.  The workspaces shown have their buttons' classes and windows.
ShownWorkspaces(n) ==
  [w \in {v \in DOMAIN n.ws : /\ niriConfig.all \/ n.ws[v].output = "ours"
                             /\ niriConfig.populated => n.ws[v].win # NoWin \/ n.ws[v].active} |->
     [classes |-> n.ws[w], wins |-> WinsOn(n, w)]]

LanguageLabel(kb) == IF kb.idx < kb.count THEN kb.idx ELSE -1

NiriUpdate(module) ==
  /\ module \in niriDp /\ niriDp' = niriDp \ {module}
  /\ niriView' = [niriView EXCEPT ![module] =
       CASE module = "workspaces" -> ShownWorkspaces(mirror)
         [] module = "window" -> WindowLabel(mirror)
         [] module = "language" -> LanguageLabel(langCopy)]
  /\ UNCHANGED <<niriConfig, niriTruth, niriWire, niriUp, mirror, langCopy, niriUntold>>

-----------------------------------------------------------------------------
\* The modules exist, and show what the thread was told when it connected.
NiriInit ==
  /\ niriConfig \in NiriConfigs
  /\ \E w \in NiriWs, o \in Outputs, wins \in {{}, NiriWin} :
       LET top == IF wins = {} THEN NoWin ELSE CHOOSE x \in wins : TRUE IN
       niri = [ws |-> [v \in NiriWs |-> [output |-> o, active |-> v = w, focused |-> v = w, urgent |-> FALSE,
                                        win |-> IF v = w THEN top ELSE NoWin]],
               wins |-> [x \in wins |-> w], layer |-> FALSE, kb |-> [count |-> 1, idx |-> 0]]
  /\ mirror = [ws |-> niri.ws, wins |-> niri.wins, focused |-> {FocusedWin(niri)} \ {NoWin}, kb |-> niri.kb]
  /\ niriWire = <<>> /\ niriUp = TRUE /\ langCopy = niri.kb
  /\ niriDp = {}
  /\ niriView = [m \in NiriModules |-> CASE m = "workspaces" -> ShownWorkspaces(niri)
                                         [] m = "window" -> WindowLabel(niri)
                                         [] m = "language" -> LanguageLabel(niri.kb)]
  /\ niriNews = 0 /\ niriDrops = 0 /\ niriUntold = FALSE

NiriNext ==
  \/ \E w \in NiriWs, focused \in BOOLEAN : WorkspaceSwitched(w, focused)
  \/ \E x \in NiriWin, w \in NiriWs : NiriWindowOpens(x, w)
  \/ \E x \in NiriWin, y \in NiriWin \cup {NoWin} : NiriWindowCloses(x, y)
  \/ \E x \in NiriWin, w \in NiriWs, y \in NiriWin \cup {NoWin} : NiriWindowMoves(x, w, y)
  \/ \E w \in NiriWs : WorkspaceUrgent(w)
  \/ \E w \in NiriWs, o \in Outputs \cup {"none"} : WorkspaceListChanges(w, o)
  \/ LayerFocus
  \/ \E count \in NiriLayouts, idx \in 0..1 : NiriLayoutChanges(count, idx)
  \/ StreamEnds \/ ConnectToSocket
  \/ ParseIPC
  \/ \E m \in NiriModules : NiriUpdate(m)

NiriSpec == NiriInit /\ [][NiriNext]_niriVars

-----------------------------------------------------------------------------
NiriTypeOK ==
  /\ niriConfig \in NiriConfigs /\ {niriUp, niriUntold} \subseteq BOOLEAN
  /\ niriNews \in 0..MaxNiriNews /\ niriDrops \in 0..MaxNiriDrops
  /\ DOMAIN mirror.ws \subseteq NiriWs /\ DOMAIN mirror.wins \subseteq NiriWin
  /\ mirror.focused \subseteq NiriWin /\ niriDp \subseteq NiriModules

\* At rest the mirror is what niri has, also after the stream had ended, and the modules show
\* it; but for the window module, which hears of no workspaces, when a workspace is switched
\* while no window has the keyboard (backend.cpp:131-257, workspaces.cpp:91-173, window.cpp:27-109).
NiriAgrees ==
  niriUp /\ niriWire = <<>> /\ niriDp = {} =>
    /\ mirror.ws = niri.ws /\ mirror.wins = niri.wins /\ mirror.kb = niri.kb
    /\ mirror.focused = {FocusedWin(niri)} \ {NoWin}
    /\ niriView["workspaces"] = ShownWorkspaces(niri)
    /\ niriView["language"] = LanguageLabel(niri.kb)
    /\ ~niriUntold => niriView["window"] = WindowLabel(niri)
=============================================================================
