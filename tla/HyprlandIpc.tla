---------------------------- MODULE HyprlandIpc ----------------------------
(***************************************************************************)
(* src/modules/hyprland/backend.cpp and the label modules on it: window,     *)
(* windowcount, language, submap.                                           *)
(*                                                                         *)
(* One listener thread reads Hyprland's events and calls the modules that    *)
(* have registered, under callbackMutex_.  Modules are made and destroyed on *)
(* the main thread, which takes callbackMutex_ to register and unregister,   *)
(* and the module's own mutex_ to wait for a handler.  window has none: all  *)
(* windows share windowIpcSmtx, held over the wait for callbackMutex_.       *)
(* window and windowcount ask the compositor in update(); language and submap *)
(* keep what the last event said, and update() shows that.                   *)
(***************************************************************************)
EXTENDS Naturals, Sequences

CONSTANTS Layout,       \* keyboard layouts
          Keymap,       \* submaps
          DefaultMap,   \* the one the compositor starts in
          IpcBars,      \* the sets of these modules a bar may have
          MaxIpcNews    \* bound on what happens in the compositor

ASSUME MaxIpcNewsAssumption == MaxIpcNews \in Nat

VARIABLES windows,      \* the compositor: windows on the active workspace
          layout,       \* the compositor: the layout of the configured keyboard
          submap,       \* the compositor: the submap
          ipcNews,      \* how much has happened
          ipcWire,      \* events written to the socket and not yet read
          listener,     \* "reading", "calling" (callbackMutex_ held), or "ended"
          ipcEvent,     \* the event it has read
          uncalled,     \* the modules it has still to call for it
          callbacks,    \* callbacks_; a module stands for all its entries
          handlerLock,  \* the holder of each module's mutex_; for window, of windowIpcSmtx, see below
          life,         \* of each module, see below
          held,         \* layout_ and submap_
          label,        \* what the module shows
          labelDp,      \* dp has been emitted
          unheard       \* history: modules an event passed before they registered

Asking == {"window", "windowcount"}
Hearing == {"language", "submap"}
LabelModule == Asking \cup Hearing

\* "absent": not configured; "none"; "made": it has asked for its first value; "alive": registered; "leaving":
\* its destructor is waiting to unregister; "unregistered": and then for mutex_.
InMainThread == {"made", "leaving", "unregistered"}

\* A mutex_ is "free", or the "listener"'s, or "main"'s in update().  windowIpcSmtx is "main"'s in update() too,
\* which shares it, and "exclusive" while a window is registered or unregistered.
Holder == {"free", "main", "listener", "exclusive"}

ipcWorld == <<windows, layout, submap, ipcNews>>
ipcThread == <<listener, ipcEvent, uncalled>>
ipcModules == <<callbacks, handlerLock, life, held, label, labelDp, unheard>>
ipcVars == <<ipcWorld, ipcWire, ipcThread, ipcModules>>

-----------------------------------------------------------------------------
\* The compositor.
IpcNews(events) ==
  /\ ipcNews < MaxIpcNews
  /\ ipcNews' = ipcNews + 1
  /\ ipcWire' = ipcWire \o events
  /\ UNCHANGED <<ipcThread, ipcModules>>

WindowOpens ==
  /\ windows < 2 /\ windows' = windows + 1
  /\ IpcNews(<<[name |-> "openwindow"], [name |-> "activewindow"]>>)
  /\ UNCHANGED <<layout, submap>>

WindowCloses ==
  /\ windows > 0 /\ windows' = windows - 1
  /\ IpcNews(<<[name |-> "closewindow"]>>)
  /\ UNCHANGED <<layout, submap>>

\* Of the keyboard that is configured, or of another one.
LayoutChanges(l, ours) ==
  /\ layout' = IF ours THEN l ELSE layout
  /\ IpcNews(<<[name |-> "activelayout", layout |-> l, ours |-> ours]>>)
  /\ UNCHANGED <<windows, submap>>

SubmapChanges(k) ==
  /\ submap' = k
  /\ IpcNews(<<[name |-> "submap", submap |-> k]>>)
  /\ UNCHANGED <<windows, layout>>

-----------------------------------------------------------------------------
\* The names each module registers.
Concerns(m, e) ==
  CASE m = "window"      -> e.name \in {"activewindow", "closewindow"}
    [] m = "windowcount" -> e.name \in {"openwindow", "closewindow"}
    [] m = "language"    -> e.name = "activelayout"
    [] m = "submap"      -> e.name = "submap"

\* What a module shows: an image and a title, or nothing; a number; what is held.
WindowQuery == windows > 0
CountQuery == windows
Shows(m) == CASE m = "window" -> WindowQuery
              [] m = "windowcount" -> CountQuery
              [] OTHER -> held[m]

\* The first value: initLanguage() asks; there is no way to ask for the submap.
FirstHeld(m) == CASE m = "language" -> layout
                  [] m = "submap" -> DefaultMap
                  [] OTHER -> held[m]

MainFree == \A n \in LabelModule : life[n] \notin InMainThread /\ handlerLock[n] # "main"
CallbacksFree == listener # "calling"

MakeModule(m) ==
  /\ MainFree /\ life[m] = "none"
  /\ life' = [life EXCEPT ![m] = "made"]
  /\ held' = [held EXCEPT ![m] = FirstHeld(m)]
  /\ labelDp' = [labelDp EXCEPT ![m] = (m = "language")]
  /\ unheard' = IF m = "submap" /\ submap # DefaultMap THEN unheard \cup {m} ELSE unheard \ {m}
  /\ UNCHANGED <<ipcWorld, ipcWire, ipcThread, callbacks, handlerLock, label>>

\* window's constructor and destructor first take windowIpcSmtx, and hold it over what follows.
LockWindows ==
  /\ life["window"] \in {"made", "leaving"} /\ handlerLock["window"] = "free"
  /\ handlerLock' = [handlerLock EXCEPT !["window"] = "exclusive"]
  /\ UNCHANGED <<ipcWorld, ipcWire, ipcThread, callbacks, life, held, label, labelDp, unheard>>

WindowsLocked(m) == m = "window" => handlerLock[m] = "exclusive"
UnlockWindows(m) == handlerLock' = IF m = "window" THEN [handlerLock EXCEPT ![m] = "free"] ELSE handlerLock

\* registerForIPC() waits while handlers are called.  Then the constructor returns to
\* Bar::getModules(), which emits dp.
RegisterForIPC(m) ==
  /\ life[m] = "made" /\ WindowsLocked(m) /\ CallbacksFree
  /\ callbacks' = callbacks \cup {m}
  /\ life' = [life EXCEPT ![m] = "alive"]
  /\ UnlockWindows(m)
  /\ labelDp' = [labelDp EXCEPT ![m] = TRUE]
  /\ UNCHANGED <<ipcWorld, ipcWire, ipcThread, held, label, unheard>>

LeaveModule(m) ==
  /\ MainFree /\ life[m] = "alive"
  /\ life' = [life EXCEPT ![m] = "leaving"]
  /\ UNCHANGED <<ipcWorld, ipcWire, ipcThread, callbacks, handlerLock, held, label, labelDp, unheard>>

UnregisterUnlocked(m) == \* mutant: callbackMutex_ is not taken
  /\ life[m] = "leaving" /\ WindowsLocked(m)
  /\ callbacks' = callbacks \ {m}
  /\ life' = [life EXCEPT ![m] = "unregistered"]
  /\ UnlockWindows(m)
  /\ UNCHANGED <<ipcWorld, ipcWire, ipcThread, held, label, labelDp, unheard>>

UnregisterForIPC(m) ==
  /\ life[m] = "leaving" /\ WindowsLocked(m) /\ CallbacksFree
  /\ callbacks' = callbacks \ {m}
  /\ life' = [life EXCEPT ![m] = "unregistered"]
  /\ UnlockWindows(m)
  /\ UNCHANGED <<ipcWorld, ipcWire, ipcThread, held, label, labelDp, unheard>>

FreeModule(m) ==
  /\ life[m] = "unregistered" /\ handlerLock[m] = "free"
  /\ life' = [life EXCEPT ![m] = "none"]
  /\ labelDp' = [labelDp EXCEPT ![m] = FALSE]
  /\ UNCHANGED <<ipcWorld, ipcWire, ipcThread, callbacks, handlerLock, held, label, unheard>>

\* update(), from taking mutex_ or a share of windowIpcSmtx to giving it back.
UpdateBegins(m) ==
  /\ MainFree /\ life[m] = "alive" /\ labelDp[m] /\ handlerLock[m] = "free"
  /\ labelDp' = [labelDp EXCEPT ![m] = FALSE]
  /\ handlerLock' = [handlerLock EXCEPT ![m] = "main"]
  /\ UNCHANGED <<ipcWorld, ipcWire, ipcThread, callbacks, life, held, label, unheard>>

UpdateEnds(m) ==
  /\ handlerLock[m] = "main"
  /\ label' = [label EXCEPT ![m] = Shows(m)]
  /\ handlerLock' = [handlerLock EXCEPT ![m] = "free"]
  /\ UNCHANGED <<ipcWorld, ipcWire, ipcThread, callbacks, life, held, labelDp, unheard>>

-----------------------------------------------------------------------------
\* socketListener() reads a line; parseIPC() locks callbackMutex_.
ReadEvent ==
  /\ listener = "reading" /\ ipcWire # <<>>
  /\ ipcEvent' = Head(ipcWire)
  /\ ipcWire' = Tail(ipcWire)
  /\ listener' = "calling"
  /\ uncalled' = {m \in callbacks : Concerns(m, Head(ipcWire))}
  /\ unheard' = unheard \cup {m \in LabelModule : life[m] = "made" /\ Concerns(m, Head(ipcWire))}
  /\ UNCHANGED <<ipcWorld, callbacks, handlerLock, life, held, label, labelDp>>

\* window and windowcount only emit dp.
AskingOnEvent(m) ==
  /\ listener = "calling" /\ m \in uncalled \cap Asking
  /\ uncalled' = uncalled \ {m}
  /\ labelDp' = [labelDp EXCEPT ![m] = TRUE]
  /\ UNCHANGED <<ipcWorld, ipcWire, listener, ipcEvent, callbacks, handlerLock, life, held, label, unheard>>

\* language and submap lock mutex_ ...
HearingLocks(m) ==
  /\ listener = "calling" /\ m \in uncalled \cap Hearing
  /\ \A n \in LabelModule : handlerLock[n] # "listener"
  /\ handlerLock[m] = "free"
  /\ handlerLock' = [handlerLock EXCEPT ![m] = "listener"]
  /\ UNCHANGED <<ipcWorld, ipcWire, ipcThread, callbacks, life, held, label, labelDp, unheard>>

\* ... keep the event's value, another keyboard's excepted, and emit.
Handled(m, value) ==
  /\ handlerLock[m] = "listener"
  /\ held' = [held EXCEPT ![m] = value]
  /\ labelDp' = [labelDp EXCEPT ![m] = TRUE]
  /\ unheard' = unheard \ {m}
  /\ handlerLock' = [handlerLock EXCEPT ![m] = "free"]
  /\ uncalled' = uncalled \ {m}
  /\ UNCHANGED <<ipcWorld, ipcWire, listener, ipcEvent, callbacks, life, label>>

LanguageOnEvent ==
  IF handlerLock["language"] = "listener" /\ ~ipcEvent.ours
  THEN /\ handlerLock' = [handlerLock EXCEPT !["language"] = "free"]
       /\ uncalled' = uncalled \ {"language"}
       /\ UNCHANGED <<ipcWorld, ipcWire, listener, ipcEvent, callbacks, life, held, label, labelDp, unheard>>
  ELSE handlerLock["language"] = "listener" /\ Handled("language", ipcEvent.layout)

SubmapOnEvent == handlerLock["submap"] = "listener" /\ Handled("submap", ipcEvent.submap)

Called ==
  /\ listener = "calling" /\ uncalled = {}
  /\ listener' = "reading"
  /\ UNCHANGED <<ipcWorld, ipcWire, ipcEvent, uncalled, ipcModules>>

\* The peer closes the socket, or ~IPC() shuts it down.
SocketCloses ==
  /\ listener = "reading"
  /\ listener' = "ended"
  /\ UNCHANGED <<ipcWorld, ipcWire, ipcEvent, uncalled, ipcModules>>

-----------------------------------------------------------------------------
IpcInit ==
  /\ windows = 1 /\ layout \in Layout /\ submap \in Keymap
  /\ ipcNews = 0 /\ ipcWire = <<>>
  /\ listener = "reading" /\ ipcEvent = [name |-> "none"] /\ uncalled = {}
  /\ callbacks = {} /\ unheard = {}
  /\ handlerLock = [m \in LabelModule |-> "free"]
  /\ \E bar \in IpcBars : life = [m \in LabelModule |-> IF m \in bar THEN "none" ELSE "absent"]
  /\ held = [m \in LabelModule |-> "none"] /\ label = held
  /\ labelDp = [m \in LabelModule |-> FALSE]

IpcMainStep ==
  \/ LockWindows
  \/ \E m \in LabelModule :
       MakeModule(m) \/ RegisterForIPC(m) \/ LeaveModule(m) \/ UnregisterForIPC(m) \/ FreeModule(m)
       \/ UpdateBegins(m) \/ UpdateEnds(m)

ListenerStep ==
  \/ ReadEvent
  \/ \E m \in LabelModule : AskingOnEvent(m) \/ HearingLocks(m)
  \/ LanguageOnEvent
  \/ SubmapOnEvent
  \/ Called

IpcNext ==
  \/ WindowOpens \/ WindowCloses
  \/ \E l \in Layout, ours \in BOOLEAN : LayoutChanges(l, ours)
  \/ \E k \in Keymap : SubmapChanges(k)
  \/ IpcMainStep
  \/ ListenerStep
  \/ SocketCloses

IpcSpec == IpcInit /\ [][IpcNext]_ipcVars

-----------------------------------------------------------------------------
IpcTypeOK ==
  /\ windows \in 0..2 /\ layout \in Layout /\ submap \in Keymap
  /\ ipcNews \in 0..MaxIpcNews
  /\ listener \in {"reading", "calling", "ended"}
  /\ uncalled \cup callbacks \cup unheard \subseteq LabelModule
  /\ handlerLock \in [LabelModule -> Holder]
  /\ life \in [LabelModule -> {"absent", "none", "made", "alive", "leaving", "unregistered"}]
  /\ labelDp \in [LabelModule -> BOOLEAN]

\* What the main thread waits for and holds, and what the listener may wait for in this event, and
\* holds.  An update() that waits for its mutex holds none.
MainWants ==
  {k \in {"callbacks"} : \E m \in LabelModule : life[m] \in {"made", "leaving"} /\ WindowsLocked(m)}
    \cup {m \in LabelModule : life[m] \in {"made", "leaving"} /\ ~WindowsLocked(m)}
    \cup {m \in LabelModule : life[m] = "unregistered"}
MainHas == {m \in LabelModule : handlerLock[m] \in {"main", "exclusive"}}
ListenerWants == {m \in uncalled \cap Hearing : handlerLock[m] # "listener"}
ListenerHas == {k \in {"callbacks"} : ~CallbacksFree} \cup {m \in LabelModule : handlerLock[m] = "listener"}

\* Neither thread waits for a mutex it holds itself, and not each for one of the other's: nobody
\* waits for ever (backend.cpp:177-212, hyprland/window.cpp:28-43, and the other destructors).
NoLockCycle ==
  /\ MainWants \cap MainHas = {}
  /\ ListenerWants \cap ListenerHas = {}
  /\ MainWants \cap ListenerHas = {} \/ ListenerWants \cap MainHas = {}

\* The listener calls no module whose memory is gone, and holds no mutex of it
\* (backend.cpp:177-212, and the destructors of the four modules).
NoCallAfterFree ==
  \A m \in LabelModule : life[m] = "none" => m \notin uncalled /\ handlerLock[m] = "free"

\* When all events are handled and all updates made, a module shows what the compositor
\* has: the asking ones whatever they have missed, the hearing ones unless an event
\* passed them between their first value and their registration.
LabelsAgree ==
  listener = "reading" /\ ipcWire = <<>> =>
    \A m \in LabelModule :
      life[m] = "alive" /\ ~labelDp[m] /\ handlerLock[m] = "free" /\ m \notin unheard =>
        label[m] = CASE m = "window" -> windows > 0
                     [] m = "windowcount" -> windows
                     [] m = "language" -> layout
                     [] m = "submap" -> submap
=============================================================================
