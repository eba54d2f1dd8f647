------------------------- MODULE CompositorsProofs -------------------------
(***************************************************************************)
(* For every set of layouts and submaps and every bar: HyprlandIpc is type   *)
(* correct, its listener never calls a module that is gone, the two threads  *)
(* never wait for each other, and its labels are right at rest.  For all     *)
(* workspaces and windows: hyprland/workspaces agrees with Hyprland, and     *)
(* niri's mirror and the modules that show it with niri, at rest.  For all   *)
(* workspaces, modes and keymaps: Sway's modules hold their subscriptions and *)
(* show what sway has.                                                      *)
(*                                                                         *)
(* NoCallAfterFree is not inductive: that a module which is gone is not      *)
(* called rests on who is registered (InCallbacks), on callbackMutex_ being  *)
(* held over all calls for an event (CalledAreRegistered), and on a handler  *)
(* locking the mutex only of the module it is called for (LockedForCall).    *)
(* The others speak of rest; what they rest on is said with each.            *)
(***************************************************************************)
EXTENDS MCCompositors, FiniteSetTheorems, WellFoundedInduction, NaturalsInduction, TLAPS

\* A module is in callbacks_ only between the end of its constructor and the moment its
\* destructor has taken it out.
InCallbacks == \A m \in callbacks : life[m] \in {"alive", "leaving"}

\* While there are modules to call callbackMutex_ is held, and all of them are registered.
CalledAreRegistered == uncalled \subseteq callbacks /\ (uncalled # {} => listener = "calling")

\* The listener holds the mutex_ of a module it is calling, and of no other; those that ask
\* are called without.
LockedForCall == \A m \in LabelModule : handlerLock[m] = "listener" => m \in uncalled \cap Hearing

\* The main thread holds the mutex_ of a live module, and is then in no constructor and
\* no destructor: it waits for nothing.
MainHoldsAlone ==
  \A m \in LabelModule :
    handlerLock[m] = "main" => life[m] = "alive" /\ \A n \in LabelModule : life[n] \notin InMainThread

\* windowIpcSmtx is held exclusively only while a window waits for callbackMutex_, and no mutex_ is.
ExclusiveToRegister ==
  \A m \in LabelModule : handlerLock[m] = "exclusive" => m = "window" /\ life[m] \in {"made", "leaving"}

LockInv == InCallbacks /\ CalledAreRegistered /\ LockedForCall /\ MainHoldsAlone /\ ExclusiveToRegister
IpcInv == IpcTypeOK /\ LockInv

USE DEF LabelModule, Asking, Hearing, InMainThread, Holder, WindowsLocked, UnlockWindows

\* The initial states satisfy the invariant.
LEMMA IpcStarts == IpcInit => IpcInv
<1> SUFFICES ASSUME IpcInit PROVE IpcInv
  OBVIOUS
<1> USE MaxIpcNewsAssumption DEF MaxIpcNewsAssumption, IpcInit
<1>1. IpcTypeOK  BY DEF IpcTypeOK
<1>2. LockInv  BY DEF LockInv, InCallbacks, CalledAreRegistered, LockedForCall, MainHoldsAlone, ExclusiveToRegister
<1> QED  BY <1>1, <1>2 DEF IpcInv

\* What happens in the compositor leaves the threads alone.
LEMMA CompositorKeeps ==
  ASSUME IpcInv,
         WindowOpens \/ WindowCloses \/ (\E l \in Layout, ours \in BOOLEAN : LayoutChanges(l, ours))
           \/ (\E k \in Keymap : SubmapChanges(k))
  PROVE  IpcInv'
<1>1. UNCHANGED <<ipcThread, ipcModules>>
  BY DEF WindowOpens, WindowCloses, LayoutChanges, SubmapChanges, IpcNews
<1>2. ipcNews' \in 0..MaxIpcNews
  <2>1. ipcNews < MaxIpcNews /\ ipcNews' = ipcNews + 1
    BY DEF WindowOpens, WindowCloses, LayoutChanges, SubmapChanges, IpcNews
  <2> QED  BY <2>1, MaxIpcNewsAssumption DEF MaxIpcNewsAssumption, IpcInv, IpcTypeOK
<1>3. windows' \in 0..2 /\ layout' \in Layout /\ submap' \in Keymap
  <2> USE DEF IpcInv, IpcTypeOK
  <2>1. CASE WindowOpens  BY <2>1 DEF WindowOpens
  <2>2. CASE WindowCloses  BY <2>2 DEF WindowCloses
  <2>3. ASSUME NEW l \in Layout, NEW ours \in BOOLEAN, LayoutChanges(l, ours)
        PROVE  windows' \in 0..2 /\ layout' \in Layout /\ submap' \in Keymap
    BY <2>3 DEF LayoutChanges
  <2>4. ASSUME NEW k \in Keymap, SubmapChanges(k)
        PROVE  windows' \in 0..2 /\ layout' \in Layout /\ submap' \in Keymap
    BY <2>4 DEF SubmapChanges
  <2> QED  BY <2>1, <2>2, <2>3, <2>4
<1>4. IpcTypeOK'
  BY <1>1, <1>2, <1>3 DEF IpcInv, IpcTypeOK, ipcThread, ipcModules
<1>5. LockInv'
  BY <1>1 DEF IpcInv, LockInv, InCallbacks, CalledAreRegistered, LockedForCall, MainHoldsAlone, ExclusiveToRegister, ipcThread, ipcModules
<1> QED  BY <1>4, <1>5 DEF IpcInv

\* The main thread keeps it: it changes callbacks_ only under callbackMutex_, and frees only
\* what it has taken out before.
LEMMA MainKeeps == IpcInv /\ IpcMainStep => IpcInv'
<1>a. IpcInv /\ LockWindows => IpcInv'
  BY DEF IpcInv, IpcTypeOK, LockInv, InCallbacks, CalledAreRegistered, LockedForCall, MainHoldsAlone, ExclusiveToRegister,
         ipcWorld, ipcThread, LockWindows
<1> SUFFICES ASSUME IpcInv, NEW m \in LabelModule,
                    MakeModule(m) \/ RegisterForIPC(m) \/ LeaveModule(m) \/ UnregisterForIPC(m)
                      \/ FreeModule(m) \/ UpdateBegins(m) \/ UpdateEnds(m)
             PROVE  IpcInv'
  BY <1>a DEF IpcMainStep
<1> USE DEF IpcInv, IpcTypeOK, LockInv, InCallbacks, CalledAreRegistered, LockedForCall, MainHoldsAlone, ExclusiveToRegister,
            ipcWorld, ipcThread, MainFree, CallbacksFree
<1>1. CASE MakeModule(m)  BY <1>1 DEF MakeModule
<1>2. CASE RegisterForIPC(m)  BY <1>2 DEF RegisterForIPC
<1>3. CASE LeaveModule(m)  BY <1>3 DEF LeaveModule
<1>4. CASE UnregisterForIPC(m)  BY <1>4 DEF UnregisterForIPC
<1>5. CASE FreeModule(m)  BY <1>5 DEF FreeModule
<1>6. CASE UpdateBegins(m)  BY <1>6 DEF UpdateBegins
<1>7. CASE UpdateEnds(m)  BY <1>7 DEF UpdateEnds
<1> QED  BY <1>1, <1>2, <1>3, <1>4, <1>5, <1>6, <1>7

\* The listener keeps it: it calls whom callbacks_ lists, and callbacks_ does not change while
\* it does.
LEMMA ListenerKeeps == IpcInv /\ (ListenerStep \/ SocketCloses) => IpcInv'
<1> SUFFICES ASSUME IpcInv, ListenerStep \/ SocketCloses PROVE IpcInv'
  OBVIOUS
<1> USE DEF IpcInv, IpcTypeOK, LockInv, InCallbacks, CalledAreRegistered, LockedForCall, MainHoldsAlone, ExclusiveToRegister,
            ipcWorld, ipcThread, ipcModules
<1>1. CASE ReadEvent  BY <1>1 DEF ReadEvent
<1>2. ASSUME NEW m \in LabelModule, AskingOnEvent(m) PROVE IpcInv'
  BY <1>2 DEF AskingOnEvent
<1>3. ASSUME NEW m \in LabelModule, HearingLocks(m) PROVE IpcInv'
  BY <1>3 DEF HearingLocks
<1>4. ASSUME NEW m \in LabelModule, NEW value, Handled(m, value) PROVE IpcInv'
  BY <1>4 DEF Handled
<1>5. CASE LanguageOnEvent
  <2>1. CASE handlerLock["language"] = "listener" /\ ~ipcEvent.ours  BY <1>5, <2>1 DEF LanguageOnEvent
  <2>2. CASE ~(handlerLock["language"] = "listener" /\ ~ipcEvent.ours)
    BY <1>4, <1>5, <2>2 DEF LanguageOnEvent
  <2> QED  BY <2>1, <2>2
<1>6. CASE SubmapOnEvent  BY <1>4, <1>6 DEF SubmapOnEvent
<1>7. CASE Called  BY <1>7 DEF Called
<1>8. CASE SocketCloses  BY <1>8 DEF SocketCloses
<1> QED  BY <1>1, <1>2, <1>3, <1>5, <1>6, <1>7, <1>8 DEF ListenerStep

\* Type correctness and the lock discipline, for every behaviour of the listener and the
\* main thread (backend.cpp:84-212).
THEOREM IpcInvariant == IpcSpec => []IpcInv
<1>1. IpcInv /\ [IpcNext]_ipcVars => IpcInv'
  <2> SUFFICES ASSUME IpcInv, [IpcNext]_ipcVars PROVE IpcInv'
    OBVIOUS
  <2>1. CASE UNCHANGED ipcVars
    BY <2>1 DEF IpcInv, IpcTypeOK, LockInv, InCallbacks, CalledAreRegistered, LockedForCall, MainHoldsAlone, ExclusiveToRegister,
                ipcVars, ipcWorld, ipcThread, ipcModules
  <2>2. CASE IpcNext  BY <2>2, CompositorKeeps, MainKeeps, ListenerKeeps DEF IpcNext
  <2> QED  BY <2>1, <2>2
<1> QED  BY IpcStarts, <1>1, PTL DEF IpcSpec

\* The listener calls no module whose memory is gone, and holds no mutex of one
\* (backend.cpp:177-212).
THEOREM NeverCalledAfterFree == IpcSpec => []NoCallAfterFree
<1>1. IpcInv => NoCallAfterFree
  BY DEF IpcInv, IpcTypeOK, LockInv, InCallbacks, CalledAreRegistered, LockedForCall, MainHoldsAlone, ExclusiveToRegister, NoCallAfterFree
<1> QED  BY IpcInvariant, <1>1, PTL

\* No thread waits for ever for callbackMutex_, windowIpcSmtx or a module's mutex_: what main holds while it waits,
\* windowIpcSmtx, the listener never waits for; and what the listener waits for main holds only while it waits
\* for nothing (backend.cpp:177-212, hyprland/window.cpp:28-43).
THEOREM LocksInOrder == IpcSpec => []NoLockCycle
<1>1. IpcInv => NoLockCycle
  <2> SUFFICES ASSUME IpcInv PROVE NoLockCycle
    OBVIOUS
  <2> USE DEF IpcInv, LockInv
  <2>1. MainWants \cap MainHas = {}
    BY DEF MainHoldsAlone, ExclusiveToRegister, MainWants, MainHas
  <2>2. ListenerWants \cap ListenerHas = {}
    BY DEF ListenerWants, ListenerHas
  <2>3. ASSUME ListenerWants \cap MainHas # {} PROVE MainWants = {}
    <3>1. PICK m \in Hearing : handlerLock[m] \in {"main", "exclusive"}
      BY <2>3 DEF ListenerWants, MainHas
    <3>2. handlerLock[m] = "main"
      BY <3>1 DEF ExclusiveToRegister
    <3> QED  BY <3>1, <3>2 DEF MainHoldsAlone, MainWants
  <2> QED  BY <2>1, <2>2, <2>3 DEF NoLockCycle
<1> QED  BY IpcInvariant, <1>1, PTL

-----------------------------------------------------------------------------
(* Niri.  What is on the wire leads from the mirror to what niri has: every   *)
(* event is one step of the way, and no induction is needed to say so.        *)

\* What the thread has when it has heard everything, and the records it is made of.
Mirrors(n) == [ws |-> n.ws, wins |-> n.wins, focused |-> {FocusedWin(n)} \ {NoWin}, kb |-> n.kb]
IsKb(k) == k = [count |-> k.count, idx |-> k.idx]
IsMirror(m) == m = [ws |-> m.ws, wins |-> m.wins, focused |-> m.focused, kb |-> m.kb] /\ IsKb(m.kb)

\* way: the mirrors from m to t as the events of w are applied.
Leads(way, w, m, t) ==
  /\ way[0] = m /\ way[Len(w)] = t
  /\ \A i \in 0..Len(w) : IsMirror(way[i])
  /\ \A i \in 1..Len(w) : way[i] = ApplyTo(way[i - 1], w[i])

\* With nothing of windows to come the label is the final one.
NothingAfter(w, i) == \A j \in 1..Len(w) : i < j => w[j].kind \notin OfWindows
Settles(way, w, final) == \A i \in 0..Len(w) : NothingAfter(w, i) => WindowLabel(way[i]) = final

LEMMA NoWay ==
  ASSUME NEW m, IsMirror(m)
  PROVE  \E way : Leads(way, <<>>, m, m)
<1>1. PICK way : way = [i \in {0} |-> m]
  OBVIOUS
<1>2. Len(<<>>) = 0 /\ 0..0 = {0} /\ 1..0 = {} /\ way[0] = m
  BY <1>1
<1> QED  BY <1>2 DEF Leads

\* One way after another.
Prolongs(all, way, w) == \A i \in 0..Len(w) : all[i] = way[i]
LEMMA WaysJoin ==
  \A E, w, v, m, t, u, way, wayOn :
    w \in Seq(E) /\ v \in Seq(E) /\ Leads(way, w, m, t) /\ Leads(wayOn, v, t, u) =>
      \E all : Leads(all, w \o v, m, u) /\ Prolongs(all, way, w)
<1> SUFFICES ASSUME NEW E, NEW w \in Seq(E), NEW v \in Seq(E), NEW m, NEW t, NEW u,
                    NEW way, Leads(way, w, m, t), NEW wayOn, Leads(wayOn, v, t, u)
             PROVE  \E all : Leads(all, w \o v, m, u) /\ Prolongs(all, way, w)
  OBVIOUS
<1> DEFINE a == Len(w)
           b == Len(v)
<1>1. /\ a \in Nat /\ b \in Nat /\ Len(w \o v) = a + b
      /\ \A i \in 1..a : (w \o v)[i] = w[i]
      /\ \A i \in 1..b : (w \o v)[a + i] = v[i]
  OBVIOUS
<1>2. way[a] = wayOn[0]
  BY DEF Leads
<1>3. PICK all : all = [i \in 0..(a + b) |-> IF i <= a THEN way[i] ELSE wayOn[i - a]]
  OBVIOUS
<1>4. \A i \in 0..a : all[i] = way[i]
  BY <1>1, <1>3
<1>5. \A i \in 0..b : all[a + i] = wayOn[i]
  <2> SUFFICES ASSUME NEW i \in 0..b PROVE all[a + i] = wayOn[i]
    OBVIOUS
  <2>1. a + i \in 0..(a + b) /\ (a + i) - a = i /\ (a + i <= a <=> i = 0)
    BY <1>1
  <2>2. i = 0 => all[a + i] = wayOn[i]
    BY <1>1, <1>2, <1>3, <2>1
  <2> QED  BY <1>3, <2>1, <2>2
<1>6. all[0] = m /\ all[a + b] = u
  BY <1>1, <1>4, <1>5 DEF Leads
<1>7. \A i \in 0..(a + b) : i \in 0..a \/ i - a \in 1..b
  BY <1>1
<1>8. \A i \in 0..(a + b) : IsMirror(all[i])
  <2> SUFFICES ASSUME NEW i \in 0..(a + b) PROVE IsMirror(all[i])
    OBVIOUS
  <2>1. CASE i \in 0..a
    BY <1>4, <2>1 DEF Leads
  <2>2. CASE i - a \in 1..b
    <3>1. a + (i - a) = i /\ i - a \in 0..b
      BY <1>1, <2>2
    <3> QED  BY <1>5, <3>1 DEF Leads
  <2> QED  BY <1>7, <2>1, <2>2
<1>9. \A i \in 1..(a + b) : all[i] = ApplyTo(all[i - 1], (w \o v)[i])
  <2> SUFFICES ASSUME NEW i \in 1..(a + b) PROVE all[i] = ApplyTo(all[i - 1], (w \o v)[i])
    OBVIOUS
  <2>1. CASE i \in 1..a
    <3>1. i \in 0..a /\ i - 1 \in 0..a
      BY <1>1, <2>1
    <3> QED  BY <1>1, <1>4, <2>1, <3>1 DEF Leads
  <2>2. CASE i - a \in 1..b
    <3>1. PICK j \in 1..b : j = i - a
      BY <2>2
    <3>2. i = a + j /\ i - 1 = a + (j - 1) /\ j \in 0..b /\ j - 1 \in 0..b
      BY <1>1, <3>1
    <3>3. all[i] = wayOn[j] /\ all[i - 1] = wayOn[j - 1] /\ (w \o v)[i] = v[j]
      BY <1>1, <1>5, <3>1, <3>2
    <3> QED  BY <3>1, <3>3 DEF Leads
  <2> QED  BY <1>1, <2>1, <2>2
<1>10. Leads(all, w \o v, m, u)
  BY <1>1, <1>6, <1>8, <1>9 DEF Leads
<1> QED  BY <1>4, <1>10 DEF Prolongs

\* A way of one event, and the way that is left when the first event has been applied.
LEMMA OneStep ==
  ASSUME NEW m, NEW e, IsMirror(m), IsMirror(ApplyTo(m, e))
  PROVE  \E way : Leads(way, <<e>>, m, ApplyTo(m, e))
<1>0. PICK t : t = ApplyTo(m, e)
  OBVIOUS
<1>1. PICK way : way = [i \in 0..1 |-> IF i = 0 THEN m ELSE t]
  OBVIOUS
<1>2. Len(<<e>>) = 1 /\ <<e>>[1] = e /\ 0..1 = {0, 1} /\ 1..1 = {1} /\ 1 - 1 = 0 /\ way[0] = m /\ way[1] = t
  BY <1>1
<1> QED  BY <1>0, <1>2 DEF Leads

LEMMA WayTail ==
  ASSUME NEW E, NEW w \in Seq(E), w # <<>>, NEW m, NEW t, NEW way, Leads(way, w, m, t)
  PROVE  /\ IsMirror(way[1]) /\ way[1] = ApplyTo(m, Head(w)) /\ Tail(w) \in Seq(E)
         /\ \E rest : /\ Leads(rest, Tail(w), way[1], t)
                      /\ \A final : Settles(way, w, final) => Settles(rest, Tail(w), final)
<1>1. /\ Len(w) \in Nat /\ Len(w) > 0 /\ Tail(w) \in Seq(E) /\ Len(Tail(w)) = Len(w) - 1 /\ Head(w) = w[1]
      /\ \A i \in 1..Len(Tail(w)) : Tail(w)[i] = w[i + 1]
  OBVIOUS
<1>2. 1 \in 1..Len(w) /\ 1 \in 0..Len(w) /\ 1 - 1 = 0
  BY <1>1
<1>3. IsMirror(way[1]) /\ way[1] = ApplyTo(m, Head(w))
  BY <1>1, <1>2 DEF Leads
<1>4. PICK rest : rest = [i \in 0..Len(Tail(w)) |-> way[i + 1]]
  OBVIOUS
<1>5. \A i \in 0..Len(Tail(w)) : i + 1 \in 0..Len(w) /\ rest[i] = way[i + 1]
  BY <1>1, <1>4
<1>6. Leads(rest, Tail(w), way[1], t)
  <2>1. rest[0] = way[1] /\ rest[Len(Tail(w))] = t
    BY <1>1, <1>5 DEF Leads
  <2>2. \A i \in 0..Len(Tail(w)) : IsMirror(rest[i])
    BY <1>5 DEF Leads
  <2>3. \A i \in 1..Len(Tail(w)) : rest[i] = ApplyTo(rest[i - 1], Tail(w)[i])
    <3> SUFFICES ASSUME NEW i \in 1..Len(Tail(w)) PROVE rest[i] = ApplyTo(rest[i - 1], Tail(w)[i])
      OBVIOUS
    <3>1. i \in 0..Len(Tail(w)) /\ i - 1 \in 0..Len(Tail(w)) /\ (i - 1) + 1 = i /\ (i + 1) - 1 = i /\ i + 1 \in 1..Len(w)
      BY <1>1
    <3>2. way[i + 1] = ApplyTo(way[(i + 1) - 1], w[i + 1])
      BY <3>1 DEF Leads
    <3> QED  BY <1>1, <1>5, <3>1, <3>2
  <2> QED  BY <2>1, <2>2, <2>3 DEF Leads
<1>7. ASSUME NEW final, Settles(way, w, final) PROVE Settles(rest, Tail(w), final)
  <2> SUFFICES ASSUME NEW i \in 0..Len(Tail(w)), NothingAfter(Tail(w), i) PROVE WindowLabel(rest[i]) = final
    BY DEF Settles
  <2>1. NothingAfter(w, i + 1)
    <3> SUFFICES ASSUME NEW j \in 1..Len(w), i + 1 < j PROVE w[j].kind \notin OfWindows
      BY DEF NothingAfter
    <3>1. j - 1 \in 1..Len(Tail(w)) /\ i < j - 1 /\ (j - 1) + 1 = j
      BY <1>1
    <3> QED  BY <1>1, <3>1 DEF NothingAfter
  <2> QED  BY <1>5, <1>7, <2>1 DEF Settles
<1> QED  BY <1>1, <1>3, <1>6, <1>7

-----------------------------------------------------------------------------
WsRecord == [output : Outputs, active : BOOLEAN, focused : BOOLEAN, urgent : BOOLEAN, win : NiriWin \cup {NoWin}]

\* One workspace has the focus, and is the active one of its output; the active window of a
\* workspace is on it.
OneFocused(n) == \E f \in DOMAIN n.ws : n.ws[f].active /\ FocusedWs(n) = {f}
WindowsPlaced(n) ==
  \A w \in DOMAIN n.ws : n.ws[w].win # NoWin => n.ws[w].win \in DOMAIN n.wins /\ n.wins[n.ws[w].win] = w
Sane(n) ==
  /\ n = [ws |-> n.ws, wins |-> n.wins, layer |-> n.layer, kb |-> n.kb] /\ IsKb(n.kb)
  /\ n.ws \in [DOMAIN n.ws -> WsRecord]
  /\ n.wins \in [DOMAIN n.wins -> DOMAIN n.ws] /\ DOMAIN n.wins \subseteq NiriWin
  /\ OneFocused(n) /\ WindowsPlaced(n)

\* The window module shows what niri has, unless it is told to look before the wire is empty.
OnTheWay ==
  /\ \E way : /\ Leads(way, niriWire, mirror, Mirrors(niri))
              /\ ~niriUntold => Settles(way, niriWire, WindowLabel(niri))
  /\ ~niriUntold /\ "window" \notin niriDp /\ NothingAfter(niriWire, 0) => niriView["window"] = WindowLabel(niri)

NiriInv ==
  /\ Sane(niri) /\ IsMirror(mirror) /\ langCopy = mirror.kb
  /\ \E E : niriWire \in Seq(E)
  /\ DOMAIN niriView = NiriModules
  /\ "workspaces" \notin niriDp => niriView["workspaces"] = ShownWorkspaces(mirror)
  /\ "language" \notin niriDp => niriView["language"] = LanguageLabel(langCopy)
  /\ niriUp => OnTheWay

LEMMA FocusIs ==
  ASSUME NEW n, Sane(n)
  PROVE  /\ FocusedWin(n) \in DOMAIN n.wins \cup {NoWin}
         /\ IsMirror(Mirrors(n)) /\ WindowLabel(Mirrors(n)) = WindowLabel(n)
<1>1. PICK f \in DOMAIN n.ws : FocusedWs(n) = {f}
  BY DEF Sane, OneFocused
<1>2. (CHOOSE w \in {f} : TRUE) = f
  OBVIOUS
<1>3. FocusedWin(n) = IF n.layer THEN NoWin ELSE n.ws[f].win
  BY <1>1, <1>2 DEF FocusedWin
<1>4. n.ws[f].win \in DOMAIN n.wins \cup {NoWin}
  BY DEF Sane, WindowsPlaced
<1>5. IsMirror(Mirrors(n))
  BY DEF Sane, IsMirror, Mirrors
<1>6. WindowLabel(Mirrors(n)) = WindowLabel(n)
  <2>1. Mirrors(n).ws = n.ws /\ Mirrors(n).wins = n.wins
    BY DEF Mirrors
  <2> QED  BY <2>1 DEF WindowLabel, ActiveOn, FocusedWs
<1> QED  BY <1>3, <1>4, <1>5, <1>6

\* Whether events tell of a new window that has the focus.
Said(events) ==
  \E e \in ToSet(events) : e.kind = "WindowOpenedOrChanged" /\ e.focused /\ e.win \notin DOMAIN niri.wins

\* What is done and told leads on to what niri has then.
LEMMA ChangeKeeps ==
  ASSUME NiriInv, NEW n, NEW E, NEW events \in Seq(E), NiriChange(n, events), Sane(n), NEW F, NEW wayOn,
         Leads(wayOn, events, Mirrors(niri), [ws |-> n.ws, wins |-> n.wins, focused |-> F, kb |-> n.kb]),
         FocusedWin(n) = FocusedWin(niri) \/ Said(events) => F = {FocusedWin(n)} \ {NoWin},
         \/ Len(events) = 0
         \/ Len(events) = 1 /\ events[1].kind \notin OfWindows
         \/ Len(events) > 0 /\ events[Len(events)].kind \in OfWindows
  PROVE  NiriInv'
<1> DEFINE focused == [kind |-> "WindowFocusChanged", win |-> FocusedWin(n)]
           mid == [ws |-> n.ws, wins |-> n.wins, focused |-> F, kb |-> n.kb]
<1>1. PICK focus : focus = IF FocusedWin(n) = FocusedWin(niri) \/ Said(events) THEN <<>> ELSE <<focused>>
  OBVIOUS
<1>2. /\ niri' = n
      /\ niriUp => niriWire' = (niriWire \o events) \o focus
      /\ ~niriUp => niriWire' = niriWire
      /\ niriUntold' = (~(\E e \in ToSet(events \o focus) : e.kind \in OfWindows)
                          /\ (niriUntold \/ WindowLabel(n) # WindowLabel(niri)))
      /\ UNCHANGED <<niriConfig, niriUp, mirror, langCopy, niriDp, niriView>>
  BY <1>1 DEF NiriChange, Said
<1>e. PICK e0 : e0 = focused
  OBVIOUS
<1>m. PICK m0 : m0 = mid
  OBVIOUS
<1>3. PICK W : niriWire \in Seq(W)
  BY DEF NiriInv
<1>4. PICK Events : Events = W \cup E \cup {e0}
  OBVIOUS
<1>5. /\ niriWire \in Seq(Events) /\ events \in Seq(Events) /\ focus \in Seq(Events) /\ (niriWire \o events) \in Seq(Events)
      /\ Len(niriWire) \in Nat /\ Len(events) \in Nat
      /\ focus = <<>> \/ (focus = <<e0>> /\ Len(focus) = 1 /\ focus[1] = e0)
      /\ Len(niriWire \o events) = Len(niriWire) + Len(events)
  <2>1. focus = <<>> \/ focus = <<e0>>
    BY <1>1, <1>e
  <2>2. niriWire \in Seq(Events) /\ events \in Seq(Events)
    BY <1>3, <1>4
  <2>3. focus \in Seq(Events)
    <3>1. e0 \in Events /\ <<>> \in Seq(Events)
      BY <1>4
    <3>2. <<e0>> \in Seq(Events)
      BY <3>1
    <3> QED  BY <2>1, <3>1, <3>2
  <2> QED  BY <2>1, <2>2, <2>3
<1>6. niriWire' \in Seq(Events)
  <2>1. (niriWire \o events) \o focus \in Seq(Events)
    BY <1>5
  <2>2. niriUp \/ ~niriUp
    OBVIOUS
  <2> QED  BY <1>2, <1>5, <2>1, <2>2
<1>7. \E way : Leads(way, focus, m0, Mirrors(n))
  <2>1. IsMirror(m0) /\ IsMirror(Mirrors(n))
    BY <1>m, FocusIs DEF IsMirror, Sane
  <2>2. CASE focus = <<>>
    <3>1. <<e0>> # <<>>
      OBVIOUS
    <3>2. F = {FocusedWin(n)} \ {NoWin}
      BY <1>1, <1>e, <2>2, <3>1
    <3>3. m0 = Mirrors(n)
      BY <1>m, <3>2 DEF Mirrors
    <3> QED  BY <2>1, <2>2, <3>3, NoWay
  <2>3. CASE focus = <<e0>>
    <3>1. {FocusedWin(n)} \cap DOMAIN n.wins = {FocusedWin(n)} \ {NoWin}
      BY FocusIs, NiriAssumption DEF Sane
    <3>2. ApplyTo(m0, e0) = [m0 EXCEPT !.focused = {FocusedWin(n)} \cap DOMAIN m0.wins]
      BY <1>e DEF ApplyTo
    <3>3. ApplyTo(m0, e0) = Mirrors(n)
      BY <1>m, <3>1, <3>2 DEF Mirrors
    <3> QED  BY <2>1, <2>3, <3>3, OneStep
  <2> QED  BY <1>5, <2>2, <2>3
<1>8. PICK wayFocus : Leads(wayFocus, focus, m0, Mirrors(n))
  BY <1>7
<1>w. Leads(wayOn, events, Mirrors(niri), m0)
  BY <1>m
<1> HIDE DEF focused, mid
<1> DEFINE told == \E e \in ToSet(events \o focus) : e.kind \in OfWindows
<1>9. ASSUME niriUp
      PROVE  /\ \E way : /\ Leads(way, niriWire', mirror, Mirrors(n))
                         /\ ~niriUntold' => Settles(way, niriWire', WindowLabel(n))
             /\ ~niriUntold' /\ "window" \notin niriDp /\ NothingAfter(niriWire', 0) => niriView["window"] = WindowLabel(n)
  <2>1. PICK way : /\ Leads(way, niriWire, mirror, Mirrors(niri))
                   /\ ~niriUntold => Settles(way, niriWire, WindowLabel(niri))
    BY <1>9 DEF NiriInv, OnTheWay
  <2>w. PICK w0 \in Seq(Events) : w0 = niriWire
    BY <1>5
  <2>m. PICK m1 : m1 = mirror
    OBVIOUS
  <2>t. PICK t0 : t0 = Mirrors(niri)
    OBVIOUS
  <2>a. w0 = niriWire /\ m1 = mirror /\ t0 = Mirrors(niri)
    BY <2>w, <2>m, <2>t
  <2>b. PICK way1 : Leads(way1, w0 \o events, m1, m0) /\ Prolongs(way1, way, w0)
    <3>1. Leads(way, w0, m1, t0) /\ Leads(wayOn, events, t0, m0) /\ events \in Seq(Events)
      BY <1>5, <1>w, <2>1, <2>a
    <3> QED  BY <3>1, WaysJoin
  <2>2. Leads(way1, niriWire \o events, mirror, m0) /\ \A i \in 0..Len(niriWire) : way1[i] = way[i]
    BY <2>a, <2>b DEF Prolongs
  <2>v. PICK w1 \in Seq(Events) : w1 = niriWire \o events
    BY <1>5
  <2>u. PICK t1 : t1 = Mirrors(n)
    OBVIOUS
  <2>c. w1 = niriWire \o events /\ t1 = Mirrors(n)
    BY <2>v, <2>u
  <2>d. PICK way2 : Leads(way2, w1 \o focus, m1, t1) /\ Prolongs(way2, way1, w1)
    <3>1. Leads(way1, w1, m1, m0) /\ Leads(wayFocus, focus, m0, t1) /\ focus \in Seq(Events)
      BY <1>5, <1>8, <2>a, <2>b, <2>c
    <3> QED  BY <3>1, WaysJoin
  <2>3. Leads(way2, niriWire', mirror, Mirrors(n)) /\ \A i \in 0..Len(niriWire \o events) : way2[i] = way1[i]
    BY <1>2, <1>9, <2>a, <2>c, <2>d DEF Prolongs
  <2>4. Len(niriWire') \in Nat /\ way2[Len(niriWire')] = Mirrors(n) /\ WindowLabel(Mirrors(n)) = WindowLabel(n)
    BY <1>6, <2>3, FocusIs DEF Leads
  <2>5. CASE told
    <3>1. Len(niriWire') > 0 /\ niriWire'[Len(niriWire')].kind \in OfWindows
      <4>1. CASE focus = <<e0>>
        <5>1. niriWire' = (niriWire \o events) \o focus /\ Len(niriWire') = Len(niriWire \o events) + 1
              /\ niriWire'[Len(niriWire')] = e0
          <6>1. niriWire' = (niriWire \o events) \o focus /\ Len(focus) = 1 /\ focus[1] = e0
            BY <1>2, <1>5, <1>9, <4>1
          <6>2. PICK before : before = niriWire \o events
            OBVIOUS
          <6>3. before \in Seq(Events) /\ Len(before) \in Nat /\ niriWire' = before \o focus /\ focus \in Seq(Events)
            BY <1>5, <6>1, <6>2
          <6>4. /\ Len(before \o focus) = Len(before) + Len(focus)
                /\ \A i \in 1..Len(focus) : (before \o focus)[Len(before) + i] = focus[i]
            BY <6>3
          <6>5. (before \o focus)[Len(before) + 1] = e0
            BY <6>1, <6>4
          <6> QED  BY <6>1, <6>2, <6>3, <6>4, <6>5
        <5>2. e0.kind = "WindowFocusChanged"
          BY <1>e DEF focused
        <5> QED  BY <5>1, <5>2 DEF OfWindows
      <4>2. CASE focus = <<>>
        <5>1. events \o focus = events /\ niriWire' = niriWire \o events
          BY <1>2, <1>5, <1>9, <4>2
        <5>2. \E i \in 1..Len(events) : events[i].kind \in OfWindows
          BY <2>5, <5>1 DEF ToSet
        <5>3. Len(events) > 0 /\ events[Len(events)].kind \in OfWindows
          BY <1>5, <5>2
        <5>4. niriWire'[Len(niriWire')] = events[Len(events)] /\ Len(niriWire') > 0
          BY <1>5, <5>1, <5>3
        <5> QED  BY <5>3, <5>4
      <4> QED  BY <1>5, <4>1, <4>2
    <3>2. \A i \in 0..Len(niriWire') : NothingAfter(niriWire', i) => i = Len(niriWire')
      BY <2>4, <3>1 DEF NothingAfter
    <3>3. ~NothingAfter(niriWire', 0)
      BY <2>4, <3>1 DEF NothingAfter
    <3>4. Settles(way2, niriWire', WindowLabel(n))
      BY <2>4, <3>2 DEF Settles
    <3> QED  BY <2>3, <3>3, <3>4
  <2>6. CASE ~told
    <3>1. focus = <<>>
      <4>1. focus = <<e0>> => e0 \in ToSet(events \o focus)
        <5>1. focus = <<e0>> => Len(events) + 1 \in DOMAIN (events \o focus) /\ (events \o focus)[Len(events) + 1] = e0
          BY <1>5
        <5> QED  BY <5>1 DEF ToSet
      <4>2. e0.kind = "WindowFocusChanged"
        BY <1>e DEF focused
      <4> QED  BY <1>5, <2>6, <4>1, <4>2 DEF OfWindows
    <3>2. events \o focus = events /\ niriWire' = niriWire \o events
      BY <1>2, <1>5, <1>9, <3>1
    <3>3. Len(events) <= 1
      <4>1. \A i \in 1..Len(events) : events[i].kind \notin OfWindows
        BY <2>6, <3>2 DEF ToSet
      <4> QED  BY <1>5, <4>1
    <3>4. ASSUME ~niriUntold' PROVE ~niriUntold /\ WindowLabel(n) = WindowLabel(niri)
      BY <1>2, <2>6, <3>4
    <3>5. ASSUME NEW i \in 0..Len(niriWire), NothingAfter(niriWire', i) PROVE NothingAfter(niriWire, i)
      BY <1>5, <3>2, <3>5 DEF NothingAfter
    <3>6. ASSUME ~niriUntold' PROVE Settles(way2, niriWire', WindowLabel(n))
      <4> SUFFICES ASSUME NEW i \in 0..Len(niriWire'), NothingAfter(niriWire', i) PROVE WindowLabel(way2[i]) = WindowLabel(n)
        BY DEF Settles
      <4>1. CASE i = Len(niriWire')
        BY <2>4, <4>1
      <4>2. CASE i # Len(niriWire')
        <5>1. i \in 0..Len(niriWire) /\ i \in 0..Len(niriWire \o events)
          BY <1>5, <3>2, <3>3, <4>2
        <5> QED  BY <2>1, <2>2, <2>3, <3>4, <3>5, <3>6, <5>1 DEF Settles
      <4> QED  BY <4>1, <4>2
    <3>7. ASSUME ~niriUntold', "window" \notin niriDp, NothingAfter(niriWire', 0) PROVE niriView["window"] = WindowLabel(n)
      <4>1. 0 \in 0..Len(niriWire)
        BY <1>5
      <4> QED  BY <1>9, <3>4, <3>5, <3>7, <4>1 DEF NiriInv, OnTheWay
    <3> QED  BY <2>3, <3>6, <3>7
  <2> QED  BY <2>5, <2>6
<1>10. (\A l : WindowLabel(l)' = WindowLabel(l)) /\ WindowLabel(niri)' = WindowLabel(n)
  <2>1. niri' = n /\ niriConfig' = niriConfig
    BY <1>2
  <2>2. \A l : WindowLabel(l)' = WindowLabel(l)
    BY <2>1 DEF WindowLabel
  <2>3. WindowLabel(niri)' = WindowLabel(n)
    BY <2>1 DEF WindowLabel
  <2> QED  BY <2>2, <2>3
<1>11. niriUp' => OnTheWay'
  BY <1>2, <1>9, <1>10 DEF OnTheWay, Settles
<1>12. ShownWorkspaces(mirror)' = ShownWorkspaces(mirror)
  BY <1>2 DEF ShownWorkspaces
<1>13. Sane(niri)' /\ IsMirror(mirror)' /\ (\E S : niriWire \in Seq(S))'
  BY <1>2, <1>6 DEF NiriInv
<1> QED  BY <1>2, <1>11, <1>12, <1>13 DEF NiriInv

LEMMA TwoSteps ==
  ASSUME NEW m, NEW e, NEW f, NEW p, NEW q, IsMirror(m), IsMirror(p), IsMirror(q), p = ApplyTo(m, e), q = ApplyTo(p, f)
  PROVE  \E way : Leads(way, <<e, f>>, m, q)
<1>1. PICK way : way = [i \in 0..2 |-> IF i = 0 THEN m ELSE IF i = 1 THEN p ELSE q]
  OBVIOUS
<1>2. /\ Len(<<e, f>>) = 2 /\ <<e, f>>[1] = e /\ <<e, f>>[2] = f /\ 0..2 = {0, 1, 2} /\ 1..2 = {1, 2} /\ 1 - 1 = 0 /\ 2 - 1 = 1
      /\ way[0] = m /\ way[1] = p /\ way[2] = q
  BY <1>1
<1> QED  BY <1>2 DEF Leads

LEMMA ThreeSteps ==
  ASSUME NEW m, NEW e, NEW f, NEW g, NEW p, NEW q, NEW r, IsMirror(m), IsMirror(p), IsMirror(q), IsMirror(r),
         p = ApplyTo(m, e), q = ApplyTo(p, f), r = ApplyTo(q, g)
  PROVE  \E way : Leads(way, <<e, f, g>>, m, r)
<1>1. PICK way : way = [i \in 0..3 |-> IF i = 0 THEN m ELSE IF i = 1 THEN p ELSE IF i = 2 THEN q ELSE r]
  OBVIOUS
<1>2. /\ Len(<<e, f, g>>) = 3 /\ <<e, f, g>>[1] = e /\ <<e, f, g>>[2] = f /\ <<e, f, g>>[3] = g
      /\ 0..3 = {0, 1, 2, 3} /\ 1..3 = {1, 2, 3} /\ 1 - 1 = 0 /\ 2 - 1 = 1 /\ 3 - 1 = 2
      /\ way[0] = m /\ way[1] = p /\ way[2] = q /\ way[3] = r
  BY <1>1
<1> QED  BY <1>2 DEF Leads

\* One event that is not of windows.
LEMMA SingleKeeps ==
  ASSUME NiriInv, NEW n, NEW e, NiriChange(n, <<e>>), Sane(n), e.kind \notin OfWindows,
         ApplyTo(Mirrors(niri), e) = [ws |-> n.ws, wins |-> n.wins, focused |-> {FocusedWin(niri)} \ {NoWin}, kb |-> n.kb]
  PROVE  NiriInv'
<1>1. PICK F : F = {FocusedWin(niri)} \ {NoWin}
  OBVIOUS
<1>2. PICK m : m = Mirrors(niri)
  OBVIOUS
<1>3. ApplyTo(m, e) = [ws |-> n.ws, wins |-> n.wins, focused |-> F, kb |-> n.kb] /\ IsMirror(m) /\ IsMirror(ApplyTo(m, e))
  BY <1>1, <1>2, FocusIs DEF NiriInv, Sane, IsMirror
<1>4. PICK wayOn : Leads(wayOn, <<e>>, m, ApplyTo(m, e))
  BY <1>3, OneStep
<1>5. Leads(wayOn, <<e>>, Mirrors(niri), [ws |-> n.ws, wins |-> n.wins, focused |-> F, kb |-> n.kb])
  BY <1>2, <1>3, <1>4
<1>6. ~Said(<<e>>)
  BY DEF Said, ToSet, OfWindows
<1>7. <<e>> \in Seq({e}) /\ Len(<<e>>) = 1 /\ <<e>>[1] = e
  OBVIOUS
<1>8. FocusedWin(n) = FocusedWin(niri) \/ Said(<<e>>) => F = {FocusedWin(n)} \ {NoWin}
  BY <1>1, <1>6
<1> QED  BY <1>5, <1>7, <1>8, ChangeKeeps

\* Several, the last of them of windows.
LEMMA SeveralKeep ==
  ASSUME NiriInv, NEW n, NEW events, NEW E, events \in Seq(E), NiriChange(n, events), Sane(n),
         Len(events) > 0, events[Len(events)].kind \in OfWindows, NEW F, NEW m, m = Mirrors(niri), NEW t,
         t = [ws |-> n.ws, wins |-> n.wins, focused |-> F, kb |-> n.kb], \E wayOn : Leads(wayOn, events, m, t),
         FocusedWin(n) = FocusedWin(niri) \/ Said(events) => F = {FocusedWin(n)} \ {NoWin}
  PROVE  NiriInv'
<1>1. PICK wayOn : Leads(wayOn, events, Mirrors(niri), [ws |-> n.ws, wins |-> n.wins, focused |-> F, kb |-> n.kb])
  OBVIOUS
<1> QED  BY <1>1, ChangeKeeps

LEMMA SwitchedKeeps ==
  ASSUME NiriInv, NEW w, NEW focused \in BOOLEAN, WorkspaceSwitched(w, focused)
  PROVE  NiriInv'
<1>1. Sane(niri) /\ w \in DOMAIN niri.ws
  BY DEF NiriInv, WorkspaceSwitched
<1>2. PICK ws : ws = [v \in DOMAIN niri.ws |->
                  [niri.ws[v] EXCEPT !.active = IF niri.ws[v].output = niri.ws[w].output THEN v = w ELSE @,
                                     !.focused = IF focused THEN v = w ELSE @]]
  OBVIOUS
<1>3. PICK n : n = [niri EXCEPT !.ws = ws]
  OBVIOUS
<1>4. PICK e : e = [kind |-> "WorkspaceActivated", ws |-> w, focused |-> focused]
  OBVIOUS
<1>5. NiriChange(n, <<e>>)
  BY <1>2, <1>3, <1>4 DEF WorkspaceSwitched
<1>6. n = [ws |-> ws, wins |-> niri.wins, layer |-> niri.layer, kb |-> niri.kb]
  BY <1>1, <1>3 DEF Sane
<1>7. ApplyTo(Mirrors(niri), e) = [ws |-> n.ws, wins |-> n.wins, focused |-> {FocusedWin(niri)} \ {NoWin}, kb |-> n.kb]
  <2>1. PICK m : m = Mirrors(niri)
    OBVIOUS
  <2>2. m.ws = niri.ws /\ m = [ws |-> niri.ws, wins |-> niri.wins, focused |-> {FocusedWin(niri)} \ {NoWin}, kb |-> niri.kb]
    BY <2>1 DEF Mirrors
  <2>3. e.kind = "WorkspaceActivated" /\ e.ws = w /\ e.focused = focused /\ e.ws \in DOMAIN m.ws
    BY <1>1, <1>4, <2>2
  <2>4. PICK ms : ms = [v \in DOMAIN m.ws |->
                [m.ws[v] EXCEPT !.active = IF m.ws[v].output = m.ws[e.ws].output THEN v = e.ws ELSE @,
                                !.focused = IF e.focused THEN v = e.ws ELSE @]]
    OBVIOUS
  <2>5. ApplyTo(m, e) = [m EXCEPT !.ws = ms]
    BY <2>3, <2>4 DEF ApplyTo
  <2>6. ms = ws
    BY <1>2, <2>2, <2>3, <2>4
  <2>7. [m EXCEPT !.ws = ms] = [ws |-> ws, wins |-> niri.wins, focused |-> {FocusedWin(niri)} \ {NoWin}, kb |-> niri.kb]
    BY <2>2, <2>6
  <2> QED  BY <1>6, <2>1, <2>5, <2>7
<1> DEFINE ofOutput(v) == niri.ws[v].output = niri.ws[w].output
           active(v) == IF ofOutput(v) THEN v = w ELSE niri.ws[v].active
           hasFocus(v) == IF focused THEN v = w ELSE niri.ws[v].focused
<1>8. \A v \in DOMAIN niri.ws : /\ ws[v] \in WsRecord /\ ws[v].output = niri.ws[v].output /\ ws[v].win = niri.ws[v].win
                                /\ ws[v].active = active(v) /\ ws[v].focused = hasFocus(v)
  <2> SUFFICES ASSUME NEW v \in DOMAIN niri.ws
               PROVE  /\ ws[v] \in WsRecord /\ ws[v].output = niri.ws[v].output /\ ws[v].win = niri.ws[v].win
                      /\ ws[v].active = active(v) /\ ws[v].focused = hasFocus(v)
    OBVIOUS
  <2>1. niri.ws[v] \in WsRecord
    BY <1>1 DEF Sane
  <2>2. active(v) \in BOOLEAN /\ hasFocus(v) \in BOOLEAN
    BY <2>1 DEF WsRecord
  <2>3. ws[v] = [niri.ws[v] EXCEPT !.active = active(v), !.focused = hasFocus(v)]
    BY <1>2
  <2> HIDE DEF active, hasFocus
  <2>4. PICK r \in WsRecord : r = niri.ws[v]
    BY <2>1
  <2>5. PICK a \in BOOLEAN : a = active(v)
    BY <2>2
  <2>6. PICK b \in BOOLEAN : b = hasFocus(v)
    BY <2>2
  <2>7. PICK s : s = ws[v]
    OBVIOUS
  <2>8. s = [r EXCEPT !.active = a, !.focused = b]
    BY <2>3, <2>4, <2>5, <2>6, <2>7
  <2>9. s \in WsRecord /\ s.active = a /\ s.focused = b /\ s.output = r.output /\ s.win = r.win
    BY <2>8 DEF WsRecord
  <2> QED  BY <2>4, <2>5, <2>6, <2>7, <2>9
<1>9. ws \in [DOMAIN ws -> WsRecord] /\ DOMAIN ws = DOMAIN niri.ws
  BY <1>2, <1>8
<1>10. PICK f \in DOMAIN niri.ws : niri.ws[f].active = TRUE /\ FocusedWs(niri) = {f}
  BY <1>1 DEF Sane, OneFocused, WsRecord
<1>11. OneFocused(n)
  <2>1. CASE focused
    <3>1. active(w) = TRUE /\ \A v \in DOMAIN niri.ws : hasFocus(v) <=> v = w
      BY <2>1
    <3> HIDE DEF active, hasFocus
    <3>2. ws[w].active /\ \A v \in DOMAIN ws : ws[v].focused <=> v = w
      BY <1>1, <1>8, <1>9, <3>1
    <3>3. n.ws = ws /\ w \in DOMAIN ws
      BY <1>1, <1>6, <1>9
    <3>4. FocusedWs(n) = {w}
      BY <3>2, <3>3 DEF FocusedWs
    <3> QED  BY <3>2, <3>3, <3>4 DEF OneFocused
  <2>2. CASE ~focused
    <3>1. ~ofOutput(f)
      BY <1>10, <2>2 DEF WorkspaceSwitched
    <3>2. active(f) = TRUE /\ \A v \in DOMAIN niri.ws : hasFocus(v) = niri.ws[v].focused
      BY <1>10, <2>2, <3>1
    <3> HIDE DEF active, hasFocus
    <3>3. ws[f].active = TRUE /\ \A v \in DOMAIN niri.ws : ws[v].focused = niri.ws[v].focused
      BY <1>8, <3>2
    <3>4. FocusedWs(n) = FocusedWs(niri)
      BY <1>6, <1>9, <3>3 DEF FocusedWs
    <3> QED  BY <1>6, <1>9, <1>10, <3>3, <3>4 DEF OneFocused
  <2> QED  BY <2>1, <2>2
<1>12. WindowsPlaced(n)
  BY <1>1, <1>6, <1>8, <1>9 DEF Sane, WindowsPlaced
<1>13. Sane(n)
  BY <1>1, <1>6, <1>9, <1>11, <1>12 DEF Sane
<1>14. e.kind \notin OfWindows
  BY <1>4 DEF OfWindows
<1> QED  BY <1>5, <1>7, <1>13, <1>14, SingleKeeps

LEMMA UrgentKeeps == ASSUME NiriInv, NEW w, WorkspaceUrgent(w) PROVE NiriInv'
<1>1. Sane(niri) /\ w \in DOMAIN niri.ws /\ niri.ws[w] \in WsRecord
  BY DEF NiriInv, WorkspaceUrgent, Sane
<1>2. PICK b \in BOOLEAN : b = ~niri.ws[w].urgent
  OBVIOUS
<1>3. PICK ws : ws = [niri.ws EXCEPT ![w] = [niri.ws[w] EXCEPT !.urgent = b]]
  OBVIOUS
<1>4. PICK n : n = [niri EXCEPT !.ws = ws]
  OBVIOUS
<1>5. PICK e : e = [kind |-> "WorkspaceUrgencyChanged", ws |-> w, urgent |-> b]
  OBVIOUS
<1>6. n = [ws |-> ws, wins |-> niri.wins, layer |-> niri.layer, kb |-> niri.kb]
  BY <1>1, <1>4 DEF Sane
<1>7. NiriChange(n, <<e>>)
  <2>1. [niri EXCEPT !.ws[w].urgent = ~@] = n
    BY <1>2, <1>3, <1>4
  <2> QED  BY <1>2, <1>5, <2>1 DEF WorkspaceUrgent
<1>8. ApplyTo(Mirrors(niri), e) = [ws |-> n.ws, wins |-> n.wins, focused |-> {FocusedWin(niri)} \ {NoWin}, kb |-> n.kb]
  BY <1>1, <1>3, <1>5, <1>6 DEF ApplyTo, Mirrors
<1>9. /\ DOMAIN ws = DOMAIN niri.ws /\ ws \in [DOMAIN ws -> WsRecord]
      /\ \A v \in DOMAIN ws : ws[v].win = niri.ws[v].win /\ ws[v].active = niri.ws[v].active /\ ws[v].focused = niri.ws[v].focused
  <2>1. PICK r : r = [niri.ws[w] EXCEPT !.urgent = b]
    OBVIOUS
  <2>2. r \in WsRecord /\ r.win = niri.ws[w].win /\ r.active = niri.ws[w].active /\ r.focused = niri.ws[w].focused
    BY <1>1, <2>1 DEF WsRecord
  <2>3. niri.ws \in [DOMAIN niri.ws -> WsRecord] /\ ws = [niri.ws EXCEPT ![w] = r]
    BY <1>1, <1>3, <2>1 DEF Sane
  <2> QED  BY <1>1, <2>2, <2>3
<1>10. Sane(n)
  <2>1. FocusedWs(n) = FocusedWs(niri)
    BY <1>6, <1>9 DEF FocusedWs
  <2>2. OneFocused(n) /\ WindowsPlaced(n)
    BY <1>1, <1>6, <1>9, <2>1 DEF Sane, OneFocused, WindowsPlaced
  <2> QED  BY <1>1, <1>6, <1>9, <2>2 DEF Sane
<1>11. e.kind \notin OfWindows
  BY <1>5 DEF OfWindows
<1> QED  BY <1>7, <1>8, <1>10, <1>11, SingleKeeps

\* A workspace that comes, goes or moves is neither active nor focused, and has windows only
\* if it moves.
LEMMA ListKeeps == ASSUME NiriInv, NEW w, NEW o \in Outputs \cup {"none"}, WorkspaceListChanges(w, o) PROVE NiriInv'
<1>1. Sane(niri)
  BY DEF NiriInv
<1>2. PICK old : old = IF w \in DOMAIN niri.ws THEN niri.ws[w]
                       ELSE [output |-> o, active |-> FALSE, focused |-> FALSE, urgent |-> FALSE, win |-> NoWin]
  OBVIOUS
<1>3. PICK ws : ws = [v \in (DOMAIN niri.ws \cup {w}) \ (IF o = "none" THEN {w} ELSE {}) |->
                        IF v = w THEN [old EXCEPT !.output = o] ELSE niri.ws[v]]
  OBVIOUS
<1>4. PICK n : n = [niri EXCEPT !.ws = ws]
  OBVIOUS
<1>5. PICK e : e = [kind |-> "WorkspacesChanged", all |-> ws]
  OBVIOUS
<1>6. n = [ws |-> ws, wins |-> niri.wins, layer |-> niri.layer, kb |-> niri.kb]
  BY <1>1, <1>4 DEF Sane
<1>7. NiriChange(n, <<e>>) /\ (o = "none" => w \in DOMAIN niri.ws)
      /\ (w \in DOMAIN niri.ws => ~niri.ws[w].active /\ (o = "none" => WinsOn(niri, w) = {}))
  BY <1>2, <1>3, <1>4, <1>5 DEF WorkspaceListChanges
<1>8. ApplyTo(Mirrors(niri), e) = [ws |-> n.ws, wins |-> n.wins, focused |-> {FocusedWin(niri)} \ {NoWin}, kb |-> n.kb]
  BY <1>5, <1>6 DEF ApplyTo, Mirrors
<1>9. PICK f \in DOMAIN niri.ws : niri.ws[f].active /\ FocusedWs(niri) = {f}
  BY <1>1 DEF Sane, OneFocused
<1>10. f # w /\ f \in DOMAIN ws /\ ws[f] = niri.ws[f]
  BY <1>3, <1>7, <1>9
<1>11. \A v \in DOMAIN ws : v # w => v \in DOMAIN niri.ws /\ ws[v] = niri.ws[v]
  BY <1>3
<1>12. w \in DOMAIN ws => /\ ws[w] \in WsRecord /\ ws[w].focused = FALSE
                          /\ ws[w].win # NoWin => w \in DOMAIN niri.ws /\ ws[w].win = niri.ws[w].win
  <2> SUFFICES ASSUME w \in DOMAIN ws
               PROVE  /\ ws[w] \in WsRecord /\ ws[w].focused = FALSE
                      /\ ws[w].win # NoWin => w \in DOMAIN niri.ws /\ ws[w].win = niri.ws[w].win
    OBVIOUS
  <2>1. o \in Outputs /\ ws[w] = [old EXCEPT !.output = o]
    BY <1>3
  <2>2. old \in WsRecord /\ old.focused = FALSE /\ (old.win # NoWin => w \in DOMAIN niri.ws /\ old.win = niri.ws[w].win)
    <3>1. CASE w \in DOMAIN niri.ws
      <4>1. old \in WsRecord /\ old = niri.ws[w]
        BY <1>1, <1>2, <3>1 DEF Sane
      <4>2. w \notin FocusedWs(niri)
        BY <1>9, <1>10
      <4>3. old.focused = FALSE
        BY <3>1, <4>1, <4>2 DEF FocusedWs, WsRecord
      <4> QED  BY <3>1, <4>1, <4>3
    <3>2. CASE w \notin DOMAIN niri.ws
      <4>1. old = [output |-> o, active |-> FALSE, focused |-> FALSE, urgent |-> FALSE, win |-> NoWin]
        BY <1>2, <3>2
      <4> QED  BY <2>1, <4>1 DEF WsRecord
    <3> QED  BY <3>1, <3>2
  <2>3. PICK r : r = [old EXCEPT !.output = o]
    OBVIOUS
  <2>4. r \in WsRecord /\ r.focused = old.focused /\ r.win = old.win
    BY <2>1, <2>2, <2>3 DEF WsRecord
  <2> QED  BY <2>1, <2>2, <2>3, <2>4
<1>13. \A v \in DOMAIN niri.ws : v # w => v \in DOMAIN ws
  BY <1>3
<1>14. Sane(n)
  <2>1. ws \in [DOMAIN ws -> WsRecord]
    <3>1. \A v \in DOMAIN ws : ws[v] \in WsRecord
      BY <1>1, <1>11, <1>12 DEF Sane
    <3>2. ws = [v \in DOMAIN ws |-> ws[v]]
      BY <1>3
    <3> QED  BY <3>1, <3>2
  <2>2. FocusedWs(n) = {f}
    BY <1>6, <1>9, <1>10, <1>11, <1>12 DEF FocusedWs
  <2>3. OneFocused(n)
    BY <1>6, <1>9, <1>10, <2>2 DEF OneFocused
  <2>4. \A x \in DOMAIN niri.wins : niri.wins[x] \in DOMAIN ws
    <3> SUFFICES ASSUME NEW x \in DOMAIN niri.wins PROVE niri.wins[x] \in DOMAIN ws
      OBVIOUS
    <3>1. niri.wins[x] \in DOMAIN niri.ws
      BY <1>1 DEF Sane
    <3>2. CASE niri.wins[x] = w
      <4>1. x \in WinsOn(niri, w)
        BY <3>2 DEF WinsOn
      <4>2. o # "none"
        BY <1>7, <3>1, <3>2, <4>1
      <4> QED  BY <1>3, <3>2, <4>2
    <3> QED  BY <1>13, <3>1, <3>2
  <2>5. niri.wins \in [DOMAIN niri.wins -> DOMAIN ws]
    BY <1>1, <2>4 DEF Sane
  <2>6. WindowsPlaced(n)
    <3> SUFFICES ASSUME NEW v \in DOMAIN ws, ws[v].win # NoWin
                 PROVE  ws[v].win \in DOMAIN niri.wins /\ niri.wins[ws[v].win] = v
      BY <1>6 DEF WindowsPlaced
    <3>1. v \in DOMAIN niri.ws /\ ws[v].win = niri.ws[v].win
      BY <1>11, <1>12
    <3> QED  BY <1>1, <3>1 DEF Sane, WindowsPlaced
  <2> QED  BY <1>1, <1>6, <2>1, <2>3, <2>5, <2>6 DEF Sane
<1>15. e.kind \notin OfWindows
  BY <1>5 DEF OfWindows
<1> QED  BY <1>7, <1>8, <1>14, <1>15, SingleKeeps

LEMMA LayoutKeeps == ASSUME NiriInv, NEW count, NEW idx, NiriLayoutChanges(count, idx) PROVE NiriInv'
<1>1. Sane(niri)
  BY DEF NiriInv
<1>2. PICK kb : kb = [count |-> count, idx |-> idx]
  OBVIOUS
<1>3. PICK n : n = [niri EXCEPT !.kb = kb]
  OBVIOUS
<1>4. PICK e : e = IF count = niri.kb.count THEN [kind |-> "KeyboardLayoutSwitched", idx |-> idx]
                   ELSE [kind |-> "KeyboardLayoutsChanged", kb |-> [count |-> count, idx |-> idx]]
  OBVIOUS
<1>5. n = [ws |-> niri.ws, wins |-> niri.wins, layer |-> niri.layer, kb |-> kb] /\ IsKb(kb)
  BY <1>1, <1>2, <1>3 DEF Sane, IsKb
<1>6. NiriChange(n, <<e>>)
  BY <1>2, <1>3, <1>4 DEF NiriLayoutChanges
<1>7. PICK m : m = Mirrors(niri)
  OBVIOUS
<1>8. m = [ws |-> niri.ws, wins |-> niri.wins, focused |-> {FocusedWin(niri)} \ {NoWin}, kb |-> niri.kb]
  BY <1>7 DEF Mirrors
<1>9. ApplyTo(m, e) = [m EXCEPT !.kb = kb]
  <2>1. CASE count = niri.kb.count
    <3>1. e = [kind |-> "KeyboardLayoutSwitched", idx |-> idx]
      BY <1>4, <2>1
    <3>2. ApplyTo(m, e) = [m EXCEPT !.kb.idx = idx]
      BY <3>1 DEF ApplyTo
    <3>3. niri.kb = [count |-> count, idx |-> niri.kb.idx]
      BY <1>1, <2>1 DEF Sane, IsKb
    <3>4. [niri.kb EXCEPT !.idx = idx] = kb
      BY <1>2, <3>3
    <3> QED  BY <1>8, <3>2, <3>4
  <2>2. CASE count # niri.kb.count
    <3>1. e = [kind |-> "KeyboardLayoutsChanged", kb |-> kb]
      BY <1>2, <1>4, <2>2
    <3> QED  BY <3>1 DEF ApplyTo
  <2> QED  BY <2>1, <2>2
<1>10. ApplyTo(Mirrors(niri), e) = [ws |-> n.ws, wins |-> n.wins, focused |-> {FocusedWin(niri)} \ {NoWin}, kb |-> n.kb]
  BY <1>5, <1>7, <1>8, <1>9
<1>11. Sane(n)
  <2>1. OneFocused(n) /\ WindowsPlaced(n)
    BY <1>1, <1>5 DEF Sane, OneFocused, WindowsPlaced, FocusedWs
  <2> QED  BY <1>1, <1>5, <2>1 DEF Sane
<1>12. e.kind \notin OfWindows
  BY <1>4 DEF OfWindows
<1> QED  BY <1>6, <1>10, <1>11, <1>12, SingleKeeps

LEMMA LayerKeeps == ASSUME NiriInv, LayerFocus PROVE NiriInv'
<1>1. Sane(niri)
  BY DEF NiriInv
<1>2. PICK n : n = [niri EXCEPT !.layer = ~@]
  OBVIOUS
<1>3. n = [ws |-> niri.ws, wins |-> niri.wins, layer |-> n.layer, kb |-> niri.kb]
  BY <1>1, <1>2 DEF Sane
<1>4. Sane(n)
  <2>1. OneFocused(n) /\ WindowsPlaced(n)
    BY <1>1, <1>3 DEF Sane, OneFocused, WindowsPlaced, FocusedWs
  <2> QED  BY <1>1, <1>3, <2>1 DEF Sane
<1>5. PICK F : F = {FocusedWin(niri)} \ {NoWin}
  OBVIOUS
<1>6. PICK m : m = Mirrors(niri)
  OBVIOUS
<1>7. m = [ws |-> n.ws, wins |-> n.wins, focused |-> F, kb |-> n.kb] /\ IsMirror(m)
  BY <1>1, <1>3, <1>5, <1>6, FocusIs DEF Mirrors
<1>8. PICK wayOn : Leads(wayOn, <<>>, m, m)
  BY <1>7, NoWay
<1>9. Leads(wayOn, <<>>, Mirrors(niri), [ws |-> n.ws, wins |-> n.wins, focused |-> F, kb |-> n.kb])
  BY <1>6, <1>7, <1>8
<1>10. ~Said(<<>>) /\ <<>> \in Seq({}) /\ Len(<<>>) = 0
  BY DEF Said, ToSet
<1>11. FocusedWin(n) = FocusedWin(niri) \/ Said(<<>>) => F = {FocusedWin(n)} \ {NoWin}
  BY <1>5, <1>10
<1>12. NiriChange(n, <<>>)
  BY <1>2 DEF LayerFocus
<1> QED  BY <1>4, <1>9, <1>10, <1>11, <1>12, ChangeKeeps

\* A workspace gets another active window.
Placed(ws, w, y) == [ws EXCEPT ![w] = [ws[w] EXCEPT !.win = y]]
LEMMA PlacedIs ==
  ASSUME NEW ws, ws \in [DOMAIN ws -> WsRecord], NEW w \in DOMAIN ws, NEW y \in NiriWin \cup {NoWin}
  PROVE  /\ DOMAIN Placed(ws, w, y) = DOMAIN ws /\ Placed(ws, w, y) \in [DOMAIN ws -> WsRecord]
         /\ \A v \in DOMAIN ws : /\ Placed(ws, w, y)[v].win = IF v = w THEN y ELSE ws[v].win
                                 /\ Placed(ws, w, y)[v].active = ws[v].active
                                 /\ Placed(ws, w, y)[v].focused = ws[v].focused
<1>1. PICK r : r = [ws[w] EXCEPT !.win = y]
  OBVIOUS
<1>2. r \in WsRecord /\ r.win = y /\ r.active = ws[w].active /\ r.focused = ws[w].focused
  BY <1>1 DEF WsRecord
<1>3. Placed(ws, w, y) = [ws EXCEPT ![w] = r]
  BY <1>1 DEF Placed
<1> QED  BY <1>2, <1>3

\* The same workspace has the focus, and their active windows are on them.
LEMMA StaysSane ==
  ASSUME NEW n, Sane(n), NEW ws, NEW wins,
         DOMAIN ws = DOMAIN n.ws, ws \in [DOMAIN ws -> WsRecord],
         \A v \in DOMAIN ws : ws[v].active = n.ws[v].active /\ ws[v].focused = n.ws[v].focused,
         wins \in [DOMAIN wins -> DOMAIN ws], DOMAIN wins \subseteq NiriWin,
         \A v \in DOMAIN ws : ws[v].win # NoWin => ws[v].win \in DOMAIN wins /\ wins[ws[v].win] = v,
         NEW q, q = [ws |-> ws, wins |-> wins, layer |-> n.layer, kb |-> n.kb]
  PROVE  Sane(q)
<1>1. FocusedWs(q) = FocusedWs(n)
  BY DEF FocusedWs
<1>2. OneFocused(q)
  BY <1>1 DEF Sane, OneFocused
<1>3. WindowsPlaced(q)
  BY DEF WindowsPlaced
<1> QED  BY <1>2, <1>3 DEF Sane

\* What an event of a workspace's active window does to what mirrors n.
LEMMA ActiveWindowSet ==
  ASSUME NEW m, NEW ws, NEW wins, NEW F, NEW kb, m = [ws |-> ws, wins |-> wins, focused |-> F, kb |-> kb],
         NEW w \in DOMAIN ws, NEW y, NEW e, e = [kind |-> "WorkspaceActiveWindowChanged", ws |-> w, win |-> y]
  PROVE  ApplyTo(m, e) = [ws |-> Placed(ws, w, y), wins |-> wins, focused |-> F, kb |-> kb]
<1>1. ApplyTo(m, e) = [m EXCEPT !.ws[w].win = y]
  BY DEF ApplyTo
<1> QED  BY <1>1 DEF Placed

LEMMA OpensKeeps == ASSUME NiriInv, NEW x \in NiriWin, NEW w, NiriWindowOpens(x, w) PROVE NiriInv'
<1>1. Sane(niri) /\ x \notin DOMAIN niri.wins /\ w \in DOMAIN niri.ws /\ x # NoWin
  BY NiriAssumption DEF NiriInv, NiriWindowOpens
<1>2. PICK n : n = WithWin(niri, x, w)
  OBVIOUS
<1>3. PICK ws : ws = Placed(niri.ws, w, x)
  OBVIOUS
<1>4. PICK wins : wins = [y \in DOMAIN niri.wins \cup {x} |-> IF y = x THEN w ELSE niri.wins[y]]
  OBVIOUS
<1>5. n = [ws |-> ws, wins |-> wins, layer |-> niri.layer, kb |-> niri.kb]
  BY <1>1, <1>2, <1>3, <1>4 DEF WithWin, Placed, Sane
<1>6. PICK b \in BOOLEAN : b = (FocusedWin(n) = x)
  OBVIOUS
<1>7. PICK e : e = [kind |-> "WorkspaceActiveWindowChanged", ws |-> w, win |-> x]
  OBVIOUS
<1>8. PICK f : f = [kind |-> "WindowOpenedOrChanged", win |-> x, ws |-> w, focused |-> b]
  OBVIOUS
<1>9. NiriChange(n, <<e, f>>)
  BY <1>2, <1>6, <1>7, <1>8 DEF NiriWindowOpens
<1>10. /\ DOMAIN ws = DOMAIN niri.ws /\ ws \in [DOMAIN niri.ws -> WsRecord]
       /\ \A v \in DOMAIN ws : /\ ws[v].win = IF v = w THEN x ELSE niri.ws[v].win
                               /\ ws[v].active = niri.ws[v].active /\ ws[v].focused = niri.ws[v].focused
  BY <1>1, <1>3, PlacedIs DEF Sane
<1>11. Sane(n)
  <2>1. wins \in [DOMAIN wins -> DOMAIN ws] /\ DOMAIN wins \subseteq NiriWin
    BY <1>1, <1>4, <1>10 DEF Sane
  <2>2. \A v \in DOMAIN ws : ws[v].win # NoWin => ws[v].win \in DOMAIN wins /\ wins[ws[v].win] = v
    BY <1>1, <1>4, <1>10 DEF Sane, WindowsPlaced
  <2> QED  BY <1>1, <1>5, <1>10, <2>1, <2>2, StaysSane
<1>12. PICK G : G = {FocusedWin(niri)} \ {NoWin}
  OBVIOUS
<1>13. PICK F : F = IF b THEN {x} ELSE G \ {x}
  OBVIOUS
<1>14. PICK m : m = Mirrors(niri)
  OBVIOUS
<1>15. PICK p : p = [ws |-> ws, wins |-> niri.wins, focused |-> G, kb |-> niri.kb]
  OBVIOUS
<1>16. PICK t : t = [ws |-> n.ws, wins |-> n.wins, focused |-> F, kb |-> n.kb]
  OBVIOUS
<1>17. p = ApplyTo(m, e)
  <2>1. m = [ws |-> niri.ws, wins |-> niri.wins, focused |-> G, kb |-> niri.kb]
    BY <1>12, <1>14 DEF Mirrors
  <2> QED  BY <1>1, <1>3, <1>7, <1>15, <2>1, ActiveWindowSet
<1>18. t = ApplyTo(p, f)
  <2>1. /\ f.kind = "WindowOpenedOrChanged" /\ f.win = x /\ f.ws = w /\ f.focused = b
        /\ p.wins = niri.wins /\ p.focused = G
    BY <1>8, <1>15
  <2>2. ApplyTo(p, f) = [p EXCEPT !.wins = wins, !.focused = F]
    BY <1>1, <1>4, <1>13, <2>1 DEF ApplyTo
  <2> QED  BY <1>5, <1>15, <1>16, <2>2
<1>19. IsMirror(m) /\ IsMirror(p) /\ IsMirror(t)
  BY <1>1, <1>5, <1>14, <1>15, <1>16, FocusIs DEF IsMirror, Sane
<1>20. \E wayOn : Leads(wayOn, <<e, f>>, m, t)
  BY <1>17, <1>18, <1>19, TwoSteps
<1>21. Said(<<e, f>>) => b
  BY <1>7, <1>8 DEF Said, ToSet
<1>22. FocusedWin(n) = FocusedWin(niri) \/ Said(<<e, f>>) => F = {FocusedWin(n)} \ {NoWin}
  BY <1>1, <1>6, <1>12, <1>13, <1>21
<1>23. <<e, f>> \in Seq({e, f}) /\ Len(<<e, f>>) = 2 /\ <<e, f>>[2] = f /\ f.kind \in OfWindows
  BY <1>8 DEF OfWindows
<1>24. PICK events : events = <<e, f>>
  OBVIOUS
<1>25. events \in Seq({e, f}) /\ Len(events) > 0 /\ events[Len(events)].kind \in OfWindows
  BY <1>23, <1>24
<1> QED  BY <1>9, <1>11, <1>14, <1>16, <1>20, <1>22, <1>24, <1>25, SeveralKeep

LEMMA ClosesKeeps == ASSUME NiriInv, NEW x \in NiriWin, NEW y \in NiriWin \cup {NoWin}, NiriWindowCloses(x, y) PROVE NiriInv'
<1>1. Sane(niri) /\ x \in DOMAIN niri.wins /\ x # NoWin
  BY NiriAssumption DEF NiriInv, NiriWindowCloses
<1>2. PICK w \in DOMAIN niri.ws : w = niri.wins[x]
  BY <1>1 DEF Sane
<1>3. PICK n : n = WindowGone(niri, x, y)
  OBVIOUS
<1>4. PICK ws : ws = Placed(niri.ws, w, y)
  OBVIOUS
<1>5. PICK wins : wins = [z \in DOMAIN niri.wins \ {x} |-> niri.wins[z]]
  OBVIOUS
<1>6. n = [ws |-> ws, wins |-> wins, layer |-> niri.layer, kb |-> niri.kb]
  BY <1>1, <1>2, <1>3, <1>4, <1>5 DEF WindowGone, Placed, Sane
<1>7. PICK e : e = [kind |-> "WorkspaceActiveWindowChanged", ws |-> w, win |-> y]
  OBVIOUS
<1>8. PICK f : f = [kind |-> "WindowClosed", win |-> x]
  OBVIOUS
<1>9. NiriChange(n, <<e, f>>)
  BY <1>2, <1>3, <1>7, <1>8 DEF NiriWindowCloses
<1>10. /\ DOMAIN ws = DOMAIN niri.ws /\ ws \in [DOMAIN niri.ws -> WsRecord]
       /\ \A v \in DOMAIN ws : /\ ws[v].win = IF v = w THEN y ELSE niri.ws[v].win
                               /\ ws[v].active = niri.ws[v].active /\ ws[v].focused = niri.ws[v].focused
  BY <1>1, <1>4, PlacedIs DEF Sane
<1>11. y # NoWin => y \in DOMAIN wins /\ wins[y] = w
  BY <1>1, <1>2, <1>5 DEF NiriWindowCloses, WinsOn, Sane, WindowsPlaced
<1>12. Sane(n)
  <2>1. wins \in [DOMAIN wins -> DOMAIN ws] /\ DOMAIN wins \subseteq NiriWin
    BY <1>1, <1>5, <1>10 DEF Sane
  <2>2. \A v \in DOMAIN ws : ws[v].win # NoWin => ws[v].win \in DOMAIN wins /\ wins[ws[v].win] = v
    BY <1>1, <1>2, <1>5, <1>10, <1>11 DEF Sane, WindowsPlaced
  <2> QED  BY <1>1, <1>6, <1>10, <2>1, <2>2, StaysSane
<1>13. PICK G : G = {FocusedWin(niri)} \ {NoWin}
  OBVIOUS
<1>14. PICK F : F = G \ {x}
  OBVIOUS
<1>15. PICK m : m = Mirrors(niri)
  OBVIOUS
<1>16. PICK p : p = [ws |-> ws, wins |-> niri.wins, focused |-> G, kb |-> niri.kb]
  OBVIOUS
<1>17. PICK t : t = [ws |-> n.ws, wins |-> n.wins, focused |-> F, kb |-> n.kb]
  OBVIOUS
<1>18. p = ApplyTo(m, e)
  <2>1. m = [ws |-> niri.ws, wins |-> niri.wins, focused |-> G, kb |-> niri.kb]
    BY <1>13, <1>15 DEF Mirrors
  <2> QED  BY <1>1, <1>4, <1>7, <1>16, <2>1, ActiveWindowSet
<1>19. t = ApplyTo(p, f)
  <2>1. f.kind = "WindowClosed" /\ f.win = x /\ p.wins = niri.wins /\ p.focused = G
    BY <1>8, <1>16
  <2>2. ApplyTo(p, f) = [p EXCEPT !.wins = wins, !.focused = F]
    BY <1>5, <1>14, <2>1 DEF ApplyTo
  <2> QED  BY <1>6, <1>16, <1>17, <2>2
<1>20. IsMirror(m) /\ IsMirror(p) /\ IsMirror(t)
  BY <1>1, <1>6, <1>15, <1>16, <1>17, FocusIs DEF IsMirror, Sane
<1>21. \E wayOn : Leads(wayOn, <<e, f>>, m, t)
  BY <1>18, <1>19, <1>20, TwoSteps
<1>22. ~Said(<<e, f>>)
  BY <1>7, <1>8 DEF Said, ToSet
<1>23. FocusedWin(n) # x
  BY <1>1, <1>5, <1>6, <1>12, FocusIs
<1>24. FocusedWin(n) = FocusedWin(niri) \/ Said(<<e, f>>) => F = {FocusedWin(n)} \ {NoWin}
  BY <1>13, <1>14, <1>22, <1>23
<1>25. PICK events : events = <<e, f>>
  OBVIOUS
<1>26. events \in Seq({e, f}) /\ Len(events) > 0 /\ events[Len(events)].kind \in OfWindows
  <2>1. <<e, f>> \in Seq({e, f}) /\ Len(<<e, f>>) = 2 /\ <<e, f>>[2] = f /\ f.kind \in OfWindows
    BY <1>8 DEF OfWindows
  <2> QED  BY <1>25, <2>1
<1> QED  BY <1>9, <1>12, <1>15, <1>17, <1>21, <1>24, <1>25, <1>26, SeveralKeep

LEMMA MovesKeeps ==
  ASSUME NiriInv, NEW x \in NiriWin, NEW v, NEW y \in NiriWin \cup {NoWin}, NiriWindowMoves(x, v, y)
  PROVE  NiriInv'
<1>1. Sane(niri) /\ x \in DOMAIN niri.wins /\ x # NoWin /\ v \in DOMAIN niri.ws /\ v # niri.wins[x]
  BY NiriAssumption DEF NiriInv, NiriWindowMoves
<1>2. PICK w \in DOMAIN niri.ws : w = niri.wins[x]
  BY <1>1 DEF Sane
<1>3. PICK n : n = WithWin(WindowGone(niri, x, y), x, v)
  OBVIOUS
<1>4. PICK left : left = Placed(niri.ws, w, y)
  OBVIOUS
<1>5. PICK ws : ws = Placed(left, v, x)
  OBVIOUS
<1>6. PICK wins : wins = [z \in DOMAIN niri.wins \cup {x} |-> IF z = x THEN v ELSE niri.wins[z]]
  OBVIOUS
<1>7. n = [ws |-> ws, wins |-> wins, layer |-> niri.layer, kb |-> niri.kb]
  <2>1. PICK gone : gone = [z \in DOMAIN niri.wins \ {x} |-> niri.wins[z]]
    OBVIOUS
  <2>2. PICK g : g = WindowGone(niri, x, y)
    OBVIOUS
  <2>3. g = [ws |-> left, wins |-> gone, layer |-> niri.layer, kb |-> niri.kb]
    BY <1>1, <1>2, <1>4, <2>1, <2>2 DEF WindowGone, Placed, Sane
  <2>4. wins = [z \in DOMAIN gone \cup {x} |-> IF z = x THEN v ELSE gone[z]]
    BY <1>6, <2>1
  <2>5. g.ws = left /\ g.wins = gone
    BY <2>3
  <2>6. n = [g EXCEPT !.ws = ws, !.wins = wins]
    BY <1>3, <1>5, <2>2, <2>4, <2>5 DEF WithWin, Placed
  <2> QED  BY <2>3, <2>6
<1>8. PICK b \in BOOLEAN : b = (FocusedWin(n) = x)
  OBVIOUS
<1>9. PICK e : e = [kind |-> "WorkspaceActiveWindowChanged", ws |-> w, win |-> y]
  OBVIOUS
<1>10. PICK f : f = [kind |-> "WorkspaceActiveWindowChanged", ws |-> v, win |-> x]
  OBVIOUS
<1>11. PICK g : g = [kind |-> "WindowOpenedOrChanged", win |-> x, ws |-> v, focused |-> b]
  OBVIOUS
<1>12. NiriChange(n, <<e, f, g>>)
  BY <1>2, <1>3, <1>8, <1>9, <1>10, <1>11 DEF NiriWindowMoves
<1>13. /\ DOMAIN left = DOMAIN niri.ws /\ left \in [DOMAIN niri.ws -> WsRecord]
       /\ \A u \in DOMAIN left : /\ left[u].win = IF u = w THEN y ELSE niri.ws[u].win
                                 /\ left[u].active = niri.ws[u].active /\ left[u].focused = niri.ws[u].focused
  BY <1>1, <1>4, PlacedIs DEF Sane
<1>14. /\ DOMAIN ws = DOMAIN left /\ ws \in [DOMAIN left -> WsRecord]
       /\ \A u \in DOMAIN ws : /\ ws[u].win = IF u = v THEN x ELSE left[u].win
                               /\ ws[u].active = left[u].active /\ ws[u].focused = left[u].focused
  <2>1. left \in [DOMAIN left -> WsRecord] /\ v \in DOMAIN left
    BY <1>1, <1>13
  <2> QED  BY <1>5, <2>1, PlacedIs
<1>15. y # NoWin => y \in DOMAIN wins /\ wins[y] = w
  BY <1>1, <1>2, <1>6 DEF NiriWindowMoves, WinsOn, Sane, WindowsPlaced
<1>16. Sane(n)
  <2>1. wins \in [DOMAIN wins -> DOMAIN ws] /\ DOMAIN wins \subseteq NiriWin
    BY <1>1, <1>6, <1>13, <1>14 DEF Sane
  <2>2. \A u \in DOMAIN ws : ws[u].win # NoWin => ws[u].win \in DOMAIN wins /\ wins[ws[u].win] = u
    <3> SUFFICES ASSUME NEW u \in DOMAIN ws, ws[u].win # NoWin PROVE ws[u].win \in DOMAIN wins /\ wins[ws[u].win] = u
      OBVIOUS
    <3>1. CASE u = v
      BY <1>6, <1>14, <3>1
    <3>2. CASE u = w /\ u # v
      BY <1>13, <1>14, <1>15, <3>2
    <3>3. CASE u # w /\ u # v
      <4>1. ws[u].win = niri.ws[u].win /\ u \in DOMAIN niri.ws
        BY <1>13, <1>14, <3>3
      <4>2. ws[u].win \in DOMAIN niri.wins /\ niri.wins[ws[u].win] = u
        BY <1>1, <4>1 DEF Sane, WindowsPlaced
      <4> QED  BY <1>2, <1>6, <3>3, <4>2
    <3> QED  BY <3>1, <3>2, <3>3
  <2>3. \A u \in DOMAIN ws : ws[u].active = niri.ws[u].active /\ ws[u].focused = niri.ws[u].focused
    BY <1>13, <1>14
  <2> QED  BY <1>1, <1>7, <1>13, <1>14, <2>1, <2>2, <2>3, StaysSane
<1>17. PICK G : G = {FocusedWin(niri)} \ {NoWin}
  OBVIOUS
<1>18. PICK F : F = IF b THEN G \cup {x} ELSE G \ {x}
  OBVIOUS
<1>19. PICK m : m = Mirrors(niri)
  OBVIOUS
<1>20. PICK p : p = [ws |-> left, wins |-> niri.wins, focused |-> G, kb |-> niri.kb]
  OBVIOUS
<1>21. PICK q : q = [ws |-> ws, wins |-> niri.wins, focused |-> G, kb |-> niri.kb]
  OBVIOUS
<1>22. PICK t : t = [ws |-> n.ws, wins |-> n.wins, focused |-> F, kb |-> n.kb]
  OBVIOUS
<1>23. p = ApplyTo(m, e)
  <2>1. m = [ws |-> niri.ws, wins |-> niri.wins, focused |-> G, kb |-> niri.kb]
    BY <1>17, <1>19 DEF Mirrors
  <2> QED  BY <1>1, <1>4, <1>9, <1>20, <2>1, ActiveWindowSet
<1>24. q = ApplyTo(p, f)
  <2>1. v \in DOMAIN left
    BY <1>1, <1>13
  <2> QED  BY <1>5, <1>10, <1>20, <1>21, <2>1, ActiveWindowSet
<1>25. t = ApplyTo(q, g)
  <2>1. /\ g.kind = "WindowOpenedOrChanged" /\ g.win = x /\ g.ws = v /\ g.focused = b
        /\ q.wins = niri.wins /\ q.focused = G
    BY <1>11, <1>21
  <2>2. ApplyTo(q, g) = [q EXCEPT !.wins = wins, !.focused = F]
    BY <1>1, <1>6, <1>18, <2>1 DEF ApplyTo
  <2> QED  BY <1>7, <1>21, <1>22, <2>2
<1>26. IsMirror(m) /\ IsMirror(p) /\ IsMirror(q) /\ IsMirror(t)
  BY <1>1, <1>7, <1>19, <1>20, <1>21, <1>22, FocusIs DEF IsMirror, Sane
<1>27. \E wayOn : Leads(wayOn, <<e, f, g>>, m, t)
  BY <1>23, <1>24, <1>25, <1>26, ThreeSteps
<1>28. ~Said(<<e, f, g>>)
  <2>1. \A i \in 1..3 : <<e, f, g>>[i].kind = "WindowOpenedOrChanged" => <<e, f, g>>[i].win = x
    BY <1>9, <1>10, <1>11
  <2> QED  BY <1>1, <2>1 DEF Said, ToSet
<1>29. FocusedWin(n) = FocusedWin(niri) \/ Said(<<e, f, g>>) => F = {FocusedWin(n)} \ {NoWin}
  BY <1>1, <1>8, <1>17, <1>18, <1>28
<1>30. PICK events : events = <<e, f, g>>
  OBVIOUS
<1>31. events \in Seq({e, f, g}) /\ Len(events) > 0 /\ events[Len(events)].kind \in OfWindows
  <2>1. <<e, f, g>> \in Seq({e, f, g}) /\ Len(<<e, f, g>>) = 3 /\ <<e, f, g>>[3] = g /\ g.kind \in OfWindows
    BY <1>11 DEF OfWindows
  <2> QED  BY <1>30, <2>1
<1> QED  BY <1>12, <1>16, <1>19, <1>22, <1>27, <1>29, <1>30, <1>31, SeveralKeep

LEMMA EndKeeps == ASSUME NiriInv, StreamEnds PROVE NiriInv'
<1>1. niriUp' = FALSE /\ niriWire' = <<>> /\ UNCHANGED <<niriConfig, niri, mirror, langCopy, niriDp, niriView>>
  BY DEF StreamEnds
<1>2. ShownWorkspaces(mirror)' = ShownWorkspaces(mirror) /\ Sane(niri)' /\ (\E E : niriWire \in Seq(E))'
  BY <1>1 DEF ShownWorkspaces, NiriInv
<1> QED  BY <1>1, <1>2 DEF NiriInv

\* From any mirror what is told at the start leads to what niri has; the label is settled
\* with the second event.
LEMMA ConnectKeeps == ASSUME NiriInv, ConnectToSocket PROVE NiriInv'
<1>1. Sane(niri) /\ IsMirror(mirror)
  BY DEF NiriInv
<1>2. PICK e : e = [kind |-> "WorkspacesChanged", all |-> niri.ws]
  OBVIOUS
<1>3. PICK f : f = [kind |-> "WindowsChanged", all |-> niri.wins, focused |-> FocusedWin(niri)]
  OBVIOUS
<1>4. PICK g : g = [kind |-> "KeyboardLayoutsChanged", kb |-> niri.kb]
  OBVIOUS
<1>5. PICK m : m = mirror
  OBVIOUS
<1>6. PICK w : w = <<e, f, g>>
  OBVIOUS
<1>7. niriWire' = w /\ niriUntold' = FALSE /\ UNCHANGED <<niriConfig, niri, mirror, langCopy, niriDp, niriView>>
  BY <1>2, <1>3, <1>4, <1>6 DEF ConnectToSocket, Everything, niriTruth
<1>8. PICK G : G = {FocusedWin(niri)} \ {NoWin}
  OBVIOUS
<1>9. PICK p : p = [ws |-> niri.ws, wins |-> m.wins, focused |-> m.focused, kb |-> m.kb]
  OBVIOUS
<1>10. PICK q : q = [ws |-> niri.ws, wins |-> niri.wins, focused |-> G, kb |-> m.kb]
  OBVIOUS
<1>11. PICK t : t = Mirrors(niri)
  OBVIOUS
<1>12. p = ApplyTo(m, e) /\ q = ApplyTo(p, f) /\ t = ApplyTo(q, g)
  <2>1. m = [ws |-> m.ws, wins |-> m.wins, focused |-> m.focused, kb |-> m.kb]
    BY <1>1, <1>5 DEF IsMirror
  <2>2. ApplyTo(m, e) = [m EXCEPT !.ws = niri.ws]
    BY <1>2 DEF ApplyTo
  <2>3. ApplyTo(p, f) = [p EXCEPT !.wins = niri.wins, !.focused = G]
    BY <1>3, <1>8 DEF ApplyTo
  <2>4. ApplyTo(q, g) = [q EXCEPT !.kb = niri.kb]
    BY <1>4 DEF ApplyTo
  <2>5. t = [ws |-> niri.ws, wins |-> niri.wins, focused |-> G, kb |-> niri.kb]
    BY <1>8, <1>11 DEF Mirrors
  <2> QED  BY <1>9, <1>10, <2>1, <2>2, <2>3, <2>4, <2>5
<1>13. IsMirror(m) /\ IsMirror(p) /\ IsMirror(q) /\ IsMirror(t)
  BY <1>1, <1>5, <1>9, <1>10, <1>11, FocusIs DEF IsMirror
<1>14. PICK way : Leads(way, w, m, t)
  BY <1>6, <1>12, <1>13, ThreeSteps
<1>15. /\ Len(w) = 3 /\ w[1] = e /\ w[2] = f /\ w[3] = g /\ 0..3 = {0, 1, 2, 3} /\ 1..3 = {1, 2, 3}
       /\ way[0] = m /\ way[3] = t /\ way[2] = ApplyTo(way[1], f) /\ way[1] = ApplyTo(m, e)
  <2>1. Len(w) = 3 /\ w[1] = e /\ w[2] = f /\ w[3] = g /\ 0..3 = {0, 1, 2, 3} /\ 1..3 = {1, 2, 3} /\ 2 - 1 = 1 /\ 1 - 1 = 0
    BY <1>6
  <2> QED  BY <1>14, <2>1 DEF Leads
<1>16. f.kind \in OfWindows
  BY <1>3 DEF OfWindows
<1>17. ~NothingAfter(w, 0) /\ ~NothingAfter(w, 1)
  <2>1. 0 < 2 /\ 1 < 2 /\ 2 \in 1..3
    OBVIOUS
  <2> QED  BY <1>15, <1>16, <2>1 DEF NothingAfter
<1>18. WindowLabel(q) = WindowLabel(niri) /\ WindowLabel(t) = WindowLabel(niri)
  <2>1. q.ws = niri.ws /\ q.wins = niri.wins
    BY <1>10
  <2>2. WindowLabel(q) = WindowLabel(niri)
    BY <2>1 DEF WindowLabel, ActiveOn, FocusedWs
  <2> QED  BY <1>1, <1>11, <2>2, FocusIs
<1>19. Settles(way, w, WindowLabel(niri))
  <2> SUFFICES ASSUME NEW i \in 0..3, NothingAfter(w, i) PROVE WindowLabel(way[i]) = WindowLabel(niri)
    BY <1>15 DEF Settles
  <2>1. i = 2 \/ i = 3
    BY <1>15, <1>17
  <2>2. way[2] = q
    BY <1>12, <1>15
  <2> QED  BY <1>15, <1>18, <2>1, <2>2
<1>20. OnTheWay'
  <2>1. (\A l : WindowLabel(l)' = WindowLabel(l)) /\ WindowLabel(niri)' = WindowLabel(niri)
    BY <1>7 DEF WindowLabel
  <2>2. mirror' = m /\ Mirrors(niri)' = t
    BY <1>5, <1>7, <1>11 DEF Mirrors, FocusedWin, FocusedWs
  <2> QED  BY <1>7, <1>14, <1>17, <1>19, <2>1, <2>2 DEF OnTheWay, Settles
<1>21. (\E E : niriWire \in Seq(E))'
  <2>1. <<e, f, g>> \in Seq({e, f, g})
    OBVIOUS
  <2> QED  BY <1>6, <1>7, <2>1
<1>22. ShownWorkspaces(mirror)' = ShownWorkspaces(mirror)
  BY <1>7 DEF ShownWorkspaces
<1> QED  BY <1>7, <1>20, <1>21, <1>22 DEF NiriInv

\* Only the events of keyboards touch the layouts, and they touch nothing else.
LEMMA OtherKinds ==
  ASSUME NEW m, IsMirror(m), NEW e, e.kind \notin OfKeyboards
  PROVE  ApplyTo(m, e).kb = m.kb
<1>1. PICK ws, wins, focused, kb : m = [ws |-> ws, wins |-> wins, focused |-> focused, kb |-> kb]
  BY DEF IsMirror
<1>2. (\A x : [m EXCEPT !.ws = x].kb = kb) /\ (\A x, y : [m EXCEPT !.wins = x, !.focused = y].kb = kb) /\ (\A x : [m EXCEPT !.focused = x].kb = kb)
  BY <1>1
<1> QED  BY <1>1, <1>2 DEF ApplyTo, OfKeyboards

LEMMA OnlyKeyboards ==
  ASSUME NEW m, IsMirror(m), NEW e, e.kind \in OfKeyboards
  PROVE  ApplyTo(m, e).ws = m.ws /\ ApplyTo(m, e).wins = m.wins
<1>1. PICK k : k = ApplyTo(m, e) /\ (k = [m EXCEPT !.kb = e.kb] \/ k = [m EXCEPT !.kb.idx = e.idx])
  BY DEF ApplyTo, OfKeyboards
<1> QED  BY <1>1 DEF IsMirror

LEMMA ParseKeeps == ASSUME NiriInv, ParseIPC PROVE NiriInv'
<1>1. /\ niriUp /\ niriWire # <<>> /\ IsMirror(mirror) /\ langCopy = mirror.kb /\ OnTheWay
      /\ UNCHANGED <<niriConfig, niri, niriUp, niriView, niriUntold>>
  BY DEF NiriInv, ParseIPC, niriTruth
<1>2. PICK e : e = Head(niriWire)
  OBVIOUS
<1>3. PICK m : m = ApplyTo(mirror, e)
  OBVIOUS
<1>4. /\ mirror' = m /\ niriDp' = niriDp \cup Registered(e.kind) /\ niriWire' = Tail(niriWire)
      /\ langCopy' = CASE e.kind = "KeyboardLayoutsChanged" -> m.kb
                       [] e.kind = "KeyboardLayoutSwitched" -> [langCopy EXCEPT !.idx = m.kb.idx]
                       [] OTHER -> langCopy
  BY <1>2, <1>3 DEF ParseIPC
<1>5. PICK E : niriWire \in Seq(E)
  BY DEF NiriInv
<1>6. PICK way : /\ Leads(way, niriWire, mirror, Mirrors(niri))
                 /\ ~niriUntold => Settles(way, niriWire, WindowLabel(niri))
  BY <1>1 DEF OnTheWay
<1>7. /\ IsMirror(way[1]) /\ way[1] = m /\ Tail(niriWire) \in Seq(E)
      /\ \E rest : /\ Leads(rest, Tail(niriWire), way[1], Mirrors(niri))
                   /\ \A final : Settles(way, niriWire, final) => Settles(rest, Tail(niriWire), final)
  BY <1>1, <1>2, <1>3, <1>5, <1>6, WayTail
<1>8. PICK rest : /\ Leads(rest, Tail(niriWire), m, Mirrors(niri))
                  /\ \A final : Settles(way, niriWire, final) => Settles(rest, Tail(niriWire), final)
  BY <1>7
<1>9. (\A l : WindowLabel(l)' = WindowLabel(l)) /\ WindowLabel(niri)' = WindowLabel(niri) /\ Mirrors(niri)' = Mirrors(niri)
  BY <1>1 DEF WindowLabel, Mirrors, FocusedWin, FocusedWs
<1>10. Registered(e.kind) = CASE e.kind \in OfKeyboards -> {"language"}
                              [] e.kind \in OfWindows -> {"workspaces", "window"}
                              [] OTHER -> {"workspaces"}
  BY DEF Registered, RegisteredBut
<1>11. ASSUME ~niriUntold, "window" \notin niriDp', NothingAfter(Tail(niriWire), 0)
       PROVE  niriView["window"] = WindowLabel(niri)
  <2>1. e.kind \notin OfWindows /\ "window" \notin niriDp
    BY <1>4, <1>10, <1>11 DEF OfKeyboards, OfWindows
  <2>2. NothingAfter(niriWire, 0)
    <3> SUFFICES ASSUME NEW j \in 1..Len(niriWire), 0 < j PROVE niriWire[j].kind \notin OfWindows
      BY DEF NothingAfter
    <3>1. CASE j = 1
      <4>1. Head(niriWire) = niriWire[1]
        BY <1>1, <1>5
      <4> QED  BY <1>2, <2>1, <3>1, <4>1
    <3>2. CASE j > 1
      <4>1. j - 1 \in 1..Len(Tail(niriWire)) /\ 0 < j - 1 /\ Tail(niriWire)[j - 1] = niriWire[j]
        BY <1>1, <1>5, <3>2
      <4> QED  BY <1>11, <4>1 DEF NothingAfter
    <3> QED  BY <1>5, <3>1, <3>2
  <2> QED  BY <1>1, <1>11, <2>1, <2>2 DEF OnTheWay
<1>12. OnTheWay'
  <2>1. ~niriUntold => Settles(rest, Tail(niriWire), WindowLabel(niri))
    BY <1>6, <1>8
  <2> QED  BY <1>1, <1>4, <1>8, <1>9, <1>11, <2>1 DEF OnTheWay, Settles
<1>13. langCopy' = m.kb
  <2>1. CASE e.kind = "KeyboardLayoutsChanged"
    BY <1>4, <2>1
  <2>2. CASE e.kind = "KeyboardLayoutSwitched"
    <3>1. langCopy' = [langCopy EXCEPT !.idx = m.kb.idx]
      BY <1>4, <2>2
    <3>2. m = [mirror EXCEPT !.kb.idx = e.idx]
      BY <1>3, <2>2 DEF ApplyTo
    <3>3. m.kb = [mirror.kb EXCEPT !.idx = e.idx]
      BY <1>1, <3>2 DEF IsMirror
    <3>4. mirror.kb = [count |-> mirror.kb.count, idx |-> mirror.kb.idx]
      BY <1>1 DEF IsMirror, IsKb
    <3>5. m.kb = [count |-> mirror.kb.count, idx |-> e.idx] /\ m.kb.idx = e.idx
      BY <3>3, <3>4
    <3> QED  BY <1>1, <3>1, <3>4, <3>5
  <2>3. CASE e.kind \notin OfKeyboards
    <3>1. langCopy' = langCopy
      BY <1>4, <2>3 DEF OfKeyboards
    <3> QED  BY <1>1, <1>3, <2>3, <3>1, OtherKinds
  <2> QED  BY <2>1, <2>2, <2>3 DEF OfKeyboards
<1>14. "workspaces" \notin niriDp' => niriView'["workspaces"] = ShownWorkspaces(mirror)'
  <2> SUFFICES ASSUME "workspaces" \notin niriDp' PROVE niriView'["workspaces"] = ShownWorkspaces(mirror)'
    OBVIOUS
  <2>1. e.kind \in OfKeyboards /\ "workspaces" \notin niriDp
    BY <1>4, <1>10 DEF OfKeyboards, OfWindows
  <2>2. m.ws = mirror.ws /\ m.wins = mirror.wins
    BY <1>1, <1>3, <2>1, OnlyKeyboards
  <2>3. ShownWorkspaces(mirror)' = ShownWorkspaces(mirror)
    BY <1>1, <1>4, <2>2 DEF ShownWorkspaces, WinsOn
  <2> QED  BY <1>1, <2>1, <2>3 DEF NiriInv
<1>15. "language" \notin niriDp' => niriView'["language"] = LanguageLabel(langCopy)'
  <2> SUFFICES ASSUME "language" \notin niriDp' PROVE niriView'["language"] = LanguageLabel(langCopy')
    BY DEF LanguageLabel
  <2>1. e.kind \notin OfKeyboards /\ "language" \notin niriDp
    BY <1>4, <1>10 DEF OfKeyboards, OfWindows
  <2>2. langCopy' = langCopy
    BY <1>4, <2>1 DEF OfKeyboards
  <2> QED  BY <1>1, <2>1, <2>2 DEF NiriInv
<1>16. Sane(niri)' /\ IsMirror(mirror)' /\ (\E S : niriWire \in Seq(S))'
  BY <1>1, <1>4, <1>7 DEF NiriInv
<1> QED  BY <1>1, <1>4, <1>12, <1>13, <1>14, <1>15, <1>16 DEF NiriInv

LEMMA UpdateKeeps == ASSUME NiriInv, NEW module \in NiriModules, NiriUpdate(module) PROVE NiriInv'
<1>1. PICK shown : shown = CASE module = "workspaces" -> ShownWorkspaces(mirror)
                             [] module = "window" -> WindowLabel(mirror)
                             [] module = "language" -> LanguageLabel(langCopy)
  OBVIOUS
<1>2. /\ niriDp' = niriDp \ {module} /\ niriView' = [niriView EXCEPT ![module] = shown]
      /\ UNCHANGED <<niriConfig, niri, niriWire, niriUp, mirror, langCopy, niriUntold>>
  BY <1>1 DEF NiriUpdate, niriTruth
<1>3. DOMAIN niriView = NiriModules
  BY DEF NiriInv
<1>4. DOMAIN niriView' = NiriModules /\ niriView'[module] = shown
      /\ \A other \in NiriModules : other # module => niriView'[other] = niriView[other]
  BY <1>2, <1>3
<1>5. /\ (\A l : WindowLabel(l)' = WindowLabel(l)) /\ WindowLabel(niri)' = WindowLabel(niri) /\ Mirrors(niri)' = Mirrors(niri)
      /\ ShownWorkspaces(mirror)' = ShownWorkspaces(mirror) /\ LanguageLabel(langCopy)' = LanguageLabel(langCopy)
  BY <1>2 DEF WindowLabel, Mirrors, FocusedWin, FocusedWs, ShownWorkspaces, LanguageLabel
<1>6. "workspaces" \notin niriDp' => niriView'["workspaces"] = ShownWorkspaces(mirror)
  BY <1>1, <1>2, <1>4 DEF NiriInv, NiriModules
<1>7. "language" \notin niriDp' => niriView'["language"] = LanguageLabel(langCopy)
  BY <1>1, <1>2, <1>4 DEF NiriInv, NiriModules
<1>8. ASSUME niriUp PROVE OnTheWay'
  <2>1. PICK way : /\ Leads(way, niriWire, mirror, Mirrors(niri))
                   /\ ~niriUntold => Settles(way, niriWire, WindowLabel(niri))
    BY <1>8 DEF NiriInv, OnTheWay
  <2>2. ASSUME ~niriUntold, "window" \notin niriDp', NothingAfter(niriWire, 0)
        PROVE  niriView'["window"] = WindowLabel(niri)
    <3>1. CASE module = "window"
      <4>1. shown = WindowLabel(mirror)
        BY <1>1, <3>1
      <4>2. way[0] = mirror /\ 0 \in 0..Len(niriWire)
        BY <2>1 DEF Leads, NiriInv
      <4> QED  BY <1>4, <2>1, <2>2, <3>1, <4>1, <4>2 DEF Settles
    <3>2. CASE module # "window"
      <4>1. "window" \notin niriDp
        BY <1>2, <2>2, <3>2
      <4> QED  BY <1>4, <1>8, <2>2, <3>2, <4>1 DEF NiriInv, OnTheWay, NiriModules
    <3> QED  BY <3>1, <3>2
  <2> QED  BY <1>2, <1>5, <2>1, <2>2 DEF OnTheWay, Settles
<1>9. Sane(niri)' /\ IsMirror(mirror)' /\ (langCopy = mirror.kb)' /\ (\E E : niriWire \in Seq(E))'
  BY <1>2 DEF NiriInv
<1> QED  BY <1>2, <1>4, <1>5, <1>6, <1>7, <1>8, <1>9 DEF NiriInv

LEMMA NiriStuttersKeep == ASSUME NiriInv, UNCHANGED niriVars PROVE NiriInv'
<1>1. UNCHANGED <<niriConfig, niri, niriWire, niriUp, mirror, langCopy, niriDp, niriView, niriUntold>>
  BY DEF niriVars, niriTruth
<1>2. /\ (\A l : WindowLabel(l)' = WindowLabel(l)) /\ WindowLabel(niri)' = WindowLabel(niri) /\ Mirrors(niri)' = Mirrors(niri)
      /\ ShownWorkspaces(mirror)' = ShownWorkspaces(mirror)
  BY <1>1 DEF WindowLabel, Mirrors, FocusedWin, FocusedWs, ShownWorkspaces
<1>3. OnTheWay => OnTheWay'
  BY <1>1, <1>2 DEF OnTheWay, Settles
<1>4. Sane(niri)' /\ IsMirror(mirror)' /\ (\E E : niriWire \in Seq(E))'
  BY <1>1 DEF NiriInv
<1> QED  BY <1>1, <1>2, <1>3, <1>4 DEF NiriInv

LEMMA NiriStarts == ASSUME NiriInit PROVE NiriInv
<1>1. PICK w \in NiriWs, o \in Outputs, opened \in {{}, NiriWin} :
        LET top == IF opened = {} THEN NoWin ELSE CHOOSE x \in opened : TRUE IN
        niri = [ws |-> [v \in NiriWs |-> [output |-> o, active |-> v = w, focused |-> v = w, urgent |-> FALSE,
                                          win |-> IF v = w THEN top ELSE NoWin]],
                wins |-> [x \in opened |-> w], layer |-> FALSE, kb |-> [count |-> 1, idx |-> 0]]
  BY DEF NiriInit
<1>2. PICK top : top = IF opened = {} THEN NoWin ELSE CHOOSE x \in opened : TRUE
  OBVIOUS
<1>3. opened \subseteq NiriWin /\ top \in opened \cup {NoWin}
  BY <1>1, <1>2
<1>4. PICK ws : ws = [v \in NiriWs |-> [output |-> o, active |-> v = w, focused |-> v = w, urgent |-> FALSE,
                                        win |-> IF v = w THEN top ELSE NoWin]]
  OBVIOUS
<1>5. PICK wins : wins = [x \in opened |-> w]
  OBVIOUS
<1>6. niri = [ws |-> ws, wins |-> wins, layer |-> FALSE, kb |-> [count |-> 1, idx |-> 0]]
  BY <1>1, <1>2, <1>4, <1>5
<1>7. \A v \in NiriWs : /\ ws[v] \in WsRecord /\ ws[v].active = (v = w) /\ ws[v].focused = (v = w)
                        /\ ws[v].win = IF v = w THEN top ELSE NoWin
  <2> SUFFICES ASSUME NEW v \in NiriWs
               PROVE  /\ ws[v] \in WsRecord /\ ws[v].active = (v = w) /\ ws[v].focused = (v = w)
                      /\ ws[v].win = IF v = w THEN top ELSE NoWin
    OBVIOUS
  <2>1. PICK b \in BOOLEAN : b = (v = w)
    OBVIOUS
  <2>2. PICK x \in NiriWin \cup {NoWin} : x = IF v = w THEN top ELSE NoWin
    BY <1>3
  <2>3. ws[v] = [output |-> o, active |-> b, focused |-> b, urgent |-> FALSE, win |-> x]
    BY <1>4, <2>1, <2>2
  <2>4. ws[v] \in WsRecord /\ ws[v].active = b /\ ws[v].focused = b /\ ws[v].win = x
    BY <2>3 DEF WsRecord
  <2> QED  BY <2>1, <2>2, <2>4
<1>8. DOMAIN ws = NiriWs /\ ws \in [NiriWs -> WsRecord] /\ DOMAIN wins = opened /\ wins \in [opened -> NiriWs]
      /\ \A x \in opened : wins[x] = w
  BY <1>4, <1>5, <1>7
<1>9. Sane(niri)
  <2>1. FocusedWs(niri) = {w} /\ niri.ws[w].active /\ w \in DOMAIN niri.ws
    BY <1>6, <1>7, <1>8 DEF FocusedWs
  <2>2. OneFocused(niri)
    BY <2>1 DEF OneFocused
  <2>3. WindowsPlaced(niri)
    BY <1>3, <1>6, <1>7, <1>8 DEF WindowsPlaced
  <2>4. IsKb(niri.kb)
    BY <1>6 DEF IsKb
  <2> QED  BY <1>3, <1>6, <1>8, <2>2, <2>3, <2>4 DEF Sane
<1>10. mirror = Mirrors(niri) /\ niriWire = <<>> /\ niriDp = {} /\ niriUp = TRUE /\ langCopy = niri.kb
  BY DEF NiriInit, Mirrors
<1>11. niriView = [m \in NiriModules |-> CASE m = "workspaces" -> ShownWorkspaces(niri)
                                           [] m = "window" -> WindowLabel(niri)
                                           [] m = "language" -> LanguageLabel(niri.kb)]
  BY DEF NiriInit
<1>12. /\ DOMAIN niriView = NiriModules
       /\ niriView["workspaces"] = ShownWorkspaces(niri) /\ niriView["window"] = WindowLabel(niri)
       /\ niriView["language"] = LanguageLabel(niri.kb)
  BY <1>11 DEF NiriModules
<1>13. mirror.ws = niri.ws /\ mirror.wins = niri.wins /\ mirror.kb = niri.kb /\ IsMirror(mirror)
       /\ WindowLabel(mirror) = WindowLabel(niri)
  <2>1. mirror.ws = niri.ws /\ mirror.wins = niri.wins /\ mirror.kb = niri.kb
    BY <1>10 DEF Mirrors
  <2> QED  BY <1>9, <1>10, <2>1, FocusIs
<1>14. ShownWorkspaces(mirror) = ShownWorkspaces(niri)
  BY <1>13 DEF ShownWorkspaces, WinsOn
<1>15. OnTheWay
  <2>1. PICK way : Leads(way, <<>>, mirror, mirror)
    BY <1>13, NoWay
  <2>2. Settles(way, <<>>, WindowLabel(niri))
    <3>1. Len(<<>>) = 0 /\ 0..0 = {0} /\ way[0] = mirror
      BY <2>1 DEF Leads
    <3> QED  BY <1>13, <3>1 DEF Settles
  <2> QED  BY <1>10, <1>12, <2>1, <2>2 DEF OnTheWay
<1>16. \E E : niriWire \in Seq(E)
  <2>1. <<>> \in Seq({})
    OBVIOUS
  <2> QED  BY <1>10, <2>1
<1> QED  BY <1>9, <1>10, <1>12, <1>13, <1>14, <1>15, <1>16 DEF NiriInv

LEMMA NiriInvImplies == NiriInv => NiriAgrees
<1> SUFFICES ASSUME NiriInv, niriUp, niriWire = <<>>, niriDp = {}
             PROVE  /\ mirror.ws = niri.ws /\ mirror.wins = niri.wins /\ mirror.kb = niri.kb
                    /\ mirror.focused = {FocusedWin(niri)} \ {NoWin}
                    /\ niriView["workspaces"] = ShownWorkspaces(niri)
                    /\ niriView["language"] = LanguageLabel(niri.kb)
                    /\ ~niriUntold => niriView["window"] = WindowLabel(niri)
  BY DEF NiriAgrees
<1>1. PICK way : Leads(way, niriWire, mirror, Mirrors(niri))
  BY DEF NiriInv, OnTheWay
<1>2. mirror = Mirrors(niri)
  BY <1>1 DEF Leads
<1>3. mirror.ws = niri.ws /\ mirror.wins = niri.wins /\ mirror.kb = niri.kb /\ mirror.focused = {FocusedWin(niri)} \ {NoWin}
  BY <1>2 DEF Mirrors
<1>4. ShownWorkspaces(mirror) = ShownWorkspaces(niri)
  BY <1>3 DEF ShownWorkspaces, WinsOn
<1>5. NothingAfter(niriWire, 0)
  BY DEF NothingAfter
<1> QED  BY <1>3, <1>4, <1>5 DEF NiriInv, OnTheWay

\* Whatever niri does, and however often the stream ends, at rest the mirror is what niri has
\* and the modules show it (src/modules/niri/backend.cpp, parseIPC).
THEOREM NiriAlwaysAgrees == NiriSpec => []NiriAgrees
<1>1. NiriInit => NiriInv
  BY NiriStarts
<1>2. NiriInv /\ [NiriNext]_niriVars => NiriInv'
  <2> SUFFICES ASSUME NiriInv, [NiriNext]_niriVars PROVE NiriInv'
    OBVIOUS
  <2>1. CASE \E w \in NiriWs, focused \in BOOLEAN : WorkspaceSwitched(w, focused)  BY <2>1, SwitchedKeeps
  <2>2. CASE \E x \in NiriWin, w \in NiriWs : NiriWindowOpens(x, w)  BY <2>2, OpensKeeps
  <2>3. CASE \E x \in NiriWin, y \in NiriWin \cup {NoWin} : NiriWindowCloses(x, y)  BY <2>3, ClosesKeeps
  <2>4. CASE \E x \in NiriWin, w \in NiriWs, y \in NiriWin \cup {NoWin} : NiriWindowMoves(x, w, y)  BY <2>4, MovesKeeps
  <2>5. CASE \E w \in NiriWs : WorkspaceUrgent(w)  BY <2>5, UrgentKeeps
  <2>6. CASE \E w \in NiriWs, o \in Outputs \cup {"none"} : WorkspaceListChanges(w, o)  BY <2>6, ListKeeps
  <2>7. CASE LayerFocus  BY <2>7, LayerKeeps
  <2>8. CASE \E count \in NiriLayouts, idx \in 0..1 : NiriLayoutChanges(count, idx)  BY <2>8, LayoutKeeps
  <2>9. CASE StreamEnds \/ ConnectToSocket  BY <2>9, EndKeeps, ConnectKeeps
  <2>10. CASE ParseIPC  BY <2>10, ParseKeeps
  <2>11. CASE \E m \in NiriModules : NiriUpdate(m)  BY <2>11, UpdateKeeps
  <2>12. CASE UNCHANGED niriVars  BY <2>12, NiriStuttersKeep
  <2> QED  BY <2>1, <2>2, <2>3, <2>4, <2>5, <2>6, <2>7, <2>8, <2>9, <2>10, <2>11, <2>12 DEF NiriNext
<1> QED  BY <1>1, <1>2, NiriInvImplies, PTL DEF NiriSpec

-----------------------------------------------------------------------------
(* Sway.  A change is missed, or an event of it is on the socket or in the    *)
(* queue until the module has heard or asked.  Modes and layouts are one      *)
(* topic, so that the last event on the socket is always of the last change. *)

EventIn(w) == \E i \in 1..Len(w) : w[i] # ReplyMsg
ReplyIn(w) == \E i \in 1..Len(w) : w[i] = ReplyMsg
Grows(w) == \E i \in 1..Len(w) : w[i] # ReplyMsg /\ w[i].grows
Latest(w) ==
  \E i \in 1..Len(w) : /\ w[i] # ReplyMsg /\ w[i].at = swayNews /\ w[i].value = swayTruth
                       /\ \A j \in 1..Len(w) : i < j => w[j] = ReplyMsg
Dated(w) == \A i \in 1..Len(w) : w[i] # ReplyMsg => w[i].at \in 1..swayNews

\* One reply at most is on its way, and none once the worker waits for events.
Replies ==
  /\ swayAsked \in Nat /\ swaySubscribed \in Nat /\ swaySubscribed <= swayAsked /\ swayAsked <= SwayTopics /\ swayAsked <= swaySubscribed + 1
  /\ \A i, j \in 1..Len(swayWire) : swayWire[i] = ReplyMsg /\ swayWire[j] = ReplyMsg => i = j
  /\ ReplyIn(swayWire) => swayAsked = swaySubscribed /\ swayPc \notin {"asking", "reading"}
  /\ swayPc \in {"asking", "reading"} => swaySubscribed = SwayTopics
  /\ swayPc = "asking" => swayKind # "mode"
  /\ eventFd \in {"open", "lost"} /\ (swaySubscribed = 0 \/ eventFd = "lost" => swayWire = <<>>)

Messages ==
  /\ swayNews \in Nat /\ swayNews >= 1 /\ swayMissed \in 0..swayNews
  /\ \E E : swayWire \in Seq(E) /\ swayInbox \in Seq(E)
  /\ Dated(swayWire) /\ Dated(swayInbox) /\ ~ReplyIn(swayInbox)
  /\ swayPc \in {"subscribing", "asking"} => swayInbox = <<>>
  /\ swayKind = "language" =>
       swayTruth = [layouts |-> swayTruth.layouts, active |-> swayTruth.active] /\ swayTruth.active \in swayTruth.layouts

\* A module that asks for the tree is right or will ask.
TreeHeard == AsksTree /\ swayMissed = 0 => swayHeld = KeptTree(swayTruth) \/ EventIn(swayWire) \/ swayInbox # <<>>

\* A module that believes the events has the last one before it, or was not told.
Current == IF swayKind = "mode" THEN swayTruth ELSE swayTruth.active
WordHeard ==
  ~AsksTree =>
    /\ EventIn(swayWire) => Latest(swayWire)
    /\ ~EventIn(swayWire) /\ swayInbox # <<>> => Latest(swayInbox) \/ swayMissed = swayNews
    /\ ~EventIn(swayWire) /\ swayInbox = <<>> /\ swayMissed = 0 => swayHeld = Current
LayoutsKnown ==
  swayKind = "language" /\ swayMissed = 0 => swayKnown = swayTruth.layouts \/ Grows(swayWire) \/ Grows(swayInbox)

ShownIfMade == ~swayDp /\ swayPc \notin {"subscribing", "asking", "failed"} => swayLabel = swayHeld

SwayInv ==
  /\ swayKind \in {"workspaces", "window", "scratchpad", "mode", "language"}
  /\ Replies /\ Messages /\ TreeHeard /\ WordHeard /\ LayoutsKnown /\ ShownIfMade

\* What is said of a sequence that a message is put on, or whose first one is taken off.
LEMMA Put ==
  ASSUME NEW E, NEW w \in Seq(E), NEW m, NEW v, v = Append(w, m)
  PROVE  /\ \E F : v \in Seq(F)
         /\ Len(v) = Len(w) + 1 /\ Len(w) \in Nat /\ v[Len(v)] = m /\ v # <<>>
         /\ \A i \in 1..Len(w) : v[i] = w[i]
         /\ \A i \in 1..Len(v) : i \in 1..Len(w) \/ i = Len(v)
         /\ EventIn(v) <=> EventIn(w) \/ m # ReplyMsg
         /\ ReplyIn(v) <=> ReplyIn(w) \/ m = ReplyMsg
         /\ Grows(v) <=> Grows(w) \/ (m # ReplyMsg /\ m.grows)
<1>1. PICK F : F = E \cup {m}
  OBVIOUS
<1>2. w \in Seq(F) /\ m \in F
  BY <1>1
<1>3. v \in Seq(F) /\ Len(v) = Len(w) + 1 /\ Len(w) \in Nat /\ v[Len(v)] = m /\ \A i \in 1..Len(w) : v[i] = w[i]
  BY <1>2
<1>4. (\A i \in 1..Len(v) : i \in 1..Len(w) \/ i = Len(v)) /\ Len(v) \in 1..Len(v) /\ (\A i \in 1..Len(w) : i \in 1..Len(v)) /\ v # <<>>
  BY <1>3
<1>5. EventIn(v) <=> EventIn(w) \/ m # ReplyMsg
  BY <1>3, <1>4 DEF EventIn
<1>6. ReplyIn(v) <=> ReplyIn(w) \/ m = ReplyMsg
  BY <1>3, <1>4 DEF ReplyIn
<1>7. Grows(v) <=> Grows(w) \/ (m # ReplyMsg /\ m.grows)
  BY <1>3, <1>4 DEF Grows
<1> QED  BY <1>3, <1>4, <1>5, <1>6, <1>7

LEMMA Taken ==
  ASSUME NEW E, NEW w \in Seq(E), w # <<>>
  PROVE  /\ Tail(w) \in Seq(E) /\ Head(w) \in E /\ Len(w) \in Nat /\ Len(w) > 0 /\ Head(w) = w[1] /\ Len(Tail(w)) = Len(w) - 1
         /\ \A i \in 1..Len(Tail(w)) : Tail(w)[i] = w[i + 1] /\ i + 1 \in 1..Len(w)
         /\ \A i \in 1..Len(w) : i = 1 \/ (i - 1 \in 1..Len(Tail(w)) /\ w[i] = Tail(w)[i - 1])
         /\ EventIn(w) <=> EventIn(Tail(w)) \/ Head(w) # ReplyMsg
         /\ ReplyIn(w) <=> ReplyIn(Tail(w)) \/ Head(w) = ReplyMsg
         /\ Grows(w) <=> Grows(Tail(w)) \/ (Head(w) # ReplyMsg /\ Head(w).grows)
         /\ Dated(w) => Dated(Tail(w)) /\ (Head(w) # ReplyMsg => Head(w).at \in 1..swayNews)
<1>1. /\ Tail(w) \in Seq(E) /\ Head(w) \in E /\ Len(w) \in Nat /\ Len(w) > 0 /\ Head(w) = w[1] /\ Len(Tail(w)) = Len(w) - 1
      /\ \A i \in 1..Len(Tail(w)) : Tail(w)[i] = w[i + 1]
  OBVIOUS
<1>2. \A i \in 1..Len(Tail(w)) : i + 1 \in 1..Len(w)
  BY <1>1
<1>3. \A i \in 1..Len(w) : i = 1 \/ (i - 1 \in 1..Len(Tail(w)) /\ w[i] = Tail(w)[i - 1])
  <2> SUFFICES ASSUME NEW i \in 1..Len(w), i # 1 PROVE i - 1 \in 1..Len(Tail(w)) /\ w[i] = Tail(w)[i - 1]
    OBVIOUS
  <2>1. i - 1 \in 1..Len(Tail(w)) /\ (i - 1) + 1 = i
    BY <1>1
  <2> QED  BY <1>1, <2>1
<1>4. 1 \in 1..Len(w)
  BY <1>1
<1>5. EventIn(w) <=> EventIn(Tail(w)) \/ Head(w) # ReplyMsg
  <2>1. PICK t : t = Tail(w)
    OBVIOUS
  <2>2. ASSUME EventIn(t) PROVE EventIn(w)
    <3>1. PICK i \in 1..Len(t) : t[i] # ReplyMsg
      BY <2>2 DEF EventIn
    <3>2. i + 1 \in 1..Len(w) /\ w[i + 1] = t[i]
      BY <1>1, <1>2, <2>1
    <3> QED  BY <3>1, <3>2 DEF EventIn
  <2>3. ASSUME EventIn(w) PROVE EventIn(t) \/ w[1] # ReplyMsg
    <3>1. PICK i \in 1..Len(w) : w[i] # ReplyMsg
      BY <2>3 DEF EventIn
    <3>2. i = 1 \/ (i - 1 \in 1..Len(t) /\ w[i] = t[i - 1])
      BY <1>3, <2>1
    <3> QED  BY <3>1, <3>2 DEF EventIn
  <2>4. w[1] # ReplyMsg => EventIn(w)
    BY <1>4 DEF EventIn
  <2> QED  BY <1>1, <2>1, <2>2, <2>3, <2>4
<1>6. ReplyIn(w) <=> ReplyIn(Tail(w)) \/ Head(w) = ReplyMsg
  <2>1. PICK t : t = Tail(w)
    OBVIOUS
  <2>2. ASSUME ReplyIn(t) PROVE ReplyIn(w)
    <3>1. PICK i \in 1..Len(t) : t[i] = ReplyMsg
      BY <2>2 DEF ReplyIn
    <3>2. i + 1 \in 1..Len(w) /\ w[i + 1] = t[i]
      BY <1>1, <1>2, <2>1
    <3> QED  BY <3>1, <3>2 DEF ReplyIn
  <2>3. ASSUME ReplyIn(w) PROVE ReplyIn(t) \/ w[1] = ReplyMsg
    <3>1. PICK i \in 1..Len(w) : w[i] = ReplyMsg
      BY <2>3 DEF ReplyIn
    <3>2. i = 1 \/ (i - 1 \in 1..Len(t) /\ w[i] = t[i - 1])
      BY <1>3, <2>1
    <3> QED  BY <3>1, <3>2 DEF ReplyIn
  <2>4. w[1] = ReplyMsg => ReplyIn(w)
    BY <1>4 DEF ReplyIn
  <2> QED  BY <1>1, <2>1, <2>2, <2>3, <2>4
<1>7. Grows(w) <=> Grows(Tail(w)) \/ (Head(w) # ReplyMsg /\ Head(w).grows)
  <2>1. PICK t : t = Tail(w)
    OBVIOUS
  <2>2. ASSUME Grows(t) PROVE Grows(w)
    <3>1. PICK i \in 1..Len(t) : t[i] # ReplyMsg /\ t[i].grows
      BY <2>2 DEF Grows
    <3>2. i + 1 \in 1..Len(w) /\ w[i + 1] = t[i]
      BY <1>1, <1>2, <2>1
    <3> QED  BY <3>1, <3>2 DEF Grows
  <2>3. ASSUME Grows(w) PROVE Grows(t) \/ (w[1] # ReplyMsg /\ w[1].grows)
    <3>1. PICK i \in 1..Len(w) : w[i] # ReplyMsg /\ w[i].grows
      BY <2>3 DEF Grows
    <3>2. i = 1 \/ (i - 1 \in 1..Len(t) /\ w[i] = t[i - 1])
      BY <1>3, <2>1
    <3> QED  BY <3>1, <3>2 DEF Grows
  <2>4. w[1] # ReplyMsg /\ w[1].grows => Grows(w)
    BY <1>4 DEF Grows
  <2> QED  BY <1>1, <2>1, <2>2, <2>3, <2>4
<1>8. Dated(w) => Dated(Tail(w)) /\ (Head(w) # ReplyMsg => Head(w).at \in 1..swayNews)
  BY <1>1, <1>2, <1>4 DEF Dated
<1> QED  BY <1>1, <1>2, <1>3, <1>5, <1>6, <1>7, <1>8

\* The last event stays so behind the first message; if there is none behind, the first is it.
LEMMA LatestBehind ==
  ASSUME NEW E, NEW w \in Seq(E), w # <<>>, Latest(w)
  PROVE  /\ EventIn(Tail(w)) => Latest(Tail(w))
         /\ ~EventIn(Tail(w)) => Head(w) # ReplyMsg /\ Head(w).at = swayNews /\ Head(w).value = swayTruth
<1>1. PICK i \in 1..Len(w) : /\ w[i] # ReplyMsg /\ w[i].at = swayNews /\ w[i].value = swayTruth
                             /\ \A j \in 1..Len(w) : i < j => w[j] = ReplyMsg
  BY DEF Latest
<1>2. /\ Len(w) \in Nat /\ Len(w) > 0 /\ Head(w) = w[1] /\ Len(Tail(w)) = Len(w) - 1
      /\ \A k \in 1..Len(Tail(w)) : Tail(w)[k] = w[k + 1] /\ k + 1 \in 1..Len(w)
  BY Taken
<1>3. CASE i = 1
  <2>1. \A k \in 1..Len(Tail(w)) : 1 < k + 1
    BY <1>2
  <2>2. ~EventIn(Tail(w))
    BY <1>1, <1>2, <1>3, <2>1 DEF EventIn
  <2> QED  BY <1>1, <1>2, <1>3, <2>2
<1>4. CASE i # 1
  <2>1. PICK k \in 1..Len(Tail(w)) : k + 1 = i
    <3>1. i - 1 \in 1..Len(Tail(w)) /\ (i - 1) + 1 = i
      BY <1>2, <1>4
    <3> QED  BY <3>1
  <2>2. Tail(w)[k] = w[i]
    BY <1>2, <2>1
  <2>3. \A j \in 1..Len(Tail(w)) : k < j => Tail(w)[j] = ReplyMsg
    <3> SUFFICES ASSUME NEW j \in 1..Len(Tail(w)), k < j PROVE Tail(w)[j] = ReplyMsg
      OBVIOUS
    <3>1. j + 1 \in 1..Len(w) /\ i < j + 1 /\ Tail(w)[j] = w[j + 1]
      BY <1>2, <2>1
    <3> QED  BY <1>1, <3>1
  <2>4. Latest(Tail(w)) /\ EventIn(Tail(w))
    BY <1>1, <2>2, <2>3 DEF Latest, EventIn
  <2> QED  BY <2>4
<1> QED  BY <1>3, <1>4

\* While sway and the kind stay, what is said of a sequence stays.
LEMMA SwayStays ==
  ASSUME UNCHANGED <<swayKind, swayTruth, swayNews>>
  PROVE  /\ \A w : (Latest(w)' <=> Latest(w)) /\ (Dated(w)' <=> Dated(w))
         /\ KeptTree(swayTruth)' = KeptTree(swayTruth) /\ Current' = Current
         /\ (AsksTree' <=> AsksTree) /\ SwayTopics' = SwayTopics
BY DEF Latest, Dated, KeptTree, Current, AsksTree, SwayTopics

LEMMA ChangesKeep ==
  ASSUME SwayInv, NEW v, NEW topic \in 1..SwayTopics, NEW grows \in BOOLEAN, SwayChanges(v, topic, grows),
         swayKind = "language" => /\ v = [layouts |-> v.layouts, active |-> v.active] /\ v.active \in v.layouts
                                  /\ grows \/ v.layouts = swayTruth.layouts
  PROVE  SwayInv'
<1>1. PICK e : e = [type |-> "event", value |-> v, grows |-> grows, at |-> swayNews + 1]
  OBVIOUS
<1>2. e # ReplyMsg /\ e.at = swayNews + 1 /\ e.value = v /\ e.grows = grows
  BY <1>1 DEF ReplyMsg
<1>3. /\ swayNews' = swayNews + 1 /\ swayTruth' = v
      /\ IF eventFd = "open" /\ topic <= swaySubscribed
         THEN swayWire' = Append(swayWire, e) /\ UNCHANGED swayMissed
         ELSE swayMissed' = swayNews + 1 /\ UNCHANGED swayWire
      /\ UNCHANGED <<swayKind, eventFd, swayAsked, swaySubscribed, swayPc, swayInbox, swayHeld, swayKnown, swayLabel, swayDp>>
  <2>1. swayNews' = swayNews + 1 => EventMsg(v, grows) = e
    BY <1>1 DEF EventMsg
  <2> QED  BY <2>1 DEF SwayChanges, swayModule
<1>4. /\ Replies /\ Messages /\ TreeHeard /\ WordHeard /\ LayoutsKnown /\ ShownIfMade
  BY DEF SwayInv
<1>5. PICK E : swayWire \in Seq(E) /\ swayInbox \in Seq(E)
  BY <1>4 DEF Messages
<1>6. SwayTopics' = SwayTopics /\ (AsksTree' <=> AsksTree)
  BY <1>3 DEF SwayTopics, AsksTree
<1>7. swayNews \in Nat /\ swayNews + 1 \in Nat /\ swayNews + 1 >= 1 /\ swayMissed \in 0..swayNews /\ swayMissed' \in 0..(swayNews + 1)
  BY <1>3, <1>4 DEF Messages
<1>8. ASSUME NEW w, Dated(w) PROVE Dated(w)'
  BY <1>3, <1>7, <1>8 DEF Dated
<1>9. Dated(swayInbox)' /\ ~ReplyIn(swayInbox)'
  BY <1>3, <1>4, <1>8 DEF Messages, Dated, ReplyIn
<1>10. ShownIfMade'
  BY <1>3, <1>4 DEF ShownIfMade
<1>11. CASE eventFd = "open" /\ topic <= swaySubscribed
  <2>1. PICK w : w = Append(swayWire, e)
    OBVIOUS
  <2>2. swayWire' = w /\ swayMissed' = swayMissed
    BY <1>3, <1>11, <2>1
  <2>3. /\ \E F : w \in Seq(F)
        /\ Len(w) = Len(swayWire) + 1 /\ Len(swayWire) \in Nat /\ w[Len(w)] = e /\ w # <<>>
        /\ \A i \in 1..Len(swayWire) : w[i] = swayWire[i]
        /\ \A i \in 1..Len(w) : i \in 1..Len(swayWire) \/ i = Len(w)
        /\ EventIn(w) /\ (ReplyIn(w) <=> ReplyIn(swayWire)) /\ (Grows(w) <=> Grows(swayWire) \/ grows)
    <3>1. \E F : w \in Seq(F)
      <4>1. swayWire \in Seq(E \cup {e}) /\ e \in E \cup {e}
        BY <1>5
      <4>2. w \in Seq(E \cup {e})
        BY <2>1, <4>1
      <4> QED  BY <4>2, Zenon
    <3>2. Len(w) = Len(swayWire) + 1 /\ Len(swayWire) \in Nat /\ w[Len(w)] = e /\ w # <<>>
      BY <1>5, <2>1, Put
    <3>3. /\ \A i \in 1..Len(swayWire) : w[i] = swayWire[i]
          /\ \A i \in 1..Len(w) : i \in 1..Len(swayWire) \/ i = Len(w)
      BY <1>5, <2>1, Put
    <3>4. (EventIn(w) <=> EventIn(swayWire) \/ e # ReplyMsg) /\ (ReplyIn(w) <=> ReplyIn(swayWire) \/ e = ReplyMsg)
      BY <1>5, <2>1, Put
    <3>5. Grows(w) <=> Grows(swayWire) \/ (e # ReplyMsg /\ e.grows)
      BY <1>5, <2>1, Put
    <3> QED  BY <3>1, <3>2, <3>3, <3>4, <3>5, <1>2
  <2>4. PICK F : w \in Seq(F)
    BY <2>3
  <2>5. Replies'
    <3>1. \A i, j \in 1..Len(w) : w[i] = ReplyMsg /\ w[j] = ReplyMsg => i = j
      BY <1>2, <1>4, <2>3 DEF Replies
    <3>2. swaySubscribed # 0
      BY <1>11, <1>4 DEF Replies
    <3> QED  BY <1>3, <1>4, <1>6, <1>11, <2>2, <2>3, <3>1, <3>2 DEF Replies, ReplyIn
  <2>6. Messages'
    <3>1. Dated(w)'
      BY <1>2, <1>3, <1>4, <1>7, <2>3 DEF Messages, Dated
    <3>2. PICK G : G = E \cup F
      OBVIOUS
    <3>3. w \in Seq(G) /\ swayInbox \in Seq(G)
      BY <1>5, <2>4, <3>2
    <3>4. Dated(swayWire)'
      BY <2>2, <3>1 DEF Dated
    <3> QED  BY <1>3, <1>4, <1>7, <1>9, <2>2, <3>3, <3>4 DEF Messages, ReplyIn
  <2>7. EventIn(swayWire)' /\ Latest(swayWire)'
    <3>1. Len(w) \in 1..Len(w) /\ \A j \in 1..Len(w) : ~(Len(w) < j)
      BY <2>3
    <3> QED  BY <1>2, <1>3, <2>2, <2>3, <3>1 DEF EventIn, Latest
  <2>8. TreeHeard' /\ WordHeard'
    BY <2>7 DEF TreeHeard, WordHeard
  <2>9. LayoutsKnown'
    <3>1. Grows(swayWire)' <=> Grows(swayWire) \/ grows
      BY <2>2, <2>3 DEF Grows
    <3>2. Grows(swayInbox)' <=> Grows(swayInbox)
      BY <1>3 DEF Grows
    <3> QED  BY <1>3, <1>4, <2>2, <3>1, <3>2 DEF LayoutsKnown
  <2> QED  BY <1>3, <1>10, <2>5, <2>6, <2>8, <2>9 DEF SwayInv
<1>12. CASE ~(eventFd = "open" /\ topic <= swaySubscribed)
  <2>1. swayMissed' = swayNews + 1 /\ swayMissed' = swayNews' /\ swayMissed' # 0 /\ swayWire' = swayWire
    BY <1>3, <1>7, <1>12
  <2>2. Replies'
    BY <1>3, <1>4, <1>6, <2>1 DEF Replies, ReplyIn
  <2>3. Messages'
    <3>1. Dated(swayWire)'
      BY <1>4, <1>8, <2>1 DEF Messages, Dated
    <3> QED  BY <1>3, <1>4, <1>5, <1>7, <1>9, <2>1, <3>1 DEF Messages, ReplyIn
  <2>4. WordHeard'
    <3> SUFFICES ASSUME ~AsksTree PROVE ~EventIn(swayWire)'
      BY <1>6, <2>1 DEF WordHeard
    <3>1. topic = 1
      BY DEF AsksTree, SwayTopics
    <3>2. swayWire = <<>>
      <4>1. eventFd = "open" => swaySubscribed = 0
        BY <1>4, <1>12, <3>1 DEF Replies
      <4> QED  BY <1>4, <4>1 DEF Replies
    <3> QED  BY <2>1, <3>2 DEF EventIn
  <2> QED  BY <1>3, <1>10, <2>1, <2>2, <2>3, <2>4 DEF SwayInv, TreeHeard, LayoutsKnown
<1> QED  BY <1>11, <1>12

\* What the sockets carry, what was heard of it and what was missed stay.
LEMMA HeardStays ==
  ASSUME SwayInv, UNCHANGED <<swayKind, swayTruth, swayNews, swayWire, swayInbox, swayHeld, swayKnown, swayMissed>>
  PROVE  /\ TreeHeard' /\ WordHeard' /\ LayoutsKnown'
         /\ ~(swayPc' \in {"subscribing", "asking"} /\ swayInbox # <<>>) => Messages'
<1>1. TreeHeard'
  BY SwayStays DEF SwayInv, TreeHeard, EventIn
<1>2. WordHeard'
  <2>1. (EventIn(swayWire)' <=> EventIn(swayWire)) /\ (Latest(swayWire)' <=> Latest(swayWire)) /\ (Latest(swayInbox)' <=> Latest(swayInbox))
    BY DEF EventIn, Latest
  <2> QED  BY SwayStays, <2>1 DEF SwayInv, WordHeard
<1>3. LayoutsKnown'
  BY DEF SwayInv, LayoutsKnown, Grows
<1>4. ASSUME ~(swayPc' \in {"subscribing", "asking"} /\ swayInbox # <<>>) PROVE Messages'
  BY <1>4 DEF SwayInv, Messages, Dated, ReplyIn
<1> QED  BY <1>1, <1>2, <1>3, <1>4

LEMMA SwayAsked ==
  ASSUME SwayInv, SendSubscribe \/ ConstructorThrows \/ LosesConnection \/ ReplyMissing \/ SwayUpdate \/ UNCHANGED swayVars
  PROVE  SwayInv'
<1>1. UNCHANGED <<swayKind, swayTruth, swayNews, swayWire, swayInbox, swayHeld, swayKnown, swayMissed>>
  BY DEF SendSubscribe, ConstructorThrows, LosesConnection, ReplyMissing, SwayUpdate, swayVars, swayServer, swaySocket, swayModule
<1>2. SwayTopics' = SwayTopics
  BY <1>1, SwayStays
<1>3. ~(swayPc' \in {"subscribing", "asking"} /\ swayInbox # <<>>)
  BY DEF SendSubscribe, ConstructorThrows, LosesConnection, ReplyMissing, SwayUpdate, swayVars, SwayInv, Messages
<1>4. ShownIfMade'
  BY DEF SendSubscribe, ConstructorThrows, LosesConnection, ReplyMissing, SwayUpdate, swayVars, swayServer, swaySocket, swayModule, SwayInv, ShownIfMade
<1>5. CASE SendSubscribe
  <2>1. ~ReplyIn(<<>>)
    BY DEF ReplyIn
  <2>2. Replies'
    <3>1. swayWire' = <<>> /\ swayAsked' = swayAsked + 1 /\ swayAsked = swaySubscribed /\ swayPc' \notin {"asking", "reading"}
      BY <1>5 DEF SendSubscribe
    <3>2. SwayTopics \in Nat /\ swayAsked < SwayTopics /\ UNCHANGED <<swaySubscribed, eventFd>>
      BY <1>5 DEF SendSubscribe, SwayTopics
    <3> QED  BY <1>1, <1>2, <2>1, <3>1, <3>2 DEF SwayInv, Replies, ReplyIn
  <2> QED  BY <1>1, <1>3, <1>4, <2>2, HeardStays DEF SwayInv
<1>6. CASE ConstructorThrows \/ LosesConnection \/ ReplyMissing \/ SwayUpdate \/ UNCHANGED swayVars
  <2>1. UNCHANGED <<eventFd, swayAsked, swaySubscribed>> /\ (swayPc' \in {"failed", "backoff"} \/ swayPc' = swayPc)
    BY <1>6 DEF ConstructorThrows, LosesConnection, ReplyMissing, SwayUpdate, swayVars, swaySocket
  <2>2. Replies'
    BY <1>1, <1>2, <2>1 DEF SwayInv, Replies, ReplyIn
  <2> QED  BY <1>1, <1>3, <1>4, <2>2, HeardStays DEF SwayInv
<1> QED  BY <1>5, <1>6

LEMMA AnswersKeep ==
  ASSUME SwayInv, SwayAnswers
  PROVE  SwayInv'
<1>1. /\ Replies /\ Messages /\ TreeHeard /\ WordHeard /\ LayoutsKnown /\ ShownIfMade
  BY DEF SwayInv
<1>2. PICK E : swayWire \in Seq(E) /\ swayInbox \in Seq(E)
  BY <1>1 DEF Messages
<1>3. PICK w : w = Append(swayWire, ReplyMsg)
  OBVIOUS
<1>4. /\ swayWire' = w /\ swaySubscribed' = swaySubscribed + 1 /\ eventFd = "open" /\ swaySubscribed < swayAsked
      /\ UNCHANGED <<swayKind, swayTruth, swayNews, eventFd, swayAsked, swayPc, swayInbox, swayHeld, swayKnown, swayLabel, swayDp, swayMissed>>
  BY <1>3 DEF SwayAnswers, swayServer, swayModule
<1>5. \E F : w \in Seq(F)
  BY <1>2, <1>3, Put
<1>6. Len(w) = Len(swayWire) + 1 /\ Len(swayWire) \in Nat /\ w[Len(w)] = ReplyMsg /\ w # <<>>
  BY <1>2, <1>3, Put
<1>7. /\ \A i \in 1..Len(swayWire) : w[i] = swayWire[i]
      /\ \A i \in 1..Len(w) : i \in 1..Len(swayWire) \/ i = Len(w)
  BY <1>2, <1>3, Put
<1>8. EventIn(w) <=> EventIn(swayWire) \/ ReplyMsg # ReplyMsg
  BY <1>2, <1>3, Put
<1>9. Grows(w) <=> Grows(swayWire) \/ (ReplyMsg # ReplyMsg /\ ReplyMsg.grows)
  BY <1>2, <1>3, Put
<1>10. ~ReplyIn(swayWire) /\ swayPc \notin {"asking", "reading"} /\ swayAsked = swaySubscribed + 1
  BY <1>1, <1>4 DEF Replies
<1>11. SwayTopics' = SwayTopics /\ (AsksTree' <=> AsksTree) /\ Current' = Current /\ KeptTree(swayTruth)' = KeptTree(swayTruth)
  BY <1>4, SwayStays
<1>12. Replies'
  <2>1. \A i, j \in 1..Len(w) : w[i] = ReplyMsg /\ w[j] = ReplyMsg => i = j
    BY <1>7, <1>10 DEF ReplyIn
  <2> QED  BY <1>1, <1>4, <1>10, <1>11, <2>1 DEF Replies, ReplyIn
<1>13. Messages'
  <2>1. PICK F : w \in Seq(F)
    BY <1>5
  <2>2. PICK G : G = E \cup F
    OBVIOUS
  <2>3. w \in Seq(G) /\ swayInbox \in Seq(G)
    BY <1>2, <2>1, <2>2
  <2>4. Dated(swayWire)'
    BY <1>1, <1>4, <1>6, <1>7 DEF Messages, Dated
  <2>5. Dated(swayInbox)' /\ ~ReplyIn(swayInbox)'
    BY <1>1, <1>4 DEF Messages, Dated, ReplyIn
  <2> QED  BY <1>1, <1>4, <2>3, <2>4, <2>5 DEF Messages
<1>14. (EventIn(swayWire)' <=> EventIn(swayWire)) /\ (Grows(swayWire)' <=> Grows(swayWire)) /\ (Grows(swayInbox)' <=> Grows(swayInbox))
  BY <1>4, <1>8, <1>9 DEF EventIn, Grows
<1>15. Latest(swayWire) => Latest(swayWire)'
  <2>1. ASSUME Latest(swayWire) PROVE Latest(w)
    <3>1. PICK i \in 1..Len(swayWire) : /\ swayWire[i] # ReplyMsg /\ swayWire[i].at = swayNews /\ swayWire[i].value = swayTruth
                                        /\ \A j \in 1..Len(swayWire) : i < j => swayWire[j] = ReplyMsg
      BY <2>1 DEF Latest
    <3>2. i \in 1..Len(w) /\ w[i] = swayWire[i] /\ \A j \in 1..Len(w) : i < j => w[j] = ReplyMsg
      BY <1>6, <1>7, <3>1
    <3> QED  BY <3>1, <3>2 DEF Latest
  <2> QED  BY <1>4, <2>1 DEF Latest
<1>16. Latest(swayInbox)' <=> Latest(swayInbox)
  BY <1>4 DEF Latest
<1>17. TreeHeard'
  BY <1>1, <1>4, <1>11, <1>14 DEF TreeHeard
<1>18. WordHeard'
  BY <1>1, <1>4, <1>11, <1>14, <1>15, <1>16 DEF WordHeard
<1>19. LayoutsKnown' /\ ShownIfMade'
  BY <1>1, <1>4, <1>14 DEF LayoutsKnown, ShownIfMade
<1> QED  BY <1>4, <1>12, <1>13, <1>17, <1>18, <1>19 DEF SwayInv

LEMMA DropKeeps ==
  ASSUME SwayInv, SwayDropsUs
  PROVE  SwayInv'
<1>1. /\ Replies /\ Messages /\ TreeHeard /\ WordHeard /\ LayoutsKnown /\ ShownIfMade
  BY DEF SwayInv
<1>2. /\ swayWire' = <<>> /\ eventFd' = "lost" /\ swayMissed' = IF swayWire # <<>> THEN swayNews ELSE swayMissed
      /\ UNCHANGED <<swayKind, swayTruth, swayNews, swayAsked, swaySubscribed, swayPc, swayInbox, swayHeld, swayKnown, swayLabel, swayDp>>
  BY DEF SwayDropsUs, swayModule
<1>3. ~EventIn(swayWire)' /\ ~ReplyIn(swayWire)' /\ Dated(swayWire)'
  BY <1>2 DEF EventIn, ReplyIn, Dated
<1>4. SwayTopics' = SwayTopics /\ (AsksTree' <=> AsksTree) /\ Current' = Current /\ KeptTree(swayTruth)' = KeptTree(swayTruth)
  BY <1>2, SwayStays
<1>5. swayMissed' = 0 => swayMissed = 0 /\ swayWire = <<>>
  BY <1>1, <1>2 DEF Messages
<1>6. swayWire = <<>> => ~EventIn(swayWire) /\ ~Grows(swayWire)
  BY DEF EventIn, Grows
<1>7. Replies'
  BY <1>1, <1>2, <1>3, <1>4 DEF Replies
<1>8. Messages'
  <2>1. \A E : <<>> \in Seq(E)
    OBVIOUS
  <2>2. PICK E : swayInbox \in Seq(E)
    BY <1>1 DEF Messages
  <2>3. \E F : swayWire' \in Seq(F) /\ swayInbox' \in Seq(F)
    BY <1>2, <2>1, <2>2
  <2>4. Dated(swayInbox)' /\ ~ReplyIn(swayInbox)' /\ swayMissed' \in 0..swayNews
    BY <1>1, <1>2 DEF Messages, Dated, ReplyIn
  <2> QED  BY <1>1, <1>2, <1>3, <2>3, <2>4 DEF Messages
<1>9. TreeHeard' /\ LayoutsKnown' /\ ShownIfMade'
  BY <1>1, <1>2, <1>4, <1>5, <1>6 DEF TreeHeard, LayoutsKnown, ShownIfMade, Grows
<1>10. WordHeard'
  <2>1. Latest(swayInbox)' <=> Latest(swayInbox)
    BY <1>2 DEF Latest
  <2>2. swayWire # <<>> => swayMissed' = swayNews'
    BY <1>2
  <2> QED  BY <1>1, <1>2, <1>3, <1>4, <1>5, <1>6, <2>1, <2>2 DEF WordHeard
<1> QED  BY <1>2, <1>7, <1>8, <1>9, <1>10 DEF SwayInv

LEMMA ReopenKeeps ==
  ASSUME SwayInv, Reopen
  PROVE  SwayInv'
<1>1. /\ Replies /\ Messages /\ TreeHeard /\ WordHeard /\ LayoutsKnown /\ ShownIfMade
  BY DEF SwayInv
<1>2. PICK E : swayWire \in Seq(E) /\ swayInbox \in Seq(E)
  BY <1>1 DEF Messages
<1>3. /\ swayWire' = <<>> /\ eventFd' = "open" /\ swayAsked' = 0 /\ swaySubscribed' = 0 /\ swayPc' = "resubscribing" /\ swayPc = "backoff"
      /\ swayMissed' = IF EventIn(swayWire) THEN swayNews ELSE swayMissed
      /\ UNCHANGED <<swayKind, swayTruth, swayNews, swayInbox, swayHeld, swayKnown, swayLabel, swayDp>>
  <2>1. DOMAIN swayWire = 1..Len(swayWire)
    BY <1>2
  <2> QED  BY <2>1 DEF Reopen, swayServer, swayModule, EventIn
<1>4. ~EventIn(swayWire)' /\ ~ReplyIn(swayWire)' /\ Dated(swayWire)'
  BY <1>3 DEF EventIn, ReplyIn, Dated
<1>5. SwayTopics' = SwayTopics /\ SwayTopics \in Nat /\ (AsksTree' <=> AsksTree) /\ Current' = Current /\ KeptTree(swayTruth)' = KeptTree(swayTruth)
  BY <1>3, SwayStays DEF SwayTopics
<1>6. swayMissed' = 0 => swayMissed = 0 /\ ~EventIn(swayWire)
  BY <1>1, <1>3 DEF Messages
<1>7. Grows(swayWire) => EventIn(swayWire)
  BY DEF EventIn, Grows
<1>8. Replies'
  <2>1. \A i, j \in 1..Len(swayWire') : FALSE
    BY <1>3
  <2> QED  BY <1>3, <1>4, <1>5, <2>1 DEF Replies
<1>9. Messages'
  <2>1. <<>> \in Seq(E)
    OBVIOUS
  <2>2. Dated(swayInbox)' /\ ~ReplyIn(swayInbox)' /\ swayMissed' \in 0..swayNews
    BY <1>1, <1>3 DEF Messages, Dated, ReplyIn
  <2> QED  BY <1>1, <1>2, <1>3, <1>4, <2>1, <2>2 DEF Messages
<1>10. TreeHeard' /\ LayoutsKnown' /\ ShownIfMade'
  BY <1>1, <1>3, <1>5, <1>6, <1>7 DEF TreeHeard, LayoutsKnown, ShownIfMade, Grows
<1>11. WordHeard'
  <2>1. Latest(swayInbox)' <=> Latest(swayInbox)
    BY <1>3 DEF Latest
  <2>2. EventIn(swayWire) => swayMissed' = swayNews'
    BY <1>3
  <2> QED  BY <1>1, <1>3, <1>4, <1>5, <1>6, <2>1, <2>2 DEF WordHeard
<1> QED  BY <1>3, <1>8, <1>9, <1>10, <1>11 DEF SwayInv

LEMMA ReplyKeeps ==
  ASSUME SwayInv, Subscribed \/ Resubscribed
  PROVE  SwayInv'
<1>1. /\ Replies /\ Messages /\ TreeHeard /\ WordHeard /\ LayoutsKnown /\ ShownIfMade
  BY DEF SwayInv
<1>2. PICK E : swayWire \in Seq(E) /\ swayInbox \in Seq(E)
  BY <1>1 DEF Messages
<1>3. /\ swayWire # <<>> /\ Head(swayWire) = ReplyMsg /\ swayWire' = Tail(swayWire)
      /\ UNCHANGED <<swayKind, swayTruth, swayNews, eventFd, swayAsked, swaySubscribed, swayInbox, swayHeld, swayKnown, swayLabel, swayMissed>>
  BY DEF Subscribed, Resubscribed, ReplyRead, swayServer, swayModule
<1>4. /\ swayPc' = swayPc \/ (swayAsked = SwayTopics /\ swayPc' \in {"reading", "asking"})
      /\ swayPc' = "asking" => swayKind # "mode" \/ swayPc' = swayPc
      /\ swayPc \in {"subscribing", "resubscribing"}
      /\ swayPc = "resubscribing" => swayDp' = swayDp /\ swayPc' \in {"reading", "resubscribing"}
      /\ swayPc = "subscribing" => swayDp' = (swayKind = "mode") /\ swayPc' \in {"subscribing", IF swayKind = "mode" THEN "reading" ELSE "asking"}
  BY DEF Subscribed, Resubscribed, ReplyRead, swayModule
<1>5. SwayTopics' = SwayTopics /\ (AsksTree' <=> AsksTree) /\ Current' = Current /\ KeptTree(swayTruth)' = KeptTree(swayTruth)
  BY <1>3, SwayStays
<1>6. /\ Tail(swayWire) \in Seq(E) /\ Len(swayWire) \in Nat /\ Len(swayWire) > 0 /\ Head(swayWire) = swayWire[1] /\ Len(Tail(swayWire)) = Len(swayWire) - 1
      /\ \A i \in 1..Len(Tail(swayWire)) : Tail(swayWire)[i] = swayWire[i + 1] /\ i + 1 \in 1..Len(swayWire)
  BY <1>2, <1>3, Taken
<1>7. (EventIn(swayWire) <=> EventIn(Tail(swayWire))) /\ (Grows(swayWire) <=> Grows(Tail(swayWire)))
  BY <1>2, <1>3, Taken
<1>8. ReplyIn(swayWire) /\ (Dated(swayWire) => Dated(Tail(swayWire)))
  BY <1>2, <1>3, Taken
<1>9. ~ReplyIn(Tail(swayWire))
  <2>1. 1 \in 1..Len(swayWire)
    BY <1>6
  <2>2. \A i \in 1..Len(Tail(swayWire)) : i + 1 # 1
    OBVIOUS
  <2> QED  BY <1>1, <1>3, <1>6, <2>1, <2>2 DEF Replies, ReplyIn
<1>10. Replies'
  <2>1. swayAsked = swaySubscribed /\ eventFd # "lost" /\ swaySubscribed # 0
    BY <1>1, <1>3, <1>8 DEF Replies
  <2>2. ~ReplyIn(swayWire)' /\ \A i \in 1..Len(swayWire') : swayWire'[i] # ReplyMsg
    BY <1>3, <1>9 DEF ReplyIn
  <2> QED  BY <1>1, <1>3, <1>4, <1>5, <2>1, <2>2 DEF Replies
<1>11. Messages'
  <2>1. Dated(swayWire)' /\ Dated(swayInbox)' /\ ~ReplyIn(swayInbox)'
    BY <1>1, <1>3, <1>8 DEF Messages, Dated, ReplyIn
  <2> QED  BY <1>1, <1>2, <1>3, <1>4, <1>6, <2>1 DEF Messages
<1>12. (EventIn(swayWire)' <=> EventIn(swayWire)) /\ (Grows(swayWire)' <=> Grows(swayWire)) /\ (Grows(swayInbox)' <=> Grows(swayInbox))
  BY <1>3, <1>7 DEF EventIn, Grows
<1>13. TreeHeard' /\ LayoutsKnown'
  BY <1>1, <1>3, <1>5, <1>12 DEF TreeHeard, LayoutsKnown
<1>14. WordHeard'
  <2>1. EventIn(swayWire) /\ Latest(swayWire) => Latest(Tail(swayWire))
    BY <1>2, <1>3, <1>7, LatestBehind
  <2>2. (Latest(swayWire)' <=> Latest(Tail(swayWire))) /\ (Latest(swayInbox)' <=> Latest(swayInbox))
    BY <1>3 DEF Latest
  <2> QED  BY <1>1, <1>3, <1>5, <1>12, <2>1, <2>2 DEF WordHeard
<1>15. ShownIfMade'
  <2>1. CASE swayPc = "subscribing" /\ swayKind = "mode"
    <3>1. swayDp' = TRUE
      BY <1>4, <2>1
    <3> QED  BY <3>1 DEF ShownIfMade
  <2>2. CASE swayPc = "subscribing" /\ swayKind # "mode"
    BY <1>4, <2>2 DEF ShownIfMade
  <2>3. CASE swayPc = "resubscribing"
    BY <1>1, <1>3, <1>4, <2>3 DEF ShownIfMade
  <2> QED  BY <1>4, <2>1, <2>2, <2>3
<1> QED  BY <1>3, <1>10, <1>11, <1>13, <1>14, <1>15, SwayAssumption DEF SwayInv

LEMMA PassedOver ==
  ASSUME SwayInv, EventBeforeReply
  PROVE  SwayInv'
<1>1. /\ Replies /\ Messages /\ ShownIfMade
  BY DEF SwayInv
<1>2. PICK E : swayWire \in Seq(E) /\ swayInbox \in Seq(E)
  BY <1>1 DEF Messages
<1>3. /\ swayPc = "subscribing" /\ swayWire # <<>> /\ Head(swayWire) # ReplyMsg /\ swayWire' = Tail(swayWire) /\ swayMissed' = Head(swayWire).at
      /\ UNCHANGED <<swayKind, swayTruth, swayNews, eventFd, swayAsked, swaySubscribed, swayPc, swayInbox, swayHeld, swayKnown, swayLabel, swayDp>>
  BY DEF EventBeforeReply, swayServer, swayModule
<1>4. SwayTopics' = SwayTopics /\ (AsksTree' <=> AsksTree)
  BY <1>3, SwayStays
<1>5. /\ Tail(swayWire) \in Seq(E) /\ Len(swayWire) \in Nat /\ Len(swayWire) > 0 /\ Len(Tail(swayWire)) = Len(swayWire) - 1
      /\ \A i \in 1..Len(Tail(swayWire)) : Tail(swayWire)[i] = swayWire[i + 1] /\ i + 1 \in 1..Len(swayWire)
  BY <1>2, <1>3, Taken
<1>6. ReplyIn(swayWire) <=> ReplyIn(Tail(swayWire)) \/ Head(swayWire) = ReplyMsg
  BY <1>2, <1>3, Taken
<1>7. EventIn(swayWire) <=> EventIn(Tail(swayWire)) \/ Head(swayWire) # ReplyMsg
  BY <1>2, <1>3, Taken
<1>8. Dated(swayWire) => Dated(Tail(swayWire)) /\ (Head(swayWire) # ReplyMsg => Head(swayWire).at \in 1..swayNews)
  BY <1>2, <1>3, Taken
<1>9. swayNews \in Nat /\ swayMissed' \in 1..swayNews
  BY <1>1, <1>3, <1>8 DEF Messages
<1>10. Replies'
  <2>1. \A i, j \in 1..Len(Tail(swayWire)) : Tail(swayWire)[i] = ReplyMsg /\ Tail(swayWire)[j] = ReplyMsg => i = j
    <3> SUFFICES ASSUME NEW i \in 1..Len(Tail(swayWire)), NEW j \in 1..Len(Tail(swayWire)), Tail(swayWire)[i] = ReplyMsg, Tail(swayWire)[j] = ReplyMsg
                 PROVE i = j
      OBVIOUS
    <3>1. i + 1 = j + 1
      BY <1>1, <1>5 DEF Replies
    <3> QED  BY <3>1, <1>5
  <2>2. ReplyIn(swayWire)' => ReplyIn(swayWire)
    BY <1>3, <1>6 DEF ReplyIn
  <2>3. ~(swaySubscribed = 0 \/ eventFd = "lost")
    BY <1>1, <1>3 DEF Replies
  <2>4. \A i, j \in 1..Len(swayWire') : swayWire'[i] = ReplyMsg /\ swayWire'[j] = ReplyMsg => i = j
    BY <2>1, <1>3
  <2> QED  BY <1>1, <1>3, <1>4, <2>2, <2>3, <2>4 DEF Replies
<1>11. Messages'
  <2>1. Dated(swayWire)' /\ Dated(swayInbox)' /\ ~ReplyIn(swayInbox)'
    BY <1>1, <1>3, <1>8 DEF Messages, Dated, ReplyIn
  <2> QED  BY <1>1, <1>2, <1>3, <1>5, <1>9, <2>1 DEF Messages
<1>12. WordHeard'
  <2>1. ASSUME ~AsksTree, EventIn(Tail(swayWire)) PROVE Latest(Tail(swayWire))
    <3>1. Latest(swayWire)
      BY <1>3, <1>7, <2>1 DEF SwayInv, WordHeard
    <3> QED  BY <1>2, <1>3, <2>1, <3>1, LatestBehind
  <2>2. Latest(swayWire)' <=> Latest(Tail(swayWire))
    BY <1>3 DEF Latest
  <2>3. EventIn(swayWire)' <=> EventIn(Tail(swayWire))
    BY <1>3 DEF EventIn
  <2>4. swayInbox' = <<>> /\ swayMissed' # 0
    BY <1>1, <1>3, <1>9 DEF Messages
  <2> QED  BY <1>4, <2>1, <2>2, <2>3, <2>4 DEF WordHeard
<1>13. TreeHeard' /\ LayoutsKnown'
  BY <1>9 DEF TreeHeard, LayoutsKnown
<1>14. ShownIfMade'
  BY <1>1, <1>3 DEF ShownIfMade
<1> QED  BY <1>3, <1>10, <1>11, <1>12, <1>13, <1>14 DEF SwayInv

\* What a module that has just asked holds, and what it says it was not told.
LEMMA Asked ==
  ASSUME SwayInv, Ask, UNCHANGED <<swayKind, swayTruth, swayNews, swayWire>>, swayKind # "mode",
         \/ swayInbox = <<>> /\ swayInbox' = <<>>
         \/ swayInbox # <<>> /\ swayInbox' = Tail(swayInbox)
  PROVE  /\ TreeHeard' /\ WordHeard' /\ LayoutsKnown' /\ ShownIfMade'
         /\ swayMissed' \in {0, swayMissed}
<1>1. /\ Replies /\ Messages /\ TreeHeard /\ WordHeard /\ LayoutsKnown /\ swayKind \in {"workspaces", "window", "scratchpad", "mode", "language"}
  BY DEF SwayInv
<1>2. PICK E : swayWire \in Seq(E) /\ swayInbox \in Seq(E)
  BY <1>1 DEF Messages
<1>3. /\ Current' = Current /\ (AsksTree' <=> AsksTree) /\ KeptTree(swayTruth)' = KeptTree(swayTruth)
  BY SwayStays
<1>4. /\ AsksTree => swayHeld' = KeptTree(swayTruth)
      /\ ~AsksTree => swayKnown' = swayTruth.layouts /\ swayHeld' = swayTruth.active
      /\ swayDp' = TRUE
  BY DEF Ask
<1>5. swayMissed' = IF AsksTree \/ \A i \in 1..Len(swayInbox) : i = 1 \/ swayInbox[i].at > swayMissed THEN 0 ELSE swayMissed
  <2>1. DOMAIN swayInbox = 1..Len(swayInbox)
    BY <1>2
  <2> QED  BY <2>1 DEF Ask
<1>6. TreeHeard' /\ ShownIfMade'
  BY <1>3, <1>4 DEF TreeHeard, ShownIfMade
<1>7. LayoutsKnown'
  BY <1>4 DEF LayoutsKnown, AsksTree
<1>8. WordHeard'
  <2> SUFFICES ASSUME ~AsksTree PROVE WordHeard'
    BY <1>3 DEF WordHeard
  <2>1. swayHeld' = Current'
    BY <1>1, <1>3, <1>4 DEF Current, AsksTree
  <2>2. EventIn(swayWire)' => Latest(swayWire)'
    BY <1>1 DEF WordHeard, EventIn, Latest
  <2>3. ASSUME ~EventIn(swayWire), swayInbox # <<>>, Tail(swayInbox) # <<>> PROVE Latest(Tail(swayInbox)) \/ swayMissed' = swayNews
    <3>1. /\ Len(swayInbox) \in Nat /\ Len(swayInbox) > 0 /\ Len(Tail(swayInbox)) = Len(swayInbox) - 1 /\ Tail(swayInbox) \in Seq(E)
          /\ \A i \in 1..Len(Tail(swayInbox)) : Tail(swayInbox)[i] = swayInbox[i + 1] /\ i + 1 \in 1..Len(swayInbox)
      BY <1>2, <2>3, Taken
    <3>2. 2 \in 1..Len(swayInbox) /\ 1 \in 1..Len(Tail(swayInbox)) /\ swayInbox[2] = Tail(swayInbox)[1] /\ swayInbox[2] # ReplyMsg
      <4>1. PICK n : n = Len(Tail(swayInbox))
        OBVIOUS
      <4>2. n \in Nat /\ n # 0 /\ Len(swayInbox) = n + 1
        BY <2>3, <3>1, <4>1
      <4>3. 1 \in 1..n /\ 2 \in 1..Len(swayInbox)
        BY <4>2
      <4> QED  BY <1>1, <3>1, <4>1, <4>3 DEF Messages, ReplyIn
    <3>3. CASE Latest(swayInbox)
      <4>1. EventIn(Tail(swayInbox))
        BY <3>2 DEF EventIn
      <4> QED  BY <1>2, <2>3, <3>3, <4>1, LatestBehind
    <3>4. CASE swayMissed = swayNews
      <4>1. swayInbox[2].at \in 1..swayNews /\ swayNews \in Nat
        BY <1>1, <3>2 DEF Messages, Dated
      <4>2. ~(swayInbox[2].at > swayMissed) /\ 2 # 1
        BY <3>4, <4>1
      <4> QED  BY <1>5, <3>2, <3>4, <4>2
    <3> QED  BY <1>1, <2>3, <3>3, <3>4 DEF WordHeard
  <2>4. /\ (EventIn(swayWire)' <=> EventIn(swayWire)) /\ (swayInbox' = Tail(swayInbox) => (Latest(swayInbox)' <=> Latest(Tail(swayInbox))))
    BY DEF EventIn, Latest
  <2> QED  BY <1>3, <2>1, <2>2, <2>3, <2>4 DEF WordHeard
<1> QED  BY <1>5, <1>6, <1>7, <1>8

LEMMA AskKeeps ==
  ASSUME SwayInv, FirstAsk \/ TreeOnEvent
  PROVE  SwayInv'
<1>1. /\ Replies /\ Messages
  BY DEF SwayInv
<1>2. PICK E : swayWire \in Seq(E) /\ swayInbox \in Seq(E)
  BY <1>1 DEF Messages
<1>3. /\ Ask /\ UNCHANGED <<swayKind, swayTruth, swayNews, swayWire, eventFd, swayAsked, swaySubscribed>>
      /\ \/ swayPc = "asking" /\ swayPc' = "reading" /\ swayInbox' = swayInbox
         \/ swayPc' = swayPc /\ AsksTree /\ swayInbox # <<>> /\ swayInbox' = Tail(swayInbox)
  BY DEF FirstAsk, TreeOnEvent, SwayTakes, swayServer, swaySocket
<1>4. swayKind # "mode" /\ swayPc' \notin {"subscribing", "asking"} /\ (swayPc' = "reading" => swaySubscribed = SwayTopics)
  BY <1>1, <1>3 DEF Replies, Messages, AsksTree
<1>5. \/ swayInbox = <<>> /\ swayInbox' = <<>>
      \/ swayInbox # <<>> /\ swayInbox' = Tail(swayInbox)
  BY <1>1, <1>3 DEF Messages
<1>6. TreeHeard' /\ WordHeard' /\ LayoutsKnown' /\ ShownIfMade' /\ swayMissed' \in {0, swayMissed}
  BY <1>3, <1>4, <1>5, Asked
<1>7. SwayTopics' = SwayTopics
  BY <1>3, SwayStays
<1>8. Replies'
  BY <1>1, <1>3, <1>4, <1>7 DEF Replies, ReplyIn
<1>9. swayInbox' \in Seq(E) /\ Dated(swayInbox)' /\ ~ReplyIn(swayInbox)'
  <2>1. CASE swayInbox' = swayInbox
    BY <1>1, <1>2, <1>3, <2>1 DEF Messages, Dated, ReplyIn
  <2>2. CASE swayInbox # <<>> /\ swayInbox' = Tail(swayInbox)
    <3>1. Tail(swayInbox) \in Seq(E)
      BY <1>2, <2>2, Taken
    <3>2. ReplyIn(swayInbox) <=> ReplyIn(Tail(swayInbox)) \/ Head(swayInbox) = ReplyMsg
      BY <1>2, <2>2, Taken
    <3>3. Dated(swayInbox) => Dated(Tail(swayInbox))
      BY <1>2, <2>2, Taken
    <3> QED  BY <1>1, <1>3, <2>2, <3>1, <3>2, <3>3 DEF Messages, Dated, ReplyIn
  <2> QED  BY <1>3, <2>1, <2>2
<1>10. Messages'
  <2>1. Dated(swayWire)' /\ swayMissed' \in 0..swayNews
    BY <1>1, <1>3, <1>6 DEF Messages, Dated
  <2> QED  BY <1>1, <1>2, <1>3, <1>4, <1>9, <2>1 DEF Messages
<1> QED  BY <1>3, <1>6, <1>8, <1>10 DEF SwayInv

LEMMA ReadKeeps ==
  ASSUME SwayInv, ReadsEvent
  PROVE  SwayInv'
<1>1. /\ Replies /\ Messages /\ TreeHeard /\ WordHeard /\ LayoutsKnown /\ ShownIfMade
  BY DEF SwayInv
<1>2. PICK E : swayWire \in Seq(E) /\ swayInbox \in Seq(E)
  BY <1>1 DEF Messages
<1>3. PICK w, e : e = Head(swayWire) /\ w = Append(swayInbox, e)
  OBVIOUS
<1>4. /\ swayPc = "reading" /\ swayWire # <<>> /\ swayWire' = Tail(swayWire) /\ swayInbox' = w
      /\ UNCHANGED <<swayKind, swayTruth, swayNews, eventFd, swayAsked, swaySubscribed, swayPc, swayHeld, swayKnown, swayLabel, swayDp, swayMissed>>
  BY <1>3 DEF ReadsEvent, swayServer, swayModule
<1>5. SwayTopics' = SwayTopics /\ (AsksTree' <=> AsksTree) /\ Current' = Current /\ KeptTree(swayTruth)' = KeptTree(swayTruth)
  BY <1>4, SwayStays
<1>6. Tail(swayWire) \in Seq(E) /\ Len(swayWire) \in Nat
  BY <1>2, <1>4, Taken
<1>7. ReplyIn(swayWire) <=> ReplyIn(Tail(swayWire)) \/ Head(swayWire) = ReplyMsg
  BY <1>2, <1>4, Taken
<1>8. Grows(swayWire) <=> Grows(Tail(swayWire)) \/ (Head(swayWire) # ReplyMsg /\ Head(swayWire).grows)
  BY <1>2, <1>4, Taken
<1>9. Dated(swayWire) => Dated(Tail(swayWire)) /\ (Head(swayWire) # ReplyMsg => Head(swayWire).at \in 1..swayNews)
  BY <1>2, <1>4, Taken
<1>10. EventIn(swayWire) <=> EventIn(Tail(swayWire)) \/ Head(swayWire) # ReplyMsg
  BY <1>2, <1>4, Taken
<1>11. ~ReplyIn(swayWire) /\ e # ReplyMsg /\ ~ReplyIn(Tail(swayWire)) /\ e.at \in 1..swayNews /\ Dated(Tail(swayWire)) /\ EventIn(swayWire)
  BY <1>1, <1>3, <1>4, <1>7, <1>9, <1>10 DEF Replies, Messages
<1>12. \E F : w \in Seq(F)
  BY <1>2, <1>3, Put
<1>13. Len(w) = Len(swayInbox) + 1 /\ Len(swayInbox) \in Nat /\ w[Len(w)] = e /\ w # <<>>
  BY <1>2, <1>3, Put
<1>14. /\ \A i \in 1..Len(swayInbox) : w[i] = swayInbox[i]
       /\ \A i \in 1..Len(w) : i \in 1..Len(swayInbox) \/ i = Len(w)
  BY <1>2, <1>3, Put
<1>15. Grows(w) <=> Grows(swayInbox) \/ (e # ReplyMsg /\ e.grows)
  BY <1>2, <1>3, Put
<1>16. Replies'
  <2>1. \A i \in 1..Len(swayWire') : swayWire'[i] # ReplyMsg
    BY <1>4, <1>11 DEF ReplyIn
  <2>2. ~(swaySubscribed = 0 \/ eventFd = "lost")
    BY <1>1, <1>4 DEF Replies
  <2> QED  BY <1>1, <1>4, <1>5, <2>1, <2>2 DEF Replies, ReplyIn
<1>17. Messages'
  <2>1. PICK F : w \in Seq(F)
    BY <1>12
  <2>2. PICK G : G = E \cup F
    OBVIOUS
  <2>3. Tail(swayWire) \in Seq(G) /\ w \in Seq(G)
    BY <1>6, <2>1, <2>2
  <2>4. Dated(swayWire)'
    BY <1>4, <1>11 DEF Dated
  <2>5. Dated(swayInbox)' /\ ~ReplyIn(swayInbox)'
    BY <1>1, <1>4, <1>11, <1>13, <1>14 DEF Messages, Dated, ReplyIn
  <2> QED  BY <1>1, <1>4, <2>3, <2>4, <2>5 DEF Messages
<1>18. TreeHeard' /\ ShownIfMade'
  BY <1>1, <1>4, <1>13 DEF TreeHeard, ShownIfMade
<1>19. LayoutsKnown'
  <2>1. (Grows(swayWire) \/ Grows(swayInbox)) => (Grows(swayWire)' \/ Grows(swayInbox)')
    <3>1. (Grows(swayWire)' <=> Grows(Tail(swayWire))) /\ (Grows(swayInbox)' <=> Grows(w))
      BY <1>4 DEF Grows
    <3> QED  BY <1>3, <1>8, <1>15, <3>1
  <2> QED  BY <1>1, <1>4, <2>1 DEF LayoutsKnown
<1>20. WordHeard'
  <2> SUFFICES ASSUME ~AsksTree PROVE WordHeard'
    BY <1>5 DEF WordHeard
  <2>1. Latest(swayWire)
    BY <1>1, <1>11 DEF WordHeard
  <2>2. EventIn(Tail(swayWire)) => Latest(Tail(swayWire))
    BY <1>2, <1>4, <2>1, LatestBehind
  <2>3. ~EventIn(Tail(swayWire)) => e.at = swayNews /\ e.value = swayTruth
    BY <1>2, <1>3, <1>4, <2>1, LatestBehind
  <2>4. e.at = swayNews /\ e.value = swayTruth => Latest(w)
    <3>1. Len(w) \in 1..Len(w) /\ \A j \in 1..Len(w) : ~(Len(w) < j)
      BY <1>13
    <3> QED  BY <1>11, <1>13, <3>1 DEF Latest
  <2>5. (EventIn(swayWire)' <=> EventIn(Tail(swayWire))) /\ (Latest(swayWire)' <=> Latest(Tail(swayWire))) /\ (Latest(swayInbox)' <=> Latest(w))
    BY <1>4 DEF EventIn, Latest
  <2> QED  BY <1>4, <1>13, <2>2, <2>3, <2>4, <2>5 DEF WordHeard
<1> QED  BY <1>4, <1>16, <1>17, <1>18, <1>19, <1>20 DEF SwayInv

\* What a message that is taken off the queue leaves, and was, for a module that believes events.
LEMMA HeardWord ==
  ASSUME SwayInv, SwayTakes, ~AsksTree, ~EventIn(swayWire)
  PROVE  /\ Tail(swayInbox) # <<>> => Latest(Tail(swayInbox)) \/ swayMissed = swayNews
         /\ Tail(swayInbox) = <<>> => Head(swayInbox).value = swayTruth \/ swayMissed = swayNews
         /\ Head(swayInbox).at \in 1..swayNews
<1>1. /\ Messages /\ WordHeard /\ swayInbox # <<>>
  BY DEF SwayInv, SwayTakes
<1>2. PICK E : swayWire \in Seq(E) /\ swayInbox \in Seq(E)
  BY <1>1 DEF Messages
<1>3. /\ Len(swayInbox) \in Nat /\ Tail(swayInbox) \in Seq(E) /\ Len(swayInbox) > 0 /\ Len(Tail(swayInbox)) = Len(swayInbox) - 1
      /\ \A i \in 1..Len(Tail(swayInbox)) : Tail(swayInbox)[i] = swayInbox[i + 1] /\ i + 1 \in 1..Len(swayInbox)
  BY <1>1, <1>2, Taken
<1>4. ReplyIn(swayInbox) <=> ReplyIn(Tail(swayInbox)) \/ Head(swayInbox) = ReplyMsg
  BY <1>1, <1>2, Taken
<1>5. Dated(swayInbox) => Dated(Tail(swayInbox)) /\ (Head(swayInbox) # ReplyMsg => Head(swayInbox).at \in 1..swayNews)
  BY <1>1, <1>2, Taken
<1>6. Head(swayInbox).at \in 1..swayNews /\ ~ReplyIn(Tail(swayInbox))
  BY <1>1, <1>4, <1>5 DEF Messages
<1>7. Latest(swayInbox) \/ swayMissed = swayNews
  BY <1>1 DEF WordHeard
<1>8. ASSUME Tail(swayInbox) # <<>> PROVE EventIn(Tail(swayInbox))
  <2>1. PICK n : n = Len(Tail(swayInbox))
    OBVIOUS
  <2>2. n \in Nat /\ n # 0
    BY <1>3, <1>8, <2>1
  <2>3. 1 \in 1..n
    BY <2>2
  <2> QED  BY <1>6, <2>1, <2>3 DEF ReplyIn, EventIn
<1>9. ASSUME Tail(swayInbox) = <<>> PROVE ~EventIn(Tail(swayInbox))
  <2>1. ~EventIn(<<>>)
    BY DEF EventIn
  <2> QED  BY <1>9, <2>1
<1>10. Latest(swayInbox) => /\ EventIn(Tail(swayInbox)) => Latest(Tail(swayInbox))
                            /\ ~EventIn(Tail(swayInbox)) => Head(swayInbox).value = swayTruth
  BY <1>1, <1>2, LatestBehind
<1> QED  BY <1>6, <1>7, <1>8, <1>9, <1>10

LEMMA WordKeeps ==
  ASSUME SwayInv, ModeOnEvent \/ SwayLanguageOnEvent
  PROVE  SwayInv'
<1>1. /\ Replies /\ Messages /\ TreeHeard /\ WordHeard /\ LayoutsKnown /\ swayInbox # <<>>
  BY DEF SwayInv, ModeOnEvent, SwayLanguageOnEvent, SwayTakes
<1>2. PICK E : swayWire \in Seq(E) /\ swayInbox \in Seq(E)
  BY <1>1 DEF Messages
<1>3. /\ SwayTakes /\ swayInbox' = Tail(swayInbox) /\ swayDp' = TRUE /\ ~AsksTree
      /\ UNCHANGED <<swayKind, swayTruth, swayNews, swayWire, eventFd, swayAsked, swaySubscribed, swayPc, swayLabel>>
  BY DEF ModeOnEvent, SwayLanguageOnEvent, SwayTakes, swayServer, swaySocket, Ask, AsksTree
<1>4. SwayTopics' = SwayTopics /\ ~AsksTree' /\ Current' = Current
  BY <1>3, SwayStays
<1>5. Tail(swayInbox) \in Seq(E)
  BY <1>1, <1>2, Taken
<1>6. ReplyIn(swayInbox) <=> ReplyIn(Tail(swayInbox)) \/ Head(swayInbox) = ReplyMsg
  BY <1>1, <1>2, Taken
<1>7. Grows(swayInbox) <=> Grows(Tail(swayInbox)) \/ (Head(swayInbox) # ReplyMsg /\ Head(swayInbox).grows)
  BY <1>1, <1>2, Taken
<1>8. Dated(swayInbox) => Dated(Tail(swayInbox))
  BY <1>1, <1>2, Taken
<1>9. TreeHeard' /\ ShownIfMade'
  BY <1>3, <1>4 DEF TreeHeard, ShownIfMade
<1>10. Replies'
  BY <1>1, <1>3, <1>4 DEF Replies, ReplyIn
<1>11. swayMissed' \in {0, swayMissed} => Messages'
  <2>1. Dated(swayWire)' /\ Dated(swayInbox)' /\ ~ReplyIn(swayInbox)'
    BY <1>1, <1>3, <1>6, <1>8 DEF Messages, Dated, ReplyIn
  <2> QED  BY <1>1, <1>2, <1>3, <1>5, <2>1 DEF Messages
<1>12. swayWire' = swayWire /\ (EventIn(swayWire)' <=> EventIn(swayWire)) /\ (Latest(swayWire)' <=> Latest(swayWire)) /\ (Latest(swayInbox)' <=> Latest(Tail(swayInbox)))
  BY <1>3 DEF EventIn, Latest
<1>13. (Grows(swayWire)' <=> Grows(swayWire)) /\ (Grows(swayInbox)' <=> Grows(Tail(swayInbox))) /\ (Grows(swayWire) => EventIn(swayWire))
  BY <1>3 DEF EventIn, Grows
<1>14. ~EventIn(swayWire) => /\ Tail(swayInbox) # <<>> => Latest(Tail(swayInbox)) \/ swayMissed = swayNews
                             /\ Tail(swayInbox) = <<>> => Head(swayInbox).value = swayTruth \/ swayMissed = swayNews
                             /\ Head(swayInbox).at \in 1..swayNews
  BY <1>3, HeardWord
<1>15. swayNews \in Nat /\ swayNews >= 1 /\ swayMissed \in Nat
  BY <1>1 DEF Messages
<1>16. CASE ModeOnEvent
  <2>1. swayKind = "mode" /\ swayHeld' = Head(swayInbox).value /\ swayMissed' = IF Head(swayInbox).at > swayMissed THEN 0 ELSE swayMissed
    BY <1>16 DEF ModeOnEvent
  <2>2. Current = swayTruth
    BY <2>1 DEF Current
  <2>3. ~EventIn(swayWire) /\ swayMissed = swayNews => swayMissed' = swayNews /\ swayMissed' # 0
    BY <1>14, <1>15, <2>1
  <2>4. WordHeard'
    BY <1>1, <1>3, <1>4, <1>12, <1>14, <2>1, <2>2, <2>3 DEF WordHeard
  <2>5. LayoutsKnown'
    BY <1>3, <2>1 DEF LayoutsKnown
  <2> QED  BY <1>3, <1>9, <1>10, <1>11, <2>1, <2>4, <2>5 DEF SwayInv
<1>17. CASE SwayLanguageOnEvent /\ Head(swayInbox).grows
  <2>1. Ask /\ swayKind # "mode"
    BY <1>17 DEF SwayLanguageOnEvent
  <2>2. WordHeard' /\ LayoutsKnown' /\ swayMissed' \in {0, swayMissed}
    BY <1>1, <1>3, <2>1, Asked
  <2> QED  BY <1>3, <1>9, <1>10, <1>11, <2>2 DEF SwayInv
<1>18. CASE SwayLanguageOnEvent /\ ~Head(swayInbox).grows
  <2>1. /\ swayKind = "language" /\ swayHeld' = IF Head(swayInbox).value.active \in swayKnown THEN Head(swayInbox).value.active ELSE swayHeld
        /\ UNCHANGED <<swayKnown, swayMissed>>
    BY <1>18 DEF SwayLanguageOnEvent, KeepLayout
  <2>2. Current = swayTruth.active /\ swayTruth.active \in swayTruth.layouts
    BY <1>1, <2>1 DEF Current, Messages
  <2>3. LayoutsKnown'
    BY <1>1, <1>3, <1>7, <1>13, <1>18, <2>1 DEF LayoutsKnown
  <2>4. ASSUME ~EventIn(swayWire), Tail(swayInbox) = <<>>, swayMissed = 0 PROVE swayHeld' = Current
    <3>1. ~Grows(Tail(swayInbox))
      BY <2>4 DEF Grows
    <3>2. swayKnown = swayTruth.layouts
      BY <1>1, <1>7, <1>13, <1>18, <2>1, <2>4, <3>1 DEF LayoutsKnown
    <3>3. Head(swayInbox).value = swayTruth
      BY <1>14, <1>15, <2>4
    <3> QED  BY <2>1, <2>2, <3>2, <3>3
  <2>5. WordHeard'
    BY <1>1, <1>3, <1>4, <1>12, <1>14, <2>1, <2>4 DEF WordHeard
  <2> QED  BY <1>3, <1>9, <1>10, <1>11, <2>1, <2>3, <2>5 DEF SwayInv
<1> QED  BY <1>16, <1>17, <1>18

LEMMA SwayNewsKeeps ==
  ASSUME SwayInv,
         \/ \E w \in SwayWs : WorkspaceInit(w) \/ WorkspaceEmpty(w)
         \/ WindowChanges
         \/ \E m \in SwayModes : ModeChanges(m)
         \/ \E l \in UNION Keymaps : LayoutSwitched(l) \/ \E s \in Keymaps : KeymapChanges(s, l)
  PROVE  SwayInv'
<1>1. 1 \in 1..SwayTopics /\ SwayTopics \in 1..SwayTopics
  BY DEF SwayTopics
<1>2. CASE \E w \in SwayWs : WorkspaceInit(w) \/ WorkspaceEmpty(w)
  <2>1. PICK v : SwayChanges(v, 1, FALSE) /\ swayKind # "language"
    BY <1>2 DEF WorkspaceInit, WorkspaceEmpty, AsksTree
  <2> QED  BY <1>1, <2>1, ChangesKeep
<1>3. CASE WindowChanges
  <2>1. SwayChanges(swayTruth, SwayTopics, FALSE) /\ swayKind # "language"
    BY <1>3 DEF WindowChanges, AsksTree
  <2>2. PICK v, t : v = swayTruth /\ t = SwayTopics
    OBVIOUS
  <2> QED  BY <1>1, <2>1, <2>2, ChangesKeep
<1>4. CASE \E m \in SwayModes : ModeChanges(m)
  <2>1. PICK v : SwayChanges(v, 1, FALSE) /\ swayKind # "language"
    BY <1>4 DEF ModeChanges
  <2> QED  BY <1>1, <2>1, ChangesKeep
<1>5. CASE \E l \in UNION Keymaps : LayoutSwitched(l)
  <2>1. PICK l : swayKind = "language" /\ l \in swayTruth.layouts /\ SwayChanges([swayTruth EXCEPT !.active = l], 1, FALSE)
    BY <1>5 DEF LayoutSwitched
  <2>2. swayTruth = [layouts |-> swayTruth.layouts, active |-> swayTruth.active]
    BY <2>1 DEF SwayInv, Messages
  <2>3. PICK v : v = [layouts |-> swayTruth.layouts, active |-> l]
    OBVIOUS
  <2>4. [swayTruth EXCEPT !.active = l] = v
    BY <2>2, <2>3
  <2>5. SwayChanges(v, 1, FALSE) /\ v.layouts = swayTruth.layouts /\ v.active = l /\ v = [layouts |-> v.layouts, active |-> v.active]
    BY <2>1, <2>3, <2>4
  <2> QED  BY <1>1, <2>1, <2>5, ChangesKeep
<1>6. CASE \E l \in UNION Keymaps, s \in Keymaps : KeymapChanges(s, l)
  <2>1. PICK l, s : l \in s /\ SwayChanges([layouts |-> s, active |-> l], 1, TRUE)
    BY <1>6 DEF KeymapChanges
  <2>2. PICK v : v = [layouts |-> s, active |-> l]
    OBVIOUS
  <2> QED  BY <1>1, <2>1, <2>2, ChangesKeep
<1> QED  BY <1>2, <1>3, <1>4, <1>5, <1>6

LEMMA SwayStarts == SwayInit => SwayInv
<1> SUFFICES ASSUME SwayInit PROVE SwayInv
  OBVIOUS
<1>1. swayKind \in {"workspaces", "window", "scratchpad", "mode", "language"}
  BY SwayAssumption DEF SwayInit
<1>2. Replies
  <2>1. SwayTopics \in Nat
    BY DEF SwayTopics
  <2> QED  BY <2>1 DEF SwayInit, Replies, ReplyIn
<1>3. Messages
  <2>1. ASSUME swayKind = "language" PROVE swayTruth = [layouts |-> swayTruth.layouts, active |-> swayTruth.active] /\ swayTruth.active \in swayTruth.layouts
    <3>1. swayTruth \in {[layouts |-> s, active |-> l] : s \in Keymaps, l \in UNION Keymaps}
      BY <2>1 DEF SwayInit
    <3> QED  BY <2>1, <3>1 DEF SwayInit
  <2>2. swayWire \in Seq({}) /\ swayInbox \in Seq({})
    BY DEF SwayInit
  <2> QED  BY <2>1, <2>2 DEF SwayInit, Messages, Dated, ReplyIn
<1>4. TreeHeard /\ LayoutsKnown
  BY DEF SwayInit, TreeHeard, LayoutsKnown, AsksTree
<1>5. WordHeard
  BY DEF SwayInit, WordHeard, EventIn, Current
<1> QED  BY <1>1, <1>2, <1>3, <1>4, <1>5 DEF SwayInv, SwayInit, ShownIfMade

LEMMA SwaySteps == SwayInv /\ [SwayNext]_swayVars => SwayInv'
BY SwayAsked, AnswersKeep, DropKeeps, ReopenKeeps, ReplyKeeps, PassedOver, AskKeeps, ReadKeeps, WordKeeps, SwayNewsKeeps DEF SwayNext

\* For every number of workspaces, modes, keymaps, changes and losses: a worker that waits on a live
\* socket holds every subscription, and at rest the label is what sway has, unless the module was not told
\* (sway/ipc/client.cpp:194-248).
THEOREM SwayAlwaysMirrored == SwaySpec => []SwayMirrored
<1>1. SwayInv => SwayMirrored
  <2> SUFFICES ASSUME SwayInv PROVE SubscriptionsHeld /\ SwayAgrees
    BY DEF SwayMirrored
  <2>1. SubscriptionsHeld
    BY DEF SwayInv, Replies, SubscriptionsHeld
  <2>2. ASSUME SwayQuiet, swayMissed = 0
        PROVE  swayLabel = CASE swayKind = "mode" -> swayTruth
                             [] swayKind = "language" -> swayTruth.active
                             [] OTHER -> KeptTree(swayTruth)
    <3>1. ~EventIn(swayWire) /\ swayInbox = <<>> /\ swayLabel = swayHeld
      BY <2>2 DEF SwayQuiet, EventIn, SwayInv, ShownIfMade
    <3>2. CASE AsksTree
      <4>1. swayLabel = KeptTree(swayTruth) /\ swayKind # "mode" /\ swayKind # "language"
        BY <2>2, <3>1, <3>2 DEF SwayInv, TreeHeard, AsksTree
      <4> QED  BY <4>1
    <3>3. CASE ~AsksTree
      <4>1. swayLabel = Current /\ swayKind \in {"mode", "language"}
        BY <2>2, <3>1, <3>3 DEF SwayInv, WordHeard, AsksTree
      <4> QED  BY <4>1 DEF Current
    <3> QED  BY <3>2, <3>3
  <2> QED  BY <2>1, <2>2 DEF SwayAgrees
<1> QED  BY <1>1, SwayStarts, SwaySteps, PTL DEF SwaySpec

-----------------------------------------------------------------------------
(* The labels of window, windowcount, language and submap.                   *)

IpcEvents ==
  {[name |-> n] : n \in {"openwindow", "activewindow", "closewindow"}}
  \cup {[name |-> "activelayout", layout |-> l, ours |-> o] : l \in Layout, o \in BOOLEAN}
  \cup {[name |-> "submap", submap |-> k] : k \in Keymap}

\* The events that say what a hearing module holds, and what each says.
Tells(m, e) == IF m = "language" THEN e.name = "activelayout" /\ e.ours ELSE e.name = "submap"
ValueIn(m, e) == IF m = "language" THEN e.layout ELSE e.submap
Truth(m) == IF m = "language" THEN layout ELSE submap
NoneTells(m, wire) == \A i \in 1..Len(wire) : ~Tells(m, wire[i])

\* The last of them on the wire, or the one that is being handled, says what the compositor has.
LastFor(m) ==
  /\ \A i \in 1..Len(ipcWire) :
       Tells(m, ipcWire[i]) /\ (\A j \in 1..Len(ipcWire) : Tells(m, ipcWire[j]) => j <= i) => ValueIn(m, ipcWire[i]) = Truth(m)
  /\ listener = "calling" /\ Tells(m, ipcEvent) /\ NoneTells(m, ipcWire) => ValueIn(m, ipcEvent) = Truth(m)
LastSays == \A m \in Hearing : LastFor(m)

\* What is held is what the compositor has, or an event comes, or one was missed.
HeldOrTold == \A m \in Hearing :
  life[m] \in {"made", "alive"} /\ m \notin unheard /\ NoneTells(m, ipcWire) /\ ~(m \in uncalled /\ Tells(m, ipcEvent)) =>
    held[m] = Truth(m)

\* A live module shows what it holds, or is about to.
ShowsHeld == \A m \in Hearing : life[m] = "alive" /\ ~labelDp[m] /\ handlerLock[m] # "main" => label[m] = held[m]

\* A live module that asks shows what the compositor has, or is about to ask, or an event comes.
AsksOn(m, e) == e.name \in IF m = "window" THEN {"activewindow", "closewindow"} ELSE {"openwindow", "closewindow"}
Query(m) == IF m = "window" THEN WindowQuery ELSE CountQuery
AskedOrTold == \A m \in Asking :
  /\ life[m] = "alive" /\ ~labelDp[m] /\ handlerLock[m] # "main" /\ m \notin uncalled
     /\ (\A i \in 1..Len(ipcWire) : ~AsksOn(m, ipcWire[i])) => label[m] = Query(m)

LabelInv ==
  /\ ipcWire \in Seq(IpcEvents) /\ (listener = "calling" => ipcEvent \in IpcEvents)
  /\ \A m \in LabelModule : life[m] = "alive" => m \in callbacks
  /\ \A m \in uncalled \cap Hearing : ipcEvent.name = IF m = "language" THEN "activelayout" ELSE "submap"
  /\ DOMAIN held = LabelModule /\ DOMAIN label = LabelModule
  /\ LastSays /\ HeldOrTold /\ ShowsHeld /\ AskedOrTold

LEMMA LabelsStart == IpcInit => LabelInv
<1> SUFFICES ASSUME IpcInit PROVE LabelInv
  OBVIOUS
<1>1. ipcWire = <<>> /\ listener = "reading" /\ uncalled = {} /\ \A m \in LabelModule : life[m] \in {"none", "absent"}
  <2>1. PICK bar \in IpcBars : life = [m \in LabelModule |-> IF m \in bar THEN "none" ELSE "absent"]
    BY DEF IpcInit
  <2> QED  BY <2>1 DEF IpcInit
<1>2. ipcWire \in Seq(IpcEvents) /\ Len(ipcWire) = 0 /\ listener # "calling"
  BY <1>1
<1>3. DOMAIN held = LabelModule /\ DOMAIN label = LabelModule
  BY DEF IpcInit
<1>4. LastSays
  BY <1>2 DEF LastSays, LastFor
<1>5. HeldOrTold /\ ShowsHeld /\ AskedOrTold
  BY <1>1 DEF HeldOrTold, ShowsHeld, AskedOrTold, LabelModule, Hearing, Asking
<1> QED  BY <1>1, <1>2, <1>3, <1>4, <1>5 DEF LabelInv

\* What the compositor says comes last.
LEMMA EventsAdded ==
  ASSUME NEW wire \in Seq(IpcEvents), NEW es \in Seq(IpcEvents), NEW all, all = wire \o es
  PROVE  /\ all \in Seq(IpcEvents)
         /\ Len(all) = Len(wire) + Len(es) /\ Len(wire) \in Nat /\ Len(es) \in Nat
         /\ \A i \in 1..Len(wire) : all[i] = wire[i]
         /\ \A i \in 1..Len(es) : all[Len(wire) + i] = es[i]
         /\ \A i \in 1..Len(all) : i \in 1..Len(wire) \/ i - Len(wire) \in 1..Len(es)
OBVIOUS

LEMMA ToldOfNews ==
  ASSUME LabelInv, IpcTypeOK, NEW es \in Seq(IpcEvents), IpcNews(es),
         NEW told \in SUBSET Hearing,
         \A m \in Hearing \ told : NoneTells(m, es) /\ Truth(m)' = Truth(m),
         \A m \in told : Len(es) = 1 /\ Tells(m, es[1]) /\ ValueIn(m, es[1]) = Truth(m)',
         \A m \in Asking : Query(m)' = Query(m) \/ \E i \in 1..Len(es) : AsksOn(m, es[i])
  PROVE  LabelInv'
<1> PICK all : all = ipcWire \o es
  OBVIOUS
<1>1. ipcWire' = all /\ UNCHANGED <<ipcThread, ipcModules>>
  BY DEF IpcNews
<1>2. ipcWire \in Seq(IpcEvents)
  BY DEF LabelInv
<1>3. /\ all \in Seq(IpcEvents)
      /\ Len(all) = Len(ipcWire) + Len(es) /\ Len(ipcWire) \in Nat /\ Len(es) \in Nat
      /\ \A i \in 1..Len(ipcWire) : all[i] = ipcWire[i]
      /\ \A i \in 1..Len(es) : all[Len(ipcWire) + i] = es[i]
      /\ \A i \in 1..Len(all) : i \in 1..Len(ipcWire) \/ i - Len(ipcWire) \in 1..Len(es)
  BY <1>2, EventsAdded
<1>4. ASSUME NEW m \in Hearing, m \notin told
      PROVE  /\ \A i \in 1..Len(all) : Tells(m, all[i]) => i \in 1..Len(ipcWire) /\ Tells(m, ipcWire[i])
             /\ NoneTells(m, all) => NoneTells(m, ipcWire)
  <2>1. ASSUME NEW i \in 1..Len(all), Tells(m, all[i]) PROVE i \in 1..Len(ipcWire)
    <3>1. CASE i - Len(ipcWire) \in 1..Len(es)
      <4>1. all[i] = es[i - Len(ipcWire)]
        BY <1>3, <3>1
      <4> QED  BY <1>4, <2>1, <3>1, <4>1 DEF NoneTells
    <3> QED  BY <1>3, <3>1
  <2>2. 1..Len(ipcWire) \subseteq 1..Len(all)
    BY <1>3
  <2> QED  BY <1>3, <2>1, <2>2 DEF NoneTells
<1>5. ASSUME NEW m \in told
      PROVE  ~NoneTells(m, all) /\ ValueIn(m, all[Len(all)]) = Truth(m)' /\ Tells(m, all[Len(all)]) /\ Len(all) \in 1..Len(all)
  <2>1. all[Len(all)] = es[1] /\ Len(all) \in 1..Len(all)
    BY <1>3, <1>5
  <2> QED  BY <2>1, <1>5 DEF NoneTells
<1>6. LastSays'
  <2>a. ipcWire' = all /\ listener' = listener /\ ipcEvent' = ipcEvent
    BY <1>1 DEF ipcThread
  <2> SUFFICES ASSUME NEW m \in Hearing
               PROVE  /\ \A i \in 1..Len(all) :
                            Tells(m, all[i]) /\ (\A j \in 1..Len(all) : Tells(m, all[j]) => j <= i) => ValueIn(m, all[i]) = Truth(m)'
                      /\ listener = "calling" /\ Tells(m, ipcEvent) /\ NoneTells(m, all) => ValueIn(m, ipcEvent) = Truth(m)'
    <3> SUFFICES ASSUME NEW m \in Hearing PROVE LastFor(m)'
      BY DEF LastSays
    <3>1. CASE m = "language"
      BY <2>a, <3>1 DEF LastFor, Tells, ValueIn, NoneTells
    <3>2. CASE m = "submap"
      BY <2>a, <3>2 DEF LastFor, Tells, ValueIn, NoneTells
    <3> QED  BY <3>1, <3>2 DEF Hearing
  <2>1. CASE m \notin told
    <3>1. ASSUME NEW i \in 1..Len(all), Tells(m, all[i]), \A j \in 1..Len(all) : Tells(m, all[j]) => j <= i
          PROVE  ValueIn(m, all[i]) = Truth(m)
      <4>1. i \in 1..Len(ipcWire) /\ Tells(m, ipcWire[i]) /\ all[i] = ipcWire[i]
        BY <1>3, <1>4, <2>1, <3>1
      <4>2. ASSUME NEW j \in 1..Len(ipcWire), Tells(m, ipcWire[j]) PROVE j <= i
        <5>1. j \in 1..Len(all) /\ all[j] = ipcWire[j]
          BY <1>3
        <5> QED  BY <5>1, <4>2, <3>1
      <4> QED  BY <4>1, <4>2 DEF LabelInv, LastSays, LastFor
    <3>2. Truth(m)' = Truth(m)
      BY <2>1
    <3> QED  BY <1>4, <2>1, <3>1, <3>2 DEF LabelInv, LastSays, LastFor
  <2>2. CASE m \in told
    <3>1. ASSUME NEW i \in 1..Len(all), \A j \in 1..Len(all) : Tells(m, all[j]) => j <= i PROVE i = Len(all)
      BY <1>5, <2>2, <3>1, <1>3
    <3> QED  BY <1>5, <2>2, <3>1
  <2> QED  BY <2>1, <2>2
<1>7. HeldOrTold'
  <2> SUFFICES ASSUME NEW m \in Hearing, life[m] \in {"made", "alive"}, m \notin unheard, NoneTells(m, all), ~(m \in uncalled /\ Tells(m, ipcEvent))
               PROVE  held[m] = Truth(m)'
    BY <1>1 DEF HeldOrTold, ipcThread, ipcModules, Tells, NoneTells
  <2>1. m \notin told
    BY <1>5
  <2>2. NoneTells(m, ipcWire) /\ Truth(m)' = Truth(m)
    BY <1>4, <2>1
  <2> QED  BY <2>2 DEF LabelInv, HeldOrTold
<1>8. AskedOrTold'
  <2> SUFFICES ASSUME NEW m \in Asking, life[m] = "alive", ~labelDp[m], handlerLock[m] # "main", m \notin uncalled,
                      \A i \in 1..Len(all) : ~AsksOn(m, all[i])
               PROVE  label[m] = Query(m)'
    BY <1>1 DEF AskedOrTold, ipcThread, ipcModules, AsksOn
  <2>1. ASSUME NEW i \in 1..Len(ipcWire) PROVE ~AsksOn(m, ipcWire[i])
    <3>1. i \in 1..Len(all) /\ all[i] = ipcWire[i]
      BY <1>3
    <3> QED  BY <3>1
  <2>2. ASSUME NEW i \in 1..Len(es) PROVE ~AsksOn(m, es[i])
    <3>1. Len(ipcWire) + i \in 1..Len(all) /\ all[Len(ipcWire) + i] = es[i]
      BY <1>3
    <3> QED  BY <3>1
  <2> QED  BY <2>1, <2>2 DEF LabelInv, AskedOrTold
<1>9. ShowsHeld'
  BY <1>1 DEF LabelInv, ShowsHeld, ipcModules
<1> QED  BY <1>1, <1>3, <1>6, <1>7, <1>8, <1>9 DEF LabelInv, ipcThread, ipcModules

LEMMA CompositorTells ==
  ASSUME LabelInv, IpcTypeOK,
         WindowOpens \/ WindowCloses \/ (\E l \in Layout, ours \in BOOLEAN : LayoutChanges(l, ours))
           \/ (\E k \in Keymap : SubmapChanges(k))
  PROVE  LabelInv'
<1> USE DEF Hearing, Asking
<1>1. CASE WindowOpens
  <2>1. PICK es : es = <<[name |-> "openwindow"], [name |-> "activewindow"]>>
    OBVIOUS
  <2>2. es \in Seq(IpcEvents) /\ Len(es) = 2 /\ es[1].name = "openwindow" /\ es[2].name = "activewindow"
    BY <2>1 DEF IpcEvents
  <2>3. IpcNews(es) /\ UNCHANGED <<layout, submap>>
    BY <1>1, <2>1 DEF WindowOpens
  <2>4. \A m \in Hearing : NoneTells(m, es) /\ Truth(m)' = Truth(m)
    BY <2>2, <2>3 DEF NoneTells, Tells, Truth
  <2>5. \A m \in Asking : \E i \in 1..Len(es) : AsksOn(m, es[i])
    BY <2>2 DEF AsksOn
  <2>6. PICK told : told = {}
    OBVIOUS
  <2>7. /\ told \in SUBSET Hearing /\ \A m \in Hearing \ told : NoneTells(m, es) /\ Truth(m)' = Truth(m)
        /\ \A m \in told : Len(es) = 1 /\ Tells(m, es[1]) /\ ValueIn(m, es[1]) = Truth(m)'
    BY <2>4, <2>6
  <2> HIDE DEF Hearing, Asking
  <2> QED  BY <2>2, <2>3, <2>5, <2>7, ToldOfNews
<1>2. CASE WindowCloses
  <2>1. PICK es : es = <<[name |-> "closewindow"]>>
    OBVIOUS
  <2>2. es \in Seq(IpcEvents) /\ Len(es) = 1 /\ es[1].name = "closewindow"
    BY <2>1 DEF IpcEvents
  <2>3. IpcNews(es) /\ UNCHANGED <<layout, submap>>
    BY <1>2, <2>1 DEF WindowCloses
  <2>4. \A m \in Hearing : NoneTells(m, es) /\ Truth(m)' = Truth(m)
    BY <2>2, <2>3 DEF NoneTells, Tells, Truth
  <2>5. \A m \in Asking : \E i \in 1..Len(es) : AsksOn(m, es[i])
    BY <2>2 DEF AsksOn
  <2>6. PICK told : told = {}
    OBVIOUS
  <2>7. /\ told \in SUBSET Hearing /\ \A m \in Hearing \ told : NoneTells(m, es) /\ Truth(m)' = Truth(m)
        /\ \A m \in told : Len(es) = 1 /\ Tells(m, es[1]) /\ ValueIn(m, es[1]) = Truth(m)'
    BY <2>4, <2>6
  <2> HIDE DEF Hearing, Asking
  <2> QED  BY <2>2, <2>3, <2>5, <2>7, ToldOfNews
<1>3. ASSUME NEW l \in Layout, NEW ours \in BOOLEAN, LayoutChanges(l, ours) PROVE LabelInv'
  <2>1. PICK es : es = <<[name |-> "activelayout", layout |-> l, ours |-> ours]>>
    OBVIOUS
  <2>2. es \in Seq(IpcEvents) /\ Len(es) = 1 /\ es[1] = [name |-> "activelayout", layout |-> l, ours |-> ours]
    BY <2>1 DEF IpcEvents
  <2>3. IpcNews(es) /\ UNCHANGED <<windows, submap>> /\ layout' = IF ours THEN l ELSE layout
    BY <1>3, <2>1 DEF LayoutChanges
  <2>4. PICK told : told = IF ours THEN {"language"} ELSE {}
    OBVIOUS
  <2>5. \A m \in Hearing \ told : NoneTells(m, es) /\ Truth(m)' = Truth(m)
    BY <2>2, <2>3, <2>4 DEF NoneTells, Tells, Truth
  <2>6. \A m \in told : Len(es) = 1 /\ Tells(m, es[1]) /\ ValueIn(m, es[1]) = Truth(m)'
    BY <2>2, <2>3, <2>4 DEF Tells, Truth, ValueIn
  <2>7. \A m \in Asking : Query(m)' = Query(m)
    BY <2>3 DEF Query, WindowQuery, CountQuery
  <2>8. told \in SUBSET Hearing
    BY <2>4
  <2> QED  BY <2>2, <2>3, <2>5, <2>6, <2>7, <2>8, ToldOfNews
<1>4. ASSUME NEW k \in Keymap, SubmapChanges(k) PROVE LabelInv'
  <2>1. PICK es : es = <<[name |-> "submap", submap |-> k]>>
    OBVIOUS
  <2>2. es \in Seq(IpcEvents) /\ Len(es) = 1 /\ es[1] = [name |-> "submap", submap |-> k]
    BY <2>1 DEF IpcEvents
  <2>3. IpcNews(es) /\ UNCHANGED <<windows, layout>> /\ submap' = k
    BY <1>4, <2>1 DEF SubmapChanges
  <2>4. PICK told : told = {"submap"}
    OBVIOUS
  <2>5. \A m \in Hearing \ told : NoneTells(m, es) /\ Truth(m)' = Truth(m)
    BY <2>2, <2>3, <2>4 DEF NoneTells, Tells, Truth
  <2>6. \A m \in told : Len(es) = 1 /\ Tells(m, es[1]) /\ ValueIn(m, es[1]) = Truth(m)'
    BY <2>2, <2>3, <2>4 DEF Tells, Truth, ValueIn
  <2>7. \A m \in Asking : Query(m)' = Query(m)
    BY <2>3 DEF Query, WindowQuery, CountQuery
  <2>8. told \in SUBSET Hearing
    BY <2>4
  <2> QED  BY <2>2, <2>3, <2>5, <2>6, <2>7, <2>8, ToldOfNews
<1> QED  BY <1>1, <1>2, <1>3, <1>4

\* The main thread changes no event; it makes a module with what there is, or with a default.
LEMMA MainTells ==
  ASSUME LabelInv, IpcInv, NEW m \in LabelModule,
         MakeModule(m) \/ RegisterForIPC(m) \/ LeaveModule(m) \/ UnregisterForIPC(m)
           \/ FreeModule(m) \/ UpdateBegins(m) \/ UpdateEnds(m)
  PROVE  LabelInv'
<1> USE DEF Hearing, Asking, LabelModule
<1>1. UNCHANGED <<ipcWorld, ipcWire, ipcThread>>
  BY DEF MakeModule, RegisterForIPC, LeaveModule, UnregisterForIPC, FreeModule, UpdateBegins, UpdateEnds
<1>2. LastSays'
  BY <1>1 DEF LabelInv, LastSays, LastFor, Truth, ipcWorld, ipcThread, NoneTells, Tells, ValueIn
<1>3. \A n \in Hearing : Truth(n)' = Truth(n)
  BY <1>1 DEF Truth, ipcWorld
<1>4. \A n \in Asking : Query(n)' = Query(n)
  BY <1>1 DEF Query, WindowQuery, CountQuery, ipcWorld
<1>5. /\ DOMAIN held = LabelModule /\ DOMAIN label = LabelModule /\ DOMAIN life = LabelModule
      /\ DOMAIN labelDp = LabelModule /\ DOMAIN handlerLock = LabelModule
      /\ \A n \in LabelModule : life[n] = "alive" => n \in callbacks
  BY DEF LabelInv, IpcInv, IpcTypeOK
<1>6. \A n \in LabelModule :
        /\ life'[n] \in {"made", "alive"} => life[n] \in {"made", "alive"} \/ (MakeModule(m) /\ n = m)
        /\ life'[n] = "alive" => n \in callbacks'
  <2>1. CASE MakeModule(m)  BY <1>5, <2>1 DEF MakeModule
  <2>2. CASE RegisterForIPC(m)  BY <1>5, <2>2 DEF RegisterForIPC
  <2>3. CASE LeaveModule(m)  BY <1>5, <2>3 DEF LeaveModule
  <2>4. CASE UnregisterForIPC(m)  BY <1>5, <2>4 DEF UnregisterForIPC
  <2>5. CASE FreeModule(m)  BY <1>5, <2>5 DEF FreeModule
  <2>6. CASE UpdateBegins(m)  BY <1>5, <2>6 DEF UpdateBegins
  <2>7. CASE UpdateEnds(m)  BY <1>5, <2>7 DEF UpdateEnds
  <2> QED  BY <2>1, <2>2, <2>3, <2>4, <2>5, <2>6, <2>7
<1>7. \A n \in LabelModule :
        \/ held'[n] = held[n] /\ (n \in unheard => n \in unheard')
        \/ (MakeModule(m) /\ n = m)
  BY <1>5 DEF MakeModule, RegisterForIPC, LeaveModule, UnregisterForIPC, FreeModule, UpdateBegins, UpdateEnds
<1>8. ASSUME MakeModule(m), m \in Hearing, m \notin unheard' PROVE held'[m] = Truth(m)
  BY <1>5, <1>8 DEF MakeModule, FirstHeld, Truth
<1>9. HeldOrTold'
  <2> SUFFICES ASSUME NEW n \in Hearing, life'[n] \in {"made", "alive"}, n \notin unheard', NoneTells(n, ipcWire),
                      ~(n \in uncalled /\ Tells(n, ipcEvent))
               PROVE  held'[n] = Truth(n)
    BY <1>1, <1>3 DEF HeldOrTold, ipcThread, NoneTells, Tells
  <2> QED  BY <1>6, <1>7, <1>8 DEF LabelInv, HeldOrTold
<1>10. \A n \in LabelModule : life'[n] = "alive" => held'[n] = held[n]
  BY <1>5 DEF MakeModule, RegisterForIPC, LeaveModule, UnregisterForIPC, FreeModule, UpdateBegins, UpdateEnds
<1>11. \A n \in LabelModule :
         life'[n] = "alive" /\ ~labelDp'[n] /\ handlerLock'[n] # "main" =>
           \/ life[n] = "alive" /\ ~labelDp[n] /\ handlerLock[n] # "main" /\ label'[n] = label[n]
           \/ UpdateEnds(m) /\ n = m
  BY <1>5 DEF MakeModule, RegisterForIPC, LeaveModule, UnregisterForIPC, FreeModule, UpdateBegins, UpdateEnds
<1>12. ASSUME UpdateEnds(m) PROVE (m \in Hearing => label'[m] = held[m]) /\ (m \in Asking => label'[m] = Query(m))
  BY <1>5, <1>12 DEF UpdateEnds, Shows, Query
<1>13. ShowsHeld'
  <2> SUFFICES ASSUME NEW n \in Hearing, life'[n] = "alive", ~labelDp'[n], handlerLock'[n] # "main"
               PROVE  label'[n] = held'[n]
    BY DEF ShowsHeld
  <2> QED  BY <1>10, <1>11, <1>12 DEF LabelInv, ShowsHeld
<1>14. AskedOrTold'
  <2> SUFFICES ASSUME NEW n \in Asking, life'[n] = "alive", ~labelDp'[n], handlerLock'[n] # "main", n \notin uncalled,
                      \A i \in 1..Len(ipcWire) : ~AsksOn(n, ipcWire[i])
               PROVE  label'[n] = Query(n)
    BY <1>1, <1>4 DEF AskedOrTold, ipcThread, AsksOn
  <2> QED  BY <1>11, <1>12 DEF LabelInv, AskedOrTold
<1>15. DOMAIN held' = LabelModule /\ DOMAIN label' = LabelModule
  BY <1>5 DEF MakeModule, RegisterForIPC, LeaveModule, UnregisterForIPC, FreeModule, UpdateBegins, UpdateEnds
<1> QED  BY <1>1, <1>2, <1>6, <1>9, <1>13, <1>14, <1>15 DEF LabelInv, ipcThread

\* Nor does it by locking windowIpcSmtx, and no update() runs for that.
LEMMA LockTells == ASSUME LabelInv, IpcInv, LockWindows PROVE LabelInv'
<1>1. /\ UNCHANGED <<ipcWorld, ipcWire, ipcThread, callbacks, life, held, label, labelDp, unheard>>
      /\ \A m \in LabelModule : handlerLock'[m] # "main" => handlerLock[m] # "main"
  BY DEF LockWindows, IpcInv, IpcTypeOK, LabelModule
<1>2. LastSays' /\ HeldOrTold'
  BY <1>1 DEF LabelInv, LastSays, LastFor, HeldOrTold, ipcWorld, ipcThread, Truth, NoneTells, Tells, ValueIn
<1>3. ShowsHeld' /\ AskedOrTold'
  BY <1>1 DEF LabelInv, ShowsHeld, AskedOrTold, ipcWorld, ipcThread, Query, WindowQuery, CountQuery, AsksOn
<1> QED  BY <1>1, <1>2, <1>3 DEF LabelInv, ipcThread

\* What stays when the first is taken.
LEMMA HeadOff ==
  ASSUME NEW S, NEW s \in Seq(S), s # <<>>
  PROVE  /\ Tail(s) \in Seq(S) /\ Head(s) \in S /\ Len(s) \in Nat /\ Len(s) > 0
         /\ Head(s) = s[1] /\ Len(Tail(s)) = Len(s) - 1
         /\ \A i \in 1..Len(Tail(s)) : Tail(s)[i] = s[i + 1] /\ i + 1 \in 1..Len(s)
         /\ \A i \in 1..Len(s) : i = 1 \/ (i - 1 \in 1..Len(Tail(s)) /\ s[i] = Tail(s)[i - 1])
<1>1. Tail(s) \in Seq(S) /\ Head(s) \in S /\ Len(s) \in Nat /\ Len(s) > 0 /\ Head(s) = s[1] /\ Len(Tail(s)) = Len(s) - 1
  OBVIOUS
<1>2. \A i \in 1..Len(Tail(s)) : Tail(s)[i] = s[i + 1] /\ i + 1 \in 1..Len(s)
  BY <1>1
<1>3. ASSUME NEW i \in 1..Len(s), i # 1 PROVE i - 1 \in 1..Len(Tail(s)) /\ s[i] = Tail(s)[i - 1]
  <2>1. i - 1 \in 1..Len(Tail(s)) /\ (i - 1) + 1 = i
    BY <1>1, <1>3
  <2> QED  BY <1>2, <2>1
<1> QED  BY <1>1, <1>2, <1>3

\* The listener takes the first event off the wire, for all that are registered.
LEMMA ReadTells == ASSUME LabelInv, IpcInv, ReadEvent PROVE LabelInv'
<1> USE DEF Hearing, Asking, LabelModule
<1> PICK wire : wire = ipcWire
  OBVIOUS
<1> PICK e : e = Head(wire)
  OBVIOUS
<1>1. /\ wire \in Seq(IpcEvents) /\ wire # <<>> /\ listener = "reading" /\ uncalled = {}
      /\ ipcEvent' = e /\ ipcWire' = Tail(wire) /\ listener' = "calling"
      /\ uncalled' = {m \in callbacks : Concerns(m, e)}
      /\ unheard' = unheard \cup {m \in LabelModule : life[m] = "made" /\ Concerns(m, e)}
      /\ UNCHANGED <<ipcWorld, callbacks, handlerLock, life, held, label, labelDp>>
  BY DEF ReadEvent, LabelInv, IpcInv, LockInv, CalledAreRegistered
<1>2. /\ Tail(wire) \in Seq(IpcEvents) /\ e \in IpcEvents /\ Len(wire) \in Nat /\ Len(wire) > 0
      /\ e = wire[1] /\ Len(Tail(wire)) = Len(wire) - 1
      /\ \A i \in 1..Len(Tail(wire)) : Tail(wire)[i] = wire[i + 1] /\ i + 1 \in 1..Len(wire)
      /\ \A i \in 1..Len(wire) : i = 1 \/ (i - 1 \in 1..Len(Tail(wire)) /\ wire[i] = Tail(wire)[i - 1])
  BY <1>1, HeadOff
<1>3. \A m \in Hearing : Truth(m)' = Truth(m)
  BY <1>1 DEF Truth, ipcWorld
<1>4. \A m \in Asking : Query(m)' = Query(m)
  BY <1>1 DEF Query, WindowQuery, CountQuery, ipcWorld
<1>5. ASSUME NEW m \in Hearing PROVE Tells(m, e) => Concerns(m, e)
  BY DEF Tells, Concerns
<1>6. ASSUME NEW m \in Asking PROVE AsksOn(m, e) <=> Concerns(m, e)
  BY DEF AsksOn, Concerns
<1>7. ASSUME NEW m \in Hearing PROVE Concerns(m, e) => e.name = IF m = "language" THEN "activelayout" ELSE "submap"
  BY DEF Concerns
<1>8. ASSUME NEW m \in Hearing, NoneTells(m, Tail(wire)), ~Tells(m, e) PROVE NoneTells(m, wire)
  <2>1. ASSUME NEW i \in 1..Len(wire) PROVE ~Tells(m, wire[i])
    <3>1. CASE i = 1
      BY <1>2, <1>8, <3>1
    <3>2. CASE i # 1
      <4>1. i - 1 \in 1..Len(Tail(wire)) /\ wire[i] = Tail(wire)[i - 1]
        BY <1>2, <3>2
      <4> QED  BY <1>8, <4>1 DEF NoneTells
    <3> QED  BY <3>1, <3>2
  <2> QED  BY <2>1 DEF NoneTells
<1>9. LastSays'
  <2> SUFFICES ASSUME NEW m \in Hearing
               PROVE  /\ \A i \in 1..Len(Tail(wire)) :
                            Tells(m, Tail(wire)[i]) /\ (\A j \in 1..Len(Tail(wire)) : Tells(m, Tail(wire)[j]) => j <= i) =>
                              ValueIn(m, Tail(wire)[i]) = Truth(m)
                      /\ Tells(m, e) /\ NoneTells(m, Tail(wire)) => ValueIn(m, e) = Truth(m)
    BY <1>1, <1>3 DEF LastSays, LastFor, Tells, ValueIn, NoneTells
  <2>1. ASSUME NEW i \in 1..Len(Tail(wire)), Tells(m, Tail(wire)[i]), \A j \in 1..Len(Tail(wire)) : Tells(m, Tail(wire)[j]) => j <= i
        PROVE  ValueIn(m, Tail(wire)[i]) = Truth(m)
    <3>1. i + 1 \in 1..Len(wire) /\ wire[i + 1] = Tail(wire)[i]
      BY <1>2
    <3>2. ASSUME NEW j \in 1..Len(wire), Tells(m, wire[j]) PROVE j <= i + 1
      <4>1. CASE j = 1
        BY <4>1, <1>2
      <4>2. CASE j - 1 \in 1..Len(Tail(wire)) /\ wire[j] = Tail(wire)[j - 1]
        <5>1. j - 1 <= i
          BY <2>1, <3>2, <4>2
        <5> QED  BY <5>1, <1>2
      <4> QED  BY <4>1, <4>2, <1>2
    <3> QED  BY <2>1, <3>1, <3>2 DEF LabelInv, LastSays, LastFor
  <2>2. ASSUME Tells(m, e), NoneTells(m, Tail(wire)) PROVE ValueIn(m, e) = Truth(m)
    <3>1. 1 \in 1..Len(wire)
      BY <1>2
    <3>2. ASSUME NEW j \in 1..Len(wire), Tells(m, wire[j]) PROVE j <= 1
      <4>1. CASE j # 1
        <5>1. j - 1 \in 1..Len(Tail(wire)) /\ wire[j] = Tail(wire)[j - 1]
          BY <1>2, <4>1
        <5> QED  BY <2>2, <3>2, <5>1 DEF NoneTells
      <4> QED  BY <4>1
    <3> QED  BY <1>2, <2>2, <3>1, <3>2 DEF LabelInv, LastSays, LastFor
  <2> QED  BY <2>1, <2>2
<1>10. HeldOrTold'
  <2> SUFFICES ASSUME NEW m \in Hearing, life[m] \in {"made", "alive"}, m \notin unheard', NoneTells(m, Tail(wire)),
                      ~(m \in uncalled' /\ Tells(m, e))
               PROVE  held[m] = Truth(m)
    BY <1>1, <1>3 DEF HeldOrTold, NoneTells, Tells
  <2>1. m \notin unheard /\ ~Tells(m, e)
    BY <1>1, <1>5 DEF LabelInv
  <2> QED  BY <1>1, <1>8, <2>1 DEF LabelInv, HeldOrTold
<1>11. ShowsHeld'
  BY <1>1 DEF LabelInv, ShowsHeld
<1>12. AskedOrTold'
  <2> SUFFICES ASSUME NEW m \in Asking, life[m] = "alive", ~labelDp[m], handlerLock[m] # "main", m \notin uncalled',
                      \A i \in 1..Len(Tail(wire)) : ~AsksOn(m, Tail(wire)[i])
               PROVE  label[m] = Query(m)
    BY <1>1, <1>4 DEF AskedOrTold, AsksOn
  <2>1. ~AsksOn(m, e)
    BY <1>1, <1>6 DEF LabelInv
  <2>2. \A i \in 1..Len(wire) : ~AsksOn(m, wire[i])
    BY <1>2, <2>1
  <2> QED  BY <1>1, <2>2 DEF LabelInv, AskedOrTold
<1> QED  BY <1>1, <1>2, <1>7, <1>9, <1>10, <1>11, <1>12 DEF LabelInv

\* A handler takes the event it was called for.
LEMMA HandlersTell ==
  ASSUME LabelInv, IpcInv, (ListenerStep /\ ~ReadEvent) \/ SocketCloses
  PROVE  LabelInv'
<1> USE DEF Hearing, Asking, LabelModule
<1>1. UNCHANGED <<ipcWorld, ipcWire, ipcEvent, callbacks, life, label>>
  BY DEF ListenerStep, AskingOnEvent, HearingLocks, LanguageOnEvent, SubmapOnEvent, Handled, Called, SocketCloses, ipcThread, ipcModules
<1>2. listener' = "calling" => listener = "calling"
  BY DEF ListenerStep, AskingOnEvent, HearingLocks, LanguageOnEvent, SubmapOnEvent, Handled, Called, SocketCloses, ipcThread
<1>3. LastSays'
  BY <1>1, <1>2 DEF LabelInv, LastSays, LastFor, Truth, ipcWorld, NoneTells, Tells, ValueIn
<1>4. \A m \in Hearing : Truth(m)' = Truth(m)
  BY <1>1 DEF Truth, ipcWorld
<1>5. \A m \in Asking : Query(m)' = Query(m)
  BY <1>1 DEF Query, WindowQuery, CountQuery, ipcWorld
<1>6. /\ DOMAIN held = LabelModule /\ DOMAIN labelDp = LabelModule /\ DOMAIN handlerLock = LabelModule
      /\ \A m \in LabelModule : handlerLock[m] = "listener" => m \in uncalled /\ listener = "calling"
  BY DEF LabelInv, IpcInv, IpcTypeOK, LockInv, LockedForCall, CalledAreRegistered
<1>7. \A m \in LabelModule :
        /\ handlerLock'[m] # "main" => handlerLock[m] # "main"
        /\ m \in uncalled' => m \in uncalled
        /\ ~labelDp'[m] => ~labelDp[m] /\ held'[m] = held[m]
        /\ m \in Asking => labelDp'[m] \/ (m \in uncalled => m \in uncalled')
  <2>1. ASSUME NEW n \in LabelModule, AskingOnEvent(n) PROVE <1>7!:
    BY <1>6, <2>1 DEF AskingOnEvent
  <2>2. ASSUME NEW n \in LabelModule, HearingLocks(n) PROVE <1>7!:
    BY <1>6, <2>2 DEF HearingLocks, ipcThread
  <2>3. CASE LanguageOnEvent
    BY <1>6, <2>3 DEF LanguageOnEvent, Handled
  <2>4. CASE SubmapOnEvent
    BY <1>6, <2>4 DEF SubmapOnEvent, Handled
  <2>5. CASE Called \/ SocketCloses
    BY <2>5 DEF Called, SocketCloses, ipcModules
  <2> QED  BY <2>1, <2>2, <2>3, <2>4, <2>5 DEF ListenerStep
<1>8. HeldOrTold'
  <2> SUFFICES ASSUME NEW m \in Hearing, life[m] \in {"made", "alive"}, m \notin unheard', NoneTells(m, ipcWire),
                      ~(m \in uncalled' /\ Tells(m, ipcEvent))
               PROVE  held'[m] = Truth(m)
    BY <1>1, <1>4 DEF HeldOrTold, NoneTells, Tells
  <2>1. CASE LanguageOnEvent /\ m = "language"
    <3>1. handlerLock[m] = "listener" /\ m \in uncalled /\ listener = "calling"
      BY <1>6, <2>1 DEF LanguageOnEvent
    <3>2. ipcEvent.name = "activelayout"
      BY <2>1, <3>1 DEF LabelInv
    <3>3. CASE ipcEvent.ours
      <4>1. held'[m] = ipcEvent.layout
        BY <1>6, <2>1, <3>3 DEF LanguageOnEvent, Handled
      <4> QED  BY <2>1, <3>1, <3>2, <3>3, <4>1 DEF LabelInv, LastSays, LastFor, Tells, ValueIn
    <3>4. CASE ~ipcEvent.ours
      <4>1. held' = held /\ unheard' = unheard
        BY <2>1, <3>1, <3>4 DEF LanguageOnEvent
      <4> QED  BY <2>1, <3>4, <4>1 DEF LabelInv, HeldOrTold, Tells
    <3> QED  BY <3>3, <3>4
  <2>2. CASE SubmapOnEvent /\ m = "submap"
    <3>1. handlerLock[m] = "listener" /\ m \in uncalled /\ listener = "calling" /\ held'[m] = ipcEvent.submap
      BY <1>6, <2>2 DEF SubmapOnEvent, Handled
    <3>2. ipcEvent.name = "submap"
      BY <2>2, <3>1 DEF LabelInv
    <3> QED  BY <2>2, <3>1, <3>2 DEF LabelInv, LastSays, LastFor, Tells, ValueIn
  <2>3. CASE ~(LanguageOnEvent /\ m = "language") /\ ~(SubmapOnEvent /\ m = "submap")
    <3>1. held'[m] = held[m] /\ (m \in unheard => m \in unheard') /\ (m \in uncalled => m \in uncalled')
      <4>1. ASSUME NEW n \in LabelModule, AskingOnEvent(n) PROVE <3>1!:
        BY <4>1 DEF AskingOnEvent
      <4>2. ASSUME NEW n \in LabelModule, HearingLocks(n) PROVE <3>1!:
        BY <4>2 DEF HearingLocks, ipcThread
      <4>3. CASE LanguageOnEvent
        BY <1>6, <2>3, <4>3 DEF LanguageOnEvent, Handled
      <4>4. CASE SubmapOnEvent
        BY <1>6, <2>3, <4>4 DEF SubmapOnEvent, Handled
      <4>5. CASE Called \/ SocketCloses
        BY <4>5 DEF Called, SocketCloses, ipcModules
      <4> QED  BY <4>1, <4>2, <4>3, <4>4, <4>5 DEF ListenerStep
    <3> QED  BY <3>1 DEF LabelInv, HeldOrTold
  <2> QED  BY <2>1, <2>2, <2>3
<1>9. ShowsHeld'
  BY <1>1, <1>7 DEF LabelInv, ShowsHeld
<1>10. AskedOrTold'
  <2> SUFFICES ASSUME NEW m \in Asking, life[m] = "alive", ~labelDp'[m], handlerLock'[m] # "main", m \notin uncalled',
                      \A i \in 1..Len(ipcWire) : ~AsksOn(m, ipcWire[i])
               PROVE  label[m] = Query(m)
    BY <1>1, <1>5 DEF AskedOrTold, AsksOn
  <2> QED  BY <1>7 DEF LabelInv, AskedOrTold
<1>11. DOMAIN held' = LabelModule
  BY <1>6 DEF ListenerStep, AskingOnEvent, HearingLocks, LanguageOnEvent, SubmapOnEvent, Handled, Called, SocketCloses, ipcThread, ipcModules
<1> QED  BY <1>1, <1>2, <1>3, <1>7, <1>8, <1>9, <1>10, <1>11 DEF LabelInv

LEMMA LabelSteps == IpcInv /\ LabelInv /\ [IpcNext]_ipcVars => LabelInv'
<1> SUFFICES ASSUME IpcInv, LabelInv, [IpcNext]_ipcVars PROVE LabelInv'
  OBVIOUS
<1>1. CASE UNCHANGED ipcVars
  BY <1>1 DEF LabelInv, LastSays, LastFor, HeldOrTold, ShowsHeld, AskedOrTold, ipcVars, ipcWorld, ipcThread, ipcModules,
              Truth, Query, WindowQuery, CountQuery, NoneTells, Tells, ValueIn, AsksOn
<1>2. CASE ListenerStep \/ SocketCloses
  BY <1>2, ReadTells, HandlersTell
<1>3. CASE IpcMainStep
  BY <1>3, MainTells, LockTells DEF IpcMainStep
<1>4. CASE WindowOpens \/ WindowCloses \/ (\E l \in Layout, ours \in BOOLEAN : LayoutChanges(l, ours))
           \/ (\E k \in Keymap : SubmapChanges(k))
  BY <1>4, CompositorTells DEF IpcInv
<1> QED  BY <1>1, <1>2, <1>3, <1>4 DEF IpcNext

LEMMA LabelInvAgrees == IpcInv /\ LabelInv => LabelsAgree
<1> SUFFICES ASSUME IpcInv, LabelInv, listener = "reading", ipcWire = <<>>, NEW m \in LabelModule,
                    life[m] = "alive", ~labelDp[m], handlerLock[m] = "free", m \notin unheard
             PROVE  label[m] = CASE m = "window" -> windows > 0
                                 [] m = "windowcount" -> windows
                                 [] m = "language" -> layout
                                 [] m = "submap" -> submap
  BY DEF LabelsAgree
<1>1. uncalled = {} /\ Len(ipcWire) = 0
  BY DEF IpcInv, LockInv, CalledAreRegistered
<1>2. m \in Asking => label[m] = Query(m)
  BY <1>1 DEF LabelInv, AskedOrTold
<1>3. m \in Hearing => label[m] = Truth(m)
  BY <1>1 DEF LabelInv, ShowsHeld, HeldOrTold, NoneTells
<1> QED  BY <1>2, <1>3 DEF LabelModule, Asking, Hearing, Query, WindowQuery, CountQuery, Truth

-----------------------------------------------------------------------------
(* hyprland/workspaces.  The events on the wire about one workspace, or one  *)
(* window, by their positions.                                               *)

Positions(s, T) == {i \in 1..Len(s) : s[i] \in T}
FirstIn(P, i) == i \in P /\ \A k \in P : i <= k
LastIn(P, i) == i \in P /\ \A k \in P : k <= i
Adjacent(P, i, j) == i \in P /\ j \in P /\ i < j /\ \A k \in P : k <= i \/ j <= k

\* t is s with e at its end.
Ends(t, s, e) ==
  /\ Len(s) \in Nat /\ Len(t) = Len(s) + 1 /\ t[Len(s) + 1] = e
  /\ \A i \in 1..Len(s) : t[i] = s[i]

LEMMA AppendEnds == ASSUME NEW E, NEW s \in Seq(E), NEW e \in E PROVE Append(s, e) \in Seq(E) /\ Ends(Append(s, e), s, e)
BY DEF Ends

\* What an event that is written puts behind the others.
Behind(s, t, e, n, T) ==
  /\ n \in Nat
  /\ \A i \in Positions(s, T) : i \in Positions(t, T) /\ t[i] = s[i] /\ i < n /\ i \in Nat
  /\ e \notin T => Positions(t, T) = Positions(s, T)
  /\ e \in T => Positions(t, T) = Positions(s, T) \cup {n} /\ t[n] = e
LEMMA PutBehind ==
  ASSUME NEW s, NEW t, NEW e, Ends(t, s, e), NEW T
  PROVE  Behind(s, t, e, Len(s) + 1, T)
<1>1. Len(s) \in Nat /\ Len(t) = Len(s) + 1 /\ t[Len(s) + 1] = e /\ \A i \in 1..Len(s) : t[i] = s[i]
  BY DEF Ends
<1>2. \A i \in 1..Len(t) : i \in 1..Len(s) \/ i = Len(s) + 1
  BY <1>1
<1>3. \A i \in 1..Len(s) : i \in 1..Len(t) /\ i < Len(s) + 1 /\ i \in Nat
  BY <1>1
<1>4. Len(s) + 1 \in 1..Len(t)
  BY <1>1
<1> QED  BY <1>1, <1>2, <1>3, <1>4 DEF Positions, Behind

\* It becomes the last one about its subject.
GetsLast(P, Q, n) ==
  /\ Q # {}
  /\ \A i \in Q : LastIn(Q, i) => i = n
  /\ \A i \in Q : FirstIn(Q, i) => FirstIn(P, i) \/ (P = {} /\ i = n)
  /\ \A i, j \in Q : Adjacent(Q, i, j) => Adjacent(P, i, j) \/ (j = n /\ LastIn(P, i))
LEMMA OneMore ==
  ASSUME NEW P, NEW n \in Nat, \A i \in P : i < n /\ i \in Nat
  PROVE  GetsLast(P, P \cup {n}, n)
<1> PICK Q : Q = P \cup {n}
  OBVIOUS
<1>2. \A i \in Q : LastIn(Q, i) => i = n
  BY DEF LastIn
<1>3. \A i \in Q : FirstIn(Q, i) => FirstIn(P, i) \/ (P = {} /\ i = n)
  BY DEF FirstIn
<1>4. ASSUME NEW i \in Q, NEW j \in Q, Adjacent(Q, i, j) PROVE Adjacent(P, i, j) \/ (j = n /\ LastIn(P, i))
  <2>1. i \in P
    BY <1>4 DEF Adjacent
  <2>2. CASE j = n
    BY <1>4, <2>1, <2>2 DEF Adjacent, LastIn
  <2>3. CASE j \in P
    BY <1>4, <2>1, <2>3 DEF Adjacent
  <2> QED  BY <2>2, <2>3
<1>5. GetsLast(P, Q, n)
  BY <1>2, <1>3, <1>4 DEF GetsLast
<1> QED  BY <1>5

\* What an event that is read leaves.
LEMMA OneLess ==
  ASSUME NEW P, NEW Q, NEW inT \in BOOLEAN,
         \A i \in Q : i + 1 \in P /\ i \in Nat /\ i >= 1,
         \A i \in P : i \in Nat /\ (i = 1 \/ i - 1 \in Q),
         1 \in P <=> inT
  PROVE  /\ ~inT => (Q = {} <=> P = {})
         /\ inT => FirstIn(P, 1) /\ (Q = {} => LastIn(P, 1))
         /\ \A i \in Q :
              /\ LastIn(Q, i) => LastIn(P, i + 1)
              /\ FirstIn(Q, i) /\ ~inT => FirstIn(P, i + 1)
              /\ FirstIn(Q, i) /\ inT => Adjacent(P, 1, i + 1)
         /\ \A i, j \in Q : Adjacent(Q, i, j) => Adjacent(P, i + 1, j + 1)
<1>1. /\ \A i \in Q : i + 1 \in P /\ i \in Nat
      /\ \A i \in P : i \in Nat /\ (i = 1 \/ i - 1 \in Q)
      /\ 1 \in P <=> inT
  OBVIOUS
<1>2. \A i \in Q : i >= 1
  OBVIOUS
<1>3. ~inT => (Q = {} <=> P = {})
  BY <1>1
<1>4. inT => FirstIn(P, 1) /\ (Q = {} => LastIn(P, 1))
  <2>1. \A i \in P : i >= 1
    BY <1>1, <1>2
  <2> QED  BY <1>1, <2>1 DEF FirstIn, LastIn
<1>5. ASSUME NEW i \in Q, LastIn(Q, i) PROVE LastIn(P, i + 1)
  <2>1. ASSUME NEW k \in P PROVE k <= i + 1
    <3>1. CASE k = 1  BY <1>1, <1>2, <3>1
    <3>2. CASE k - 1 \in Q
      <4>1. k - 1 <= i
        BY <1>5, <3>2 DEF LastIn
      <4> QED  BY <1>1, <4>1
    <3> QED  BY <1>1, <3>1, <3>2
  <2> QED  BY <1>1, <2>1 DEF LastIn
<1>6. ASSUME NEW i \in Q, FirstIn(Q, i), NEW k \in P, k # 1 PROVE i + 1 <= k
  <2>1. k - 1 \in Q
    BY <1>1, <1>6
  <2>2. i <= k - 1
    BY <1>6, <2>1 DEF FirstIn
  <2> QED  BY <1>1, <2>2
<1>7. ASSUME NEW i \in Q, FirstIn(Q, i), ~inT PROVE FirstIn(P, i + 1)
  BY <1>1, <1>6, <1>7 DEF FirstIn
<1>8. ASSUME NEW i \in Q, FirstIn(Q, i), inT PROVE Adjacent(P, 1, i + 1)
  BY <1>1, <1>2, <1>6, <1>8 DEF Adjacent
<1>9. ASSUME NEW i \in Q, NEW j \in Q, Adjacent(Q, i, j) PROVE Adjacent(P, i + 1, j + 1)
  <2>1. ASSUME NEW k \in P PROVE k <= i + 1 \/ j + 1 <= k
    <3>1. CASE k = 1  BY <1>1, <1>2, <3>1
    <3>2. CASE k - 1 \in Q
      <4>1. k - 1 <= i \/ j <= k - 1
        BY <1>9, <3>2 DEF Adjacent
      <4> QED  BY <1>1, <4>1
    <3> QED  BY <1>1, <3>1, <3>2
  <2>2. i < j
    BY <1>9 DEF Adjacent
  <2> QED  BY <1>1, <2>1, <2>2 DEF Adjacent
<1> QED  BY <1>3, <1>4, <1>5, <1>7, <1>8, <1>9

-----------------------------------------------------------------------------
(* What the copy of the workspaces owes to the wire.                         *)

HyprEvents ==
  [name : {"createworkspacev2", "destroyworkspacev2"}, ws : HyprWs]
  \cup [name : {"moveworkspacev2"}, ws : HyprWs, monitor : {"here", "elsewhere"}]
  \cup [name : {"openwindow", "movewindowv2"}, win : HyprWin, ws : HyprWs]
  \cup [name : {"closewindow"}, win : HyprWin]
  \cup [name : {"configreloaded"}]
Creations == {c \in [ws : HyprWs, wins : SUBSET HyprWin, persistent : BOOLEAN] : c.persistent => c.ws \in Persistent}
Payloads == [win : HyprWin, ws : HyprWs, age : Nat]

HyprTypes ==
  /\ monitorOf \in [HyprWs -> {"none", "here", "elsewhere"}]
  /\ placeOf \in [HyprWin -> HyprWs \cup {NoWs}]
  /\ hyprWire \in Seq(HyprEvents)
  /\ hyprPhase \in {"start", "snapshot", "registered"}
  /\ Listed \subseteq HyprWs /\ windowMap \in [Listed -> SUBSET HyprWin] /\ persistent \subseteq Persistent
  /\ workspacesToCreate \in Seq(Creations) /\ workspacesToRemove \in Seq(HyprWs)
  /\ windowsToCreate \in Seq(Payloads)
  /\ refresh \in BOOLEAN
  /\ hyprPhase = "start" =>
       Listed = {} /\ workspacesToCreate = <<>> /\ workspacesToRemove = <<>> /\ windowsToCreate = <<>> /\ orphans = {}

\* The events about a workspace, and about a window.
AboutWs(w) == {e \in HyprEvents : e.name \in {"createworkspacev2", "destroyworkspacev2", "moveworkspacev2"} /\ e.ws = w}
AboutWin(x) == {e \in HyprEvents : e.name \in {"openwindow", "movewindowv2", "closewindow"} /\ e.win = x}
OfWs(w) == Positions(hyprWire, AboutWs(w))
OfWin(x) == Positions(hyprWire, AboutWin(x))

\* What is so after an event, if no other follows.
WsAfter(e, monitor) ==
  IF e.name = "createworkspacev2" THEN monitor # "none"
  ELSE IF e.name = "destroyworkspacev2" THEN monitor = "none"
  ELSE monitor = e.monitor
WinAfter(e, place) == IF e.name = "closewindow" THEN place = NoWs ELSE place = e.ws

\* A window opens after it has closed, and then only.
Turns(e, f) == f.name = "openwindow" <=> e.name = "closewindow"

\* The last event says what the compositor has; a workspace that is created was destroyed before, and
\* the windows it has now came after.
WsWire == \A w \in HyprWs :
  /\ \A i \in OfWs(w) : LastIn(OfWs(w), i) => WsAfter(hyprWire[i], monitorOf[w])
  /\ \A i, j \in OfWs(w) :
       Adjacent(OfWs(w), i, j) /\ hyprWire[j].name = "createworkspacev2" => hyprWire[i].name = "destroyworkspacev2"
  /\ \A i \in OfWs(w), x \in HyprWin :
       hyprWire[i].name = "createworkspacev2" /\ placeOf[x] = w => \E j \in OfWin(x) : i < j

WinWire == \A x \in HyprWin :
  /\ \A i \in OfWin(x) : LastIn(OfWin(x), i) => WinAfter(hyprWire[i], placeOf[x])
  /\ \A i, j \in OfWin(x) : Adjacent(OfWin(x), i, j) => Turns(hyprWire[i], hyprWire[j])
  /\ placeOf[x] # NoWs => monitorOf[placeOf[x]] # "none"

\* The workspaces the next update lists, but for the persistent ones.
Coming(w) == (w \in Listed /\ w \notin ToSet(workspacesToRemove)) \/ \E c \in ToSet(workspacesToCreate) : c.ws = w
PersistentComes(w) == (w \in Listed /\ w \in persistent) \/ \E c \in ToSet(workspacesToCreate) : c.ws = w /\ c.persistent
WsDue(w) ==
  /\ OfWs(w) = {} => (Coming(w) <=> monitorOf[w] = "here")
  /\ \A i \in OfWs(w) :
       FirstIn(OfWs(w), i) /\ LastIn(OfWs(w), i) /\ hyprWire[i].name = "createworkspacev2" /\ monitorOf[w] # "here" => ~Coming(w)
WsInv == hyprPhase # "start" =>
  /\ \A w \in HyprWs \ (raced \cup Persistent) : WsDue(w)
  /\ \A w \in Persistent : PersistentComes(w)
  /\ ~refresh =>
       workspacesToCreate = <<>> /\ workspacesToRemove = <<>> /\ \A p \in ToSet(windowsToCreate) : p.ws \notin Listed

\* Where the copy has a window: nowhere else than at w, and somewhere.
PlacedAt(x, w) ==
  /\ \A v \in Listed : x \in windowMap[v] => v = w
  /\ \A c \in ToSet(workspacesToCreate) : x \in c.wins => c.ws = w
  /\ \A p \in ToSet(windowsToCreate) : p.win = x => p.ws = w
InMap(x) == \E v \in Listed : x \in windowMap[v]
InCreation(x) == \E i \in DOMAIN workspacesToCreate :
  /\ x \in workspacesToCreate[i].wins /\ workspacesToCreate[i].ws \notin Listed
  /\ \A j \in DOMAIN workspacesToCreate : workspacesToCreate[j].ws = workspacesToCreate[i].ws => i <= j
Findable(x) == x \in orphans \/ Queued(x) \/ InMap(x) \/ InCreation(x)

\* The events that are left take it from w to where it is.
OnTrack(x, w) ==
  /\ OfWin(x) = {} => w = placeOf[x]
  /\ \A i \in OfWin(x) : FirstIn(OfWin(x), i) => (hyprWire[i].name = "openwindow" <=> w = NoWs)
Followed(x, w) ==
  /\ PlacedAt(x, w) /\ OnTrack(x, w)
  /\ IF w = NoWs THEN x \notin orphans ELSE Findable(x)
Present(x) == OfWin(x) = {} =>
  /\ placeOf[x] \in Listed => x \in windowMap[placeOf[x]] \/ Queued(x)
  /\ \A c \in ToSet(workspacesToCreate) : c.ws = placeOf[x] => x \in c.wins \/ Queued(x)
QueuedOnce(x) ==
  /\ Queued(x) => ~InMap(x)
  /\ \A i, j \in DOMAIN windowsToCreate : windowsToCreate[i].win = x /\ windowsToCreate[j].win = x => i = j
WinOk(x) == (\E w \in HyprWs \cup {NoWs} : Followed(x, w)) /\ Present(x) /\ QueuedOnce(x)
WinInv == hyprPhase # "start" => \A x \in HyprWin \ (raced \cup dropped) : WinOk(x)

HyprInv == HyprTypes /\ WsWire /\ WinWire /\ WsInv /\ WinInv

\* At rest that is what the two properties say.
LEMMA HyprInvAgrees == HyprInv => WorkspacesAgree /\ WindowsAgree
<1> SUFFICES ASSUME HyprInv PROVE WorkspacesAgree /\ WindowsAgree
  OBVIOUS
<1>1. ASSUME AtRest
      PROVE  /\ hyprPhase = "registered" /\ workspacesToCreate = <<>> /\ workspacesToRemove = <<>>
             /\ \A p \in ToSet(windowsToCreate) : p.ws \notin Listed
             /\ \A w \in HyprWs : OfWs(w) = {}
             /\ \A x \in HyprWin : OfWin(x) = {}
  <2>1. Len(hyprWire) = 0
    BY <1>1 DEF AtRest
  <2> QED  BY <1>1, <2>1 DEF HyprInv, WsInv, AtRest, OfWs, OfWin, Positions
<1>2. ASSUME AtRest, NEW w \in HyprWs \ raced PROVE w \in Listed <=> monitorOf[w] = "here" \/ w \in Persistent
  <2>1. ToSet(workspacesToCreate) = {} /\ ToSet(workspacesToRemove) = {}
    BY <1>1, <1>2 DEF ToSet
  <2>2. CASE w \in Persistent
    BY <1>1, <1>2, <2>1, <2>2 DEF HyprInv, WsInv, PersistentComes
  <2>3. CASE w \notin Persistent
    BY <1>1, <1>2, <2>1, <2>3 DEF HyprInv, WsInv, WsDue, Coming
  <2> QED  BY <2>2, <2>3
<1>3. ASSUME AtRest, NEW w \in Listed \ raced, NEW x \in HyprWin \ (raced \cup dropped) PROVE x \in windowMap[w] <=> placeOf[x] = w
  <2>1. Followed(x, placeOf[x]) /\ Present(x)
    BY <1>1, <1>3 DEF HyprInv, WinInv, WinOk, Followed, OnTrack
  <2>2. CASE x \in windowMap[w]
    BY <1>3, <2>1, <2>2 DEF Followed, PlacedAt
  <2>3. CASE placeOf[x] = w
    <3>1. x \in windowMap[w] \/ Queued(x)
      BY <1>1, <1>3, <2>1, <2>3 DEF Present
    <3>2. ASSUME Queued(x) PROVE FALSE
      <4>1. PICK p \in ToSet(windowsToCreate) : p.win = x
        BY <3>2 DEF Queued, ToSet
      <4>2. p.ws = w
        BY <2>1, <2>3, <4>1 DEF Followed, PlacedAt
      <4>3. p.ws \notin Listed
        BY <1>1, <1>3, <4>1
      <4> QED  BY <1>3, <4>2, <4>3
    <3> QED  BY <2>3, <3>1, <3>2
  <2> QED  BY <2>2, <2>3
<1> QED  BY <1>2, <1>3 DEF WorkspacesAgree, WindowsAgree

LEMMA HyprStarts == HyprWsInit => HyprInv
<1> SUFFICES ASSUME HyprWsInit PROVE HyprInv
  OBVIOUS
<1>1. hyprWire = <<>> /\ Len(hyprWire) = 0 /\ Listed = {} /\ windowMap \in [Listed -> SUBSET HyprWin]
  BY DEF HyprWsInit, Listed
<1>2. /\ hyprWire \in Seq(HyprEvents) /\ workspacesToCreate \in Seq(Creations) /\ workspacesToRemove \in Seq(HyprWs)
      /\ windowsToCreate \in Seq(Payloads)
  BY DEF HyprWsInit
<1>3. HyprTypes
  BY <1>1, <1>2 DEF HyprWsInit, HyprTypes, Existing
<1>4. WsWire
  BY <1>1 DEF WsWire, OfWs, Positions
<1>5. WinWire
  <2>1. \A x \in HyprWin : OfWin(x) = {}
    BY <1>1 DEF OfWin, Positions
  <2>2. \A x \in HyprWin : placeOf[x] # NoWs => monitorOf[placeOf[x]] # "none"
    BY HyprAssumption DEF HyprWsInit, Existing
  <2> QED  BY <2>1, <2>2 DEF WinWire
<1>6. hyprPhase = "start"
  BY DEF HyprWsInit
<1> QED  BY <1>3, <1>4, <1>5, <1>6 DEF HyprInv, WsInv, WinInv

-----------------------------------------------------------------------------
(* The wire.                                                                 *)

\* What reading the first event does to the events about one subject.
ReadsOff(s, t, T) ==
  /\ \A i \in Positions(t, T) :
       /\ i + 1 \in Positions(s, T) /\ t[i] = s[i + 1] /\ i \in Nat /\ i >= 1
       /\ LastIn(Positions(t, T), i) => LastIn(Positions(s, T), i + 1)
       /\ FirstIn(Positions(t, T), i) /\ Head(s) \notin T => FirstIn(Positions(s, T), i + 1)
       /\ FirstIn(Positions(t, T), i) /\ Head(s) \in T => Adjacent(Positions(s, T), 1, i + 1)
  /\ \A i \in Positions(s, T) : i \in Nat /\ (i = 1 \/ i - 1 \in Positions(t, T))
  /\ Head(s) \notin T => (Positions(t, T) = {} <=> Positions(s, T) = {})
  /\ Head(s) \in T => FirstIn(Positions(s, T), 1) /\ (Positions(t, T) = {} => LastIn(Positions(s, T), 1))
  /\ \A i, j \in Positions(t, T) : Adjacent(Positions(t, T), i, j) => Adjacent(Positions(s, T), i + 1, j + 1)

LEMMA ReadOff ==
  ASSUME NEW E, NEW s \in Seq(E), s # <<>>, NEW t, t = Tail(s), NEW T
  PROVE  ReadsOff(s, t, T)
<1> PICK inT \in BOOLEAN : inT <=> Head(s) \in T
  OBVIOUS
<1>0. /\ \A i \in Positions(t, T) : i + 1 \in Positions(s, T) /\ t[i] = s[i + 1] /\ i \in Nat
      /\ \A i \in Positions(s, T) : i \in Nat /\ (i = 1 \/ i - 1 \in Positions(t, T))
      /\ 1 \in Positions(s, T) <=> Head(s) \in T
  <2>1. /\ Len(s) \in Nat /\ Len(s) > 0 /\ Head(s) = s[1] /\ Len(t) = Len(s) - 1
        /\ \A i \in 1..Len(t) : t[i] = s[i + 1] /\ i + 1 \in 1..Len(s)
        /\ \A i \in 1..Len(s) : i = 1 \/ (i - 1 \in 1..Len(t) /\ s[i] = t[i - 1])
    BY HeadOff
  <2>2. \A i \in 1..Len(t) : i \in Nat
    BY <2>1
  <2>3. \A i \in 1..Len(s) : i \in Nat
    BY <2>1
  <2>4. 1 \in 1..Len(s)
    BY <2>1
  <2> QED  BY <2>1, <2>2, <2>3, <2>4 DEF Positions
<1> PICK P, Q : P = Positions(s, T) /\ Q = Positions(t, T)
  OBVIOUS
<1>1. /\ \A i \in Q : i + 1 \in P /\ t[i] = s[i + 1] /\ i \in Nat
      /\ \A i \in P : i \in Nat /\ (i = 1 \/ i - 1 \in Q)
      /\ 1 \in P <=> inT
  BY <1>0
<1>2. \A i \in Q : i >= 1
  <2>1. \A i \in 1..Len(t) : i >= 1
    OBVIOUS
  <2> QED  BY <2>1 DEF Positions
<1>3. /\ ~inT => (Q = {} <=> P = {})
      /\ inT => FirstIn(P, 1) /\ (Q = {} => LastIn(P, 1))
      /\ \A i \in Q :
           /\ LastIn(Q, i) => LastIn(P, i + 1)
           /\ FirstIn(Q, i) /\ ~inT => FirstIn(P, i + 1)
           /\ FirstIn(Q, i) /\ inT => Adjacent(P, 1, i + 1)
      /\ \A i, j \in Q : Adjacent(Q, i, j) => Adjacent(P, i + 1, j + 1)
  BY <1>1, <1>2, OneLess
<1> QED  BY <1>1, <1>2, <1>3 DEF ReadsOff

\* What it owes stays the same when an event is read.
LEMMA WireRead ==
  ASSUME HyprTypes, WsWire, WinWire, hyprWire # <<>>, hyprWire' = Tail(hyprWire), UNCHANGED <<monitorOf, placeOf>>
  PROVE  hyprWire' \in Seq(HyprEvents) /\ WsWire' /\ WinWire'
<1> PICK s, t : s = hyprWire /\ t = Tail(hyprWire)
  OBVIOUS
<1>1. s \in Seq(HyprEvents) /\ s # <<>> /\ hyprWire' = t /\ t = Tail(s) /\ t \in Seq(HyprEvents)
  <2>1. hyprWire \in Seq(HyprEvents) /\ Tail(hyprWire) \in Seq(HyprEvents)
    BY HeadOff DEF HyprTypes
  <2> QED  BY <2>1
<1>2. \A T : ReadsOff(s, t, T)
  BY <1>1, ReadOff
<1>3. WsWire'
  <2> SUFFICES ASSUME NEW w \in HyprWs
               PROVE  /\ \A i \in Positions(t, AboutWs(w)) : LastIn(Positions(t, AboutWs(w)), i) => WsAfter(t[i], monitorOf[w])
                      /\ \A i, j \in Positions(t, AboutWs(w)) :
                           Adjacent(Positions(t, AboutWs(w)), i, j) /\ t[j].name = "createworkspacev2" => t[i].name = "destroyworkspacev2"
                      /\ \A i \in Positions(t, AboutWs(w)), x \in HyprWin :
                           t[i].name = "createworkspacev2" /\ placeOf[x] = w => \E j \in Positions(t, AboutWin(x)) : i < j
    BY <1>1 DEF WsWire, OfWs, OfWin
  <2> PICK P, Q : P = Positions(s, AboutWs(w)) /\ Q = Positions(t, AboutWs(w))
    OBVIOUS
  <2>1. /\ \A i \in P : LastIn(P, i) => WsAfter(s[i], monitorOf[w])
        /\ \A i, j \in P : Adjacent(P, i, j) /\ s[j].name = "createworkspacev2" => s[i].name = "destroyworkspacev2"
        /\ \A i \in P, x \in HyprWin :
             s[i].name = "createworkspacev2" /\ placeOf[x] = w => \E j \in Positions(s, AboutWin(x)) : i < j
    BY DEF WsWire, OfWs, OfWin
  <2>2. /\ \A i \in Q : i + 1 \in P /\ t[i] = s[i + 1] /\ i \in Nat /\ (LastIn(Q, i) => LastIn(P, i + 1))
        /\ \A i, j \in Q : Adjacent(Q, i, j) => Adjacent(P, i + 1, j + 1)
    BY <1>2 DEF ReadsOff
  <2>3. ASSUME NEW i \in Q, LastIn(Q, i) PROVE WsAfter(t[i], monitorOf[w])
    BY <2>1, <2>2, <2>3
  <2>4. ASSUME NEW i \in Q, NEW j \in Q, Adjacent(Q, i, j), t[j].name = "createworkspacev2" PROVE t[i].name = "destroyworkspacev2"
    <3>1. i + 1 \in P /\ j + 1 \in P /\ Adjacent(P, i + 1, j + 1) /\ t[i] = s[i + 1] /\ t[j] = s[j + 1]
      BY <2>2, <2>4
    <3> QED  BY <2>1, <2>4, <3>1
  <2>5. ASSUME NEW i \in Q, NEW x \in HyprWin, t[i].name = "createworkspacev2", placeOf[x] = w
        PROVE  \E j \in Positions(t, AboutWin(x)) : i < j
    <3>1. PICK j \in Positions(s, AboutWin(x)) : i + 1 < j
      BY <2>1, <2>2, <2>5
    <3>2. j \in Nat /\ i \in Nat /\ (j = 1 \/ j - 1 \in Positions(t, AboutWin(x)))
      BY <1>2, <2>2 DEF ReadsOff
    <3> QED  BY <3>1, <3>2
  <2> QED  BY <2>3, <2>4, <2>5
<1>4. WinWire'
  <2> SUFFICES ASSUME NEW x \in HyprWin
               PROVE  /\ \A i \in OfWin(x)' : LastIn(OfWin(x)', i) => WinAfter(t[i], placeOf[x])
                      /\ \A i, j \in OfWin(x)' : Adjacent(OfWin(x)', i, j) => Turns(t[i], t[j])
                      /\ placeOf[x] # NoWs => monitorOf[placeOf[x]] # "none"
    BY <1>1 DEF WinWire
  <2>0. OfWin(x) = Positions(s, AboutWin(x)) /\ OfWin(x)' = Positions(t, AboutWin(x))
    BY <1>1 DEF OfWin
  <2> PICK P, Q : P = OfWin(x) /\ Q = OfWin(x)'
    OBVIOUS
  <2>1. \A i \in P : LastIn(P, i) => WinAfter(s[i], placeOf[x])
    BY DEF WinWire
  <2>2. \A i, j \in P : Adjacent(P, i, j) => Turns(s[i], s[j])
    BY DEF WinWire
  <2>3. \A i \in Q : i + 1 \in P /\ t[i] = s[i + 1] /\ i \in Nat /\ (LastIn(Q, i) => LastIn(P, i + 1))
    BY <1>2, <2>0 DEF ReadsOff
  <2>4. \A i, j \in Q : Adjacent(Q, i, j) => Adjacent(P, i + 1, j + 1)
    BY <1>2, <2>0 DEF ReadsOff
  <2>5. ASSUME NEW i \in Q, LastIn(Q, i) PROVE WinAfter(t[i], placeOf[x])
    BY <2>1, <2>3, <2>5
  <2>6. ASSUME NEW i \in Q, NEW j \in Q, Adjacent(Q, i, j) PROVE Turns(t[i], t[j])
    <3>1. i + 1 \in P /\ j + 1 \in P /\ Adjacent(P, i + 1, j + 1) /\ t[i] = s[i + 1] /\ t[j] = s[j + 1]
      BY <2>3, <2>4, <2>6
    <3> QED  BY <2>2, <3>1
  <2>7. placeOf[x] # NoWs => monitorOf[placeOf[x]] # "none"
    BY DEF WinWire
  <2> QED  BY <2>5, <2>6, <2>7
<1> QED  BY <1>1, <1>3, <1>4

\* What a change in the compositor comes to, when e is written about it.
Tellings(e) ==
  /\ \A w \in HyprWs : IF e \in AboutWs(w) THEN WsAfter(e, monitorOf'[w]) /\ (e.name = "createworkspacev2" => monitorOf[w] = "none")
                                           ELSE monitorOf'[w] = monitorOf[w]
  /\ \A x \in HyprWin : IF e \in AboutWin(x) THEN WinAfter(e, placeOf'[x]) /\ (e.name = "openwindow" <=> placeOf[x] = NoWs)
                                             ELSE placeOf'[x] = placeOf[x]
  /\ \A x \in HyprWin : placeOf'[x] # NoWs => monitorOf'[placeOf'[x]] # "none"

Grown(s, t, e, n) == \A T : Behind(s, t, e, n, T) /\ (e \in T => GetsLast(Positions(s, T), Positions(t, T), n))
LEMMA WireGrows ==
  ASSUME HyprTypes, NEW e \in HyprEvents, hyprWire' = Append(hyprWire, e)
  PROVE  hyprWire' \in Seq(HyprEvents) /\ Grown(hyprWire, hyprWire', e, Len(hyprWire) + 1)
<1> PICK s, t, n : s = hyprWire /\ t = Append(hyprWire, e) /\ n = Len(hyprWire) + 1
  OBVIOUS
<1>1. s \in Seq(HyprEvents) /\ hyprWire' = t /\ Ends(t, s, e) /\ t \in Seq(HyprEvents)
  <2>1. hyprWire \in Seq(HyprEvents) /\ Append(hyprWire, e) \in Seq(HyprEvents) /\ Ends(Append(hyprWire, e), hyprWire, e)
    BY AppendEnds DEF HyprTypes
  <2> QED  BY <2>1
<1>2. ASSUME NEW T
      PROVE  /\ n \in Nat
             /\ \A i \in Positions(s, T) : i \in Positions(t, T) /\ t[i] = s[i] /\ i < n /\ i \in Nat
             /\ e \notin T => Positions(t, T) = Positions(s, T)
             /\ e \in T => Positions(t, T) = Positions(s, T) \cup {n} /\ t[n] = e
  <2>1. Behind(s, t, e, Len(s) + 1, T)
    BY <1>1, PutBehind
  <2>2. Behind(s, t, e, n, T)
    BY <2>1
  <2> QED  BY <2>2 DEF Behind
<1>3. ASSUME NEW T, e \in T PROVE GetsLast(Positions(s, T), Positions(t, T), n)
  <2>1. n \in Nat /\ Positions(t, T) = Positions(s, T) \cup {n} /\ \A i \in Positions(s, T) : i < n /\ i \in Nat
    BY <1>2, <1>3
  <2>2. GetsLast(Positions(s, T), Positions(s, T) \cup {n}, n)
    BY <2>1, OneMore
  <2> QED  BY <2>1, <2>2
<1>4. Grown(s, t, e, n)
  BY <1>2, <1>3 DEF Grown, Behind
<1> QED  BY <1>1, <1>4

LEMMA WireWritten ==
  ASSUME HyprTypes, WsWire, WinWire, NEW e \in HyprEvents, hyprWire' = Append(hyprWire, e), Tellings(e)
  PROVE  hyprWire' \in Seq(HyprEvents) /\ WsWire' /\ WinWire'
<1> PICK s, t, n : s = hyprWire /\ t = hyprWire' /\ n = Len(hyprWire) + 1
  OBVIOUS
<1>1. s \in Seq(HyprEvents) /\ hyprWire' = t /\ t \in Seq(HyprEvents)
  BY WireGrows DEF HyprTypes
<1>2. Grown(s, t, e, n)
  BY WireGrows
<1>3. \A T : e \in T => GetsLast(Positions(s, T), Positions(t, T), n)
  BY <1>2 DEF Grown
<1>4. WsWire'
  <2> SUFFICES ASSUME NEW w \in HyprWs
               PROVE  /\ \A i \in OfWs(w)' : LastIn(OfWs(w)', i) => WsAfter(t[i], monitorOf'[w])
                      /\ \A i, j \in OfWs(w)' :
                           Adjacent(OfWs(w)', i, j) /\ t[j].name = "createworkspacev2" => t[i].name = "destroyworkspacev2"
                      /\ \A i \in OfWs(w)', x \in HyprWin :
                           t[i].name = "createworkspacev2" /\ placeOf'[x] = w => \E j \in OfWin(x)' : i < j
    BY <1>1 DEF WsWire
  <2>0. OfWs(w) = Positions(s, AboutWs(w)) /\ OfWs(w)' = Positions(t, AboutWs(w))
    BY <1>1 DEF OfWs
  <2> PICK P, Q : P = OfWs(w) /\ Q = OfWs(w)'
    OBVIOUS
  <2>1. /\ n \in Nat /\ \A i \in P : i \in Q /\ t[i] = s[i] /\ i < n /\ i \in Nat
        /\ e \notin AboutWs(w) => Q = P
        /\ e \in AboutWs(w) => Q = P \cup {n} /\ t[n] = e
    <3>1. Behind(s, t, e, n, AboutWs(w))
      BY <1>2 DEF Grown
    <3> QED  BY <2>0, <3>1 DEF Behind
  <2>2. \A i \in P : LastIn(P, i) => WsAfter(s[i], monitorOf[w])
    BY DEF WsWire
  <2>3. \A i, j \in P : Adjacent(P, i, j) /\ s[j].name = "createworkspacev2" => s[i].name = "destroyworkspacev2"
    BY DEF WsWire
  <2>4. ASSUME NEW i \in Q, LastIn(Q, i) PROVE WsAfter(t[i], monitorOf'[w])
    <3>1. CASE e \in AboutWs(w)
      <4>1. i = n
        BY <1>3, <2>0, <2>4, <3>1 DEF GetsLast
      <4> QED  BY <2>1, <3>1, <4>1 DEF Tellings
    <3>2. CASE e \notin AboutWs(w)
      BY <2>1, <2>2, <2>4, <3>2 DEF Tellings
    <3> QED  BY <3>1, <3>2
  <2>5. ASSUME NEW i \in Q, NEW j \in Q, Adjacent(Q, i, j), t[j].name = "createworkspacev2" PROVE t[i].name = "destroyworkspacev2"
    <3>1. CASE Adjacent(P, i, j)
      <4>1. i \in P /\ j \in P
        BY <3>1 DEF Adjacent
      <4> QED  BY <2>1, <2>3, <2>5, <3>1, <4>1
    <3>2. CASE e \in AboutWs(w) /\ j = n /\ LastIn(P, i)
      <4>1. i \in P /\ t[i] = s[i] /\ e.name = "createworkspacev2" /\ monitorOf[w] = "none"
        BY <2>1, <2>5, <3>2 DEF LastIn, Tellings
      <4>2. s[i] \in AboutWs(w) /\ WsAfter(s[i], "none")
        BY <2>0, <2>2, <3>2, <4>1 DEF Positions
      <4>3. s[i].name = "moveworkspacev2" => s[i].monitor \in {"here", "elsewhere"}
        BY <4>2 DEF AboutWs, HyprEvents
      <4>4. s[i].name \in {"createworkspacev2", "destroyworkspacev2", "moveworkspacev2"}
        BY <4>2 DEF AboutWs
      <4>5. s[i].name # "createworkspacev2" /\ s[i].name # "moveworkspacev2"
        BY <4>2, <4>3 DEF WsAfter
      <4> QED  BY <4>1, <4>4, <4>5
    <3>3. CASE e \in AboutWs(w)
      <4>1. GetsLast(P, Q, n)
        BY <1>3, <2>0, <3>3
      <4>2. Adjacent(P, i, j) \/ (j = n /\ LastIn(P, i))
        BY <2>5, <4>1 DEF GetsLast
      <4> QED  BY <3>1, <3>2, <3>3, <4>2
    <3>4. CASE e \notin AboutWs(w)
      BY <2>1, <2>5, <3>1, <3>4
    <3> QED  BY <3>3, <3>4
  <2>6. ASSUME NEW i \in Q, NEW x \in HyprWin, t[i].name = "createworkspacev2", placeOf'[x] = w PROVE \E j \in OfWin(x)' : i < j
    <3>0. OfWin(x) = Positions(s, AboutWin(x)) /\ OfWin(x)' = Positions(t, AboutWin(x))
      BY <1>1 DEF OfWin
    <3>1. CASE i \in P /\ e \in AboutWin(x)
      <4>1. n \in OfWin(x)' /\ i < n
        BY <1>2, <2>1, <3>0, <3>1 DEF Grown, Behind
      <4> QED  BY <4>1
    <3>2. CASE i \in P /\ e \notin AboutWin(x)
      <4>1. placeOf[x] = w /\ s[i].name = "createworkspacev2"
        BY <2>1, <2>6, <3>2 DEF Tellings
      <4>2. PICK j \in OfWin(x) : i < j
        BY <3>2, <4>1 DEF WsWire
      <4> QED  BY <1>2, <3>0, <4>2 DEF Grown, Behind
    <3>3. CASE i \notin P
      <4>1. i = n /\ e \in AboutWs(w) /\ t[n] = e
        BY <2>1, <3>3
      <4>2. monitorOf[w] = "none" /\ e \notin AboutWin(x)
        BY <2>6, <4>1 DEF Tellings, AboutWs, AboutWin
      <4>3. placeOf[x] = w /\ w # NoWs
        BY <2>6, <4>2, HyprAssumption DEF Tellings
      <4> QED  BY <4>2, <4>3 DEF WinWire
    <3> QED  BY <3>1, <3>2, <3>3
  <2> QED  BY <2>4, <2>5, <2>6
<1>5. WinWire'
  <2> SUFFICES ASSUME NEW x \in HyprWin
               PROVE  /\ \A i \in OfWin(x)' : LastIn(OfWin(x)', i) => WinAfter(t[i], placeOf'[x])
                      /\ \A i, j \in OfWin(x)' : Adjacent(OfWin(x)', i, j) => Turns(t[i], t[j])
    BY <1>1 DEF WinWire, Tellings
  <2>0. OfWin(x) = Positions(s, AboutWin(x)) /\ OfWin(x)' = Positions(t, AboutWin(x))
    BY <1>1 DEF OfWin
  <2> PICK P, Q : P = OfWin(x) /\ Q = OfWin(x)'
    OBVIOUS
  <2>1. /\ n \in Nat /\ \A i \in P : i \in Q /\ t[i] = s[i] /\ i < n /\ i \in Nat
        /\ e \notin AboutWin(x) => Q = P
        /\ e \in AboutWin(x) => Q = P \cup {n} /\ t[n] = e
    <3>1. Behind(s, t, e, n, AboutWin(x))
      BY <1>2 DEF Grown
    <3> QED  BY <2>0, <3>1 DEF Behind
  <2>2. \A i \in P : LastIn(P, i) => WinAfter(s[i], placeOf[x])
    BY DEF WinWire
  <2>3. \A i, j \in P : Adjacent(P, i, j) => Turns(s[i], s[j])
    BY DEF WinWire
  <2>4. ASSUME NEW i \in Q, LastIn(Q, i) PROVE WinAfter(t[i], placeOf'[x])
    <3>1. CASE e \in AboutWin(x)
      <4>1. i = n
        BY <1>3, <2>0, <2>4, <3>1 DEF GetsLast
      <4> QED  BY <2>1, <3>1, <4>1 DEF Tellings
    <3>2. CASE e \notin AboutWin(x)
      BY <2>1, <2>2, <2>4, <3>2 DEF Tellings
    <3> QED  BY <3>1, <3>2
  <2>5. ASSUME NEW i \in Q, NEW j \in Q, Adjacent(Q, i, j) PROVE Turns(t[i], t[j])
    <3>1. CASE Adjacent(P, i, j)
      <4>1. i \in P /\ j \in P
        BY <3>1 DEF Adjacent
      <4> QED  BY <2>1, <2>3, <3>1, <4>1
    <3>2. CASE e \in AboutWin(x) /\ j = n /\ LastIn(P, i)
      <4>1. i \in P /\ t[i] = s[i] /\ t[j] = e /\ (e.name = "openwindow" <=> placeOf[x] = NoWs)
        BY <2>1, <3>2 DEF LastIn, Tellings
      <4>2. s[i] \in AboutWin(x) /\ WinAfter(s[i], placeOf[x])
        BY <2>0, <2>2, <3>2, <4>1 DEF Positions
      <4>3. s[i].name # "closewindow" => s[i].ws \in HyprWs
        BY <4>2 DEF AboutWin, HyprEvents
      <4>4. s[i].name = "closewindow" <=> placeOf[x] = NoWs
        BY <4>2, <4>3, HyprAssumption DEF WinAfter
      <4> QED  BY <4>1, <4>4 DEF Turns
    <3>3. CASE e \in AboutWin(x)
      <4>1. GetsLast(P, Q, n)
        BY <1>3, <2>0, <3>3
      <4>2. Adjacent(P, i, j) \/ (j = n /\ LastIn(P, i))
        BY <2>5, <4>1 DEF GetsLast
      <4> QED  BY <3>1, <3>2, <3>3, <4>2
    <3>4. CASE e \notin AboutWin(x)
      BY <2>1, <2>5, <3>1, <3>4
    <3> QED  BY <3>3, <3>4
  <2> QED  BY <2>4, <2>5
<1> QED  BY <1>1, <1>4, <1>5

\* What is written is not yet heard.
LEMMA ModelWaits ==
  ASSUME HyprInv, NEW e \in HyprEvents, hyprWire' = Append(hyprWire, e), Tellings(e),
         UNCHANGED <<hyprPhase, hyprModel, hyprQueues, refresh, raced, dropped>>
  PROVE  WsInv' /\ WinInv'
<1> USE DEF hyprModel, hyprQueues
<1> PICK s, t, n : s = hyprWire /\ t = hyprWire' /\ n = Len(hyprWire) + 1
  OBVIOUS
<1>1. Grown(s, t, e, n)
  BY WireGrows DEF HyprInv
<1>2. Listed' = Listed
  BY DEF Listed
<1>3. ASSUME NEW w \in HyprWs PROVE Coming(w)' = Coming(w) /\ PersistentComes(w)' = PersistentComes(w)
  BY <1>2 DEF Coming, PersistentComes
<1>4. WsInv'
  <2> SUFFICES ASSUME hyprPhase # "start"
               PROVE  /\ \A w \in HyprWs \ (raced \cup Persistent) :
                           /\ OfWs(w)' = {} => (Coming(w) <=> monitorOf'[w] = "here")
                           /\ \A i \in OfWs(w)' :
                                FirstIn(OfWs(w)', i) /\ LastIn(OfWs(w)', i) /\ t[i].name = "createworkspacev2" /\ monitorOf'[w] # "here" => ~Coming(w)
                      /\ \A w \in Persistent : PersistentComes(w)
                      /\ ~refresh =>
                           workspacesToCreate = <<>> /\ workspacesToRemove = <<>> /\ \A p \in ToSet(windowsToCreate) : p.ws \notin Listed
    BY <1>2, <1>3, HyprAssumption DEF WsInv, WsDue
  <2>1. ASSUME NEW w \in HyprWs \ (raced \cup Persistent)
        PROVE  /\ OfWs(w)' = {} => (Coming(w) <=> monitorOf'[w] = "here")
               /\ \A i \in OfWs(w)' :
                    FirstIn(OfWs(w)', i) /\ LastIn(OfWs(w)', i) /\ t[i].name = "createworkspacev2" /\ monitorOf'[w] # "here" => ~Coming(w)
    <3>0. OfWs(w) = Positions(s, AboutWs(w)) /\ OfWs(w)' = Positions(t, AboutWs(w))
      BY DEF OfWs
    <3> PICK P, Q : P = OfWs(w) /\ Q = OfWs(w)'
      OBVIOUS
    <3>1. /\ P = {} => (Coming(w) <=> monitorOf[w] = "here")
          /\ \A i \in P : FirstIn(P, i) /\ LastIn(P, i) /\ s[i].name = "createworkspacev2" /\ monitorOf[w] # "here" => ~Coming(w)
      BY DEF HyprInv, WsInv, WsDue
    <3>2. Behind(s, t, e, n, AboutWs(w))
      BY <1>1 DEF Grown
    <3>3. CASE e \in AboutWs(w)
      <4>1. GetsLast(P, Q, n) /\ n \notin P /\ t[n] = e
        BY <1>1, <3>0, <3>2, <3>3 DEF Grown, Behind
      <4>2. ASSUME NEW i \in Q, FirstIn(Q, i), LastIn(Q, i), t[i].name = "createworkspacev2" PROVE ~Coming(w)
        <5>1. i = n /\ P = {}
          BY <4>1, <4>2 DEF GetsLast, FirstIn
        <5>2. monitorOf[w] = "none"
          BY <3>3, <4>1, <4>2, <5>1 DEF Tellings
        <5> QED  BY <3>1, <5>1, <5>2
      <4> QED  BY <4>1, <4>2 DEF GetsLast
    <3>4. CASE e \notin AboutWs(w)
      <4>1. Q = P /\ \A i \in P : t[i] = s[i]
        BY <3>0, <3>2, <3>4 DEF Behind
      <4>2. monitorOf'[w] = monitorOf[w]
        BY <3>4 DEF Tellings
      <4> QED  BY <3>1, <4>1, <4>2
    <3> QED  BY <3>3, <3>4
  <2> QED  BY <2>1 DEF HyprInv, WsInv
<1>5. WinInv'
  <2>1. ASSUME NEW x \in HyprWin, WinOk(x) PROVE WinOk(x)'
    <3>0. OfWin(x) = Positions(s, AboutWin(x)) /\ OfWin(x)' = Positions(t, AboutWin(x))
      BY DEF OfWin
    <3> PICK P, Q : P = OfWin(x) /\ Q = OfWin(x)'
      OBVIOUS
    <3>1. Behind(s, t, e, n, AboutWin(x))
      BY <1>1 DEF Grown
    <3>2. QueuedOnce(x)' /\ Queued(x)' = Queued(x) /\ InMap(x)' = InMap(x) /\ InCreation(x)' = InCreation(x)
      BY <1>2, <2>1 DEF WinOk, QueuedOnce, Queued, InMap, InCreation
    <3>3. \A w : PlacedAt(x, w)' = PlacedAt(x, w)
      BY <1>2 DEF PlacedAt
    <3>4. Findable(x)' = Findable(x)
      BY <3>2 DEF Findable
    <3>5. PICK w \in HyprWs \cup {NoWs} : Followed(x, w)
      BY <2>1 DEF WinOk
    <3>6. CASE e \in AboutWin(x)
      <4>1. GetsLast(P, Q, n) /\ n \notin P /\ t[n] = e
        BY <1>1, <3>0, <3>1, <3>6 DEF Grown, Behind
      <4>2. Present(x)'
        BY <4>1 DEF Present, GetsLast
      <4>3. ASSUME NEW i \in Q, FirstIn(Q, i) PROVE t[i].name = "openwindow" <=> w = NoWs
        <5>1. CASE FirstIn(P, i)
          <6>1. i \in P /\ t[i] = s[i]
            BY <3>0, <3>1, <5>1 DEF FirstIn, Behind
          <6> QED  BY <3>5, <5>1, <6>1 DEF Followed, OnTrack
        <5>2. CASE P = {} /\ i = n
          <6>1. w = placeOf[x]
            BY <3>5, <5>2 DEF Followed, OnTrack
          <6> QED  BY <3>6, <4>1, <5>2, <6>1 DEF Tellings
        <5> QED  BY <4>1, <4>3, <5>1, <5>2 DEF GetsLast
      <4>4. Followed(x, w)'
        <5>1. PlacedAt(x, w) /\ (IF w = NoWs THEN x \notin orphans ELSE Findable(x)) /\ Q # {}
          BY <3>5, <4>1 DEF Followed, GetsLast
        <5> QED  BY <3>3, <3>4, <4>3, <5>1 DEF Followed, OnTrack
      <4> QED  BY <3>2, <3>5, <4>2, <4>4 DEF WinOk
    <3>7. CASE e \notin AboutWin(x)
      <4>1. Q = P /\ \A i \in P : t[i] = s[i]
        BY <3>0, <3>1, <3>7 DEF Behind
      <4>2. placeOf'[x] = placeOf[x]
        BY <3>7 DEF Tellings
      <4>3. Present(x)'
        BY <1>2, <2>1, <3>2, <4>1, <4>2 DEF WinOk, Present
      <4>4. Followed(x, w)'
        BY <3>3, <3>4, <3>5, <4>1, <4>2 DEF Followed, OnTrack
      <4> QED  BY <3>2, <3>5, <4>3, <4>4 DEF WinOk
    <3> QED  BY <3>6, <3>7
  <2> QED  BY <2>1 DEF HyprInv, WinInv
<1> QED  BY <1>4, <1>5

LEMMA NewsTypes ==
  ASSUME HyprInv, NEW e \in HyprEvents, News(e),
         monitorOf' \in [HyprWs -> {"none", "here", "elsewhere"}], placeOf' \in [HyprWin -> HyprWs \cup {NoWs}]
  PROVE  HyprTypes'
<1>1. hyprWire' = Append(hyprWire, e) /\ UNCHANGED <<hyprPhase, hyprModel, hyprQueues, refresh, raced, dropped>>
  BY DEF News
<1>2. hyprWire' \in Seq(HyprEvents)
  BY <1>1 DEF HyprInv, HyprTypes
<1>3. HyprTypes
  BY DEF HyprInv
<1> QED  BY <1>1, <1>2, <1>3 DEF HyprTypes, hyprModel, hyprQueues, Listed

LEMMA NewsKeeps ==
  ASSUME HyprInv, NEW e \in HyprEvents, News(e), Tellings(e),
         monitorOf' \in [HyprWs -> {"none", "here", "elsewhere"}], placeOf' \in [HyprWin -> HyprWs \cup {NoWs}]
  PROVE  HyprInv'
<1>1. hyprWire' = Append(hyprWire, e) /\ UNCHANGED <<hyprPhase, hyprModel, hyprQueues, refresh, raced, dropped>>
  BY DEF News
<1>2. HyprTypes'
  BY NewsTypes
<1>3. WsWire' /\ WinWire'
  BY <1>1, WireWritten DEF HyprInv
<1>4. WsInv' /\ WinInv'
  BY <1>1, ModelWaits
<1> QED  BY <1>2, <1>3, <1>4 DEF HyprInv

LEMMA HyprlandTells == ASSUME HyprInv, CompositorStep PROVE HyprInv'
<1>0. /\ monitorOf \in [HyprWs -> {"none", "here", "elsewhere"}] /\ placeOf \in [HyprWin -> HyprWs \cup {NoWs}]
      /\ \A x \in HyprWin : placeOf[x] # NoWs => monitorOf[placeOf[x]] # "none"
      /\ NoWs \notin HyprWs
  BY HyprAssumption DEF HyprInv, HyprTypes, WinWire
<1>1. ASSUME NEW w \in HyprWs, NEW m \in {"here", "elsewhere"}, WsCreated(w, m) PROVE HyprInv'
  <2> PICK e \in HyprEvents : e = [name |-> "createworkspacev2", ws |-> w]
    BY DEF HyprEvents
  <2>1. monitorOf' \in [HyprWs -> {"none", "here", "elsewhere"}] /\ placeOf' \in [HyprWin -> HyprWs \cup {NoWs}] /\ News(e)
    BY <1>0, <1>1 DEF WsCreated
  <2>2. Tellings(e)
    <3>1. \A v \in HyprWs : e \in AboutWs(v) <=> v = w
      BY DEF AboutWs
    <3>2. \A x \in HyprWin : e \notin AboutWin(x)
      BY DEF AboutWin
    <3>3. \A v \in HyprWs : monitorOf'[v] = IF v = w THEN m ELSE monitorOf[v]
      BY <1>0, <1>1 DEF WsCreated
    <3>4. placeOf' = placeOf /\ monitorOf[w] = "none" /\ m # "none"
      BY <1>1 DEF WsCreated
    <3>5. WsAfter(e, m)
      BY <3>4 DEF WsAfter
    <3>6. \A x \in HyprWin : placeOf'[x] # NoWs => monitorOf'[placeOf'[x]] # "none"
      BY <1>0, <3>3, <3>4
    <3> QED  BY <3>1, <3>2, <3>3, <3>4, <3>5, <3>6 DEF Tellings
  <2> QED  BY <2>1, <2>2, NewsKeeps
<1>2. ASSUME NEW w \in HyprWs, WsDestroyed(w) PROVE HyprInv'
  <2> PICK e \in HyprEvents : e = [name |-> "destroyworkspacev2", ws |-> w]
    BY DEF HyprEvents
  <2>1. monitorOf' \in [HyprWs -> {"none", "here", "elsewhere"}] /\ placeOf' \in [HyprWin -> HyprWs \cup {NoWs}] /\ News(e)
    BY <1>0, <1>2 DEF WsDestroyed
  <2>2. Tellings(e)
    <3>1. \A v \in HyprWs : e \in AboutWs(v) <=> v = w
      BY DEF AboutWs
    <3>2. \A x \in HyprWin : e \notin AboutWin(x)
      BY DEF AboutWin
    <3>3. \A v \in HyprWs : monitorOf'[v] = IF v = w THEN "none" ELSE monitorOf[v]
      BY <1>0, <1>2 DEF WsDestroyed
    <3>4. placeOf' = placeOf /\ \A x \in HyprWin : placeOf[x] # w
      BY <1>2 DEF WsDestroyed, WindowsOn
    <3>5. WsAfter(e, "none") /\ e.name # "createworkspacev2"
      BY DEF WsAfter
    <3>6. \A x \in HyprWin : placeOf'[x] # NoWs => monitorOf'[placeOf'[x]] # "none"
      BY <1>0, <3>3, <3>4
    <3> QED  BY <3>1, <3>2, <3>3, <3>4, <3>5, <3>6 DEF Tellings
  <2> QED  BY <2>1, <2>2, NewsKeeps
<1>3. ASSUME NEW w \in HyprWs, NEW m \in {"here", "elsewhere"}, WsMoved(w, m) PROVE HyprInv'
  <2> PICK e \in HyprEvents : e = [name |-> "moveworkspacev2", ws |-> w, monitor |-> m]
    BY DEF HyprEvents
  <2>1. monitorOf' \in [HyprWs -> {"none", "here", "elsewhere"}] /\ placeOf' \in [HyprWin -> HyprWs \cup {NoWs}] /\ News(e)
    BY <1>0, <1>3 DEF WsMoved
  <2>2. Tellings(e)
    <3>1. \A v \in HyprWs : e \in AboutWs(v) <=> v = w
      BY DEF AboutWs
    <3>2. \A x \in HyprWin : e \notin AboutWin(x)
      BY DEF AboutWin
    <3>3. \A v \in HyprWs : monitorOf'[v] = IF v = w THEN m ELSE monitorOf[v]
      BY <1>0, <1>3 DEF WsMoved
    <3>4. placeOf' = placeOf /\ m # "none"
      BY <1>3 DEF WsMoved
    <3>5. WsAfter(e, m) /\ e.name # "createworkspacev2"
      BY DEF WsAfter
    <3>6. \A x \in HyprWin : placeOf'[x] # NoWs => monitorOf'[placeOf'[x]] # "none"
      BY <1>0, <3>3, <3>4
    <3> QED  BY <3>1, <3>2, <3>3, <3>4, <3>5, <3>6 DEF Tellings
  <2> QED  BY <2>1, <2>2, NewsKeeps
<1>4. ASSUME NEW x \in HyprWin, NEW w \in HyprWs, WinOpened(x, w) \/ WinMoved(x, w) PROVE HyprInv'
  <2> PICK e \in HyprEvents : /\ e.name \in {"openwindow", "movewindowv2"} /\ e.win = x /\ e.ws = w /\ News(e)
                              /\ e.name = "openwindow" <=> placeOf[x] = NoWs
    <3>1. [name |-> "openwindow", win |-> x, ws |-> w] \in HyprEvents /\ [name |-> "movewindowv2", win |-> x, ws |-> w] \in HyprEvents
      BY DEF HyprEvents
    <3> QED  BY <1>4, <3>1 DEF WinOpened, WinMoved
  <2>1. /\ monitorOf' = monitorOf /\ monitorOf[w] # "none" /\ placeOf' = [placeOf EXCEPT ![x] = w]
    BY <1>4 DEF WinOpened, WinMoved, Existing
  <2>2. placeOf' \in [HyprWin -> HyprWs \cup {NoWs}]
    BY <1>0, <2>1
  <2>3. Tellings(e)
    <3>1. \A v \in HyprWs : e \notin AboutWs(v)
      BY DEF AboutWs
    <3>2. \A y \in HyprWin : e \in AboutWin(y) <=> y = x
      BY DEF AboutWin
    <3>3. \A y \in HyprWin : placeOf'[y] = IF y = x THEN w ELSE placeOf[y]
      BY <1>0, <2>1
    <3>4. WinAfter(e, w)
      BY DEF WinAfter
    <3>5. \A y \in HyprWin : placeOf'[y] # NoWs => monitorOf'[placeOf'[y]] # "none"
      BY <1>0, <2>1, <3>3
    <3> QED  BY <2>1, <3>1, <3>2, <3>3, <3>4, <3>5 DEF Tellings
  <2> QED  BY <1>0, <2>1, <2>2, <2>3, NewsKeeps
<1>5. ASSUME NEW x \in HyprWin, WinClosed(x) PROVE HyprInv'
  <2> PICK e \in HyprEvents : e = [name |-> "closewindow", win |-> x]
    BY DEF HyprEvents
  <2>1. monitorOf' = monitorOf /\ placeOf[x] # NoWs /\ placeOf' = [placeOf EXCEPT ![x] = NoWs] /\ News(e)
    BY <1>5 DEF WinClosed
  <2>2. placeOf' \in [HyprWin -> HyprWs \cup {NoWs}]
    BY <1>0, <2>1
  <2>3. Tellings(e)
    <3>1. \A v \in HyprWs : e \notin AboutWs(v)
      BY DEF AboutWs
    <3>2. \A y \in HyprWin : e \in AboutWin(y) <=> y = x
      BY DEF AboutWin
    <3>3. \A y \in HyprWin : placeOf'[y] = IF y = x THEN NoWs ELSE placeOf[y]
      BY <1>0, <2>1
    <3>4. WinAfter(e, NoWs) /\ e.name # "openwindow"
      BY DEF WinAfter
    <3>5. \A y \in HyprWin : placeOf'[y] # NoWs => monitorOf'[placeOf'[y]] # "none"
      BY <1>0, <2>1, <3>3
    <3> QED  BY <2>1, <3>1, <3>2, <3>3, <3>4, <3>5 DEF Tellings
  <2> QED  BY <1>0, <2>1, <2>2, <2>3, NewsKeeps
<1>6. ASSUME ConfigReloaded PROVE HyprInv'
  <2> PICK e \in HyprEvents : e = [name |-> "configreloaded"]
    BY DEF HyprEvents
  <2>1. monitorOf' = monitorOf /\ placeOf' = placeOf /\ News(e)
    BY <1>6 DEF ConfigReloaded
  <2>2. Tellings(e)
    <3>1. (\A v \in HyprWs : e \notin AboutWs(v)) /\ \A y \in HyprWin : e \notin AboutWin(y)
      BY DEF AboutWs, AboutWin
    <3> QED  BY <1>0, <2>1, <3>1 DEF Tellings
  <2> QED  BY <1>0, <2>1, <2>2, NewsKeeps
<1> QED  BY <1>1, <1>2, <1>3, <1>4, <1>5, <1>6 DEF CompositorStep

-----------------------------------------------------------------------------
(* The IPC thread.                                                           *)

Reads == hyprPhase # "start" /\ hyprWire # <<>> /\ hyprWire' = Tail(hyprWire) /\ UNCHANGED hyprWorld

\* What is left about a window when an event is read.
Goes(e) == IF e.name = "closewindow" THEN NoWs ELSE e.ws
NotHere(x) == (OfWin(x)' = {} => OfWin(x) = {}) /\ \A w : OnTrack(x, w) => OnTrack(x, w)'
TurnsUp(x, e) ==
  /\ e \in HyprEvents /\ e = hyprWire[1] /\ FirstIn(OfWin(x), 1)
  /\ OnTrack(x, Goes(e))' /\ (OfWin(x)' = {} => placeOf[x] = Goes(e)) /\ Goes(e) \in HyprWs \cup {NoWs}
  /\ \A w : OnTrack(x, w) => (e.name = "openwindow" <=> w = NoWs)
LEMMA WinHeadOff ==
  ASSUME HyprInv, Reads, NEW x \in HyprWin, NEW e, e = Head(hyprWire)
  PROVE  /\ e \in HyprEvents
         /\ e \notin AboutWin(x) => NotHere(x)
         /\ e \in AboutWin(x) => TurnsUp(x, e)
<1> PICK s, t : s = hyprWire /\ t = Tail(hyprWire)
  OBVIOUS
<1>1. s \in Seq(HyprEvents) /\ s # <<>> /\ hyprWire' = t /\ t = Tail(s) /\ placeOf' = placeOf
  BY DEF HyprInv, HyprTypes, Reads, hyprWorld
<1>2. ReadsOff(s, t, AboutWin(x))
  BY <1>1, ReadOff
<1>3. e \in HyprEvents /\ e = s[1]
  BY <1>1
<1> PICK P, Q : P = OfWin(x) /\ Q = OfWin(x)'
  OBVIOUS
<1>4. P = Positions(s, AboutWin(x)) /\ Q = Positions(t, AboutWin(x))
  BY <1>1 DEF OfWin
<1>5. ASSUME e \notin AboutWin(x) PROVE NotHere(x)
  <2>1. Q = {} <=> P = {}
    BY <1>2, <1>4, <1>5, <1>1 DEF ReadsOff
  <2>2. ASSUME NEW w, OnTrack(x, w) PROVE OnTrack(x, w)'
    <3>1. ASSUME NEW i \in Q, FirstIn(Q, i) PROVE t[i].name = "openwindow" <=> w = NoWs
      <4>1. i + 1 \in P /\ FirstIn(P, i + 1) /\ t[i] = s[i + 1]
        BY <1>1, <1>2, <1>4, <1>5, <3>1 DEF ReadsOff
      <4> QED  BY <2>2, <4>1 DEF OnTrack
    <3>2. Q = {} => w = placeOf[x]
      BY <2>1, <2>2 DEF OnTrack
    <3> QED  BY <1>1, <3>1, <3>2 DEF OnTrack
  <2> QED  BY <2>1, <2>2 DEF NotHere
<1>6. ASSUME e \in AboutWin(x) PROVE TurnsUp(x, e)
  <2>1. FirstIn(P, 1) /\ (Q = {} => LastIn(P, 1))
    BY <1>1, <1>2, <1>4, <1>6 DEF ReadsOff
  <2>2. 1 \in P
    BY <2>1 DEF FirstIn
  <2>3. /\ LastIn(P, 1) => WinAfter(e, placeOf[x])
        /\ \A j \in P : Adjacent(P, 1, j) => Turns(e, s[j])
    BY <1>3, <2>2 DEF HyprInv, WinWire
  <2>4. Q = {} => placeOf[x] = Goes(e)
    BY <2>1, <2>3 DEF WinAfter, Goes
  <2>5. Goes(e) \in HyprWs \cup {NoWs} /\ (Goes(e) = NoWs <=> e.name = "closewindow")
    BY <1>6, HyprAssumption DEF AboutWin, HyprEvents, Goes
  <2>6. ASSUME NEW i \in Q, FirstIn(Q, i) PROVE t[i].name = "openwindow" <=> Goes(e) = NoWs
    <3>1. i + 1 \in P /\ Adjacent(P, 1, i + 1) /\ t[i] = s[i + 1]
      BY <1>1, <1>2, <1>4, <1>6, <2>6 DEF ReadsOff
    <3>2. Turns(e, s[i + 1])
      BY <2>3, <3>1
    <3> QED  BY <2>5, <3>1, <3>2 DEF Turns
  <2>7. OnTrack(x, Goes(e))'
    <3> PICK g : g = Goes(e)
      OBVIOUS
    <3>1. OnTrack(x, g)'
      BY <1>1, <2>4, <2>6 DEF OnTrack
    <3> QED  BY <3>1
  <2>8. \A w : OnTrack(x, w) => (e.name = "openwindow" <=> w = NoWs)
    BY <1>3, <2>1, <2>2 DEF OnTrack
  <2> QED  BY <1>3, <2>1, <2>4, <2>5, <2>7, <2>8 DEF TurnsUp
<1> QED  BY <1>3, <1>5, <1>6

\* And about a workspace.
NoMore(w, e) ==
  /\ e \in HyprEvents /\ e = hyprWire[1] /\ FirstIn(OfWs(w), 1)
  /\ OfWs(w)' = {} => LastIn(OfWs(w), 1) /\ WsAfter(e, monitorOf[w])
  /\ \A i \in OfWs(w)' : FirstIn(OfWs(w)', i) /\ hyprWire'[i].name = "createworkspacev2" => e.name = "destroyworkspacev2"
ComesAsIs(w) ==
  /\ Coming(w)' => Coming(w) \/ monitorOf[w] = "here"
  /\ Coming(w) /\ monitorOf[w] = "here" => Coming(w)'
LEMMA WsHeadOff ==
  ASSUME HyprInv, Reads, NEW w \in HyprWs, NEW e, e = Head(hyprWire)
  PROVE  /\ e \in HyprEvents
         /\ e \notin AboutWs(w) /\ WsDue(w) /\ ComesAsIs(w) => WsDue(w)'
         /\ e \in AboutWs(w) => NoMore(w, e)
<1> PICK s, t : s = hyprWire /\ t = Tail(hyprWire)
  OBVIOUS
<1>1. s \in Seq(HyprEvents) /\ s # <<>> /\ hyprWire' = t /\ t = Tail(s) /\ monitorOf' = monitorOf
  BY DEF HyprInv, HyprTypes, Reads, hyprWorld
<1>2. ReadsOff(s, t, AboutWs(w))
  BY <1>1, ReadOff
<1>3. e \in HyprEvents /\ e = s[1]
  BY <1>1
<1> PICK P, Q : P = OfWs(w) /\ Q = OfWs(w)'
  OBVIOUS
<1>4. P = Positions(s, AboutWs(w)) /\ Q = Positions(t, AboutWs(w))
  BY <1>1 DEF OfWs
<1>5. ASSUME e \notin AboutWs(w), WsDue(w), ComesAsIs(w) PROVE WsDue(w)'
  <2>1. Q = {} <=> P = {}
    BY <1>1, <1>2, <1>4, <1>5 DEF ReadsOff
  <2>2. ASSUME NEW i \in Q, FirstIn(Q, i), LastIn(Q, i), t[i].name = "createworkspacev2", monitorOf[w] # "here" PROVE ~Coming(w)
    <3>1. i + 1 \in P /\ FirstIn(P, i + 1) /\ LastIn(P, i + 1) /\ t[i] = s[i + 1]
      BY <1>1, <1>2, <1>4, <1>5, <2>2 DEF ReadsOff
    <3> QED  BY <1>5, <2>2, <3>1 DEF WsDue
  <2>3. Q = {} => (Coming(w)' <=> monitorOf[w] = "here")
    BY <1>5, <2>1 DEF WsDue, ComesAsIs
  <2>4. ASSUME NEW i \in Q, FirstIn(Q, i), LastIn(Q, i), t[i].name = "createworkspacev2", monitorOf[w] # "here" PROVE ~Coming(w)'
    BY <1>5, <2>2, <2>4 DEF ComesAsIs
  <2> QED  BY <1>1, <2>3, <2>4 DEF WsDue
<1>6. ASSUME e \in AboutWs(w) PROVE NoMore(w, e)
  <2>1. FirstIn(P, 1) /\ (Q = {} => LastIn(P, 1))
    BY <1>1, <1>2, <1>4, <1>6 DEF ReadsOff
  <2>2. 1 \in P
    BY <2>1 DEF FirstIn
  <2>3. LastIn(P, 1) => WsAfter(e, monitorOf[w])
    BY <1>3, <2>2 DEF HyprInv, WsWire
  <2>4. ASSUME NEW i \in Q, FirstIn(Q, i), t[i].name = "createworkspacev2" PROVE e.name = "destroyworkspacev2"
    <3>1. i + 1 \in P /\ Adjacent(P, 1, i + 1) /\ t[i] = s[i + 1]
      BY <1>1, <1>2, <1>4, <1>6, <2>4 DEF ReadsOff
    <3> QED  BY <1>3, <2>2, <2>4, <3>1 DEF HyprInv, WsWire
  <2> QED  BY <1>1, <1>3, <2>1, <2>3, <2>4 DEF NoMore
<1> QED  BY <1>3, <1>5, <1>6

\* A window that the event is not about, and that the handler leaves as it is.
SameOf(x) ==
  /\ Listed' = Listed /\ \A v \in Listed : x \in windowMap'[v] <=> x \in windowMap[v]
  /\ workspacesToCreate' = workspacesToCreate
  /\ x \in orphans' <=> x \in orphans
  /\ \A i \in DOMAIN windowsToCreate :
       windowsToCreate[i].win = x => i \in DOMAIN windowsToCreate' /\ windowsToCreate'[i] = windowsToCreate[i]
  /\ \A i \in DOMAIN windowsToCreate' :
       windowsToCreate'[i].win = x => i \in DOMAIN windowsToCreate /\ windowsToCreate'[i] = windowsToCreate[i]
LEMMA OthersKeep ==
  ASSUME HyprInv, Reads, NEW x \in HyprWin, WinOk(x), Head(hyprWire) \notin AboutWin(x), SameOf(x)
  PROVE  WinOk(x)'
<1>1. NotHere(x) /\ placeOf' = placeOf
  BY WinHeadOff DEF Reads, hyprWorld
<1>2. Queued(x)' <=> Queued(x)
  BY DEF Queued, SameOf
<1>3. (InMap(x)' <=> InMap(x)) /\ (InCreation(x)' <=> InCreation(x))
  BY DEF InMap, InCreation, SameOf
<1>4. Findable(x)' <=> Findable(x)
  BY <1>2, <1>3 DEF Findable, SameOf
<1>5. ASSUME NEW w, PlacedAt(x, w) PROVE PlacedAt(x, w)'
  <2>1. \A p \in ToSet(windowsToCreate)' : p.win = x => p \in ToSet(windowsToCreate)
    BY DEF SameOf, ToSet
  <2> QED  BY <1>5, <2>1 DEF PlacedAt, SameOf
<1>6. ASSUME NEW w \in HyprWs \cup {NoWs}, Followed(x, w) PROVE Followed(x, w)'
  <2>1. PlacedAt(x, w)' /\ OnTrack(x, w)'
    BY <1>1, <1>5, <1>6 DEF Followed, NotHere
  <2>2. IF w = NoWs THEN x \notin orphans' ELSE Findable(x)'
    BY <1>4, <1>6 DEF Followed, SameOf
  <2> QED  BY <2>1, <2>2 DEF Followed
<1>7. Present(x)'
  BY <1>1, <1>2 DEF WinOk, Present, NotHere, SameOf
<1>8. QueuedOnce(x)'
  <2>1. ASSUME NEW i \in DOMAIN windowsToCreate', NEW j \in DOMAIN windowsToCreate',
               windowsToCreate'[i].win = x, windowsToCreate'[j].win = x
        PROVE  i = j
    BY <2>1 DEF WinOk, QueuedOnce, SameOf
  <2> QED  BY <1>2, <1>3, <2>1 DEF WinOk, QueuedOnce
<1> QED  BY <1>6, <1>7, <1>8 DEF WinOk

LEMMA RegisterKeeps == ASSUME HyprInv, RegisterIpc \/ UNCHANGED hyprWsVars PROVE HyprInv'
<1> USE DEF hyprWorld, hyprModel, hyprQueues
<1>1. UNCHANGED <<hyprWorld, hyprWire, hyprModel, hyprQueues, refresh, raced, dropped>>
  BY DEF RegisterIpc, hyprWsVars
<1>2. hyprPhase' = hyprPhase \/ (hyprPhase = "snapshot" /\ hyprPhase' = "registered")
  BY DEF RegisterIpc, hyprWsVars
<1>3. HyprTypes'
  BY <1>1, <1>2 DEF HyprInv, HyprTypes, Listed
<1>4. WsWire' /\ WinWire'
  BY <1>1 DEF HyprInv, WsWire, WinWire, OfWs, OfWin
<1>5. WsInv'
  BY <1>1, <1>2 DEF HyprInv, WsInv, WsDue, OfWs, Coming, PersistentComes, Listed
<1>6. WinInv'
  <2>1. \A x : WinOk(x) => WinOk(x)'
    BY <1>1 DEF WinOk, Followed, PlacedAt, OnTrack, Findable, Present, QueuedOnce, Queued, InMap, InCreation, Listed, OfWin
  <2> QED  BY <1>1, <1>2, <2>1 DEF HyprInv, WinInv
<1> QED  BY <1>3, <1>4, <1>5, <1>6 DEF HyprInv

LEMMA UnheardKeeps == ASSUME HyprInv, Unheard PROVE HyprInv'
<1> USE DEF hyprWorld, hyprModel, hyprQueues
<1>1. /\ hyprWire # <<>> /\ hyprWire' = Tail(hyprWire)
      /\ UNCHANGED <<hyprWorld, hyprPhase, hyprModel, hyprQueues, refresh, dropped>>
      /\ hyprPhase # "start" => Reads /\ raced' = raced \cup Subject(Head(hyprWire))
  BY DEF Unheard, Reads, HyprInv, HyprTypes
<1>2. hyprWire' \in Seq(HyprEvents) /\ WsWire' /\ WinWire'
  BY <1>1, WireRead DEF HyprInv
<1>3. HyprTypes'
  BY <1>1, <1>2 DEF HyprInv, HyprTypes, Listed
<1>4. WsInv'
  <2>1. ASSUME hyprPhase # "start", NEW w \in HyprWs \ (raced' \cup Persistent) PROVE WsDue(w)'
    <3>1. Head(hyprWire) \notin AboutWs(w)
      <4>1. ASSUME Head(hyprWire) \in AboutWs(w) PROVE w \in Subject(Head(hyprWire))
        <5>1. PICK e \in HyprEvents : e = Head(hyprWire) /\ e.name \in {"createworkspacev2", "destroyworkspacev2", "moveworkspacev2"} /\ e.ws = w
          BY <4>1 DEF AboutWs
        <5> QED  BY <5>1 DEF Subject, HyprEvents
      <4> QED  BY <1>1, <2>1, <4>1
    <3>2. WsDue(w) /\ ComesAsIs(w)
      BY <1>1, <2>1 DEF HyprInv, WsInv, Coming, ComesAsIs, Listed
    <3> QED  BY <1>1, <2>1, <3>1, <3>2, WsHeadOff
  <2> QED  BY <1>1, <2>1 DEF HyprInv, WsInv, PersistentComes, Listed
<1>5. WinInv'
  <2>1. ASSUME hyprPhase # "start", NEW x \in HyprWin \ (raced' \cup dropped) PROVE WinOk(x)'
    <3>1. Head(hyprWire) \notin AboutWin(x)
      <4>1. ASSUME Head(hyprWire) \in AboutWin(x) PROVE x \in Subject(Head(hyprWire))
        <5>1. PICK e \in HyprEvents : e = Head(hyprWire) /\ e.name \in {"openwindow", "movewindowv2", "closewindow"} /\ e.win = x
          BY <4>1 DEF AboutWin
        <5> QED  BY <5>1 DEF Subject, HyprEvents
      <4> QED  BY <1>1, <2>1, <4>1
    <3>2. WinOk(x) /\ SameOf(x)
      BY <1>1, <2>1 DEF HyprInv, WinInv, SameOf, Listed
    <3> QED  BY <1>1, <2>1, <3>1, <3>2, OthersKeep
  <2> QED  BY <1>1, <2>1 DEF WinInv
<1> QED  BY <1>2, <1>3, <1>4, <1>5 DEF HyprInv

-----------------------------------------------------------------------------
(* The handlers of the windows' events.                                      *)

LEMMA HeardReads ==
  ASSUME HyprInv, NEW name, Heard(name)
  PROVE  /\ Reads /\ hyprPhase = "registered" /\ refresh' = TRUE
         /\ UNCHANGED <<monitorOf, placeOf, hyprPhase, persistent, dropped>>
         /\ raced \subseteq raced' /\ Races(Head(hyprWire)) \subseteq raced'
         /\ Head(hyprWire) \in HyprEvents /\ Head(hyprWire).name = name
         /\ hyprWire' \in Seq(HyprEvents) /\ WsWire' /\ WinWire'
<1>1. hyprWire # <<>> /\ hyprWire' = Tail(hyprWire) /\ UNCHANGED <<monitorOf, placeOf>> /\ hyprPhase = "registered"
  BY DEF Heard, hyprWorld
<1>2. hyprWire \in Seq(HyprEvents)
  BY DEF HyprInv, HyprTypes
<1>3. Head(hyprWire) \in HyprEvents
  BY <1>1, <1>2
<1>4. hyprWire' \in Seq(HyprEvents) /\ WsWire' /\ WinWire'
  BY <1>1, WireRead DEF HyprInv
<1> QED  BY <1>1, <1>3, <1>4 DEF Heard, Reads, hyprWorld

\* Nothing in them changes what the next update lists.
LEMMA ListingWaits ==
  ASSUME HyprInv, Reads, UNCHANGED <<hyprPhase, persistent, workspacesToCreate, workspacesToRemove>>, Listed' = Listed,
         refresh' = TRUE, raced \subseteq raced', \A w \in HyprWs : Head(hyprWire) \notin AboutWs(w)
  PROVE  WsInv'
<1>1. \A w : (Coming(w)' <=> Coming(w)) /\ (PersistentComes(w)' <=> PersistentComes(w))
  BY DEF Coming, PersistentComes
<1>2. ASSUME NEW w \in HyprWs \ (raced' \cup Persistent) PROVE WsDue(w)'
  <2>1. WsDue(w) /\ ComesAsIs(w)
    BY <1>1, <1>2 DEF HyprInv, WsInv, Reads, ComesAsIs
  <2> QED  BY <1>2, <2>1, WsHeadOff
<1> QED  BY <1>1, <1>2 DEF HyprInv, WsInv, Reads

\* What is in the queues.
LEMMA InSeq == ASSUME NEW E, NEW s \in Seq(E) PROVE \A i \in DOMAIN s : s[i] \in E /\ s[i] \in ToSet(s)
BY DEF ToSet
LEMMA QueuedOnes ==
  ASSUME HyprInv
  PROVE  /\ \A c \in ToSet(workspacesToCreate) : c \in Creations /\ c.ws \in HyprWs
         /\ \A i \in DOMAIN workspacesToCreate :
              workspacesToCreate[i] \in Creations /\ workspacesToCreate[i] \in ToSet(workspacesToCreate)
         /\ \A i \in DOMAIN windowsToCreate :
              /\ windowsToCreate[i] \in Payloads /\ windowsToCreate[i].ws \in HyprWs
              /\ windowsToCreate[i] \in ToSet(windowsToCreate)
<1>1. /\ \A i \in DOMAIN workspacesToCreate :
           workspacesToCreate[i] \in Creations /\ workspacesToCreate[i] \in ToSet(workspacesToCreate)
      /\ \A i \in DOMAIN windowsToCreate :
           windowsToCreate[i] \in Payloads /\ windowsToCreate[i] \in ToSet(windowsToCreate)
  BY InSeq DEF HyprInv, HyprTypes
<1>2. \A c \in ToSet(workspacesToCreate) : c \in Creations
  BY <1>1 DEF ToSet
<1>3. (\A c \in Creations : c.ws \in HyprWs) /\ \A p \in Payloads : p.ws \in HyprWs
  BY DEF Creations, Payloads
<1> QED  BY <1>1, <1>2, <1>3

\* Where a window is after it has come to w, with an entry in the queue.
LEMMA QueuedIs ==
  ASSUME NEW x \in HyprWin, NEW w \in HyprWs, OnTrack(x, w)',
         ~InMap(x)', \A c \in ToSet(workspacesToCreate') : x \notin c.wins,
         NEW n \in DOMAIN windowsToCreate', windowsToCreate'[n].win = x, windowsToCreate'[n].ws = w,
         \A i \in DOMAIN windowsToCreate' : windowsToCreate'[i].win = x => i = n
  PROVE  WinOk(x)'
<1>1. Queued(x)'
  BY DEF Queued
<1>2. \A p \in ToSet(windowsToCreate') : p.win = x => p.ws = w
  BY DEF ToSet
<1>3. PlacedAt(x, w)'
  BY <1>2 DEF PlacedAt, InMap
<1>4. Followed(x, w)'
  BY <1>1, <1>3, HyprAssumption DEF Followed, Findable
<1>5. Present(x)' /\ QueuedOnce(x)'
  BY <1>1 DEF Present, QueuedOnce
<1> QED  BY <1>4, <1>5 DEF WinOk

LEMMA OpenedKeeps == ASSUME HyprInv, OnWindowOpened PROVE HyprInv'
<1> PICK e, x, w : e = Head(hyprWire) /\ x = e.win /\ w = e.ws
  OBVIOUS
<1>0. Heard("openwindow")
  BY DEF OnWindowOpened
<1>1. /\ Reads /\ hyprPhase = "registered" /\ refresh' = TRUE
      /\ UNCHANGED <<monitorOf, placeOf, hyprPhase, persistent, dropped>>
      /\ raced \subseteq raced' /\ e \in HyprEvents /\ e.name = "openwindow"
      /\ hyprWire' \in Seq(HyprEvents) /\ WsWire' /\ WinWire'
  BY <1>0, HeardReads
<1>2. x \in HyprWin /\ w \in HyprWs /\ Goes(e) = w
  BY <1>1 DEF HyprEvents, Goes
<1>3. /\ windowsToCreate' = Append(windowsToCreate, WindowPayload(x, w))
      /\ UNCHANGED <<windowMap, workspacesToCreate, workspacesToRemove, orphans>>
  BY DEF OnWindowOpened
<1>4. WindowPayload(x, w) \in Payloads /\ windowsToCreate \in Seq(Payloads)
  BY <1>2 DEF WindowPayload, Payloads, HyprInv, HyprTypes
<1>5. /\ windowsToCreate' \in Seq(Payloads) /\ Len(windowsToCreate) \in Nat /\ Len(windowsToCreate') = Len(windowsToCreate) + 1
      /\ DOMAIN windowsToCreate = 1..Len(windowsToCreate) /\ DOMAIN windowsToCreate' = 1..(Len(windowsToCreate) + 1)
      /\ windowsToCreate'[Len(windowsToCreate) + 1] = WindowPayload(x, w)
      /\ \A i \in 1..Len(windowsToCreate) : windowsToCreate'[i] = windowsToCreate[i]
  BY <1>3, <1>4
<1>6. HyprTypes'
  BY <1>1, <1>3, <1>5 DEF HyprInv, HyprTypes, Listed
<1>7. WsInv'
  <2>1. \A v \in HyprWs : e \notin AboutWs(v)
    BY <1>1 DEF AboutWs
  <2> QED  BY <1>1, <1>3, <2>1, ListingWaits DEF Listed
<1>8. ASSUME NEW y \in HyprWin, WinOk(y), y # x PROVE WinOk(y)'
  <2>1. e \notin AboutWin(y)
    BY <1>8 DEF AboutWin
  <2>2. WindowPayload(x, w).win # y
    BY <1>8 DEF WindowPayload
  <2>3. \A i \in DOMAIN windowsToCreate : i \in DOMAIN windowsToCreate' /\ windowsToCreate'[i] = windowsToCreate[i]
    BY <1>5
  <2>4. \A i \in DOMAIN windowsToCreate' : windowsToCreate'[i].win = y => i \in DOMAIN windowsToCreate
    BY <1>5, <2>2
  <2>5. SameOf(y)
    BY <1>3, <2>3, <2>4 DEF SameOf, Listed
  <2> QED  BY <1>1, <1>8, <2>1, <2>5, OthersKeep
<1>9. ASSUME WinOk(x) PROVE WinOk(x)'
  <2>1. TurnsUp(x, e)
    <3>1. e \in AboutWin(x)
      BY <1>1 DEF AboutWin
    <3> QED  BY <1>1, <1>2, <3>1, WinHeadOff
  <2>2. PICK v : v \in HyprWs \cup {NoWs} /\ Followed(x, v)
    BY <1>9 DEF WinOk
  <2>3. v = NoWs
    BY <1>1, <2>1, <2>2 DEF TurnsUp, Followed
  <2>4. ~InMap(x) /\ ~Queued(x) /\ \A c \in ToSet(workspacesToCreate) : x \notin c.wins
    <3>1. Listed \subseteq HyprWs /\ NoWs \notin HyprWs
      BY HyprAssumption DEF HyprInv, HyprTypes
    <3>2. \A c \in ToSet(workspacesToCreate) : c.ws \in HyprWs
      BY QueuedOnes
    <3>3. \A i \in DOMAIN windowsToCreate : windowsToCreate[i].ws \in HyprWs /\ windowsToCreate[i] \in ToSet(windowsToCreate)
      BY QueuedOnes
    <3>4. PlacedAt(x, NoWs)
      BY <2>2, <2>3 DEF Followed
    <3> QED  BY <3>1, <3>2, <3>3, <3>4 DEF PlacedAt, InMap, Queued
  <2>5. OnTrack(x, w)'
    <3>1. OnTrack(x, Goes(e))'
      BY <2>1 DEF TurnsUp
    <3>2. Goes(e) = w
      BY <1>2
    <3>3. Goes(e)' = Goes(e) /\ w' = w
      OBVIOUS
    <3> QED  BY <3>1, <3>2
  <2>6. ~InMap(x)' /\ \A c \in ToSet(workspacesToCreate') : x \notin c.wins
    BY <1>3, <2>4 DEF InMap, Listed
  <2> PICK n : n = Len(windowsToCreate) + 1
    OBVIOUS
  <2>7. /\ n \in DOMAIN windowsToCreate' /\ windowsToCreate'[n].win = x /\ windowsToCreate'[n].ws = w
        /\ \A i \in DOMAIN windowsToCreate' : windowsToCreate'[i].win = x => i = n
    BY <1>5, <2>4 DEF WindowPayload, Queued
  <2> QED  BY <1>2, <2>5, <2>6, <2>7, QueuedIs
<1>10. WinInv'
  BY <1>1, <1>8, <1>9 DEF HyprInv, WinInv
<1> QED  BY <1>1, <1>6, <1>7, <1>10 DEF HyprInv

\* It is taken out of the one workspace it is in, and no other window is.
LEMMA WithoutIt ==
  ASSUME HyprTypes, NEW x \in HyprWin, NEW v, PlacedAt(x, v), Without(x)
  PROVE  /\ Listed' = Listed /\ windowMap' \in [Listed -> SUBSET HyprWin]
         /\ \A u \in Listed : x \notin windowMap'[u] /\ \A y : y # x => (y \in windowMap'[u] <=> y \in windowMap[u])
<1>1. windowMap \in [Listed -> SUBSET HyprWin] /\ \A u \in Listed : x \in windowMap[u] => u = v
  BY DEF HyprTypes, PlacedAt
<1>2. CASE InMap(x)
  <2>1. PICK u \in Listed : x \in windowMap[u] /\ windowMap' = [windowMap EXCEPT ![u] = @ \ {x}]
    BY <1>2 DEF Without, InMap
  <2>2. windowMap' \in [Listed -> SUBSET HyprWin]
    BY <1>1, <2>1
  <2>3. ASSUME NEW k \in Listed PROVE windowMap'[k] = windowMap[k] \ {x}
    <3>1. CASE k = u  BY <1>1, <2>1, <3>1
    <3>2. CASE k # u  BY <1>1, <2>1, <3>2
    <3> QED  BY <3>1, <3>2
  <2> QED  BY <2>2, <2>3 DEF Listed
<1>3. CASE ~InMap(x)
  <2>1. windowMap' = windowMap
    BY <1>3 DEF Without, InMap
  <2> QED  BY <1>1, <1>3, <2>1 DEF InMap, Listed
<1> QED  BY <1>2, <1>3

LEMMA ClosedKeeps == ASSUME HyprInv, OnWindowClosed PROVE HyprInv'
<1> PICK e, x : e = Head(hyprWire) /\ x = e.win
  OBVIOUS
<1>0. Heard("closewindow")
  BY DEF OnWindowClosed
<1>1. /\ Reads /\ hyprPhase = "registered" /\ refresh' = TRUE
      /\ UNCHANGED <<monitorOf, placeOf, hyprPhase, persistent, dropped>>
      /\ raced \subseteq raced' /\ Races(e) \subseteq raced' /\ e \in HyprEvents /\ e.name = "closewindow"
      /\ hyprWire' \in Seq(HyprEvents) /\ WsWire' /\ WinWire'
  BY <1>0, HeardReads
<1>2. x \in HyprWin /\ Goes(e) = NoWs
  BY <1>1 DEF HyprEvents, Goes
<1>3. UNCHANGED hyprQueues /\ orphans' = orphans \ {x} /\ Without(x)
  BY DEF OnWindowClosed
<1>4. Listed' = Listed /\ windowMap' \in [Listed' -> SUBSET HyprWin]
  BY <1>3 DEF Without, HyprInv, HyprTypes, Listed
<1>5. HyprTypes'
  BY <1>1, <1>3, <1>4 DEF HyprInv, HyprTypes, hyprQueues
<1>6. WsInv'
  <2>1. \A v \in HyprWs : e \notin AboutWs(v)
    BY <1>1 DEF AboutWs
  <2> QED  BY <1>1, <1>3, <1>4, <2>1, ListingWaits DEF hyprQueues
<1>7. ASSUME NEW y \in HyprWin, WinOk(y), y # x PROVE WinOk(y)'
  <2>1. e \notin AboutWin(y)
    BY <1>7 DEF AboutWin
  <2>2. \A u \in Listed : y \in windowMap'[u] <=> y \in windowMap[u]
    BY <1>3, <1>7 DEF Without, HyprInv, HyprTypes
  <2>3. SameOf(y)
    BY <1>3, <1>4, <1>7, <2>2 DEF SameOf, hyprQueues
  <2> QED  BY <1>1, <1>7, <2>1, <2>3, OthersKeep
<1>8. ASSUME WinOk(x), x \notin raced' PROVE WinOk(x)'
  <2>1. TurnsUp(x, e)
    <3>1. e \in AboutWin(x)
      BY <1>1 DEF AboutWin
    <3> QED  BY <1>1, <1>2, <3>1, WinHeadOff
  <2>2. PICK v : v \in HyprWs \cup {NoWs} /\ Followed(x, v)
    BY <1>8 DEF WinOk
  <2>3. ~Queued(x) /\ \A c \in ToSet(workspacesToCreate) : x \notin c.wins
    BY <1>1, <1>2, <1>8 DEF Races
  <2>4. \A u \in Listed : x \notin windowMap'[u]
    BY <1>2, <1>3, <2>2, WithoutIt DEF HyprInv, Followed
  <2>5. ~Queued(x)' /\ ~InMap(x)'
    BY <1>3, <1>4, <2>3, <2>4 DEF hyprQueues, InMap, Queued
  <2>6. PlacedAt(x, NoWs)'
    <3>1. \A p \in ToSet(windowsToCreate) : p.win # x
      BY <2>3 DEF Queued, ToSet
    <3> QED  BY <1>3, <1>4, <2>3, <2>4, <3>1 DEF PlacedAt, hyprQueues
  <2>7. OnTrack(x, NoWs)' /\ (OfWin(x)' = {} => placeOf'[x] = NoWs)
    <3>1. OnTrack(x, Goes(e))' /\ (OfWin(x)' = {} => placeOf[x] = Goes(e)) /\ Goes(e) = NoWs
      BY <1>2, <2>1 DEF TurnsUp
    <3> QED  BY <1>1, <3>1
  <2>8. Followed(x, NoWs)'
    BY <1>3, <2>6, <2>7 DEF Followed
  <2>9. Present(x)'
    <3>1. NoWs \notin Listed /\ \A c \in ToSet(workspacesToCreate) : c.ws # NoWs
      BY QueuedOnes, HyprAssumption DEF HyprInv, HyprTypes
    <3> QED  BY <1>3, <1>4, <2>7, <3>1 DEF Present, hyprQueues
  <2>10. QueuedOnce(x)'
    BY <2>5 DEF QueuedOnce, Queued
  <2> QED  BY <2>8, <2>9, <2>10 DEF WinOk
<1>9. WinInv'
  BY <1>1, <1>7, <1>8 DEF HyprInv, WinInv
<1> QED  BY <1>1, <1>5, <1>6, <1>9 DEF HyprInv

\* A set of numbers has a least one, and it is the one that is found.
LEMMA LeastNumber ==
  ASSUME NEW S, S \subseteq Nat, S # {}
  PROVE  \E x \in S : \A y \in S : x <= y
<1>1. IsWellFoundedOn(OpToRel(<, Nat), Nat)
  BY NatLessThanWellFounded
<1>2. PICK x \in S : \A y \in S : ~(<<y, x>> \in OpToRel(<, Nat))
  BY <1>1, WFMin
<1>3. \A y \in S : ~(y < x)
  BY <1>2 DEF OpToRel
<1>4. x \in Nat /\ \A y \in S : y \in Nat
  OBVIOUS
<1>5. \A y \in S : x <= y
  BY <1>3, <1>4
<1> QED  BY <1>5
LEMMA MinIsLeast ==
  ASSUME NEW S, S \subseteq Nat, S # {}
  PROVE  Min(S) \in S /\ \A y \in S : Min(S) <= y
<1>1. \E x \in S : \A y \in S : x <= y
  BY LeastNumber
<1> QED  BY <1>1 DEF Min

LEMMA QueuedFirst ==
  ASSUME HyprInv, OnWindowMoved, NEW x, x = Head(hyprWire).win, NEW w, w = Head(hyprWire).ws, Queued(x)
  PROVE  /\ UNCHANGED <<windowMap, orphans>>
         /\ \E i \in DOMAIN windowsToCreate :
              windowsToCreate[i].win = x /\ windowsToCreate' = [windowsToCreate EXCEPT ![i].ws = w]
<1> PICK I : I = {k \in 1..Len(windowsToCreate) : windowsToCreate[k].win = x}
  OBVIOUS
<1>1. Len(windowsToCreate) \in Nat /\ DOMAIN windowsToCreate = 1..Len(windowsToCreate)
  BY DEF HyprInv, HyprTypes
<1>2. I \subseteq Nat /\ I # {}
  BY <1>1 DEF Queued
<1>3. Min(I) \in I
  BY <1>2, MinIsLeast
<1>4. UNCHANGED <<windowMap, orphans>> /\ windowsToCreate' = [windowsToCreate EXCEPT ![Min(I)].ws = w]
  BY <1>2 DEF OnWindowMoved, SelectInSeq
<1> QED  BY <1>1, <1>3, <1>4

LEMMA MovedKeeps == ASSUME HyprInv, OnWindowMoved PROVE HyprInv'
<1> PICK e, x, w : e = Head(hyprWire) /\ x = e.win /\ w = e.ws
  OBVIOUS
<1>0. Heard("movewindowv2")
  BY DEF OnWindowMoved
<1>1. /\ Reads /\ hyprPhase = "registered" /\ refresh' = TRUE
      /\ UNCHANGED <<monitorOf, placeOf, hyprPhase, persistent, dropped>>
      /\ raced \subseteq raced' /\ Races(e) \subseteq raced' /\ e \in HyprEvents /\ e.name = "movewindowv2"
      /\ hyprWire' \in Seq(HyprEvents) /\ WsWire' /\ WinWire'
  BY <1>0, HeardReads
<1>2. x \in HyprWin /\ w \in HyprWs /\ Goes(e) = w
  BY <1>1 DEF HyprEvents, Goes
<1>3. UNCHANGED <<workspacesToCreate, workspacesToRemove>>
  BY DEF OnWindowMoved
<1>4. CASE Queued(x)
  <2>0. UNCHANGED <<windowMap, orphans>>
    BY <1>4, QueuedFirst
  <2>1. PICK i \in DOMAIN windowsToCreate : windowsToCreate[i].win = x /\ windowsToCreate' = [windowsToCreate EXCEPT ![i].ws = w]
    BY <1>4, QueuedFirst
  <2>2. windowsToCreate' = [windowsToCreate EXCEPT ![i].ws = w] /\ UNCHANGED <<windowMap, orphans>>
    BY <2>0, <2>1
  <2>3. windowsToCreate \in Seq(Payloads) /\ windowsToCreate[i] \in Payloads
    BY <2>1, QueuedOnes DEF HyprInv, HyprTypes
  <2>4. /\ DOMAIN windowsToCreate' = DOMAIN windowsToCreate
        /\ windowsToCreate'[i] = [windowsToCreate[i] EXCEPT !.ws = w]
        /\ \A k \in DOMAIN windowsToCreate : k # i => windowsToCreate'[k] = windowsToCreate[k]
    BY <2>1, <2>2, <2>3
  <2>5. windowsToCreate'[i] \in Payloads /\ windowsToCreate'[i].win = x /\ windowsToCreate'[i].ws = w
    BY <1>2, <2>1, <2>3, <2>4 DEF Payloads
  <2>6. windowsToCreate' \in Seq(Payloads)
    <3> PICK q \in Payloads : q = [windowsToCreate[i] EXCEPT !.ws = w]
      BY <2>4, <2>5
    <3>1. windowsToCreate' = [windowsToCreate EXCEPT ![i] = q]
      BY <2>2
    <3>2. [windowsToCreate EXCEPT ![i] = q] \in Seq(Payloads)
      BY <2>3
    <3> QED  BY <3>1, <3>2
  <2>7. HyprTypes'
    BY <1>1, <1>3, <2>2, <2>6 DEF HyprInv, HyprTypes, Listed
  <2>8. ASSUME NEW y \in HyprWin, WinOk(y), y # x PROVE WinOk(y)'
    <3>1. e \notin AboutWin(y)
      BY <2>8 DEF AboutWin
    <3>2. SameOf(y)
      BY <1>3, <2>1, <2>2, <2>4, <2>5, <2>8 DEF SameOf, Listed
    <3> QED  BY <1>1, <2>8, <3>1, <3>2, OthersKeep
  <2>9. ASSUME WinOk(x), x \notin raced' PROVE WinOk(x)'
    <3>1. OnTrack(x, w)'
      <4>1. e \in AboutWin(x)
        BY <1>1 DEF AboutWin
      <4>2. TurnsUp(x, e)
        BY <1>1, <1>2, <4>1, WinHeadOff
      <4>3. OnTrack(x, Goes(e))'
        BY <4>2 DEF TurnsUp
      <4> QED  BY <1>2, <4>3
    <3>2. \A c \in ToSet(workspacesToCreate) : x \notin c.wins
      BY <1>1, <1>2, <2>9 DEF Races
    <3>3. QueuedOnce(x)
      BY <2>9 DEF WinOk
    <3>4. ~InMap(x)'
      BY <1>4, <2>2, <3>3 DEF QueuedOnce, InMap, Listed
    <3>5. \A k \in DOMAIN windowsToCreate' : windowsToCreate'[k].win = x => k = i
      BY <2>1, <2>4, <3>3 DEF QueuedOnce
    <3>6. i \in DOMAIN windowsToCreate' /\ \A c \in ToSet(workspacesToCreate') : x \notin c.wins
      BY <1>3, <2>1, <2>4, <3>2
    <3> QED  BY <1>2, <2>5, <3>1, <3>4, <3>5, <3>6, QueuedIs
  <2>10. WsInv'
    <3>1. \A v \in HyprWs : e \notin AboutWs(v)
      BY <1>1 DEF AboutWs
    <3> QED  BY <1>1, <1>3, <2>2, <3>1, ListingWaits DEF Listed
  <2>11. WinInv'
    BY <1>1, <2>8, <2>9 DEF HyprInv, WinInv
  <2> QED  BY <1>1, <2>7, <2>10, <2>11 DEF HyprInv
<1>5. CASE ~Queued(x)
  <2>1. /\ Without(x) /\ orphans' = orphans \ {x}
        /\ windowsToCreate' = IF x \in orphans \/ \E v \in Listed : x \in windowMap[v]
                              THEN Append(windowsToCreate, WindowPayload(x, w)) ELSE windowsToCreate
    BY <1>5 DEF OnWindowMoved
  <2>2. Listed' = Listed /\ windowMap' \in [Listed' -> SUBSET HyprWin]
    BY <2>1 DEF Without, HyprInv, HyprTypes, Listed
  <2>3. WindowPayload(x, w) \in Payloads /\ windowsToCreate \in Seq(Payloads)
    BY <1>2 DEF WindowPayload, Payloads, HyprInv, HyprTypes
  <2> PICK n : n = Len(windowsToCreate) + 1
    OBVIOUS
  <2>4. /\ DOMAIN windowsToCreate = 1..Len(windowsToCreate) /\ Len(windowsToCreate) \in Nat
        /\ windowsToCreate' \in Seq(Payloads)
        /\ \A k \in DOMAIN windowsToCreate : k \in DOMAIN windowsToCreate' /\ windowsToCreate'[k] = windowsToCreate[k]
        /\ \A k \in DOMAIN windowsToCreate' : k \in DOMAIN windowsToCreate \/ (k = n /\ windowsToCreate'[k] = WindowPayload(x, w))
    BY <2>1, <2>3
  <2>5. x \in orphans \/ InMap(x) => n \in DOMAIN windowsToCreate' /\ windowsToCreate'[n] = WindowPayload(x, w)
    BY <2>1, <2>3, <2>4 DEF InMap
  <2>6. WindowPayload(x, w).win = x /\ WindowPayload(x, w).ws = w
    BY DEF WindowPayload
  <2>7. HyprTypes'
    BY <1>1, <1>3, <2>2, <2>4 DEF HyprInv, HyprTypes
  <2>8. ASSUME NEW y \in HyprWin, WinOk(y), y # x PROVE WinOk(y)'
    <3>1. e \notin AboutWin(y)
      BY <2>8 DEF AboutWin
    <3>2. \A u \in Listed : y \in windowMap'[u] <=> y \in windowMap[u]
      BY <2>1, <2>8 DEF Without, HyprInv, HyprTypes
    <3>3. SameOf(y)
      BY <1>3, <2>1, <2>2, <2>4, <2>6, <2>8, <3>2 DEF SameOf
    <3> QED  BY <1>1, <2>8, <3>1, <3>3, OthersKeep
  <2>9. ASSUME WinOk(x), x \notin raced' PROVE WinOk(x)'
    <3>1. TurnsUp(x, e)
      <4>1. e \in AboutWin(x)
        BY <1>1 DEF AboutWin
      <4> QED  BY <1>1, <1>2, <4>1, WinHeadOff
    <3>2. OnTrack(x, w)'
      <4>1. OnTrack(x, Goes(e))'
        BY <3>1 DEF TurnsUp
      <4> QED  BY <1>2, <4>1
    <3>3. \A c \in ToSet(workspacesToCreate) : x \notin c.wins
      BY <1>1, <1>2, <2>9 DEF Races
    <3>4. PICK v : v \in HyprWs \cup {NoWs} /\ Followed(x, v)
      BY <2>9 DEF WinOk
    <3>5. v # NoWs
      BY <1>1, <3>1, <3>4 DEF TurnsUp, Followed
    <3>6. ~InCreation(x)
      BY <3>3, QueuedOnes DEF InCreation
    <3>7. x \in orphans \/ InMap(x)
      BY <1>5, <3>4, <3>5, <3>6 DEF Followed, Findable
    <3>8. \A u \in Listed : x \notin windowMap'[u]
      BY <1>2, <2>1, <3>4, WithoutIt DEF HyprInv, Followed
    <3>9. ~InMap(x)'
      BY <2>2, <3>8 DEF InMap
    <3>10. \A k \in DOMAIN windowsToCreate' : windowsToCreate'[k].win = x => k = n
      BY <1>5, <2>4 DEF Queued
    <3>11. n \in DOMAIN windowsToCreate' /\ windowsToCreate'[n].win = x /\ windowsToCreate'[n].ws = w
      BY <2>5, <2>6, <3>7
    <3>12. \A c \in ToSet(workspacesToCreate') : x \notin c.wins
      BY <1>3, <3>3
    <3> QED  BY <1>2, <3>2, <3>9, <3>10, <3>11, <3>12, QueuedIs
  <2>10. WsInv'
    <3>1. \A v \in HyprWs : e \notin AboutWs(v)
      BY <1>1 DEF AboutWs
    <3> QED  BY <1>1, <1>3, <2>2, <3>1, ListingWaits
  <2>11. WinInv'
    BY <1>1, <2>8, <2>9 DEF HyprInv, WinInv
  <2> QED  BY <1>1, <2>7, <2>10, <2>11 DEF HyprInv
<1> QED  BY <1>4, <1>5

-----------------------------------------------------------------------------
(* Snapshots, and the handlers of the workspaces' events.                    *)

Lists(s, S) == s \in Seq(S) /\ (\A i \in DOMAIN s : s[i] \in S) /\ \A y \in S : \E i \in DOMAIN s : s[i] = y
LEMMA AllOfSet ==
  ASSUME NEW S, IsFiniteSet(S), NEW s, s = SetToSeq(S)
  PROVE  Lists(s, S)
<1> PICK n : n = Cardinality(S)
  OBVIOUS
<1>1. n \in Nat /\ ExistsBijection(1..n, S)
  BY FS_CardinalityType
<1>2. \E f : f \in [1..n -> S] /\ IsInjective(f)
  BY <1>1 DEF ExistsBijection, Bijection, Injection
<1>3. s \in [1..n -> S] /\ IsInjective(s)
  BY <1>2 DEF SetToSeq
<1>4. s \in Injection(1..n, S) /\ Cardinality(1..n) = n
  <2>1. s \in Injection(1..n, S)
    BY <1>3 DEF Injection
  <2>2. Cardinality(1..n) = n
    BY <1>1, FS_Interval
  <2> QED  BY <2>1, <2>2
<1>5. s \in Surjection(1..n, S)
  BY <1>4, FS_Injection
<1>6. s \in Seq(S) /\ DOMAIN s = 1..n /\ \A i \in 1..n : s[i] \in S
  BY <1>1, <1>3
<1> QED  BY <1>5, <1>6 DEF Surjection, Lists

\* The creations of some workspaces, with the windows that are in them.
CreationsOf(t, W, p) ==
  /\ t \in Seq(Creations)
  /\ \A i \in DOMAIN t : t[i].ws \in W /\ t[i].wins = WindowsOn(t[i].ws)
  /\ \A w \in W : \E i \in DOMAIN t : t[i].ws = w /\ t[i].persistent = p
LEMMA CreatesAll ==
  ASSUME HyprInv, NEW W \in SUBSET HyprWs, NEW p \in BOOLEAN, p => W \subseteq Persistent,
         NEW t, t = SetToSeq({Creation(w, WindowsOn(w), p) : w \in W})
  PROVE  CreationsOf(t, W, p)
<1>0. PICK f, S : f = [w \in W |-> Creation(w, WindowsOn(w), p)] /\ S = {Creation(w, WindowsOn(w), p) : w \in W}
  OBVIOUS
<1>1. \A w \in W : f[w] \in Creations /\ f[w].ws = w /\ f[w].wins = WindowsOn(w) /\ f[w].persistent = p
  BY <1>0 DEF Creation, Creations, WindowsOn
<1>2. f \in Surjection(W, S)
  BY <1>0 DEF Surjection
<1>3. IsFiniteSet(W)
  BY HyprAssumption, FS_Subset
<1>4. IsFiniteSet(S)
  BY <1>2, <1>3, FS_Surjection
<1>5. Lists(t, S)
  <2>1. t = SetToSeq(S)
    BY <1>0
  <2> QED  BY <1>4, <2>1, AllOfSet
<1>6. S \subseteq Creations /\ (\A y \in S : \E w \in W : y = f[w]) /\ \A w \in W : f[w] \in S
  BY <1>0, <1>1
<1>7. t \in Seq(Creations)
  BY <1>5, <1>6 DEF Lists
<1>8. \A i \in DOMAIN t : t[i].ws \in W /\ t[i].wins = WindowsOn(t[i].ws)
  BY <1>1, <1>5, <1>6 DEF Lists
<1>9. ASSUME NEW w \in W PROVE \E i \in DOMAIN t : t[i].ws = w /\ t[i].persistent = p
  <2>1. PICK i \in DOMAIN t : t[i] = f[w]
    BY <1>5, <1>6 DEF Lists
  <2>2. t[i].ws = w /\ t[i].persistent = p
    BY <1>1, <2>1
  <2> QED  BY <2>2
<1> QED  BY <1>7, <1>8, <1>9 DEF CreationsOf

\* u is s with t behind it.
Joined(u, s, t) ==
  /\ \A i \in DOMAIN s : i \in DOMAIN u /\ u[i] = s[i]
  /\ \A i \in DOMAIN u : i \in DOMAIN s \/ \E k \in DOMAIN t : u[i] = t[k]
  /\ \A i \in DOMAIN s, j \in DOMAIN u : j \notin DOMAIN s => i <= j
  /\ \A k \in DOMAIN t : \E i \in DOMAIN u : u[i] = t[k]
LEMMA JoinsTo == ASSUME NEW E, NEW s \in Seq(E), NEW t \in Seq(E) PROVE s \o t \in Seq(E) /\ Joined(s \o t, s, t)
<1> PICK u : u = s \o t
  OBVIOUS
<1>1. /\ u \in Seq(E) /\ Len(s) \in Nat /\ Len(t) \in Nat /\ Len(u) = Len(s) + Len(t)
      /\ DOMAIN s = 1..Len(s) /\ DOMAIN t = 1..Len(t) /\ DOMAIN u = 1..(Len(s) + Len(t))
      /\ \A i \in 1..Len(s) : u[i] = s[i]
      /\ \A i \in 1..(Len(s) + Len(t)) : i > Len(s) => u[i] = t[i - Len(s)]
  OBVIOUS
<1>2. \A i \in DOMAIN u : i \in DOMAIN s \/ \E k \in DOMAIN t : u[i] = t[k]
  <2> SUFFICES ASSUME NEW i \in DOMAIN u, i \notin DOMAIN s PROVE \E k \in DOMAIN t : u[i] = t[k]
    OBVIOUS
  <2>1. i > Len(s) /\ i - Len(s) \in DOMAIN t
    BY <1>1
  <2> QED  BY <1>1, <2>1
<1>3. \A k \in DOMAIN t : \E i \in DOMAIN u : u[i] = t[k]
  <2> SUFFICES ASSUME NEW k \in DOMAIN t PROVE \E i \in DOMAIN u : u[i] = t[k]
    OBVIOUS
  <2>1. Len(s) + k \in DOMAIN u /\ Len(s) + k > Len(s) /\ Len(s) + k - Len(s) = k
    BY <1>1
  <2>2. u[Len(s) + k] = t[k]
    BY <1>1, <2>1
  <2> QED  BY <2>1, <2>2
<1>4. (\A i \in DOMAIN s : i \in DOMAIN u /\ u[i] = s[i]) /\ \A i \in DOMAIN s, j \in DOMAIN u : j \notin DOMAIN s => i <= j
  BY <1>1
<1> QED  BY <1>1, <1>2, <1>3, <1>4 DEF Joined

Regroups(a, b, c) == (a \o b) \o c = a \o (b \o c)
LEMMA Regrouped == ASSUME NEW E, NEW a \in Seq(E), NEW b \in Seq(E), NEW c \in Seq(E) PROVE Regroups(a, b, c)
<1> PICK u, v : u = (a \o b) \o c /\ v = a \o (b \o c)
  OBVIOUS
<1>1. u \in Seq(E) /\ v \in Seq(E) /\ Len(u) = Len(v) /\ Len(u) \in Nat
  OBVIOUS
<1>2. \A i \in 1..Len(u) : u[i] = v[i]
  OBVIOUS
<1>3. u = v
  BY <1>1, <1>2
<1> QED  BY <1>3 DEF Regroups

\* All workspaces that are here, the persistent ones, and nothing else; what was listed is removed.
Anew(t, r) ==
  /\ workspacesToCreate' = workspacesToCreate \o t /\ t \in Seq(Creations)
  /\ \A i \in DOMAIN t : t[i].wins = WindowsOn(t[i].ws) /\ (t[i].ws \in Persistent \/ monitorOf[t[i].ws] = "here")
  /\ \A w \in HyprWs : monitorOf[w] = "here" => \E i \in DOMAIN t : t[i].ws = w
  /\ \A w \in Persistent : \E i \in DOMAIN t : t[i].ws = w /\ t[i].persistent
  /\ workspacesToRemove' = workspacesToRemove \o r /\ r \in Seq(Listed)
  /\ \A w \in Listed : \E i \in DOMAIN r : r[i] = w
  /\ orphans \subseteq orphans' /\ \A x \in HyprWin : x \in orphans' => x \in orphans \/ placeOf[x] \in HyprWs
  /\ \A x \in HyprWin : placeOf[x] \in Existing /\ monitorOf[placeOf[x]] # "here" => x \in orphans'
LEMMA SnapshotIsAnew == ASSUME HyprInv, Snapshot PROVE \E t, r : Anew(t, r)
<1> PICK here : here = {w \in Existing : monitorOf[w] = "here"}
  OBVIOUS
<1> PICK f : f = SetToSeq({Creation(w, WindowsOn(w), FALSE) : w \in here})
  OBVIOUS
<1> PICK c : c = SetToSeq({Creation(w, WindowsOn(w), TRUE) : w \in Persistent})
  OBVIOUS
<1> PICK r : r = SetToSeq(Listed)
  OBVIOUS
<1>1. /\ workspacesToRemove' = workspacesToRemove \o r
      /\ workspacesToCreate' = (workspacesToCreate \o f) \o c
      /\ orphans' = orphans \cup UNION {WindowsOn(w) : w \in Existing \ here}
  BY DEF Snapshot
<1>2. here \in SUBSET HyprWs /\ Persistent \in SUBSET HyprWs /\ Listed \in SUBSET HyprWs
  BY HyprAssumption DEF Existing, HyprInv, HyprTypes
<1>3. CreationsOf(f, here, FALSE) /\ CreationsOf(c, Persistent, TRUE)
  BY <1>2, CreatesAll
<1>4. Lists(r, Listed)
  <2>1. IsFiniteSet(Listed)
    BY <1>2, HyprAssumption, FS_Subset
  <2> QED  BY <2>1, AllOfSet
<1> PICK t : t = f \o c
  OBVIOUS
<1>5. t \in Seq(Creations) /\ Joined(t, f, c)
  <2>1. f \o c \in Seq(Creations) /\ Joined(f \o c, f, c)
    BY <1>3, JoinsTo DEF CreationsOf
  <2> QED  BY <2>1
<1>6. workspacesToCreate' = workspacesToCreate \o t
  <2>1. workspacesToCreate \in Seq(Creations) /\ f \in Seq(Creations) /\ c \in Seq(Creations)
    BY <1>3 DEF CreationsOf, HyprInv, HyprTypes
  <2>2. Regroups(workspacesToCreate, f, c)
    BY <2>1, Regrouped
  <2> QED  BY <1>1, <2>2 DEF Regroups
<1>7. \A i \in DOMAIN t : t[i].wins = WindowsOn(t[i].ws) /\ (t[i].ws \in Persistent \/ monitorOf[t[i].ws] = "here")
  <2> SUFFICES ASSUME NEW i \in DOMAIN t
               PROVE  t[i].wins = WindowsOn(t[i].ws) /\ (t[i].ws \in Persistent \/ monitorOf[t[i].ws] = "here")
    OBVIOUS
  <2>1. (i \in DOMAIN f /\ t[i] = f[i]) \/ \E k \in DOMAIN c : t[i] = c[k]
    BY <1>5 DEF Joined
  <2>2. \A k \in DOMAIN f : f[k].wins = WindowsOn(f[k].ws) /\ monitorOf[f[k].ws] = "here"
    BY <1>3 DEF CreationsOf
  <2>3. \A k \in DOMAIN c : c[k].wins = WindowsOn(c[k].ws) /\ c[k].ws \in Persistent
    BY <1>3 DEF CreationsOf
  <2> QED  BY <2>1, <2>2, <2>3
<1>8. ASSUME NEW w \in HyprWs, monitorOf[w] = "here" PROVE \E i \in DOMAIN t : t[i].ws = w
  <2>1. w \in here
    BY <1>8 DEF Existing
  <2> PICK W : W = here
    OBVIOUS
  <2>0. CreationsOf(f, W, FALSE)
    BY <1>3
  <2>2. PICK k \in DOMAIN f : f[k].ws = w
    BY <2>0, <2>1 DEF CreationsOf
  <2>3. k \in DOMAIN t /\ t[k] = f[k]
    BY <1>5 DEF Joined
  <2> QED  BY <2>2, <2>3
<1>9. ASSUME NEW w \in Persistent PROVE \E i \in DOMAIN t : t[i].ws = w /\ t[i].persistent
  <2>1. PICK k \in DOMAIN c : c[k].ws = w /\ c[k].persistent
    BY <1>3 DEF CreationsOf
  <2>2. PICK i \in DOMAIN t : t[i] = c[k]
    BY <1>5 DEF Joined
  <2> QED  BY <2>1, <2>2
<1>10. /\ orphans \subseteq orphans' /\ \A x \in HyprWin : x \in orphans' => x \in orphans \/ placeOf[x] \in HyprWs
       /\ \A x \in HyprWin : placeOf[x] \in Existing /\ monitorOf[placeOf[x]] # "here" => x \in orphans'
  BY <1>1 DEF WindowsOn, Existing
<1>11. Anew(t, r)
  BY <1>1, <1>4, <1>5, <1>6, <1>7, <1>8, <1>9, <1>10 DEF Anew, Lists
<1> QED  BY <1>11

\* A window that stays where it is while creations are queued that show it as it is.
ShowsNow(t, x) == \A i \in DOMAIN t :
  /\ x \in t[i].wins => OfWin(x) = {} /\ placeOf[x] = t[i].ws
  /\ OfWin(x) = {} /\ placeOf[x] = t[i].ws => x \in t[i].wins
LEMMA AddedKeeps ==
  ASSUME HyprInv, Reads, NEW x \in HyprWin, WinOk(x), Head(hyprWire) \notin AboutWin(x),
         UNCHANGED <<windowMap, windowsToCreate>>,
         NEW t \in Seq(Creations), workspacesToCreate' = workspacesToCreate \o t, ShowsNow(t, x),
         x \in orphans => x \in orphans',
         x \in orphans' => x \in orphans \/ (OfWin(x) = {} /\ placeOf[x] # NoWs)
  PROVE  WinOk(x)'
<1>0. NotHere(x) /\ placeOf' = placeOf /\ Listed' = Listed
  BY WinHeadOff DEF Reads, hyprWorld, Listed
<1> PICK s, u : s = workspacesToCreate /\ u = workspacesToCreate'
  OBVIOUS
<1>1. Joined(u, s, t)
  <2>1. s \in Seq(Creations) /\ Joined(s \o t, s, t)
    BY JoinsTo DEF HyprInv, HyprTypes
  <2> QED  BY <2>1
<1>2. (\A i \in DOMAIN s : s[i] \in ToSet(s)) /\ \A c \in ToSet(u) : \E i \in DOMAIN u : c = u[i]
  BY DEF ToSet
<1>3. \A c \in ToSet(u) : c \in ToSet(s) \/ \E k \in DOMAIN t : c = t[k]
  BY <1>1, <1>2 DEF Joined
<1>4. (Queued(x)' <=> Queued(x)) /\ (InMap(x)' <=> InMap(x))
  BY <1>0 DEF Queued, InMap
<1>5. InCreation(x) => InCreation(x)'
  <2> SUFFICES ASSUME InCreation(x) PROVE InCreation(x)'
    OBVIOUS
  <2>1. PICK i \in DOMAIN s : /\ x \in s[i].wins /\ s[i].ws \notin Listed
                              /\ \A j \in DOMAIN s : s[j].ws = s[i].ws => i <= j
    BY DEF InCreation
  <2>2. i \in DOMAIN u /\ u[i] = s[i]
    BY <1>1 DEF Joined
  <2>3. \A j \in DOMAIN u : u[j].ws = u[i].ws => i <= j
    <3> SUFFICES ASSUME NEW j \in DOMAIN u, u[j].ws = u[i].ws PROVE i <= j
      OBVIOUS
    <3>1. CASE j \in DOMAIN s
      BY <1>1, <2>1, <2>2, <3>1 DEF Joined
    <3>2. CASE j \notin DOMAIN s
      BY <1>1, <3>2 DEF Joined
    <3> QED  BY <3>1, <3>2
  <2> QED  BY <1>0, <2>1, <2>2, <2>3 DEF InCreation
<1>6. PICK w \in HyprWs \cup {NoWs} : Followed(x, w)
  BY DEF WinOk
<1>7. PlacedAt(x, w)'
  <2>1. \A c \in ToSet(u) : x \in c.wins => c.ws = w
    <3> SUFFICES ASSUME NEW c \in ToSet(u), x \in c.wins PROVE c.ws = w
      OBVIOUS
    <3>1. CASE c \in ToSet(s)
      BY <1>6, <3>1 DEF Followed, PlacedAt
    <3>2. ASSUME NEW k \in DOMAIN t, c = t[k] PROVE c.ws = w
      <4>1. OfWin(x) = {} /\ placeOf[x] = c.ws
        BY <3>2 DEF ShowsNow
      <4> QED  BY <1>6, <4>1 DEF Followed, OnTrack
    <3> QED  BY <1>3, <3>1, <3>2
  <2> QED  BY <1>0, <1>6, <2>1 DEF Followed, PlacedAt
<1>8. Followed(x, w)'
  <2>1. OnTrack(x, w)'
    BY <1>0, <1>6 DEF Followed, NotHere
  <2>2. w # NoWs => Findable(x)'
    BY <1>4, <1>5, <1>6 DEF Followed, Findable
  <2>3. w = NoWs => x \notin orphans'
    BY <1>6 DEF Followed, OnTrack
  <2> QED  BY <1>7, <2>1, <2>2, <2>3 DEF Followed
<1>9. Present(x)'
  <2> SUFFICES ASSUME OfWin(x)' = {}
               PROVE  /\ placeOf[x] \in Listed => x \in windowMap[placeOf[x]] \/ Queued(x)
                      /\ \A c \in ToSet(u) : c.ws = placeOf[x] => x \in c.wins \/ Queued(x)
    BY <1>0, <1>4 DEF Present
  <2>1. OfWin(x) = {}
    BY <1>0 DEF NotHere
  <2>2. /\ placeOf[x] \in Listed => x \in windowMap[placeOf[x]] \/ Queued(x)
        /\ \A c \in ToSet(s) : c.ws = placeOf[x] => x \in c.wins \/ Queued(x)
    BY <2>1 DEF WinOk, Present
  <2>3. \A k \in DOMAIN t : t[k].ws = placeOf[x] => x \in t[k].wins
    BY <2>1 DEF ShowsNow
  <2> QED  BY <1>3, <2>2, <2>3
<1>10. QueuedOnce(x)'
  BY <1>4 DEF WinOk, QueuedOnce
<1> QED  BY <1>8, <1>9, <1>10 DEF WinOk

\* t is put behind workspaces_to_create_.
GainsCreations(t) ==
  /\ workspacesToCreate' \in Seq(Creations)
  /\ \A v : /\ PersistentComes(v) => PersistentComes(v)'
            /\ (\E c \in ToSet(workspacesToCreate') : c.ws = v)
                 <=> (\E c \in ToSet(workspacesToCreate) : c.ws = v) \/ \E i \in DOMAIN t : t[i].ws = v
            /\ \A i \in DOMAIN t : t[i].ws = v /\ t[i].persistent => PersistentComes(v)'

\* The queue of creations grows.
LEMMA ComingGrows ==
  ASSUME HyprInv, Listed' = Listed, persistent' = persistent,
         NEW t \in Seq(Creations), workspacesToCreate' = workspacesToCreate \o t
  PROVE  GainsCreations(t)
<1> PICK s, u : s = workspacesToCreate /\ u = workspacesToCreate'
  OBVIOUS
<1>1. u \in Seq(Creations) /\ Joined(u, s, t)
  <2>1. s \o t \in Seq(Creations) /\ Joined(s \o t, s, t)
    BY JoinsTo DEF HyprInv, HyprTypes
  <2> QED  BY <2>1
<1>2. /\ (\A c \in ToSet(s) : \E i \in DOMAIN s : c = s[i]) /\ \A c \in ToSet(u) : \E i \in DOMAIN u : c = u[i]
      /\ (\A i \in DOMAIN s : s[i] \in ToSet(s)) /\ \A i \in DOMAIN u : u[i] \in ToSet(u)
  BY DEF ToSet
<1>3. /\ \A c \in ToSet(u) : c \in ToSet(s) \/ \E k \in DOMAIN t : c = t[k]
      /\ \A c \in ToSet(s) : c \in ToSet(u)
      /\ \A k \in DOMAIN t : t[k] \in ToSet(u)
  <2>1. \A c \in ToSet(s) : c \in ToSet(u)
    <3> SUFFICES ASSUME NEW c \in ToSet(s) PROVE c \in ToSet(u)
      OBVIOUS
    <3>1. PICK i \in DOMAIN s : c = s[i]
      BY <1>2
    <3> QED  BY <1>1, <1>2, <3>1 DEF Joined
  <2>2. \A k \in DOMAIN t : t[k] \in ToSet(u)
    <3> SUFFICES ASSUME NEW k \in DOMAIN t PROVE t[k] \in ToSet(u)
      OBVIOUS
    <3>1. PICK i \in DOMAIN u : u[i] = t[k]
      BY <1>1 DEF Joined
    <3> QED  BY <1>2, <3>1
  <2>3. \A c \in ToSet(u) : c \in ToSet(s) \/ \E k \in DOMAIN t : c = t[k]
    <3> SUFFICES ASSUME NEW c \in ToSet(u) PROVE c \in ToSet(s) \/ \E k \in DOMAIN t : c = t[k]
      OBVIOUS
    <3>1. PICK i \in DOMAIN u : c = u[i]
      BY <1>2
    <3>2. CASE i \in DOMAIN s
      BY <1>1, <1>2, <3>1, <3>2 DEF Joined
    <3>3. CASE i \notin DOMAIN s
      BY <1>1, <3>1, <3>3 DEF Joined
    <3> QED  BY <3>2, <3>3
  <2> QED  BY <2>1, <2>2, <2>3
<1>4. ASSUME NEW v, PersistentComes(v) PROVE PersistentComes(v)'
  BY <1>3, <1>4 DEF PersistentComes
<1>5. ASSUME NEW v PROVE (\E c \in ToSet(u) : c.ws = v) <=> (\E c \in ToSet(s) : c.ws = v) \/ \E i \in DOMAIN t : t[i].ws = v
  BY <1>3
<1>6. ASSUME NEW v, NEW i \in DOMAIN t, t[i].ws = v, t[i].persistent PROVE PersistentComes(v)'
  BY <1>3, <1>6 DEF PersistentComes
<1> QED  BY <1>1, <1>4, <1>5, <1>6 DEF GainsCreations

\* One workspace, if it is here.
OneLonger(s, c, t, E) ==
  t \in Seq(E) /\ 1 \in DOMAIN t /\ (\A i \in DOMAIN t : t[i] = c) /\ Append(s, c) = s \o t
LEMMA OneLongerIs == ASSUME NEW E, NEW s \in Seq(E), NEW c \in E, NEW t, t = <<c>> PROVE OneLonger(s, c, t, E)
<1>1. t \in Seq(E) /\ Len(t) = 1 /\ t[1] = c
  OBVIOUS
<1>2. 1 \in DOMAIN t /\ \A i \in DOMAIN t : t[i] = c
  OBVIOUS
<1> PICK u, v : u = Append(s, c) /\ v = s \o t
  OBVIOUS
<1>3. u \in Seq(E) /\ v \in Seq(E) /\ Len(u) = Len(v) /\ Len(u) \in Nat
  BY <1>1
<1>4. \A i \in 1..Len(u) : u[i] = v[i]
  BY <1>1
<1>5. u = v
  BY <1>3, <1>4
<1> QED  BY <1>1, <1>2, <1>5 DEF OneLonger
QueuesOne(t, w, wins) ==
  /\ t \in Seq(Creations) /\ workspacesToCreate' = workspacesToCreate \o t
  /\ \A i \in DOMAIN t : t[i].ws = w /\ t[i].wins = wins /\ monitorOf[w] = "here"
  /\ monitorOf[w] = "here" => \E i \in DOMAIN t : t[i].ws = w
LEMMA CreatesOne ==
  ASSUME HyprInv, NEW w \in HyprWs, NEW wins \in SUBSET HyprWin, QueueCreation(w, wins)
  PROVE  \E t : QueuesOne(t, w, wins)
<1> PICK c \in Creations : c = Creation(w, wins, FALSE)
  BY DEF Creation, Creations
<1>0. workspacesToCreate \in Seq(Creations) /\ c.ws = w /\ c.wins = wins
  BY DEF HyprInv, HyprTypes, Creation
<1>1. CASE monitorOf[w] = "here"
  <2> PICK t : t = <<c>>
    OBVIOUS
  <2>1. OneLonger(workspacesToCreate, c, t, Creations)
    BY <1>0, OneLongerIs
  <2>2. workspacesToCreate' = Append(workspacesToCreate, c)
    BY <1>1 DEF QueueCreation
  <2>3. t \in Seq(Creations) /\ workspacesToCreate' = workspacesToCreate \o t
    BY <2>1, <2>2 DEF OneLonger
  <2>4. \A i \in DOMAIN t : t[i] = c
    BY <2>1 DEF OneLonger
  <2>5. 1 \in DOMAIN t
    BY <2>1 DEF OneLonger
  <2>6. QueuesOne(t, w, wins)
    BY <1>0, <1>1, <2>3, <2>4, <2>5 DEF QueuesOne
  <2> QED  BY <2>6
<1>2. CASE monitorOf[w] # "here"
  <2> PICK t : t = <<>>
    OBVIOUS
  <2>1. t \in Seq(Creations) /\ DOMAIN t = {} /\ workspacesToCreate \o t = workspacesToCreate
    BY <1>0
  <2>2. workspacesToCreate' = workspacesToCreate
    BY <1>2 DEF QueueCreation
  <2>3. QueuesOne(t, w, wins)
    BY <1>2, <2>1, <2>2 DEF QueuesOne
  <2> QED  BY <2>3
<1> QED  BY <1>1, <1>2

LEMMA OnCreatedKeeps == ASSUME HyprInv, OnWorkspaceCreated PROVE HyprInv'
<1> PICK e, w : e = Head(hyprWire) /\ w = e.ws
  OBVIOUS
<1>0. Heard("createworkspacev2")
  BY DEF OnWorkspaceCreated
<1>1. /\ Reads /\ hyprPhase = "registered" /\ refresh' = TRUE
      /\ UNCHANGED <<monitorOf, placeOf, hyprPhase, persistent, dropped>>
      /\ raced \subseteq raced' /\ e \in HyprEvents /\ e.name = "createworkspacev2"
      /\ hyprWire' \in Seq(HyprEvents) /\ WsWire' /\ WinWire'
  BY <1>0, HeardReads
<1>2. w \in HyprWs /\ e \in AboutWs(w) /\ (\A v \in HyprWs : v # w => e \notin AboutWs(v)) /\ \A x \in HyprWin : e \notin AboutWin(x)
  BY <1>1 DEF HyprEvents, AboutWs, AboutWin
<1>3. QueueCreation(w, {}) /\ UNCHANGED <<windowMap, workspacesToRemove, windowsToCreate>> /\ orphans' = orphans
  BY DEF OnWorkspaceCreated, QueueCreation
<1> PICK t : QueuesOne(t, w, {})
  BY <1>2, <1>3, CreatesOne
<1>4. /\ t \in Seq(Creations) /\ workspacesToCreate' = workspacesToCreate \o t
      /\ \A i \in DOMAIN t : t[i].ws = w /\ t[i].wins = {} /\ monitorOf[w] = "here"
      /\ monitorOf[w] = "here" => \E i \in DOMAIN t : t[i].ws = w
  BY DEF QueuesOne
<1>5. Listed' = Listed
  BY <1>3 DEF Listed
<1>6. /\ workspacesToCreate' \in Seq(Creations)
      /\ \A v : /\ PersistentComes(v) => PersistentComes(v)'
                /\ (\E c \in ToSet(workspacesToCreate') : c.ws = v)
                     <=> (\E c \in ToSet(workspacesToCreate) : c.ws = v) \/ \E i \in DOMAIN t : t[i].ws = v
  <2>1. GainsCreations(t)
    BY <1>1, <1>4, <1>5, ComingGrows
  <2> QED  BY <2>1 DEF GainsCreations
<1>7. HyprTypes'
  BY <1>1, <1>3, <1>6 DEF HyprInv, HyprTypes, Listed
<1>8. \A v : Coming(v)' <=> Coming(v) \/ \E i \in DOMAIN t : t[i].ws = v
  BY <1>3, <1>5, <1>6 DEF Coming
<1>9. ASSUME NEW v \in HyprWs \ (raced' \cup Persistent) PROVE WsDue(v)'
  <2>0. WsDue(v)
    BY <1>1, <1>9 DEF HyprInv, WsInv
  <2>1. CASE v # w
    <3>1. ComesAsIs(v)
      BY <1>4, <1>8, <2>1 DEF ComesAsIs
    <3> QED  BY <1>1, <1>2, <1>9, <2>0, <2>1, <3>1, WsHeadOff
  <2>2. CASE v = w
    <3>1. NoMore(w, e)
      BY <1>1, <1>2, WsHeadOff
    <3>2. OfWs(w)' = {} => (Coming(w)' <=> monitorOf[w] = "here")
      <4> SUFFICES ASSUME OfWs(w)' = {} PROVE Coming(w)' <=> monitorOf[w] = "here"
        OBVIOUS
      <4>1. FirstIn(OfWs(w), 1) /\ LastIn(OfWs(w), 1) /\ 1 \in OfWs(w) /\ hyprWire[1] = e
        BY <3>1 DEF NoMore, FirstIn
      <4>2. monitorOf[w] # "here" => ~Coming(w)
        BY <1>1, <2>0, <2>2, <4>1 DEF WsDue
      <4> QED  BY <1>4, <1>8, <4>2
    <3> QED  BY <1>1, <2>2, <3>1, <3>2 DEF WsDue, NoMore
  <2> QED  BY <2>1, <2>2
<1>10. WsInv'
  BY <1>1, <1>6, <1>9 DEF HyprInv, WsInv
<1>11. ASSUME NEW x \in HyprWin, WinOk(x) PROVE WinOk(x)'
  <2>1. ShowsNow(t, x)
    <3>1. ASSUME NEW i \in DOMAIN t PROVE ~(OfWin(x) = {} /\ placeOf[x] = w)
      <4>1. NoMore(w, e)
        BY <1>1, <1>2, WsHeadOff
      <4>2. 1 \in OfWs(w) /\ hyprWire[1].name = "createworkspacev2"
        BY <1>1, <4>1 DEF NoMore, FirstIn
      <4>3. placeOf[x] = w => \E j \in OfWin(x) : 1 < j
        BY <1>2, <4>2 DEF HyprInv, WsWire
      <4> QED  BY <4>3
    <3> QED  BY <1>4, <3>1 DEF ShowsNow
  <2> QED  BY <1>1, <1>2, <1>3, <1>4, <1>11, <2>1, AddedKeeps
<1>12. WinInv'
  BY <1>1, <1>11 DEF HyprInv, WinInv
<1> QED  BY <1>1, <1>7, <1>10, <1>12 DEF HyprInv

\* A workspace that is no longer here is removed, unless its creation is still queued.
LEMMA RemovalKeeps ==
  ASSUME HyprInv, NEW w \in HyprWs, NEW e, e = Head(hyprWire), Reads, hyprPhase = "registered", refresh' = TRUE,
         UNCHANGED <<monitorOf, placeOf, hyprPhase, persistent, dropped>>,
         raced \subseteq raced', Races(e) \subseteq raced', e \in AboutWs(w),
         hyprWire' \in Seq(HyprEvents), WsWire', WinWire',
         e.name \in {"destroyworkspacev2", "moveworkspacev2"}, \A m : WsAfter(e, m) => m # "here",
         workspacesToRemove' = Append(workspacesToRemove, w),
         UNCHANGED <<windowMap, workspacesToCreate, windowsToCreate, orphans>>
  PROVE  HyprInv'
<1>1. (\A v \in HyprWs : v # w => e \notin AboutWs(v)) /\ (\A x \in HyprWin : e \notin AboutWin(x)) /\ e.ws = w
  BY DEF AboutWs, AboutWin
<1>2. Listed' = Listed
  BY DEF Listed
<1> PICK r : r = workspacesToRemove'
  OBVIOUS
<1>3. r \in Seq(HyprWs) /\ ToSet(r) = ToSet(workspacesToRemove) \cup {w}
  <2>1. workspacesToRemove \in Seq(HyprWs)
    BY DEF HyprInv, HyprTypes
  <2> PICK s : s = workspacesToRemove
    OBVIOUS
  <2>2. /\ s \in Seq(HyprWs) /\ r = Append(s, w) /\ r \in Seq(HyprWs)
        /\ DOMAIN s = 1..Len(s) /\ DOMAIN r = 1..(Len(s) + 1) /\ Len(s) \in Nat
        /\ r[Len(s) + 1] = w /\ \A i \in 1..Len(s) : r[i] = s[i]
    BY <2>1
  <2>3. \A i \in DOMAIN r : i \in DOMAIN s \/ i = Len(s) + 1
    BY <2>2
  <2>4. \A y : y \in ToSet(r) <=> y \in ToSet(s) \cup {w}
    <3>1. ASSUME NEW y \in ToSet(r) PROVE y \in ToSet(s) \cup {w}
      BY <2>2, <2>3, <3>1 DEF ToSet
    <3>2. ASSUME NEW y \in ToSet(s) PROVE y \in ToSet(r)
      <4>1. PICK i \in DOMAIN s : y = s[i]
        BY <3>2 DEF ToSet
      <4>2. i \in DOMAIN r /\ r[i] = y
        BY <2>2, <4>1
      <4> QED  BY <4>2 DEF ToSet
    <3>3. w \in ToSet(r)
      <4>1. Len(s) + 1 \in DOMAIN r
        BY <2>2
      <4> QED  BY <2>2, <4>1 DEF ToSet
    <3> QED  BY <3>1, <3>2, <3>3
  <2> QED  BY <2>2, <2>4
<1>4. HyprTypes'
  BY <1>2, <1>3 DEF HyprInv, HyprTypes
<1>5. \A v : PersistentComes(v)' <=> PersistentComes(v)
  BY <1>2 DEF PersistentComes
<1>6. ASSUME NEW v \in HyprWs \ (raced' \cup Persistent) PROVE WsDue(v)'
  <2>0. WsDue(v)
    BY <1>6 DEF HyprInv, WsInv
  <2>1. CASE v # w
    <3>1. ComesAsIs(v)
      BY <1>2, <1>3, <2>1 DEF ComesAsIs, Coming
    <3> QED  BY <1>1, <1>6, <2>0, <2>1, <3>1, WsHeadOff
  <2>2. CASE v = w
    <3>1. NoMore(w, e)
      BY WsHeadOff
    <3>2. \A c \in ToSet(workspacesToCreate) : c.ws # w
      BY <1>1, <1>6, <2>2 DEF Races
    <3>3. ~Coming(w)'
      BY <1>2, <1>3, <3>2 DEF Coming
    <3>4. OfWs(w)' = {} => monitorOf[w] # "here"
      BY <3>1 DEF NoMore
    <3> QED  BY <2>2, <3>3, <3>4 DEF WsDue
  <2> QED  BY <2>1, <2>2
<1>7. WsInv'
  BY <1>5, <1>6 DEF HyprInv, WsInv
<1>8. ASSUME NEW x \in HyprWin, WinOk(x) PROVE WinOk(x)'
  <2>1. SameOf(x)
    BY <1>2 DEF SameOf
  <2> QED  BY <1>1, <1>8, <2>1, OthersKeep
<1>9. WinInv'
  BY <1>8 DEF HyprInv, WinInv
<1> QED  BY <1>4, <1>7, <1>9 DEF HyprInv

LEMMA OnDestroyedKeeps == ASSUME HyprInv, OnWorkspaceDestroyed PROVE HyprInv'
<1> PICK e, w : e = Head(hyprWire) /\ w = e.ws
  OBVIOUS
<1>0. Heard("destroyworkspacev2")
  BY DEF OnWorkspaceDestroyed
<1>1. /\ Reads /\ hyprPhase = "registered" /\ refresh' = TRUE
      /\ UNCHANGED <<monitorOf, placeOf, hyprPhase, persistent, dropped>>
      /\ raced \subseteq raced' /\ Races(e) \subseteq raced' /\ e \in HyprEvents /\ e.name = "destroyworkspacev2"
      /\ hyprWire' \in Seq(HyprEvents) /\ WsWire' /\ WinWire'
  BY <1>0, HeardReads
<1>2. w \in HyprWs /\ e \in AboutWs(w) /\ \A m : WsAfter(e, m) => m # "here"
  BY <1>1 DEF HyprEvents, AboutWs, WsAfter
<1>3. workspacesToRemove' = Append(workspacesToRemove, w) /\ UNCHANGED <<windowMap, workspacesToCreate, windowsToCreate, orphans>>
  BY DEF OnWorkspaceDestroyed
<1> QED  BY <1>1, <1>2, <1>3, RemovalKeeps

\* What is not replayed has no events left.
LEMMA NotReplayed == ASSUME HyprInv, NEW x \in HyprWin, x \notin Replayed PROVE OfWin(x) = {}
<1> SUFFICES ASSUME NEW i \in OfWin(x) PROVE FALSE
  OBVIOUS
<1>1. i \in DOMAIN hyprWire /\ hyprWire[i] \in AboutWin(x)
  BY DEF OfWin, Positions, HyprInv, HyprTypes
<1>2. hyprWire[i] \in OnWire /\ hyprWire[i].name \in {"openwindow", "movewindowv2", "closewindow"} /\ hyprWire[i].win = x
  BY <1>1 DEF AboutWin, OnWire
<1> QED  BY <1>2 DEF Replayed

LEMMA OnMovedKeeps == ASSUME HyprInv, OnWorkspaceMoved PROVE HyprInv'
<1> PICK e, w : e = Head(hyprWire) /\ w = e.ws
  OBVIOUS
<1>0. Heard("moveworkspacev2")
  BY DEF OnWorkspaceMoved
<1>1. /\ Reads /\ hyprPhase = "registered" /\ refresh' = TRUE
      /\ UNCHANGED <<monitorOf, placeOf, hyprPhase, persistent, dropped>>
      /\ raced \subseteq raced' /\ Races(e) \subseteq raced' /\ e \in HyprEvents /\ e.name = "moveworkspacev2"
      /\ hyprWire' \in Seq(HyprEvents) /\ WsWire' /\ WinWire'
  BY <1>0, HeardReads
<1>2. /\ w \in HyprWs /\ e \in AboutWs(w) /\ (\A v \in HyprWs : v # w => e \notin AboutWs(v)) /\ \A x \in HyprWin : e \notin AboutWin(x)
      /\ \A m : WsAfter(e, m) <=> m = e.monitor
  BY <1>1 DEF HyprEvents, AboutWs, AboutWin, WsAfter
<1>3. CASE e.monitor # "here"
  <2>1. workspacesToRemove' = Append(workspacesToRemove, w) /\ UNCHANGED <<windowMap, workspacesToCreate, windowsToCreate, orphans>>
    BY <1>3 DEF OnWorkspaceMoved
  <2> QED  BY <1>1, <1>2, <1>3, <2>1, RemovalKeeps
<1>4. CASE e.monitor = "here"
  <2> PICK wins \in SUBSET HyprWin : wins = WindowsOn(w)
    BY DEF WindowsOn
  <2>1. QueueCreation(w, wins) /\ UNCHANGED <<windowMap, workspacesToRemove, windowsToCreate>>
    BY <1>4 DEF OnWorkspaceMoved
  <2>2. orphans \subseteq orphans' /\ orphans' \subseteq orphans \cup wins
    BY <2>1 DEF QueueCreation
  <2> PICK t : QueuesOne(t, w, wins)
    BY <1>2, <2>1, CreatesOne
  <2>3. /\ t \in Seq(Creations) /\ workspacesToCreate' = workspacesToCreate \o t
        /\ \A i \in DOMAIN t : t[i].ws = w /\ t[i].wins = wins /\ monitorOf[w] = "here"
        /\ monitorOf[w] = "here" => \E i \in DOMAIN t : t[i].ws = w
    BY DEF QueuesOne
  <2>4. Listed' = Listed
    BY <2>1 DEF Listed
  <2>5. /\ workspacesToCreate' \in Seq(Creations)
        /\ \A v : /\ PersistentComes(v) => PersistentComes(v)'
                  /\ (\E c \in ToSet(workspacesToCreate') : c.ws = v)
                       <=> (\E c \in ToSet(workspacesToCreate) : c.ws = v) \/ \E i \in DOMAIN t : t[i].ws = v
    <3>1. GainsCreations(t)
      BY <1>1, <2>3, <2>4, ComingGrows
    <3> QED  BY <3>1 DEF GainsCreations
  <2>6. HyprTypes'
    BY <1>1, <2>1, <2>5 DEF HyprInv, HyprTypes, Listed
  <2>7. \A v : Coming(v)' <=> Coming(v) \/ \E i \in DOMAIN t : t[i].ws = v
    BY <2>1, <2>4, <2>5 DEF Coming
  <2>8. ASSUME NEW v \in HyprWs \ (raced' \cup Persistent) PROVE WsDue(v)'
    <3>0. WsDue(v)
      BY <1>1, <2>8 DEF HyprInv, WsInv
    <3>1. CASE v # w
      <4>1. ComesAsIs(v)
        BY <2>3, <2>7, <3>1 DEF ComesAsIs
      <4> QED  BY <1>1, <1>2, <2>8, <3>0, <3>1, <4>1, WsHeadOff
    <3>2. CASE v = w
      <4>1. NoMore(w, e)
        BY <1>1, <1>2, WsHeadOff
      <4>2. OfWs(w)' = {} => monitorOf[w] = "here" /\ Coming(w)'
        BY <1>2, <1>4, <2>3, <2>7, <4>1 DEF NoMore
      <4> QED  BY <1>1, <3>2, <4>1, <4>2 DEF WsDue, NoMore
    <3> QED  BY <3>1, <3>2
  <2>9. WsInv'
    BY <1>1, <2>5, <2>8 DEF HyprInv, WsInv
  <2>10. ASSUME NEW x \in HyprWin, WinOk(x), x \notin raced' PROVE WinOk(x)'
    <3>1. placeOf[x] = w => OfWin(x) = {}
      <4> SUFFICES ASSUME placeOf[x] = w PROVE OfWin(x) = {}
        OBVIOUS
      <4>1. x \in WindowsOn(w)
        BY DEF WindowsOn
      <4>2. x \notin Replayed
        BY <1>0, <2>10, <4>1 DEF Heard
      <4> QED  BY <4>2, NotReplayed
    <3>2. x \in wins <=> placeOf[x] = w
      BY DEF WindowsOn
    <3>3. ShowsNow(t, x)
      BY <2>3, <3>1, <3>2 DEF ShowsNow
    <3>4. x \in orphans' => x \in orphans \/ (OfWin(x) = {} /\ placeOf[x] # NoWs)
      BY <1>2, <2>2, <3>1, <3>2, HyprAssumption
    <3> QED  BY <1>1, <1>2, <2>1, <2>2, <2>3, <2>10, <3>3, <3>4, AddedKeeps
  <2>11. WinInv'
    BY <1>1, <2>10 DEF HyprInv, WinInv
  <2> QED  BY <1>1, <2>6, <2>9, <2>11 DEF HyprInv
<1> QED  BY <1>3, <1>4

\* Everything that is listed is removed, and only what is here or persistent is created besides what is queued.
LEMMA ComesAnew ==
  ASSUME HyprInv, NEW t, NEW r, Anew(t, r), Listed' = Listed, persistent' = persistent
  PROVE  /\ workspacesToCreate' \in Seq(Creations) /\ workspacesToRemove' \in Seq(HyprWs)
         /\ \A v \in HyprWs : Coming(v)' <=> (\E c \in ToSet(workspacesToCreate) : c.ws = v) \/ \E i \in DOMAIN t : t[i].ws = v
         /\ \A v \in Persistent : PersistentComes(v)'
<1>1. t \in Seq(Creations) /\ workspacesToCreate' = workspacesToCreate \o t
  BY DEF Anew
<1>2. /\ workspacesToCreate' \in Seq(Creations)
      /\ \A v : /\ (\E c \in ToSet(workspacesToCreate') : c.ws = v)
                     <=> (\E c \in ToSet(workspacesToCreate) : c.ws = v) \/ \E i \in DOMAIN t : t[i].ws = v
                /\ \A i \in DOMAIN t : t[i].ws = v /\ t[i].persistent => PersistentComes(v)'
  <2>1. GainsCreations(t)
    BY <1>1, ComingGrows
  <2> QED  BY <2>1 DEF GainsCreations
<1> PICK q, u : q = workspacesToRemove /\ u = workspacesToRemove'
  OBVIOUS
<1>3. u \in Seq(HyprWs) /\ Joined(u, q, r)
  <2>1. q \in Seq(HyprWs) /\ r \in Seq(HyprWs) /\ u = q \o r
    BY DEF HyprInv, HyprTypes, Anew
  <2>2. q \o r \in Seq(HyprWs) /\ Joined(q \o r, q, r)
    BY <2>1, JoinsTo
  <2> QED  BY <2>1, <2>2
<1>4. \A v \in Listed : v \in ToSet(u)
  <2> SUFFICES ASSUME NEW v \in Listed PROVE v \in ToSet(u)
    OBVIOUS
  <2>1. PICK i \in DOMAIN r : r[i] = v
    BY DEF Anew
  <2>2. PICK k \in DOMAIN u : u[k] = r[i]
    BY <1>3 DEF Joined
  <2> QED  BY <2>1, <2>2 DEF ToSet
<1>5. \A v \in HyprWs : Coming(v)' <=> (\E c \in ToSet(workspacesToCreate) : c.ws = v) \/ \E i \in DOMAIN t : t[i].ws = v
  BY <1>2, <1>4 DEF Coming
<1>6. \A v \in Persistent : PersistentComes(v)'
  BY <1>2 DEF Anew
<1> QED  BY <1>2, <1>3, <1>5, <1>6

LEMMA ReloadKeeps == ASSUME HyprInv, OnConfigReloaded PROVE HyprInv'
<1> PICK e : e = Head(hyprWire)
  OBVIOUS
<1>0. Heard("configreloaded")
  BY DEF OnConfigReloaded
<1>1. /\ Reads /\ hyprPhase = "registered" /\ refresh' = TRUE
      /\ UNCHANGED <<monitorOf, placeOf, hyprPhase, persistent, dropped>>
      /\ raced \subseteq raced' /\ e \in HyprEvents /\ e.name = "configreloaded"
      /\ hyprWire' \in Seq(HyprEvents) /\ WsWire' /\ WinWire'
  BY <1>0, HeardReads
<1>2. (\A v \in HyprWs : e \notin AboutWs(v)) /\ \A x \in HyprWin : e \notin AboutWin(x)
  BY <1>1 DEF AboutWs, AboutWin
<1>3. Snapshot /\ UNCHANGED <<windowMap, windowsToCreate>> /\ Listed' = Listed /\ Replayed \subseteq raced'
  BY <1>0 DEF OnConfigReloaded, Heard, Listed
<1> PICK t, r : Anew(t, r)
  BY <1>3, SnapshotIsAnew
<1>4. /\ workspacesToCreate' \in Seq(Creations) /\ workspacesToRemove' \in Seq(HyprWs)
      /\ \A v \in HyprWs : Coming(v)' <=> (\E c \in ToSet(workspacesToCreate) : c.ws = v) \/ \E i \in DOMAIN t : t[i].ws = v
      /\ \A v \in Persistent : PersistentComes(v)'
  BY <1>1, <1>3, ComesAnew
<1>5. HyprTypes'
  BY <1>1, <1>3, <1>4 DEF HyprInv, HyprTypes, Listed
<1>6. ASSUME NEW v \in HyprWs \ (raced' \cup Persistent) PROVE WsDue(v)'
  <2>1. WsDue(v)
    BY <1>1, <1>6 DEF HyprInv, WsInv
  <2>2. Coming(v)' => Coming(v) \/ monitorOf[v] = "here"
    <3>1. (\E c \in ToSet(workspacesToCreate) : c.ws = v) => Coming(v)
      BY DEF Coming
    <3>2. \A i \in DOMAIN t : t[i].ws = v => monitorOf[v] = "here"
      BY <1>6 DEF Anew
    <3>3. Coming(v)' => (\E c \in ToSet(workspacesToCreate) : c.ws = v) \/ \E i \in DOMAIN t : t[i].ws = v
      BY <1>4
    <3> QED  BY <3>1, <3>2, <3>3
  <2>3. monitorOf[v] = "here" => Coming(v)'
    BY <1>4, <1>6 DEF Anew
  <2>4. ComesAsIs(v)
    BY <2>2, <2>3 DEF ComesAsIs
  <2> QED  BY <1>1, <1>2, <1>6, <2>1, <2>4, WsHeadOff
<1>7. WsInv'
  BY <1>1, <1>4, <1>6 DEF WsInv
<1>8. ASSUME NEW x \in HyprWin, WinOk(x), x \notin raced' PROVE WinOk(x)'
  <2>1. OfWin(x) = {}
    BY <1>3, <1>8, NotReplayed
  <2>2. ShowsNow(t, x)
    BY <2>1 DEF ShowsNow, Anew, WindowsOn
  <2>3. (x \in orphans => x \in orphans') /\ (x \in orphans' => x \in orphans \/ (OfWin(x) = {} /\ placeOf[x] # NoWs))
    BY <2>1, HyprAssumption DEF Anew
  <2>4. t \in Seq(Creations) /\ workspacesToCreate' = workspacesToCreate \o t
    BY DEF Anew
  <2> QED  BY <1>1, <1>2, <1>3, <1>8, <2>2, <2>3, <2>4, AddedKeeps
<1>9. WinInv'
  BY <1>1, <1>8 DEF HyprInv, WinInv
<1> QED  BY <1>1, <1>5, <1>7, <1>9 DEF HyprInv

LEMMA ConstructKeeps == ASSUME HyprInv, Construct PROVE HyprInv'
<1>1. /\ hyprPhase = "start" /\ hyprPhase' = "snapshot" /\ Snapshot /\ raced' = Replayed /\ refresh' = TRUE
      /\ UNCHANGED <<monitorOf, placeOf, hyprWire, windowMap, persistent, windowsToCreate, dropped>>
  BY DEF Construct, hyprWorld
<1>2. /\ Listed = {} /\ workspacesToCreate = <<>> /\ windowsToCreate = <<>> /\ orphans = {} /\ Listed' = Listed
      /\ ToSet(workspacesToCreate) = {} /\ ToSet(windowsToCreate) = {}
  BY <1>1 DEF HyprInv, HyprTypes, Listed, ToSet
<1> PICK t, r : Anew(t, r)
  BY <1>1, SnapshotIsAnew
<1>3. /\ workspacesToCreate' \in Seq(Creations) /\ workspacesToRemove' \in Seq(HyprWs)
      /\ \A v \in HyprWs : Coming(v)' <=> (\E c \in ToSet(workspacesToCreate) : c.ws = v) \/ \E i \in DOMAIN t : t[i].ws = v
      /\ \A v \in Persistent : PersistentComes(v)'
  BY <1>1, <1>2, ComesAnew
<1>4. HyprTypes'
  BY <1>1, <1>2, <1>3 DEF HyprInv, HyprTypes, Listed
<1>5. WsWire' /\ WinWire'
  BY <1>1 DEF HyprInv, WsWire, WinWire, OfWs, OfWin
<1>6. ASSUME NEW v \in HyprWs \ (raced' \cup Persistent) PROVE WsDue(v)'
  <2>1. Coming(v)' <=> monitorOf[v] = "here"
    BY <1>2, <1>3, <1>6 DEF Anew
  <2> QED  BY <1>1, <2>1 DEF WsDue, OfWs
<1>7. WsInv'
  BY <1>1, <1>3, <1>6 DEF WsInv
<1>8. workspacesToCreate' = t /\ t \in Seq(Creations) /\ \A c \in ToSet(t) : \E i \in DOMAIN t : c = t[i]
  <2>1. t \in Seq(Creations) /\ workspacesToCreate' = <<>> \o t
    BY <1>2 DEF Anew
  <2>2. <<>> \o t = t
    BY <2>1
  <2> QED  BY <2>1, <2>2 DEF ToSet
<1>9. ASSUME NEW x \in HyprWin, x \notin raced' PROVE WinOk(x)'
  <2>1. OfWin(x) = {} /\ OfWin(x)' = {}
    BY <1>1, <1>9, NotReplayed DEF OfWin
  <2>2. \A c \in ToSet(t) : x \in c.wins <=> placeOf[x] = c.ws
    BY <1>8 DEF Anew, WindowsOn
  <2> PICK w \in HyprWs \cup {NoWs} : w = placeOf[x]
    BY DEF HyprInv, HyprTypes
  <2>3. PlacedAt(x, w)'
    BY <1>1, <1>2, <1>8, <2>2 DEF PlacedAt
  <2>4. OnTrack(x, w)'
    BY <1>1, <2>1 DEF OnTrack
  <2>5. w = NoWs => x \notin orphans'
    BY <1>2, HyprAssumption DEF Anew
  <2>6. w # NoWs => Findable(x)'
    <3> SUFFICES ASSUME w \in HyprWs PROVE Findable(x)'
      OBVIOUS
    <3>1. monitorOf[w] \in {"here", "elsewhere"} /\ w \in Existing
      BY HyprAssumption DEF HyprInv, HyprTypes, WinWire, Existing
    <3>2. CASE monitorOf[w] = "elsewhere"
      BY <3>1, <3>2 DEF Anew, Findable
    <3>3. CASE monitorOf[w] = "here"
      <4> PICK I : I = {i \in DOMAIN t : t[i].ws = w}
        OBVIOUS
      <4>1. I # {} /\ I \subseteq Nat
        BY <1>8, <3>3 DEF Anew
      <4>2. PICK i \in I : \A j \in I : i <= j
        BY <4>1, LeastNumber
      <4>3. i \in DOMAIN t /\ t[i].ws = w /\ x \in t[i].wins /\ \A j \in DOMAIN t : t[j].ws = t[i].ws => i <= j
        BY <4>2 DEF Anew, WindowsOn
      <4>4. InCreation(x)'
        BY <1>2, <1>8, <4>3 DEF InCreation
      <4> QED  BY <4>4 DEF Findable
    <3> QED  BY <3>1, <3>2, <3>3
  <2>7. Followed(x, w)'
    BY <2>3, <2>4, <2>5, <2>6 DEF Followed
  <2>8. Present(x)'
    BY <1>1, <1>2, <1>8, <2>2 DEF Present
  <2>9. QueuedOnce(x)'
    BY <1>1, <1>2 DEF QueuedOnce, Queued
  <2> QED  BY <2>7, <2>8, <2>9 DEF WinOk
<1>10. WinInv'
  BY <1>1, <1>9 DEF WinInv
<1> QED  BY <1>4, <1>5, <1>7, <1>10 DEF HyprInv

-----------------------------------------------------------------------------
(* What is left of a sequence.                                               *)

\* t is s at the positions in I: each of them once.
Leaves(t, s, I) ==
  /\ Len(t) \in Nat
  /\ \A n \in 1..Len(t) : Nth(I, n) \in I /\ Nth(I, n) \in 1..Len(s) /\ t[n] = s[Nth(I, n)]
  /\ \A a, b \in 1..Len(t) : Nth(I, a) = Nth(I, b) => a = b
  /\ \A i \in I : \E n \in 1..Len(t) : Nth(I, n) = i

\* Different positions have a different number of positions below them, so that every number
\* up to theirs belongs to one of them.
Below(I, i) == {h \in I : h < i}
LEMMA NthIsOne ==
  ASSUME NEW L \in Nat, NEW I \in SUBSET (1..L)
  PROVE  /\ Cardinality(I) \in Nat
         /\ \A n \in 1..Cardinality(I) : Nth(I, n) \in I /\ Cardinality(Below(I, Nth(I, n))) = n - 1
         /\ \A i \in I : \E n \in 1..Cardinality(I) : Nth(I, n) = i
<1> PICK c : c = Cardinality(I)
  OBVIOUS
<1>1. IsFiniteSet(I) /\ c \in Nat /\ \A i \in I : i \in Nat
  <2>1. IsFiniteSet(1..L)
    BY FS_Interval
  <2>2. IsFiniteSet(I)
    BY <2>1, FS_Subset
  <2> QED  BY <2>2, FS_CardinalityType
<1>2. ASSUME NEW i \in I
      PROVE  /\ IsFiniteSet(Below(I, i)) /\ Cardinality(Below(I, i)) \in Nat
             /\ Cardinality(Below(I, i)) + 1 \in 1..c
  <2>1. Below(I, i) \in SUBSET I /\ Below(I, i) # I
    BY <1>1 DEF Below
  <2>2. IsFiniteSet(Below(I, i)) /\ Cardinality(Below(I, i)) \in Nat
    BY <1>1, <2>1, FS_Subset, FS_CardinalityType
  <2>3. Cardinality(Below(I, i)) < c
    BY <1>1, <2>1, <2>2, FS_Subset
  <2> QED  BY <1>1, <2>2, <2>3
<1>3. ASSUME NEW x \in I, NEW y \in I, x < y PROVE Cardinality(Below(I, x)) < Cardinality(Below(I, y))
  <2>1. Below(I, x) \in SUBSET Below(I, y) /\ Below(I, x) # Below(I, y)
    <3>1. x \in Nat /\ y \in Nat /\ \A h \in I : h \in Nat
      BY <1>1
    <3>2. \A h \in I : h < x => h < y
      BY <1>3, <3>1
    <3>3. x \in Below(I, y) /\ x \notin Below(I, x)
      BY <1>3, <3>1 DEF Below
    <3> QED  BY <3>2, <3>3 DEF Below
  <2>2. Cardinality(Below(I, x)) <= Cardinality(Below(I, y)) /\ Cardinality(Below(I, x)) # Cardinality(Below(I, y))
    BY <1>2, <2>1, FS_Subset
  <2> QED  BY <1>2, <2>2
<1>4. ASSUME NEW i \in I, NEW j \in I, Cardinality(Below(I, i)) = Cardinality(Below(I, j)) PROVE i = j
  <2>1. ~(i < j) /\ ~(j < i)
    BY <1>2, <1>3, <1>4
  <2>2. i \in Nat /\ j \in Nat
    BY <1>1
  <2> QED  BY <2>1, <2>2
<1>5. ASSUME NEW n \in 1..c PROVE \E i \in I : Cardinality(Below(I, i)) = n - 1
  <2>1. CASE \E i \in I : Cardinality(Below(I, i)) + 1 = n
    BY <1>2, <2>1
  <2>2. CASE \A i \in I : Cardinality(Below(I, i)) + 1 # n
    <3>1. PICK others : others = (1..c) \ {n}
      OBVIOUS
    <3>2. PICK rank : rank = [i \in I |-> Cardinality(Below(I, i)) + 1]
      OBVIOUS
    <3>3. rank \in [I -> others]
      BY <1>2, <2>2, <3>1, <3>2
    <3>4. IsFiniteSet(1..c) /\ Cardinality(1..c) = c
      BY <1>1, FS_Interval
    <3>5. IsFiniteSet(others) /\ Cardinality(others) = c - 1
      BY <3>1, <3>4, FS_RemoveElement
    <3>6. Cardinality(others) < Cardinality(I)
      BY <1>1, <3>5
    <3>7. PICK x, y \in I : x # y /\ rank[x] = rank[y]
      BY <1>1, <3>3, <3>5, <3>6, FS_PigeonHole
    <3>8. Cardinality(Below(I, x)) + 1 = Cardinality(Below(I, y)) + 1
      BY <3>2, <3>7
    <3> QED  BY <1>2, <1>4, <3>7, <3>8
  <2> QED  BY <2>1, <2>2
<1>6. ASSUME NEW n \in 1..c PROVE Nth(I, n) \in I /\ Cardinality(Below(I, Nth(I, n))) = n - 1
  BY <1>5 DEF Nth, Below
<1>7. ASSUME NEW i \in I PROVE \E n \in 1..c : Nth(I, n) = i
  <2>1. PICK n \in 1..c : n = Cardinality(Below(I, i)) + 1
    BY <1>2
  <2>2. Cardinality(Below(I, Nth(I, n))) = Cardinality(Below(I, i))
    BY <1>2, <1>6, <2>1
  <2> QED  BY <1>4, <1>6, <2>2
<1> QED  BY <1>1, <1>6, <1>7

LEMMA AtLeaves ==
  ASSUME NEW S, NEW s \in Seq(S), NEW I \in SUBSET (1..Len(s)), NEW t, t = At(s, I)
  PROVE  t \in Seq(S) /\ Leaves(t, s, I)
<1> PICK c : c = Cardinality(I)
  OBVIOUS
<1>1. /\ c \in Nat
      /\ \A n \in 1..c : Nth(I, n) \in I /\ Cardinality(Below(I, Nth(I, n))) = n - 1
      /\ \A i \in I : \E n \in 1..c : Nth(I, n) = i
  <2>1. Len(s) \in Nat
    OBVIOUS
  <2> QED  BY <2>1, NthIsOne
<1>2. t = [n \in 1..c |-> s[Nth(I, n)]]
  BY DEF At
<1>3. \A n \in 1..c : s[Nth(I, n)] \in S
  <2>1. \A i \in 1..Len(s) : s[i] \in S
    OBVIOUS
  <2>2. \A n \in 1..c : Nth(I, n) \in 1..Len(s)
    BY <1>1
  <2> QED  BY <2>1, <2>2
<1>4. t \in Seq(S) /\ Len(t) = c /\ \A n \in 1..c : t[n] = s[Nth(I, n)]
  BY <1>1, <1>2, <1>3
<1>5. ASSUME NEW a \in 1..c, NEW b \in 1..c, Nth(I, a) = Nth(I, b) PROVE a = b
  <2>1. a - 1 = b - 1
    BY <1>1, <1>5
  <2> QED  BY <1>1, <2>1
<1> QED  BY <1>1, <1>4, <1>5 DEF Leaves

-----------------------------------------------------------------------------
(* The update.                                                               *)

\* A workspace that is made is made from the first creation of it.
IsFirst(i, w) ==
  /\ i \in DOMAIN workspacesToCreate /\ workspacesToCreate[i].ws = w
  /\ \A j \in DOMAIN workspacesToCreate : workspacesToCreate[j].ws = w => i <= j
LEMMA FirstIs ==
  ASSUME HyprInv, NEW w, \E c \in ToSet(workspacesToCreate) : c.ws = w
  PROVE  \E i : IsFirst(i, w) /\ FirstCreation(w) = workspacesToCreate[i]
<1> PICK I : I = {k \in 1..Len(workspacesToCreate) : workspacesToCreate[k].ws = w}
  OBVIOUS
<1>1. Len(workspacesToCreate) \in Nat /\ DOMAIN workspacesToCreate = 1..Len(workspacesToCreate)
  BY DEF HyprInv, HyprTypes
<1>2. I \subseteq Nat /\ I # {}
  BY <1>1 DEF ToSet
<1>3. Min(I) \in I /\ \A y \in I : Min(I) <= y
  BY <1>2, MinIsLeast
<1>4. FirstCreation(w) = workspacesToCreate[Min(I)]
  BY <1>2 DEF FirstCreation, SelectInSeq
<1> QED  BY <1>1, <1>3, <1>4 DEF IsFirst

LEMMA CreatedIs ==
  ASSUME HyprInv
  PROVE  /\ DOMAIN Created \subseteq HyprWs /\ Kept \subseteq Listed /\ Kept \subseteq DOMAIN Created
         /\ \A w : w \in DOMAIN Created <=> w \in Kept \/ \E c \in ToSet(workspacesToCreate) : c.ws = w
         /\ \A w \in Kept : Created[w] = windowMap[w]
         /\ \A w \in DOMAIN Created \ Kept : \E i : IsFirst(i, w) /\ Created[w] = workspacesToCreate[i].wins
         /\ \A w \in DOMAIN Created : Created[w] \subseteq HyprWin
<1>1. DOMAIN Created = Kept \cup {c.ws : c \in ToSet(workspacesToCreate)} /\ Kept \subseteq Listed /\ Listed \subseteq HyprWs
  BY DEF Created, Kept, HyprInv, HyprTypes
<1>2. \A w : w \in DOMAIN Created <=> w \in Kept \/ \E c \in ToSet(workspacesToCreate) : c.ws = w
  BY <1>1
<1>3. \A w \in Kept : Created[w] = windowMap[w]
  BY DEF Created
<1>4. ASSUME NEW w \in DOMAIN Created \ Kept PROVE \E i : IsFirst(i, w) /\ Created[w] = workspacesToCreate[i].wins
  <2>1. PICK i : IsFirst(i, w) /\ FirstCreation(w) = workspacesToCreate[i]
    BY <1>2, <1>4, FirstIs
  <2>2. Created[w] = FirstCreation(w).wins
    BY <1>1, <1>4 DEF Created
  <2> QED  BY <2>1, <2>2
<1>5. DOMAIN Created \subseteq HyprWs
  BY <1>1, QueuedOnes
<1>6. ASSUME NEW w \in DOMAIN Created PROVE Created[w] \subseteq HyprWin
  <2>1. CASE w \in Kept
    BY <1>1, <1>3, <2>1 DEF HyprInv, HyprTypes
  <2>2. CASE w \notin Kept
    <3>1. PICK i : IsFirst(i, w) /\ Created[w] = workspacesToCreate[i].wins
      BY <1>4, <1>6, <2>2
    <3>2. workspacesToCreate[i] \in Creations
      BY <3>1, QueuedOnes DEF IsFirst
    <3> QED  BY <3>1, <3>2 DEF Creations
  <2> QED  BY <2>1, <2>2
<1> QED  BY <1>1, <1>2, <1>3, <1>4, <1>5, <1>6

\* The windows that wait on: each of them once, as it was but for its age.
WaitsOn(u, n, k) == k \in StillWaiting /\ k \in DOMAIN windowsToCreate
                    /\ u[n].win = windowsToCreate[k].win /\ u[n].ws = windowsToCreate[k].ws
LEMMA AgedAre ==
  ASSUME HyprInv, NEW u, u = Aged(At(windowsToCreate, StillWaiting))
  PROVE  /\ u \in Seq(Payloads)
         /\ \A n \in DOMAIN u : WaitsOn(u, n, Nth(StillWaiting, n))
         /\ \A n, m \in DOMAIN u : Nth(StillWaiting, n) = Nth(StillWaiting, m) => n = m
         /\ \A k \in StillWaiting : \E n \in DOMAIN u : Nth(StillWaiting, n) = k
<1> PICK s, I, t : s = windowsToCreate /\ I = StillWaiting /\ t = At(s, I)
  OBVIOUS
<1>1. s \in Seq(Payloads) /\ I \in SUBSET (1..Len(s)) /\ DOMAIN s = 1..Len(s)
  BY DEF HyprInv, HyprTypes, StillWaiting
<1>2. t \in Seq(Payloads) /\ Leaves(t, s, I)
  BY <1>1, AtLeaves
<1>3. u = [i \in DOMAIN t |-> [t[i] EXCEPT !.age = @ + 1]] /\ DOMAIN t = 1..Len(t) /\ Len(t) \in Nat
  BY <1>2 DEF Aged
<1>4. \A n \in DOMAIN t : t[n] \in Payloads
  BY <1>2
<1>5. DOMAIN u = 1..Len(t) /\ \A n \in 1..Len(t) : u[n] \in Payloads /\ u[n].win = t[n].win /\ u[n].ws = t[n].ws
  BY <1>3, <1>4 DEF Payloads
<1>6. u \in Seq(Payloads)
  BY <1>3, <1>5
<1>7. ASSUME NEW n \in DOMAIN u PROVE WaitsOn(u, n, Nth(I, n))
  BY <1>1, <1>2, <1>5 DEF Leaves, WaitsOn
<1>8. /\ \A a, b \in 1..Len(t) : Nth(I, a) = Nth(I, b) => a = b
      /\ \A i \in I : \E n \in 1..Len(t) : Nth(I, n) = i
  BY <1>2 DEF Leaves
<1> QED  BY <1>5, <1>6, <1>7, <1>8

LEMMA UpdateTypes ==
  ASSUME HyprInv, DoUpdate
  PROVE  HyprTypes' /\ Listed' = DOMAIN Created
<1>1. /\ hyprPhase = "registered" /\ refresh' = (Inserted # {})
      /\ windowMap' = [w \in DOMAIN Created |-> Created[w] \cup {p.win : p \in {q \in Inserted : q.ws = w}}]
      /\ persistent' = (persistent \cap Kept) \cup {c.ws : c \in {d \in ToSet(workspacesToCreate) : d.persistent}}
      /\ workspacesToCreate' = <<>> /\ workspacesToRemove' = <<>>
      /\ windowsToCreate' = Aged(At(windowsToCreate, StillWaiting))
      /\ UNCHANGED <<monitorOf, placeOf, hyprWire, hyprPhase>>
  BY DEF DoUpdate, hyprWorld
<1>2. DOMAIN Created \subseteq HyprWs /\ \A w \in DOMAIN Created : Created[w] \subseteq HyprWin
  BY CreatedIs
<1>3. \A p \in Inserted : p.win \in HyprWin
  BY QueuedOnes DEF Inserted, Payloads, ToSet
<1>4. Listed' = DOMAIN Created
  BY <1>1 DEF Listed
<1>5. windowMap' \in [Listed' -> SUBSET HyprWin]
  BY <1>1, <1>2, <1>3, <1>4
<1>6. persistent' \subseteq Persistent
  <2>1. \A c \in ToSet(workspacesToCreate) : c.persistent => c.ws \in Persistent
    BY QueuedOnes DEF Creations
  <2> QED  BY <1>1, <2>1 DEF HyprInv, HyprTypes
<1>7. windowsToCreate' \in Seq(Payloads)
  BY <1>1, AgedAre
<1>8. workspacesToCreate' \in Seq(Creations) /\ workspacesToRemove' \in Seq(HyprWs)
  BY <1>1
<1>9. refresh' \in BOOLEAN
  BY <1>1
<1> QED  BY <1>1, <1>2, <1>4, <1>5, <1>6, <1>7, <1>8, <1>9 DEF HyprInv, HyprTypes

LEMMA UpdateLists == ASSUME HyprInv, DoUpdate PROVE WsInv'
<1>0. /\ hyprPhase = "registered" /\ refresh' = (Inserted # {})
      /\ persistent' = (persistent \cap Kept) \cup {c.ws : c \in {d \in ToSet(workspacesToCreate) : d.persistent}}
      /\ workspacesToCreate' = <<>> /\ workspacesToRemove' = <<>>
      /\ windowsToCreate' = Aged(At(windowsToCreate, StillWaiting))
      /\ UNCHANGED <<monitorOf, placeOf, hyprWire, hyprPhase, raced>>
  BY DEF DoUpdate, hyprWorld
<1>1. Listed' = DOMAIN Created /\ ToSet(workspacesToCreate') = {} /\ ToSet(workspacesToRemove') = {}
  BY <1>0, UpdateTypes DEF ToSet
<1>2. \A w : w \in DOMAIN Created <=> w \in Kept \/ \E c \in ToSet(workspacesToCreate) : c.ws = w
  BY CreatedIs
<1>3. ASSUME NEW v \in HyprWs \ (raced \cup Persistent) PROVE WsDue(v)'
  <2>1. v \notin persistent
    BY <1>3 DEF HyprInv, HyprTypes
  <2>2. v \in Kept <=> v \in Listed /\ v \notin ToSet(workspacesToRemove)
    BY <2>1 DEF Kept
  <2>3. Coming(v)' <=> v \in DOMAIN Created
    BY <1>1 DEF Coming
  <2>4. Coming(v) <=> v \in DOMAIN Created
    BY <1>2, <2>2 DEF Coming
  <2>5. WsDue(v)
    BY <1>0, <1>3 DEF HyprInv, WsInv
  <2>6. (Coming(v)' <=> Coming(v)) /\ OfWs(v)' = OfWs(v)
    BY <1>0, <2>3, <2>4 DEF OfWs
  <2> QED  BY <1>0, <2>5, <2>6 DEF WsDue
<1>4. ASSUME NEW v \in Persistent PROVE PersistentComes(v)'
  <2>1. PersistentComes(v)
    BY <1>0, <1>4 DEF HyprInv, WsInv
  <2>2. CASE v \in Listed /\ v \in persistent
    <3>1. v \in Kept
      BY <2>2 DEF Kept
    <3> QED  BY <1>0, <1>1, <1>2, <2>2, <3>1 DEF PersistentComes
  <2>3. ASSUME NEW c \in ToSet(workspacesToCreate), c.ws = v, c.persistent PROVE PersistentComes(v)'
    <3>1. v \in DOMAIN Created /\ v \in persistent'
      BY <1>0, <1>2, <2>3
    <3> QED  BY <1>1, <3>1 DEF PersistentComes
  <2> QED  BY <2>1, <2>2, <2>3 DEF PersistentComes
<1>5. \A p \in ToSet(windowsToCreate') : p.ws \notin Listed'
  <2> SUFFICES ASSUME NEW p \in ToSet(windowsToCreate') PROVE p.ws \notin Listed'
    OBVIOUS
  <2> PICK u : u = windowsToCreate'
    OBVIOUS
  <2>1. PICK n \in DOMAIN u : p = u[n]
    BY DEF ToSet
  <2>2. WaitsOn(u, n, Nth(StillWaiting, n))
    BY <1>0, <2>1, AgedAre
  <2> PICK k : k = Nth(StillWaiting, n)
    OBVIOUS
  <2>3. k \in StillWaiting /\ k \in DOMAIN windowsToCreate /\ p.ws = windowsToCreate[k].ws
    BY <2>1, <2>2 DEF WaitsOn
  <2>4. windowsToCreate[k] \in ToSet(windowsToCreate) \ Inserted
    BY <2>3 DEF StillWaiting, NotCreated
  <2>5. windowsToCreate[k].ws \notin DOMAIN Created
    BY <2>4 DEF Inserted
  <2> QED  BY <1>1, <2>3, <2>5
<1> QED  BY <1>0, <1>3, <1>4, <1>5 DEF WsInv

LEMMA UpdatePlaces == ASSUME HyprInv, DoUpdate PROVE WinInv'
<1> PICK u, q, C : u = windowsToCreate' /\ q = windowsToCreate /\ C = DOMAIN Created
  OBVIOUS
<1>0. /\ hyprPhase = "registered"
      /\ windowMap' = [w \in C |-> Created[w] \cup {p.win : p \in {r \in Inserted : r.ws = w}}]
      /\ workspacesToCreate' = <<>> /\ u = Aged(At(q, StillWaiting))
      /\ orphans' = orphans \cup {p.win : p \in {r \in NotCreated : ~Waiting(r)}}
      /\ dropped' = dropped \cup Dropped
      /\ UNCHANGED <<monitorOf, placeOf, hyprWire, hyprPhase, raced>>
  BY DEF DoUpdate, hyprWorld
<1>1. Listed' = C /\ ToSet(workspacesToCreate') = {}
  BY <1>0, UpdateTypes DEF ToSet
<1>2. /\ C \subseteq HyprWs /\ Kept \subseteq Listed /\ Kept \subseteq C
      /\ \A w : w \in C <=> w \in Kept \/ \E c \in ToSet(workspacesToCreate) : c.ws = w
      /\ \A w \in Kept : Created[w] = windowMap[w]
      /\ \A w \in C \ Kept : \E i : IsFirst(i, w) /\ Created[w] = workspacesToCreate[i].wins
  BY CreatedIs
<1>3. /\ \A n \in DOMAIN u : WaitsOn(u, n, Nth(StillWaiting, n))
      /\ \A n, m \in DOMAIN u : Nth(StillWaiting, n) = Nth(StillWaiting, m) => n = m
      /\ \A k \in StillWaiting : \E n \in DOMAIN u : Nth(StillWaiting, n) = k
  BY <1>0, AgedAre
<1>4. \A v \in C : windowMap'[v] = Created[v] \cup {p.win : p \in {r \in Inserted : r.ws = v}}
  BY <1>0
<1>5. \A k \in DOMAIN q : q[k] \in ToSet(q) /\ q[k].ws \in HyprWs
  BY QueuedOnes
<1>6. (\A p \in Inserted : \E k \in DOMAIN q : p = q[k] /\ q[k].ws \in C) /\ \A p \in NotCreated : \E k \in DOMAIN q : p = q[k]
  BY DEF Inserted, NotCreated, ToSet
<1>7. ASSUME NEW k \in DOMAIN q PROVE IF q[k].ws \in C THEN q[k] \in Inserted ELSE q[k] \in NotCreated
  BY <1>5 DEF Inserted, NotCreated
<1>8. ASSUME NEW x \in HyprWin \ (raced \cup dropped'), WinOk(x) PROVE WinOk(x)'
  <2> PICK w \in HyprWs \cup {NoWs} : Followed(x, w)
    BY <1>8 DEF WinOk
  <2>1. /\ \A v \in Listed : x \in windowMap[v] => v = w
        /\ \A c \in ToSet(workspacesToCreate) : x \in c.wins => c.ws = w
        /\ \A k \in DOMAIN q : q[k].win = x => q[k].ws = w
    BY <1>5 DEF Followed, PlacedAt
  \* Where it is shown and where it is queued afterwards.
  <2>2. ASSUME NEW v \in C, x \in Created[v] PROVE v = w
    <3>1. CASE v \in Kept
      BY <1>2, <2>1, <2>2, <3>1
    <3>2. CASE v \notin Kept
      <4>1. PICK i : IsFirst(i, v) /\ Created[v] = workspacesToCreate[i].wins
        BY <1>2, <2>2, <3>2
      <4>2. workspacesToCreate[i] \in ToSet(workspacesToCreate) /\ workspacesToCreate[i].ws = v
        BY <4>1, QueuedOnes DEF IsFirst
      <4> QED  BY <2>1, <2>2, <4>1, <4>2
    <3> QED  BY <3>1, <3>2
  <2>3. ASSUME NEW v \in C, x \in windowMap'[v] PROVE v = w
    <3>1. CASE x \in Created[v]
      BY <2>2, <3>1
    <3>2. ASSUME NEW p \in Inserted, p.ws = v, p.win = x PROVE v = w
      <4>1. PICK k \in DOMAIN q : p = q[k]
        BY <1>6
      <4> QED  BY <2>1, <3>2, <4>1
    <3> QED  BY <1>4, <2>3, <3>1, <3>2
  <2>4. ASSUME NEW n \in DOMAIN u, u[n].win = x PROVE u[n].ws = w /\ w \notin C
    <3> PICK k : k = Nth(StillWaiting, n)
      OBVIOUS
    <3>1. WaitsOn(u, n, k)
      BY <1>3
    <3>2. k \in DOMAIN q /\ q[k].win = x /\ u[n].ws = q[k].ws /\ q[k] \in NotCreated
      BY <2>4, <3>1 DEF WaitsOn, StillWaiting
    <3>3. q[k].ws \notin C
      BY <1>5, <3>2 DEF NotCreated, Inserted
    <3> QED  BY <2>1, <3>2, <3>3
  <2>5. PlacedAt(x, w)'
    <3>1. \A p \in ToSet(u) : p.win = x => p.ws = w
      BY <2>4 DEF ToSet
    <3> QED  BY <1>1, <2>3, <3>1 DEF PlacedAt
  <2>6. OnTrack(x, w)' /\ OfWin(x)' = OfWin(x)
    <3>1. OnTrack(x, w)
      BY DEF Followed
    <3> QED  BY <1>0, <3>1 DEF OnTrack, OfWin
  <2>7. w = NoWs => x \notin orphans'
    <3> SUFFICES ASSUME w = NoWs, x \in orphans' PROVE FALSE
      OBVIOUS
    <3>1. x \notin orphans
      BY DEF Followed
    <3>2. PICK p \in NotCreated : p.win = x
      BY <1>0, <3>1
    <3>3. PICK k \in DOMAIN q : p = q[k]
      BY <1>6
    <3> QED  BY <1>5, <2>1, <3>2, <3>3, HyprAssumption
  \* A window that is queued is shown, waits on, or is an orphan.
  <2>8. ASSUME NEW k \in DOMAIN q, q[k].win = x
        PROVE  IF w \in C THEN x \in windowMap'[w] ELSE Queued(x)' \/ x \in orphans'
    <3>1. q[k].ws = w
      BY <2>1, <2>8
    <3>2. CASE w \in C
      <4>1. q[k] \in Inserted
        BY <1>7, <3>1, <3>2
      <4> QED  BY <1>4, <2>8, <3>1, <3>2, <4>1
    <3>3. CASE w \notin C /\ Waiting(q[k])
      <4>1. k \in StillWaiting
        BY <1>7, <3>1, <3>3 DEF StillWaiting
      <4>2. PICK n \in DOMAIN u : Nth(StillWaiting, n) = k
        BY <1>3, <4>1
      <4>3. WaitsOn(u, n, k)
        BY <1>3, <4>2
      <4>4. u[n].win = x
        BY <2>8, <4>3 DEF WaitsOn
      <4> QED  BY <3>3, <4>4 DEF Queued
    <3>4. CASE w \notin C /\ ~Waiting(q[k])
      <4>1. q[k] \in NotCreated
        BY <1>7, <3>1, <3>4
      <4> QED  BY <1>0, <2>8, <3>4, <4>1
    <3> QED  BY <3>2, <3>3, <3>4
  <2>9. w # NoWs => Findable(x)'
    <3> SUFFICES ASSUME w # NoWs PROVE Findable(x)'
      OBVIOUS
    <3>1. x \in orphans \/ Queued(x) \/ InMap(x) \/ InCreation(x)
      BY DEF Followed, Findable
    <3>2. CASE x \in orphans
      BY <1>0, <3>2 DEF Findable
    <3>3. CASE Queued(x)
      <4>1. PICK k \in DOMAIN q : q[k].win = x
        BY <3>3 DEF Queued
      <4>2. (w \in C /\ x \in windowMap'[w]) \/ Queued(x)' \/ x \in orphans'
        BY <2>8, <4>1
      <4> QED  BY <1>1, <4>2 DEF Findable, InMap
    <3>4. ASSUME NEW v \in C, x \in Created[v] PROVE Findable(x)'
      <4>1. x \in windowMap'[v]
        BY <1>4, <3>4
      <4> QED  BY <1>1, <4>1 DEF Findable, InMap
    <3>5. CASE InMap(x)
      <4>1. PICK v \in Listed : x \in windowMap[v]
        BY <3>5 DEF InMap
      <4>2. x \notin Dropped
        BY <1>0, <1>8
      <4> PICK A, B : A = UNION {windowMap[y] : y \in Listed} /\ B = UNION {Created[y] : y \in DOMAIN Created}
        OBVIOUS
      <4>3. x \in A /\ Dropped = A \ B
        BY <4>1 DEF Dropped
      <4>4. x \in B
        BY <4>2, <4>3
      <4>5. \E y \in C : x \in Created[y]
        BY <4>4
      <4> QED  BY <3>4, <4>5
    <3>6. CASE InCreation(x)
      <4>1. PICK i \in DOMAIN workspacesToCreate :
               /\ x \in workspacesToCreate[i].wins /\ workspacesToCreate[i].ws \notin Listed
               /\ \A j \in DOMAIN workspacesToCreate : workspacesToCreate[j].ws = workspacesToCreate[i].ws => i <= j
        BY <3>6 DEF InCreation
      <4> PICK v : v = workspacesToCreate[i].ws
        OBVIOUS
      <4>2. v \in C \ Kept
        BY <1>2, <4>1, QueuedOnes
      <4>3. PICK j : IsFirst(j, v) /\ Created[v] = workspacesToCreate[j].wins
        BY <1>2, <4>2
      <4>4. i <= j /\ j <= i /\ i \in Nat /\ j \in Nat
        BY <4>1, <4>3 DEF IsFirst, HyprInv, HyprTypes
      <4>5. x \in Created[v]
        BY <4>1, <4>3, <4>4
      <4> QED  BY <3>4, <4>2, <4>5
    <3> QED  BY <3>1, <3>2, <3>3, <3>5, <3>6
  <2>10. Followed(x, w)'
    BY <2>5, <2>6, <2>7, <2>9 DEF Followed
  <2>11. Present(x)'
    <3> SUFFICES ASSUME OfWin(x) = {}, placeOf[x] \in C PROVE x \in windowMap'[placeOf[x]] \/ Queued(x)'
      BY <1>0, <1>1, <2>6 DEF Present
    <3>1. w = placeOf[x]
      BY DEF Followed, OnTrack
    <3>2. CASE Queued(x)
      <4>1. PICK k \in DOMAIN q : q[k].win = x
        BY <3>2 DEF Queued
      <4> QED  BY <2>8, <3>1, <4>1
    <3>3. CASE w \in Kept
      <4>1. x \in windowMap[w] \/ Queued(x)
        BY <1>2, <1>8, <3>1, <3>3 DEF WinOk, Present
      <4>2. Created[w] = windowMap[w]
        BY <1>2, <3>3
      <4>3. Created[w] \subseteq windowMap'[w]
        BY <1>4, <3>1
      <4> QED  BY <3>1, <3>2, <4>1, <4>2, <4>3
    <3>4. CASE w \notin Kept
      <4>1. PICK i : IsFirst(i, w) /\ Created[w] = workspacesToCreate[i].wins
        BY <1>2, <3>1, <3>4
      <4>2. workspacesToCreate[i] \in ToSet(workspacesToCreate) /\ workspacesToCreate[i].ws = w
        BY <4>1, QueuedOnes DEF IsFirst
      <4>3. x \in Created[w] \/ Queued(x)
        BY <1>8, <3>1, <4>1, <4>2 DEF WinOk, Present
      <4>4. Created[w] \subseteq windowMap'[w]
        BY <1>4, <3>1
      <4> QED  BY <3>1, <3>2, <4>3, <4>4
    <3> QED  BY <3>3, <3>4
  <2>12. QueuedOnce(x)'
    <3>1. Queued(x)' => ~InMap(x)'
      <4> SUFFICES ASSUME Queued(x)', InMap(x)' PROVE FALSE
        OBVIOUS
      <4>1. PICK n \in DOMAIN u : u[n].win = x
        BY DEF Queued
      <4>2. PICK v \in C : x \in windowMap'[v]
        BY <1>1 DEF InMap
      <4> QED  BY <2>3, <2>4, <4>1, <4>2
    <3>2. ASSUME NEW n \in DOMAIN u, NEW m \in DOMAIN u, u[n].win = x, u[m].win = x PROVE n = m
      <4> PICK k, l : k = Nth(StillWaiting, n) /\ l = Nth(StillWaiting, m)
        OBVIOUS
      <4>1. WaitsOn(u, n, k) /\ WaitsOn(u, m, l)
        BY <1>3
      <4>2. k \in DOMAIN q /\ l \in DOMAIN q /\ q[k].win = x /\ q[l].win = x
        BY <3>2, <4>1 DEF WaitsOn
      <4>3. k = l
        BY <1>8, <4>2 DEF WinOk, QueuedOnce
      <4> QED  BY <1>3, <4>3
    <3> QED  BY <3>1, <3>2 DEF QueuedOnce
  <2> QED  BY <2>10, <2>11, <2>12 DEF WinOk
<1> QED  BY <1>0, <1>8 DEF HyprInv, WinInv

LEMMA HyprUpdateKeeps == ASSUME HyprInv, DoUpdate PROVE HyprInv'
<1>1. HyprTypes' /\ WsInv' /\ WinInv'
  BY UpdateTypes, UpdateLists, UpdatePlaces
<1>2. UNCHANGED <<monitorOf, placeOf, hyprWire>>
  BY DEF DoUpdate, hyprWorld
<1>3. WsWire' /\ WinWire'
  BY <1>2 DEF HyprInv, WsWire, WinWire, OfWs, OfWin
<1> QED  BY <1>1, <1>3 DEF HyprInv

LEMMA HyprKeeps == HyprInv /\ [HyprWsNext]_hyprWsVars => HyprInv'
<1> SUFFICES ASSUME HyprInv, HyprWsNext \/ UNCHANGED hyprWsVars PROVE HyprInv'
  OBVIOUS
<1>1. CASE CompositorStep  BY <1>1, HyprlandTells
<1>2. CASE Construct  BY <1>2, ConstructKeeps
<1>3. CASE RegisterIpc \/ UNCHANGED hyprWsVars  BY <1>3, RegisterKeeps
<1>4. CASE Unheard  BY <1>4, UnheardKeeps
<1>5. CASE OnWorkspaceCreated  BY <1>5, OnCreatedKeeps
<1>6. CASE OnWorkspaceDestroyed  BY <1>6, OnDestroyedKeeps
<1>7. CASE OnWorkspaceMoved  BY <1>7, OnMovedKeeps
<1>8. CASE OnWindowOpened  BY <1>8, OpenedKeeps
<1>9. CASE OnWindowClosed  BY <1>9, ClosedKeeps
<1>10. CASE OnWindowMoved  BY <1>10, MovedKeeps
<1>11. CASE OnConfigReloaded  BY <1>11, ReloadKeeps
<1>12. CASE DoUpdate  BY <1>12, HyprUpdateKeeps
<1> QED
  BY <1>1, <1>2, <1>3, <1>4, <1>5, <1>6, <1>7, <1>8, <1>9, <1>10, <1>11, <1>12 DEF HyprWsNext

\* For any number of workspaces and windows that come, go and move at any time, and any number
\* of events waiting: at rest hyprland/workspaces lists the compositor's workspaces and has the
\* windows on them, but for the races with its snapshot and what its map dropped, which
\* WorkspacesAgree and WindowsAgree name (workspaces.cpp:32, :113, :1083).
THEOREM WorkspacesAreShown == HyprWsSpec => [](WorkspacesAgree /\ WindowsAgree)
<1>1. HyprWsInit => HyprInv
  BY HyprStarts
<1>2. HyprInv /\ [HyprWsNext]_hyprWsVars => HyprInv'
  BY HyprKeeps
<1>3. HyprInv => WorkspacesAgree /\ WindowsAgree
  BY HyprInvAgrees
<1> QED  BY <1>1, <1>2, <1>3, PTL DEF HyprWsSpec

-----------------------------------------------------------------------------
\* At rest windowcount, language and submap show what Hyprland has, however their
\* constructors and destructors fall between the calls of the listener and the events on the
\* wire, but for an event that came while a module was not yet registered, which LabelsAgree
\* names (windowcount.cpp, window.cpp, language.cpp, submap.cpp).
THEOREM LabelsAreShown == IpcSpec => []LabelsAgree
<1>1. IpcInit => LabelInv
  BY LabelsStart
<1>2. IpcInv /\ LabelInv /\ [IpcNext]_ipcVars => LabelInv'
  BY LabelSteps
<1>3. IpcInv /\ LabelInv => LabelsAgree
  BY LabelInvAgrees
<1> QED  BY <1>1, <1>2, <1>3, IpcInvariant, PTL DEF IpcSpec

-----------------------------------------------------------------------------
(* The components of MCCompositors: a step is one of a component, or leaves it *)
(* alone.                                                                     *)

LEMMA StepsOfCompositors ==
  ASSUME Next
  PROVE  [HyprWsNext]_hyprWsVars /\ [IpcNext]_ipcVars /\ [NiriNext]_niriVars /\ [SwayNext]_swayVars
<1>1. CASE HyprlandStep
  <2>1. UNCHANGED <<ipcVars, niriVars, swayVars>>
    BY <1>1 DEF HyprlandStep, Hyprland
  <2>2. HyprWsNext
    BY <1>1 DEF HyprlandStep, Hyprland, HyprWsNext, CompositorStep
  <2> QED  BY <2>1, <2>2
<1>2. CASE HyprIpcStep
  <2>1. UNCHANGED <<hyprWsVars, niriVars, swayVars>>
    BY <1>2 DEF HyprIpcStep, HyprIpc
  <2>2. IpcNext
    BY <1>2 DEF HyprIpcStep, HyprIpc, IpcNext, IpcMainStep, ListenerStep
  <2> QED  BY <2>1, <2>2
<1>3. CASE InNiriStep
  <2>1. UNCHANGED <<hyprWsVars, ipcVars, swayVars>>
    BY <1>3 DEF InNiriStep, InNiri
  <2>2. NiriNext
    BY <1>3 DEF InNiriStep, InNiri, NiriNext
  <2> QED  BY <2>1, <2>2
<1>4. CASE InExtStep
  <2>1. UNCHANGED <<hyprWsVars, ipcVars, niriVars, swayVars>>
    BY <1>4 DEF InExtStep, InExt
  <2> QED  BY <2>1
<1>5. CASE InTaskbarStep
  <2>1. UNCHANGED <<hyprWsVars, ipcVars, niriVars, swayVars>>
    BY <1>5 DEF InTaskbarStep, InTaskbar
  <2> QED  BY <2>1
<1>6. CASE InSwayStep
  <2>1. UNCHANGED <<hyprWsVars, ipcVars, niriVars>>
    BY <1>6 DEF InSwayStep, InSway
  <2>2. SwayNext
    BY <1>6 DEF InSwayStep, InSway, SwayNext
  <2> QED  BY <2>1, <2>2
<1> QED  BY <1>1, <1>2, <1>3, <1>4, <1>5, <1>6 DEF Next

LEMMA SpecsOfCompositors == Spec => HyprWsSpec /\ IpcSpec /\ NiriSpec /\ SwaySpec
<1>1. Init => HyprWsInit /\ IpcInit /\ NiriInit /\ SwayInit
  BY DEF Init
<1>2. [Next]_<<part, hyprWsVars, ipcVars, niriVars, xwVars, tbVars, swayVars>> =>
        [HyprWsNext]_hyprWsVars /\ [IpcNext]_ipcVars /\ [NiriNext]_niriVars /\ [SwayNext]_swayVars
  <2>1. ASSUME UNCHANGED <<part, hyprWsVars, ipcVars, niriVars, xwVars, tbVars, swayVars>>
        PROVE  UNCHANGED <<hyprWsVars, ipcVars, niriVars, swayVars>>
    BY <2>1
  <2> QED  BY <2>1, StepsOfCompositors
<1> QED  BY <1>1, <1>2, PTL DEF Spec, HyprWsSpec, IpcSpec, NiriSpec, SwaySpec

\* For any workspaces, windows, layouts and submaps and any order of events, calls and
\* updates: at rest the Hyprland modules show the compositor's workspaces, windows, layout and
\* submap, but for the races each of the three names (workspaces.cpp, window.cpp,
\* windowcount.cpp, language.cpp, submap.cpp).
THEOREM HyprlandAlwaysAgrees == Spec => []HyprlandAgrees
<1>1. WorkspacesAgree /\ WindowsAgree /\ LabelsAgree => HyprlandAgrees
  BY DEF HyprlandAgrees
<1> QED  BY <1>1, SpecsOfCompositors, WorkspacesAreShown, LabelsAreShown, PTL

=============================================================================
