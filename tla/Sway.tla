--------------------------------- MODULE Sway ---------------------------------
(***************************************************************************)
(* src/modules/sway: one module and its connections to sway (Ipc).           *)
(*                                                                         *)
(* The constructor subscribes on the event socket, asks once on the command *)
(* socket, and starts a worker that reads events.  signal_event is a         *)
(* SafeSignal: onEvent() runs on the main thread, and there asks sway and    *)
(* keeps the answer (workspaces, window, scratchpad), or keeps what the event *)
(* says (mode, language); dp.emit() brings update().  When sway drops a      *)
(* slow reader, the worker connects and subscribes anew; nobody asks for what *)
(* was missed.                                                              *)
(***************************************************************************)
EXTENDS Naturals, Integers, Sequences, SequencesExt

CONSTANTS SwayKinds,        \* the modules to look at, one at a time
          NumOf,            \* workspaces sway may have, each with its number or -1
          SwayPersistent,   \* persistent-workspaces, their names in order
          SwayModes,        \* binding modes, "default" among them
          Keymaps,          \* the sets of layouts a keyboard may be given
          MaxSwayNews,      \* bound on what happens in sway
          MaxSwayDrops      \* bound on how often sway drops the module

ASSUME SwayAssumption == SwayKinds \subseteq {"workspaces", "window", "scratchpad", "mode", "language"}

SwayWs == DOMAIN NumOf

VARIABLES swayKind,         \* which module
          swayTruth,        \* sway: tree, mode or keyboard
          swayNews, swayDrops,
          eventFd,          \* fd_event_: "open", or "lost" when sway has closed it
          swayWire,         \* what sway has written to it
          swayAsked,        \* subscriptions sent on it, and
          swaySubscribed,   \* those sway has accepted
          swayPc,           \* "subscribing", "asking": the constructor; then the worker
          swayInbox,        \* the queue of signal_event
          swayHeld,         \* workspaces_, mode_, layout_, ...
          swayKnown,        \* layouts_map_
          swayLabel, swayDp,
          swayMissed        \* history: the last thing that happened and was not told, or 0

swayServer == <<swayTruth, swayNews, swayDrops>>
swaySocket == <<eventFd, swayWire, swayAsked, swaySubscribed>>
swayModule == <<swayHeld, swayKnown, swayLabel, swayDp>>
swayVars == <<swayKind, swayServer, swaySocket, swayPc, swayInbox, swayModule, swayMissed>>

\* Workspaces subscribes in two calls; the subject of the second is windows.
SwayTopics == IF swayKind = "workspaces" THEN 2 ELSE 1
AsksTree == swayKind \in {"workspaces", "window", "scratchpad"}
EventMsg(v, grows) == [type |-> "event", value |-> v, grows |-> grows, at |-> swayNews']
ReplyMsg == [type |-> "reply"]

-----------------------------------------------------------------------------
\* sway keeps numbered workspaces first, by number, the others as they were made.
Numbered(w) == NumOf[w] >= 0
SwayInsert(tree, w) ==
  IF ~Numbered(w) THEN Append(tree, w)
  ELSE LET before == SelectSeq(tree, LAMBDA v : Numbered(v) /\ NumOf[v] < NumOf[w])
       IN InsertAt(tree, Len(before) + 1, w)

\* Something happens; topic 1 or 2 tells of it.  It reaches who has subscribed and reads.
SwayChanges(v, topic, grows) ==
  /\ swayNews < MaxSwayNews
  /\ swayNews' = swayNews + 1
  /\ swayTruth' = v
  /\ IF eventFd = "open" /\ topic <= swaySubscribed
     THEN swayWire' = Append(swayWire, EventMsg(v, grows)) /\ UNCHANGED swayMissed
     ELSE swayMissed' = swayNews' /\ UNCHANGED swayWire
  /\ UNCHANGED <<swayKind, swayDrops, eventFd, swayAsked, swaySubscribed, swayPc, swayInbox, swayModule>>

WorkspaceInit(w) == AsksTree /\ w \notin ToSet(swayTruth) /\ SwayChanges(SwayInsert(swayTruth, w), 1, FALSE)
WorkspaceEmpty(w) == AsksTree /\ w \in ToSet(swayTruth) /\ SwayChanges(Remove(swayTruth, w), 1, FALSE)
WindowChanges == AsksTree /\ SwayChanges(swayTruth, SwayTopics, FALSE)
ModeChanges(m) == swayKind = "mode" /\ SwayChanges(m, 1, FALSE)
LayoutSwitched(l) ==
  /\ swayKind = "language" /\ l \in swayTruth.layouts
  /\ SwayChanges([swayTruth EXCEPT !.active = l], 1, FALSE)
KeymapChanges(s, l) ==
  /\ swayKind = "language" /\ l \in s
  /\ SwayChanges([layouts |-> s, active |-> l], 1, TRUE)

\* sway answers a subscription in its turn, between events.
SwayAnswers ==
  /\ eventFd = "open" /\ swaySubscribed < swayAsked
  /\ swaySubscribed' = swaySubscribed + 1
  /\ swayWire' = Append(swayWire, ReplyMsg)
  /\ UNCHANGED <<swayKind, swayServer, eventFd, swayAsked, swayPc, swayInbox, swayModule, swayMissed>>

SwayDropsUs ==
  /\ eventFd = "open" /\ swayDrops < MaxSwayDrops
  /\ swayDrops' = swayDrops + 1
  /\ eventFd' = "lost"
  /\ swayMissed' = IF swayWire # <<>> THEN swayNews ELSE swayMissed
  /\ swayWire' = <<>>
  /\ UNCHANGED <<swayKind, swayTruth, swayNews, swayAsked, swaySubscribed, swayPc, swayInbox, swayModule>>

-----------------------------------------------------------------------------
\* What a module keeps.  Workspaces sorts sway's by their number, numbers those that
\* have none behind all others, and inserts the persistent ones.
KeptWorkspaces(tree) ==
  LET all == tree \o SelectSeq(SwayPersistent, LAMBDA w : w \notin ToSet(tree))
      nums == {NumOf[w] : w \in ToSet(all)} \cup {-1}
      max == CHOOSE n \in nums : \A k \in nums : k <= n
      unnumbered == SelectSeq(all, LAMBDA w : ~Numbered(w))
      sort(w) == IF Numbered(w) THEN NumOf[w] ELSE max + SelectInSeq(unnumbered, LAMBDA v : v = w)
  IN SortSeq(all, LAMBDA v, w : sort(v) < sort(w))

KeptTree(tree) == IF swayKind = "workspaces" THEN KeptWorkspaces(tree) ELSE tree

\* set_current_layout() ignores a layout that is not in the map.
KeepLayout(l, known) == swayHeld' = IF l \in known THEN l ELSE swayHeld

\* getTree() or IPC_GET_INPUTS, with onCmd() on the answer.
Ask ==
  /\ IF AsksTree THEN swayHeld' = KeptTree(swayTruth) /\ UNCHANGED swayKnown
     ELSE swayKnown' = swayTruth.layouts /\ swayHeld' = swayTruth.active
  /\ swayDp' = TRUE
  /\ swayMissed' = IF AsksTree \/ \A i \in DOMAIN swayInbox : i = 1 \/ swayInbox[i].at > swayMissed
                   THEN 0 ELSE swayMissed

SwayInit ==
  /\ swayKind \in SwayKinds
  /\ swayTruth \in CASE swayKind = "mode" -> SwayModes
                     [] swayKind = "language" -> {[layouts |-> s, active |-> l] : s \in Keymaps, l \in UNION Keymaps}
                     [] OTHER -> {<<>>, <<CHOOSE w \in SwayWs : Numbered(w)>>}
  /\ swayKind = "language" => swayTruth.active \in swayTruth.layouts
  /\ swayNews = 1 /\ swayDrops = 0
  /\ eventFd = "open" /\ swayWire = <<>> /\ swayAsked = 0 /\ swaySubscribed = 0
  /\ swayPc = "subscribing" /\ swayInbox = <<>>
  /\ swayHeld = CASE swayKind = "mode" -> "default" [] swayKind = "language" -> "none" [] OTHER -> <<>>
  /\ swayKnown = {} /\ swayLabel = "nothing" /\ swayDp = FALSE
  /\ swayMissed = IF swayKind = "mode" /\ swayTruth = "default" THEN 0 ELSE 1

-----------------------------------------------------------------------------
\* subscribe() and the calls of reconnectEvent(): one at a time, each waiting for its reply.
SendSubscribe ==
  /\ swayPc \in {"subscribing", "resubscribing"}
  /\ swayAsked < SwayTopics /\ swayAsked = swaySubscribed /\ swayWire = <<>> /\ eventFd = "open"
  /\ swayAsked' = swayAsked + 1
  /\ UNCHANGED <<swayKind, swayServer, eventFd, swayWire, swaySubscribed, swayPc, swayInbox, swayModule, swayMissed>>

ReplyRead(next) ==
  /\ swayWire # <<>> /\ Head(swayWire) = ReplyMsg
  /\ swayWire' = Tail(swayWire)
  /\ swayPc' = IF swayAsked = SwayTopics THEN next ELSE swayPc
  /\ UNCHANGED <<swayKind, swayServer, eventFd, swayAsked, swaySubscribed, swayInbox>>

\* The constructor passes over events before a reply: onEvent is not connected yet.
\* The mode module asks nothing afterwards.
Subscribed ==
  /\ swayPc = "subscribing"
  /\ ReplyRead(IF swayKind = "mode" THEN "reading" ELSE "asking")
  /\ swayDp' = (swayKind = "mode")
  /\ UNCHANGED <<swayHeld, swayKnown, swayLabel, swayMissed>>

EventBeforeReply ==
  /\ swayPc = "subscribing" /\ swayWire # <<>> /\ Head(swayWire) # ReplyMsg
  /\ swayWire' = Tail(swayWire)
  /\ swayMissed' = Head(swayWire).at
  /\ UNCHANGED <<swayKind, swayServer, eventFd, swayAsked, swaySubscribed, swayPc, swayInbox, swayModule>>

FirstAsk ==
  /\ swayPc = "asking"
  /\ swayPc' = "reading"
  /\ Ask
  /\ UNCHANGED <<swayKind, swayServer, swaySocket, swayInbox, swayLabel>>

\* An exception leaves the constructor: Bar::getModules() goes on without the module.
ConstructorThrows ==
  /\ swayPc = "subscribing" /\ eventFd = "lost"
  /\ swayPc' = "failed"
  /\ UNCHANGED <<swayKind, swayServer, swaySocket, swayInbox, swayModule, swayMissed>>

-----------------------------------------------------------------------------
\* The worker: handleEvent().
ReadsEvent ==
  /\ swayPc = "reading" /\ swayWire # <<>>
  /\ swayWire' = Tail(swayWire)
  /\ swayInbox' = Append(swayInbox, Head(swayWire))
  /\ UNCHANGED <<swayKind, swayServer, eventFd, swayAsked, swaySubscribed, swayPc, swayModule, swayMissed>>

LosesConnection ==
  /\ swayPc \in {"reading", "resubscribing"} /\ eventFd = "lost"
  /\ swayPc' = "backoff"
  /\ UNCHANGED <<swayKind, swayServer, swaySocket, swayInbox, swayModule, swayMissed>>

\* An event that comes before a reply is taken for a refusal.
ReplyMissing ==
  /\ swayPc = "resubscribing" /\ swayWire # <<>> /\ Head(swayWire) # ReplyMsg
  /\ swayPc' = "backoff"
  /\ UNCHANGED <<swayKind, swayServer, swaySocket, swayInbox, swayModule, swayMissed>>

ReopenForgetting == \* mutant: subscribed_events_ is not replayed
  /\ swayPc = "backoff"
  /\ eventFd' = "open" /\ swayWire' = <<>> /\ swayAsked' = 0 /\ swaySubscribed' = 0
  /\ swayPc' = "reading"
  /\ swayMissed' = IF \E i \in DOMAIN swayWire : swayWire[i] # ReplyMsg THEN swayNews ELSE swayMissed
  /\ UNCHANGED <<swayKind, swayServer, swayInbox, swayModule>>

\* After two seconds; what was on the old socket is gone.
Reopen ==
  /\ swayPc = "backoff"
  /\ eventFd' = "open" /\ swayWire' = <<>> /\ swayAsked' = 0 /\ swaySubscribed' = 0
  /\ swayPc' = "resubscribing"
  /\ swayMissed' = IF \E i \in DOMAIN swayWire : swayWire[i] # ReplyMsg THEN swayNews ELSE swayMissed
  /\ UNCHANGED <<swayKind, swayServer, swayInbox, swayModule>>

Resubscribed == swayPc = "resubscribing" /\ ReplyRead("reading") /\ UNCHANGED <<swayModule, swayMissed>>

-----------------------------------------------------------------------------
\* The main thread: onEvent() out of the SafeSignal's queue.
SwayTakes ==
  /\ swayInbox # <<>>
  /\ swayInbox' = Tail(swayInbox)
  /\ UNCHANGED <<swayKind, swayServer, swaySocket, swayPc, swayLabel>>

TreeOnEvent == AsksTree /\ SwayTakes /\ Ask

ModeOnEvent ==
  /\ swayKind = "mode" /\ SwayTakes
  /\ swayHeld' = Head(swayInbox).value
  /\ swayDp' = TRUE
  /\ swayMissed' = IF Head(swayInbox).at > swayMissed THEN 0 ELSE swayMissed
  /\ UNCHANGED swayKnown

SwayLanguageOnEvent ==
  /\ swayKind = "language" /\ SwayTakes
  /\ IF Head(swayInbox).grows THEN Ask
     ELSE /\ KeepLayout(Head(swayInbox).value.active, swayKnown)
          /\ swayDp' = TRUE
          /\ UNCHANGED <<swayKnown, swayMissed>>

SwayUpdate ==
  /\ swayDp /\ swayPc \notin {"subscribing", "asking", "failed"}
  /\ swayDp' = FALSE
  /\ swayLabel' = swayHeld
  /\ UNCHANGED <<swayKind, swayServer, swaySocket, swayPc, swayInbox, swayHeld, swayKnown, swayMissed>>

SwayNext ==
  \/ \E w \in SwayWs : WorkspaceInit(w) \/ WorkspaceEmpty(w)
  \/ WindowChanges
  \/ \E m \in SwayModes : ModeChanges(m)
  \/ \E l \in UNION Keymaps : LayoutSwitched(l) \/ \E s \in Keymaps : KeymapChanges(s, l)
  \/ SwayAnswers
  \/ SwayDropsUs
  \/ SendSubscribe
  \/ Subscribed
  \/ EventBeforeReply
  \/ FirstAsk
  \/ ConstructorThrows
  \/ ReadsEvent
  \/ LosesConnection
  \/ ReplyMissing
  \/ Reopen
  \/ Resubscribed
  \/ TreeOnEvent
  \/ ModeOnEvent
  \/ SwayLanguageOnEvent
  \/ SwayUpdate

SwaySpec == SwayInit /\ [][SwayNext]_swayVars

-----------------------------------------------------------------------------
SwayTypeOK ==
  /\ swayKind \in SwayKinds
  /\ swayNews \in 1..MaxSwayNews /\ swayDrops \in 0..MaxSwayDrops
  /\ eventFd \in {"open", "lost"}
  /\ 0 <= swaySubscribed /\ swaySubscribed <= swayAsked /\ swayAsked <= SwayTopics
  /\ swayPc \in {"subscribing", "asking", "failed", "reading", "backoff", "resubscribing"}
  /\ swayKnown \subseteq UNION Keymaps
  /\ swayDp \in BOOLEAN /\ swayMissed \in 0..MaxSwayNews

\* A worker that waits for events on a live socket has all its subscriptions there, so
\* that no loss, no event before a reply and no retry leaves a module deaf
\* (sway/ipc/client.cpp:194-248).
SubscriptionsHeld ==
  swayPc = "reading" /\ eventFd = "open" => swaySubscribed = SwayTopics

SwayQuiet == swayPc = "reading" /\ swayWire = <<>> /\ swayInbox = <<>> /\ ~swayDp

\* At rest a module shows what sway has, however events, answers that are ahead of them,
\* and losses were ordered; a module that was not told of something since it last asked
\* excepted.
SwayAgrees ==
  SwayQuiet /\ swayMissed = 0 =>
    swayLabel = CASE swayKind = "mode" -> swayTruth
                  [] swayKind = "language" -> swayTruth.active
                  [] OTHER -> KeptTree(swayTruth)

\* A Sway module that runs holds every subscription it asked for, reconnects included; at
\* rest it shows what sway has (sway/ipc/client.cpp:194-248).
SwayMirrored == SubscriptionsHeld /\ SwayAgrees

\* Persistent workspaces do not disturb the order of sway's own, which its commands
\* "workspace prev" and "next" follow (sway/workspaces.cpp:146-286).
SwayOrderKept ==
  swayKind = "workspaces" /\ SwayQuiet /\ swayMissed = 0 =>
    SelectSeq(swayLabel, LAMBDA w : w \in ToSet(swayTruth)) = swayTruth

\* man/waybar-sway-workspaces.5.scd: the module displays the workspaces that are in use.
\* After a lost connection it shows those there were, until something else happens.
SwayRecovers ==
  AsksTree /\ SwayQuiet /\ eventFd = "open" => swayLabel = KeptTree(swayTruth)
=============================================================================
