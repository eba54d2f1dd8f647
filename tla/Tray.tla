---------------------------------- MODULE Tray ----------------------------------
(***************************************************************************)
(* src/modules/sni: the tray, its StatusNotifierHost, and the watcher.       *)
(*                                                                         *)
(* Applications register items with the watcher on the session bus.  The     *)
(* host follows the watcher's name: it asks for a proxy, registers itself,    *)
(* takes the items there are and then those that are announced.  Each item   *)
(* asks for a proxy of its own, is added to the tray when its properties are  *)
(* known to be valid, and asks for them anew 10 ms after a change was         *)
(* signalled.  All handlers run on the main thread; what the bus delivers to  *)
(* Waybar comes in one order.  The answer to a call that was cancelled, or    *)
(* whose item was erased, still comes, and its handler returns early.         *)
(***************************************************************************)
EXTENDS Naturals, Sequences, Functions

CONSTANTS TrayItem,     \* items, by bus name and object path
          ValidItem,    \* those that have an Id and a Category
          MaxRetries,   \* MAX_RETRIES
          MaxTrayNews   \* bound on what happens on the bus

ASSUME TrayAssumption == MaxRetries \in Nat /\ MaxTrayNews \in Nat

VARIABLES appTitle, appStatus, appUp,       \* the applications
          watcherUp, watcherItems,          \* the watcher: its name, items_
          watcherStale,     \* its property is still to be emitted, in an idle source
          trayNews, trayWire,
          hostCall,         \* "none", "proxy", "register": the call that is out; "failed"
          hostWatcher,      \* watcher_ is set
          listening,        \* item-registered and item-unregistered are connected
          hostCache,        \* the proxy's copy of the items
          retries, retryTimer,
          hostItems,        \* Host::items_
          trayItems,        \* Tray::items_
          trayShown, trayDp,
          trayUnseen        \* history: items that came or went unheard, were refused or ignored, or
                            \* whose changes were signalled and could not be asked for

trayBus == <<appTitle, appStatus, appUp, watcherUp, watcherItems, watcherStale, trayNews>>
hostVars == <<hostCall, hostWatcher, listening, hostCache, retries, retryTimer>>
trayView == <<trayShown, trayDp>>
trayVars == <<trayBus, trayWire, hostVars, hostItems, trayItems, trayView, trayUnseen>>

Titles == {"plain", "ignored"}
Statuses == {"active", "passive"}
ItemProperty == {"title", "status"}
NewItem == [ready |-> FALSE, title |-> "", status |-> "", pending |-> {}, timer |-> FALSE, call |-> "create"]

-----------------------------------------------------------------------------
\* The bus, the applications and the watcher.
TrayNews == trayNews < MaxTrayNews /\ trayNews' = trayNews + 1
ToWaybar(m) == trayWire' = Append(trayWire, m)

AppStarts(i) ==
  /\ TrayNews /\ ~appUp[i]
  /\ appUp' = [appUp EXCEPT ![i] = TRUE]
  /\ UNCHANGED <<appTitle, appStatus, watcherUp, watcherItems, watcherStale, trayWire,
                 hostVars, hostItems, trayItems, trayView, trayUnseen>>

\* Changed first, then signalled.
AppChanges(i, p, v) ==
  /\ TrayNews /\ appUp[i]
  /\ appTitle' = IF p = "title" THEN [appTitle EXCEPT ![i] = v] ELSE appTitle
  /\ appStatus' = IF p = "status" THEN [appStatus EXCEPT ![i] = v] ELSE appStatus
  /\ ToWaybar([name |-> "changed", item |-> i, property |-> p])
  /\ UNCHANGED <<appUp, watcherUp, watcherItems, watcherStale,
                 hostVars, hostItems, trayItems, trayView, trayUnseen>>

AppAnswers(i) ==
  /\ i \in DOMAIN hostItems /\ hostItems[i].call \in {"create", "getAll"}
  /\ ToWaybar([name |-> hostItems[i].call, item |-> i, ok |-> appUp[i],
               title |-> appTitle[i], status |-> appStatus[i]])
  /\ hostItems' = [hostItems EXCEPT ![i].call = "answered"]
  /\ UNCHANGED <<trayBus, hostVars, trayItems, trayView, trayUnseen>>

\* handleRegisterItem(); an item that is listed is not listed again.
HandleRegisterItem(i) ==
  /\ appUp[i] /\ watcherUp /\ i \notin watcherItems
  /\ watcherItems' = watcherItems \cup {i} /\ watcherStale' = TRUE
  /\ ToWaybar([name |-> "registered", item |-> i])
  /\ UNCHANGED <<appTitle, appStatus, appUp, watcherUp, trayNews,
                 hostVars, hostItems, trayItems, trayView, trayUnseen>>

\* Watcher::nameVanished().
AppGoes(i) ==
  /\ TrayNews /\ appUp[i]
  /\ appUp' = [appUp EXCEPT ![i] = FALSE]
  /\ watcherItems' = watcherItems \ {i}
  /\ watcherStale' = (watcherStale \/ i \in watcherItems)
  /\ IF i \in watcherItems THEN ToWaybar([name |-> "unregistered", item |-> i]) ELSE UNCHANGED trayWire
  /\ UNCHANGED <<appTitle, appStatus, watcherUp, hostVars, hostItems, trayItems, trayView, trayUnseen>>

UpdateRegisteredItems ==
  /\ watcherStale /\ watcherStale' = FALSE
  /\ ToWaybar([name |-> "items", items |-> watcherItems])
  /\ UNCHANGED <<appTitle, appStatus, appUp, watcherUp, watcherItems, trayNews,
                 hostVars, hostItems, trayItems, trayView, trayUnseen>>

WatcherComesOrGoes ==
  /\ TrayNews
  /\ watcherUp' = ~watcherUp
  /\ watcherItems' = {} /\ watcherStale' = FALSE
  /\ ToWaybar([name |-> IF watcherUp THEN "vanished" ELSE "appeared"])
  /\ UNCHANGED <<appTitle, appStatus, appUp, hostVars, hostItems, trayItems, trayView, trayUnseen>>

\* The proxy comes with the property's value; the call may fail while the watcher is there.
WatcherAnswers(ok) ==
  /\ hostCall \in {"proxy", "register"}
  /\ IF ok THEN watcherUp /\ UNCHANGED trayNews ELSE TrayNews
  /\ ToWaybar([name |-> hostCall, ok |-> ok, items |-> watcherItems])
  /\ hostCall' = "answered"
  /\ UNCHANGED <<appTitle, appStatus, appUp, watcherUp, watcherItems, watcherStale,
                 hostWatcher, listening, hostCache, retries, retryTimer,
                 hostItems, trayItems, trayView, trayUnseen>>

-----------------------------------------------------------------------------
\* The host.
Delivered(name) == trayWire # <<>> /\ Head(trayWire).name = name
OfItems(gone, m) == m.name \in {"create", "getAll"} /\ m.item \in gone
OfHost(m) == m.name \in {"proxy", "register"}
Cancel(wire, Test(_)) == [k \in DOMAIN wire |-> IF Test(wire[k]) THEN [name |-> "cancelled"] ELSE wire[k]]
WireWithout(gone) == Cancel(Tail(trayWire), LAMBDA m : OfItems(gone, m))

CancelledReturns ==
  /\ Delivered("cancelled") /\ trayWire' = Tail(trayWire)
  /\ UNCHANGED <<trayBus, hostVars, hostItems, trayItems, trayView, trayUnseen>>

\* A new cancellable_, unless there is one.
AskForProxy ==
  IF hostCall = "none" /\ ~hostWatcher THEN hostCall' = "proxy" ELSE UNCHANGED hostCall

NameAppeared ==
  /\ Delivered("appeared") /\ trayWire' = Tail(trayWire)
  /\ AskForProxy
  /\ UNCHANGED <<trayBus, hostWatcher, listening, hostCache, retries, retryTimer,
                 hostItems, trayItems, trayView, trayUnseen>>

\* With clearItems().
NameVanished ==
  /\ Delivered("vanished")
  /\ trayWire' = Cancel(Tail(trayWire), LAMBDA m : OfHost(m) \/ OfItems(TrayItem, m))
  /\ hostCall' = "none" /\ hostWatcher' = FALSE /\ listening' = FALSE /\ hostCache' = {}
  /\ retries' = 0 /\ retryTimer' = FALSE
  /\ hostItems' = <<>> /\ trayItems' = {} /\ trayUnseen' = {}
  /\ trayDp' = (trayDp \/ DOMAIN hostItems # {})
  /\ UNCHANGED <<trayBus, trayShown>>

HostProxyReady ==
  /\ Delivered("proxy") /\ trayWire' = Tail(trayWire)
  /\ IF Head(trayWire).ok
     THEN /\ hostWatcher' = TRUE /\ hostCall' = "register" /\ retries' = 0
          /\ hostCache' = Head(trayWire).items /\ trayUnseen' = {}
          /\ UNCHANGED retryTimer
     ELSE /\ hostCall' = IF retries < MaxRetries THEN "none" ELSE "failed"
          /\ retries' = IF retries < MaxRetries THEN retries + 1 ELSE retries
          /\ retryTimer' = (retryTimer \/ retries < MaxRetries)
          /\ UNCHANGED <<hostWatcher, hostCache, trayUnseen>>
  /\ UNCHANGED <<trayBus, listening, hostItems, trayItems, trayView>>

\* After 200 ms, unless nameVanished() or ~Host() disconnected it.
RetryFires ==
  /\ retryTimer /\ retryTimer' = FALSE
  /\ AskForProxy
  /\ UNCHANGED <<trayBus, trayWire, hostWatcher, listening, hostCache, retries,
                 hostItems, trayItems, trayView, trayUnseen>>

\* addRegisteredItem(): an item that is known is not made again.
WithItems(new) == [i \in DOMAIN hostItems \cup new |->
                     IF i \in DOMAIN hostItems THEN hostItems[i] ELSE NewItem]

\* Signals are connected before the items there are are added.
RegisterHost ==
  /\ Delivered("register") /\ trayWire' = Tail(trayWire)
  /\ IF Head(trayWire).ok
     THEN /\ listening' = TRUE /\ hostCall' = "none"
          /\ hostItems' = WithItems(hostCache)
     ELSE hostCall' = "failed" /\ UNCHANGED <<listening, hostItems>>
  /\ UNCHANGED <<trayBus, hostWatcher, hostCache, retries, retryTimer, trayItems, trayView, trayUnseen>>

ItemRegistered ==
  /\ Delivered("registered") /\ trayWire' = Tail(trayWire)
  /\ LET i == Head(trayWire).item IN
     IF listening THEN hostItems' = WithItems({i}) /\ trayUnseen' = trayUnseen \ ({i} \ DOMAIN hostItems)
     ELSE trayUnseen' = trayUnseen \cup {i} /\ UNCHANGED hostItems
  /\ UNCHANGED <<trayBus, hostVars, trayItems, trayView>>

\* removeItem(): the tray hears of items that are ready.
Erase(gone) ==
  /\ hostItems' = Restrict(hostItems, DOMAIN hostItems \ gone)
  /\ trayItems' = trayItems \ gone
  /\ trayDp' = (trayDp \/ gone \cap trayItems # {})

ItemUnregistered ==
  /\ Delivered("unregistered")
  /\ LET i == Head(trayWire).item IN
     IF listening THEN Erase({i}) /\ trayWire' = WireWithout({i}) /\ UNCHANGED trayUnseen
     ELSE /\ trayWire' = Tail(trayWire) /\ trayUnseen' = trayUnseen \cup {i}
          /\ UNCHANGED <<hostItems, trayItems, trayDp>>
  /\ UNCHANGED <<trayBus, hostVars, trayShown>>

ItemsChanged ==
  /\ Delivered("items") /\ trayWire' = Tail(trayWire)
  /\ hostCache' = IF hostWatcher THEN Head(trayWire).items ELSE hostCache
  /\ trayUnseen' = IF listening THEN trayUnseen ELSE {}
  /\ UNCHANGED <<trayBus, hostCall, hostWatcher, listening, retries, retryTimer,
                 hostItems, trayItems, trayView>>

-----------------------------------------------------------------------------
\* An item.  checkIgnoreList() looks at what is known of all items.
IgnoredNow(items) == {i \in DOMAIN items : items[i].title = "ignored"}

\* Item::proxyReady(): invalidate(), or setReady() with Tray::onAdd().
ItemProxyReady ==
  /\ Delivered("create")
  /\ LET m == Head(trayWire)
         i == m.item
         known == [hostItems EXCEPT ![i] = [@ EXCEPT !.ready = TRUE, !.title = m.title,
                                                     !.status = m.status, !.call = "none"]]
         gone == IF m.ok /\ i \in ValidItem THEN IgnoredNow(known) ELSE {i}
     IN /\ hostItems' = Restrict(known, DOMAIN known \ gone)
        /\ trayItems' = (trayItems \cup {i}) \ gone
        /\ trayWire' = WireWithout(gone)
        /\ trayUnseen' = trayUnseen \cup gone
        /\ trayDp' = (trayDp \/ m.ok)
  /\ UNCHANGED <<trayBus, hostVars, trayShown>>

OnSignalOnce(i, p) == \* mutant: a signal is dropped while an update is out
  hostItems' = [hostItems EXCEPT ![i].pending = IF @ = {} THEN {p} ELSE @,
                                 ![i].timer = @ \/ hostItems[i].pending = {}]

\* onSignal(): the first one starts the timer.
OnSignal(i, p) ==
  hostItems' = [hostItems EXCEPT ![i].pending = @ \cup {p},
                                 ![i].timer = @ \/ hostItems[i].pending = {}]

ItemChanged ==
  /\ Delivered("changed") /\ trayWire' = Tail(trayWire)
  /\ LET i == Head(trayWire).item IN
     IF i \in DOMAIN hostItems /\ hostItems[i].ready THEN OnSignal(i, Head(trayWire).property)
     ELSE UNCHANGED hostItems
  /\ UNCHANGED <<trayBus, hostVars, trayItems, trayView, trayUnseen>>

GetUpdatedProperties(i) ==
  /\ i \in DOMAIN hostItems /\ hostItems[i].timer
  /\ hostItems' = [hostItems EXCEPT ![i].timer = FALSE, ![i].call = "getAll"]
  /\ UNCHANGED <<trayBus, trayWire, hostVars, trayItems, trayView, trayUnseen>>

\* Only what was signalled is taken, and nothing when the call failed; setStatus() asks for an
\* update of the tray.
ProcessUpdatedProperties ==
  /\ Delivered("getAll") /\ trayWire' = Tail(trayWire)
  /\ LET m == Head(trayWire)
         h == hostItems[m.item]
         taken == IF m.ok THEN h.pending ELSE {}
     IN /\ hostItems' = [hostItems EXCEPT ![m.item] =
             [h EXCEPT !.title = IF "title" \in taken THEN m.title ELSE @,
                       !.status = IF "status" \in taken THEN m.status ELSE @,
                       !.pending = {}, !.call = "none"]]
        /\ trayDp' = (trayDp \/ "status" \in taken)
        /\ trayUnseen' = IF m.ok THEN trayUnseen ELSE trayUnseen \cup {m.item}
  /\ UNCHANGED <<trayBus, hostVars, trayItems, trayShown>>

\* Tray::update().
TrayUpdate ==
  /\ trayDp
  /\ LET gone == IgnoredNow(hostItems)
         left == trayItems \ gone
     IN /\ hostItems' = Restrict(hostItems, DOMAIN hostItems \ gone)
        /\ trayItems' = left
        /\ trayUnseen' = trayUnseen \cup gone
        /\ trayWire' = Cancel(trayWire, LAMBDA m : OfItems(gone, m))
        /\ trayDp' = (gone \cap trayItems # {})
        /\ trayShown' = \E i \in left : hostItems[i].status # "passive"
  /\ UNCHANGED <<trayBus, hostVars>>

-----------------------------------------------------------------------------
TrayInit ==
  /\ appTitle \in [TrayItem -> Titles] /\ appStatus \in [TrayItem -> Statuses]
  /\ appUp \in [TrayItem -> BOOLEAN]
  /\ watcherUp \in BOOLEAN /\ watcherStale = FALSE
  /\ watcherItems \in {{}, IF watcherUp THEN {i \in TrayItem : appUp[i]} ELSE {}}
  /\ trayNews = 0 /\ trayWire = <<[name |-> IF watcherUp THEN "appeared" ELSE "vanished"]>>
  /\ hostCall = "none" /\ hostWatcher = FALSE /\ listening = FALSE /\ hostCache = {}
  /\ retries = 0 /\ retryTimer = FALSE
  /\ hostItems = <<>> /\ trayItems = {} /\ trayUnseen = {}
  /\ trayShown = FALSE /\ trayDp = TRUE

TrayNext ==
  \/ \E i \in TrayItem :
       \/ AppStarts(i) \/ AppGoes(i) \/ AppAnswers(i) \/ HandleRegisterItem(i)
       \/ GetUpdatedProperties(i)
       \/ \E v \in Titles \ {appTitle[i]} : AppChanges(i, "title", v)
       \/ \E v \in Statuses \ {appStatus[i]} : AppChanges(i, "status", v)
  \/ UpdateRegisteredItems \/ WatcherComesOrGoes
  \/ \E ok \in BOOLEAN : WatcherAnswers(ok)
  \/ NameAppeared \/ NameVanished \/ HostProxyReady \/ RetryFires \/ RegisterHost
  \/ ItemRegistered \/ ItemUnregistered \/ ItemsChanged
  \/ ItemProxyReady \/ ItemChanged \/ ProcessUpdatedProperties \/ CancelledReturns
  \/ TrayUpdate

TraySpec == TrayInit /\ [][TrayNext]_trayVars

-----------------------------------------------------------------------------
TrayTypeOK ==
  /\ watcherItems \cup hostCache \cup trayItems \cup trayUnseen \cup DOMAIN hostItems \subseteq TrayItem
  /\ {watcherUp, watcherStale, hostWatcher, listening, retryTimer, trayShown, trayDp} \subseteq BOOLEAN
  /\ hostCall \in {"none", "proxy", "register", "answered", "failed"}
  /\ retries \in 0..MaxRetries /\ trayNews \in 0..MaxTrayNews
  /\ \A i \in DOMAIN hostItems : hostItems[i].pending \subseteq ItemProperty

\* The tray's raw pointers are those of items that the host still owns and that are ready
\* (tray.cpp:61-116, host.cpp:225-261).
PointersLive == \A i \in trayItems : i \in DOMAIN hostItems /\ hostItems[i].ready

TrayQuiet ==
  /\ trayWire = <<>> /\ hostCall \in {"none", "failed"} /\ ~retryTimer /\ ~trayDp /\ ~watcherStale
  /\ \A i \in DOMAIN hostItems : hostItems[i].call = "none" /\ ~hostItems[i].timer

\* At rest the host has found the watcher, unless a call to it failed for good, and the tray
\* holds the valid items that are registered, with the title and the status they have now,
\* however proxies, retries, signals and answers were ordered; excepted an item whose coming or
\* going was announced before the host listened and after its copy, one that was ignored, and one
\* that did not answer after a signal (host.cpp:101-204, item.cpp:317-376).
RegisteredShown ==
  TrayQuiet /\ watcherUp /\ hostCall # "failed" =>
    /\ listening
    /\ trayItems \ trayUnseen \subseteq watcherItems
    /\ (watcherItems \cap ValidItem) \ trayUnseen \subseteq trayItems
    /\ \A i \in trayItems \ trayUnseen : hostItems[i].title = appTitle[i] /\ hostItems[i].status = appStatus[i]
    /\ trayShown <=> \E i \in trayItems : hostItems[i].status # "passive"

\* Tray and host at every moment, and once they are at rest.
TrayAgrees == PointersLive /\ RegisteredShown
=============================================================================
