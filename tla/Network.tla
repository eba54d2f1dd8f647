-------------------------------- MODULE Network --------------------------------
(***************************************************************************)
(* src/modules/network.cpp: the state of one interface, from rtnetlink.      *)
(*                                                                         *)
(* Either "interface" names it (perhaps several match), or it is the one of   *)
(* the best default route.  The event thread applies the kernel's messages    *)
(* under mutex_, asking for one dump at a time; the timer thread asks nl80211 *)
(* when woken, and at its interval; update() shows the state.  When the       *)
(* socket's buffer overflows the kernel drops messages and says so once.     *)
(***************************************************************************)
EXTENDS Naturals, Sequences, SequencesExt, FiniteSets

CONSTANTS Link,         \* interfaces the kernel may have
          Wireless,     \* those that are wireless
          MatchingLinks,\* those that "interface" matches
          NoLink,       \* ifid_ = -1
          Addr,         \* global addresses of the preferred family
          Metric,       \* priorities of default routes, lower is better
          MaxNetNews,   \* bound on what happens in the kernel
          MaxNetDrops   \* bound on messages dropped

NoAddr == ""

ASSUME NetAssumption ==
  /\ IsFiniteSet(Link) /\ Wireless \subseteq Link /\ MatchingLinks \subseteq Link /\ NoLink \notin Link
  /\ IsFiniteSet(Addr) /\ Addr # {} /\ NoAddr \notin Addr
  /\ IsFiniteSet(Metric) /\ Metric \subseteq Nat
  /\ MaxNetNews \in Nat /\ MaxNetDrops \in Nat

VARIABLES linkState, linkAddrs, linkRoutes, rfkillOn,     \* the kernel
          netNews, netDrops,
          netWire,          \* messages on ev_sock_
          netOverrun,       \* the next read says ENOBUFS
          netByRoute,       \* "interface" is not configured
          netIf,            \* ifid_, ipaddr_, carrier_, essid_ (known or not), route_priority
          netWants, netDump,\* want_*_dump_, dump_in_progress_
          netWake, netDp,   \* thread_timer_ was woken; dp was emitted
          netDue,           \* a change waits for the timer's interval to be shown
          netLabel,
          netLostRemoval,   \* history: a message that something is gone was dropped
          netForgot         \* history: what the module cleared or did not ask for, and
                            \* is not told again: "address", "link", "unasked"

netKernel == <<linkState, linkAddrs, linkRoutes, rfkillOn, netNews, netDrops>>
netModel == <<netIf, netWants, netDump, netWake, netDp, netDue>>
netVars == <<netKernel, netWire, netOverrun, netByRoute, netModel, netLabel, netLostRemoval, netForgot>>

ClearIface(i) == [i EXCEPT !.link = NoLink, !.addr = NoAddr, !.carrier = FALSE, !.essid = FALSE]
NotShown == [state |-> "", addr |-> NoAddr]  \* before the first update
MatchInterface(l) == ~netByRoute /\ l \in MatchingLinks
IfaceUp(l) == linkState[l] \in {"up", "carrier"}
LinkMsg(l, s) == [kind |-> "link", link |-> l, state |-> s]
AddrMsg(l, a, add) == [kind |-> "addr", link |-> l, addr |-> a, add |-> add]
RouteMsg(l, p, add) == [kind |-> "route", link |-> l, metric |-> p, add |-> add]

-----------------------------------------------------------------------------
\* The kernel.  msgs tell of the change, removes whether something is gone by it.
NetNews(msgs, removes) ==
  /\ netNews < MaxNetNews /\ netNews' = netNews + 1
  /\ \/ netWire' = netWire \o msgs /\ UNCHANGED <<netDrops, netOverrun, netLostRemoval>>
     \/ /\ netDrops < MaxNetDrops /\ netDrops' = netDrops + 1
        /\ netOverrun' = TRUE
        /\ netLostRemoval' = (netLostRemoval \/ removes)
        /\ UNCHANGED netWire
  /\ UNCHANGED <<netByRoute, netModel, netLabel, netForgot>>

\* "gone", "down", "up", "carrier".  A link that goes down takes its routes along, and
\* nothing is said of them; one that goes takes its addresses too.
LinkChanges(l, s) ==
  /\ s # linkState[l]
  /\ linkState' = [linkState EXCEPT ![l] = s]
  /\ linkRoutes' = IF s \in {"gone", "down"} THEN [linkRoutes EXCEPT ![l] = {}] ELSE linkRoutes
  /\ linkAddrs' = IF s = "gone" THEN [linkAddrs EXCEPT ![l] = {}] ELSE linkAddrs
  /\ NetNews((IF s = "gone" THEN SetToSeq({AddrMsg(l, a, FALSE) : a \in linkAddrs[l]}) ELSE <<>>)
               \o <<LinkMsg(l, s)>>, s # "carrier")
  /\ UNCHANGED rfkillOn

AddrChanges(l, a) ==
  /\ linkState[l] # "gone"
  /\ LET add == a \notin linkAddrs[l] IN
     /\ linkAddrs' = [linkAddrs EXCEPT ![l] = IF add THEN @ \cup {a} ELSE @ \ {a}]
     /\ NetNews(<<AddrMsg(l, a, add)>>, ~add)
  /\ UNCHANGED <<linkState, linkRoutes, rfkillOn>>

RouteChanges(l, p) ==
  /\ netByRoute
  /\ IfaceUp(l) /\ \A k \in Link \ {l} : p \notin linkRoutes[k]
  /\ LET add == p \notin linkRoutes[l] IN
     /\ linkRoutes' = [linkRoutes EXCEPT ![l] = IF add THEN @ \cup {p} ELSE @ \ {p}]
     /\ NetNews(<<RouteMsg(l, p, add)>>, ~add)
  /\ UNCHANGED <<linkState, linkAddrs, rfkillOn>>

\* Rfkill::on_update wakes the timer thread.
RfkillChanges ==
  /\ netNews < MaxNetNews /\ netNews' = netNews + 1
  /\ rfkillOn' = ~rfkillOn
  /\ netWake' = TRUE
  /\ UNCHANGED <<linkState, linkAddrs, linkRoutes, netDrops, netWire, netOverrun, netByRoute,
                 netIf, netWants, netDump, netDp, netDue, netLabel, netLostRemoval, netForgot>>

-----------------------------------------------------------------------------
\* A dump is what the kernel has when it is asked for.
Dumped(kind) ==
  CASE kind = "link"  -> {LinkMsg(l, linkState[l]) : l \in {k \in Link : linkState[k] # "gone"}}
    [] kind = "addr"  -> {m \in {AddrMsg(l, a, TRUE) : l \in Link, a \in Addr} : m.addr \in linkAddrs[m.link]}
    [] kind = "route" -> {m \in {RouteMsg(l, p, TRUE) : l \in Link, p \in Metric} : m.metric \in linkRoutes[m.link]}

DumpOf(kind) == SetToSeq(Dumped(kind)) \o <<[kind |-> "done"]>>

\* askForStateDump(): one at a time, routes before links before addresses.
AskForStateDump(wants, busy, wire) ==
  LET next == CHOOSE k \in wants : \/ k = "route"
                                   \/ k = "link" /\ "route" \notin wants
                                   \/ wants = {"addr"}
  IN IF busy \/ wants = {}
     THEN netWants' = wants /\ netDump' = busy /\ netWire' = wire
     ELSE netWants' = wants \ {next} /\ netDump' = TRUE /\ netWire' = wire \o DumpOf(next)

AllDumps == {"link", "addr"} \cup (IF netByRoute THEN {"route"} ELSE {})

ReadsNet(kind) ==
  /\ netWire # <<>> /\ Head(netWire).kind = kind
  /\ UNCHANGED <<netKernel, netOverrun, netByRoute, netLabel, netLostRemoval>>

\* The worker, on ENOBUFS.
Resync ==
  /\ netOverrun /\ netOverrun' = FALSE
  /\ AskForStateDump(netWants \cup AllDumps, netDump, netWire)
  /\ UNCHANGED <<netKernel, netByRoute, netIf, netWake, netDp, netDue, netLabel, netLostRemoval, netForgot>>

HandleEventsDone ==
  /\ ReadsNet("done")
  /\ AskForStateDump(netWants, FALSE, Tail(netWire))
  /\ UNCHANGED <<netIf, netWake, netDp, netForgot, netDue>>

-----------------------------------------------------------------------------
\* Whether the module will hear again of what is still there.
Awaited(msgs, kind) == netOverrun \/ kind \in netWants \/ msgs \cap ToSet(Tail(netWire)) # {}

UnheardAddr(l) == \E a \in linkAddrs[l] : ~Awaited({AddrMsg(l, a, TRUE)}, "addr")

\* handleEvents(), RTM_NEWLINK and RTM_DELLINK.
OurLinkDown(m) == netIf.link = m.link /\ m.state \in {"gone", "down"} /\ netByRoute

\* The route is gone with the link: look for another.
LinkDownEvent ==
  /\ ReadsNet("link") /\ OurLinkDown(Head(netWire))
  /\ netIf' = ClearIface(netIf)
  /\ AskForStateDump(netWants \cup {"route"}, netDump, Tail(netWire))
  /\ netDp' = TRUE
  /\ UNCHANGED <<netWake, netForgot, netDue>>

\* Without a carrier what is known of the wireless network is cleared; that a carrier is
\* lost is shown after the timer's next interval.
LinkUpdateEvent ==
  /\ ReadsNet("link") /\ ~OurLinkDown(Head(netWire))
  /\ LET m == Head(netWire)  carrier == m.state = "carrier" IN
     /\ netIf.link = m.link /\ m.state # "gone"
     /\ netIf' = [netIf EXCEPT !.carrier = carrier, !.essid = @ /\ (carrier \/ ~netIf.carrier)]
     /\ netWake' = (netWake \/ (carrier /\ ~netIf.carrier))
     /\ netDue' = (netDue \/ carrier # netIf.carrier)
  /\ netWire' = Tail(netWire)
  /\ UNCHANGED <<netWants, netDump, netDp, netForgot>>

\* A link is selected that "interface" matches; its addresses are to come.
LinkSelectEvent ==
  /\ ReadsNet("link")
  /\ LET m == Head(netWire) IN
     /\ netIf.link = NoLink /\ m.state # "gone"
     /\ IF MatchInterface(m.link)
        THEN /\ netIf' = [netIf EXCEPT !.link = m.link, !.carrier = (m.state = "carrier")]
             /\ netWake' = TRUE
             /\ netForgot' = IF UnheardAddr(m.link) THEN netForgot \cup {"unasked"} ELSE netForgot
        ELSE UNCHANGED <<netIf, netWake, netForgot>>
  /\ netWire' = Tail(netWire)
  /\ UNCHANGED <<netWants, netDump, netDp, netDue>>

\* No dump is asked for: another link that matches is found at its next message.
LinkDeletedEvent ==
  /\ ReadsNet("link") /\ ~netByRoute
  /\ netIf.link = Head(netWire).link /\ Head(netWire).state = "gone"
  /\ netIf' = ClearIface(netIf)
  /\ netDp' = TRUE
  /\ netForgot' = IF \E l \in MatchingLinks :
                        linkState[l] # "gone" /\ ~Awaited({LinkMsg(l, s) : s \in {"down", "up", "carrier"}}, "link")
                   THEN netForgot \cup {"link"} ELSE netForgot
  /\ netWire' = Tail(netWire)
  /\ UNCHANGED <<netWants, netDump, netWake, netDue>>

OtherLinkEvent ==
  /\ ReadsNet("link")
  /\ IF netIf.link = NoLink THEN Head(netWire).state = "gone" ELSE netIf.link # Head(netWire).link
  /\ netWire' = Tail(netWire)
  /\ UNCHANGED <<netModel, netForgot>>

\* RTM_NEWADDR and RTM_DELADDR: the first address is kept, and any that goes clears it.
AddrEvent ==
  /\ ReadsNet("addr")
  /\ LET m == Head(netWire) IN
     IF m.link # netIf.link THEN UNCHANGED <<netIf, netDp, netForgot>>
     ELSE /\ netIf' = [netIf EXCEPT !.addr = IF ~m.add THEN NoAddr ELSE IF @ = NoAddr THEN m.addr ELSE @]
          /\ netDp' = TRUE
          /\ netForgot' = IF ~m.add /\ UnheardAddr(m.link) THEN netForgot \cup {"address"} ELSE netForgot
  /\ netWire' = Tail(netWire)
  /\ UNCHANGED <<netWants, netDump, netWake, netDue>>

\* RTM_NEWROUTE: a better one, or the first, brings its interface, whose link is asked for
\* at once and whose addresses with the next dump.  RTM_DELROUTE: ours is gone.
RouteEventOf(addressesToo) ==
  /\ ReadsNet("route")
  /\ LET m == Head(netWire)
         better == m.add /\ (netIf.link = NoLink \/ m.metric < netIf.metric)
         ours == ~m.add /\ m.link = netIf.link /\ m.metric = netIf.metric
     IN CASE better ->
               /\ netIf' = [ClearIface(netIf) EXCEPT !.link = m.link, !.metric = m.metric]
               /\ AskForStateDump(netWants \cup (IF addressesToo THEN {"addr"} ELSE {}), netDump,
                    Tail(netWire) \o (IF linkState[m.link] = "gone" THEN <<>> ELSE <<LinkMsg(m.link, linkState[m.link])>>))
               /\ netWake' = TRUE /\ UNCHANGED netDp
          [] ours ->
               /\ netIf' = ClearIface(netIf)
               /\ AskForStateDump(netWants \cup {"route"}, netDump, Tail(netWire))
               /\ netDp' = TRUE /\ UNCHANGED netWake
          [] OTHER ->
               /\ netWire' = Tail(netWire)
               /\ UNCHANGED <<netIf, netWants, netDump, netWake, netDp>>
  /\ UNCHANGED <<netDue, netForgot>>

RouteEventAlone == RouteEventOf(FALSE) \* mutant: the new interface's addresses are not asked for

RouteEvent == RouteEventOf(TRUE)

-----------------------------------------------------------------------------
\* nl80211's scan has the network an interface is associated with.
Associated(l) == l \in Wireless /\ linkState[l] = "carrier"

GetInfo(i) == IF i.link # NoLink /\ Associated(i.link) THEN [i EXCEPT !.essid = TRUE] ELSE i

TimerRuns ==
  /\ netWake \/ netDue
  /\ netWake' = FALSE /\ netDue' = FALSE
  /\ netIf' = GetInfo(netIf)
  /\ netDp' = TRUE
  /\ UNCHANGED <<netKernel, netWire, netOverrun, netByRoute, netWants, netDump, netLabel,
                 netLostRemoval, netForgot>>

GetNetworkState(i, isWireless) ==
  IF i.link = NoLink \/ ~i.carrier
  THEN IF rfkillOn /\ (i.link = NoLink \/ isWireless) THEN "disabled" ELSE "disconnected"
  ELSE IF i.addr = NoAddr THEN "linked" ELSE IF i.essid THEN "wifi" ELSE "ethernet"

NetUpdate ==
  /\ netDp /\ netDp' = FALSE
  /\ netLabel' = [state |-> GetNetworkState(netIf, netIf.link \in Wireless), addr |-> netIf.addr]
  /\ UNCHANGED <<netKernel, netWire, netOverrun, netByRoute, netIf, netWants, netDump, netWake, netDue,
                 netLostRemoval, netForgot>>

-----------------------------------------------------------------------------
\* The constructor joins the groups, and asks for routes, or for links and then addresses.
NetInit ==
  /\ linkState \in [Link -> {"gone", "carrier"}]
  /\ linkAddrs \in [Link -> {{}, {CHOOSE a \in Addr : TRUE}}]
  /\ linkRoutes \in [Link -> {{}} \cup {{p} : p \in Metric}]
  /\ \A l \in Link : /\ linkState[l] = "gone" => linkAddrs[l] = {}
                     /\ ~IfaceUp(l) => linkRoutes[l] = {}
                     /\ \A k \in Link \ {l} : linkRoutes[l] \cap linkRoutes[k] = {}
  /\ rfkillOn = FALSE /\ netNews = 0 /\ netDrops = 0 /\ netOverrun = FALSE
  /\ netByRoute \in BOOLEAN
  /\ netIf = [link |-> NoLink, addr |-> NoAddr, carrier |-> FALSE, essid |-> FALSE, metric |-> 0]
  /\ netWants = IF netByRoute THEN {} ELSE {"addr"}
  /\ netDump = TRUE /\ netWire = DumpOf(IF netByRoute THEN "route" ELSE "link")
  /\ netWake = TRUE /\ netDp = FALSE /\ netDue = FALSE
  /\ netLabel = NotShown
  /\ netLostRemoval = FALSE /\ netForgot = {}

NetNext ==
  \/ \E l \in Link, s \in {"gone", "down", "up", "carrier"} : LinkChanges(l, s)
  \/ \E l \in Link, a \in Addr : AddrChanges(l, a)
  \/ \E l \in Link, p \in Metric : RouteChanges(l, p)
  \/ RfkillChanges
  \/ Resync \/ HandleEventsDone
  \/ LinkDownEvent \/ LinkUpdateEvent \/ LinkSelectEvent \/ LinkDeletedEvent \/ OtherLinkEvent
  \/ AddrEvent
  \/ RouteEvent
  \/ TimerRuns
  \/ NetUpdate

NetSpec == NetInit /\ [][NetNext]_netVars

-----------------------------------------------------------------------------
NetTypeOK ==
  /\ netIf.link \in Link \cup {NoLink} /\ netIf.addr \in Addr \cup {NoAddr}
  /\ netWants \subseteq {"route", "link", "addr"}
  /\ {netOverrun, netByRoute, netDump, netWake, netDp, netDue, netLostRemoval} \subseteq BOOLEAN
  /\ netForgot \subseteq {"address", "link", "unasked"}
  /\ netNews \in 0..MaxNetNews /\ netDrops \in 0..MaxNetDrops

NetQuiet == netWire = <<>> /\ ~netOverrun /\ ~netDump /\ ~netWake /\ ~netDp /\ ~netDue

BestRoute(l) == \E p \in linkRoutes[l] : \A k \in Link : \A q \in linkRoutes[k] : p <= q
NetShown(l) == [state |-> GetNetworkState([link |-> l, carrier |-> linkState[l] = "carrier",
                                           addr |-> netLabel.addr, essid |-> Associated(l)],
                                          l \in Wireless),
                addr |-> netLabel.addr]
NetFaithful ==
  /\ netIf.link = NoLink =>
       /\ \A l \in Link : IF netByRoute THEN linkRoutes[l] = {} ELSE l \notin MatchingLinks \/ linkState[l] = "gone"
       /\ netLabel.addr = NoAddr
  /\ netIf.link # NoLink =>
       /\ IF netByRoute THEN BestRoute(netIf.link) ELSE linkState[netIf.link] # "gone"
       /\ IF linkAddrs[netIf.link] = {} THEN netLabel.addr = NoAddr ELSE netLabel.addr \in linkAddrs[netIf.link]
       /\ netLabel = NetShown(netIf.link)

\* At rest the label shows the interface of the best default route, or one that matches, with
\* an address it has and the state it is in, however messages, dumps, the timer and overruns
\* that lost nothing but news of things that came were ordered.  Excepted is what the module
\* does not ask for: another address once one went, another link that matches once one went,
\* the address that a link had before it was selected (network.cpp:246-318, 587-963).
NetAgrees == NetQuiet /\ ~netLostRemoval /\ netForgot = {} => NetFaithful
=============================================================================
