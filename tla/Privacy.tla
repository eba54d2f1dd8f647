------------------------------ MODULE Privacy ------------------------------
(***************************************************************************)
(* src/modules/privacy/: PipeWire's thread keeps the nodes and the lists   *)
(* of those in use; the main thread shows an item for each kind, with      *)
(* timers for what appears and disappears, and hears of the location.      *)
(***************************************************************************)
EXTENDS Naturals, FiniteSets

CONSTANTS PwNode, PrivKind,     \* nodes, and the kinds of items of the config
          KindOfNode,   \* what each node is
          IgnoredNodes, \* "ignore" and "ignore-monitor"
          LocationKind,     \* "location", one of PrivKind or not
          MaxPrivNews   \* bound on what happens to nodes and location

VARIABLES pwNodes,      \* the server's: "gone", "idle", "running"
          privacyNodes, \* privacy_nodes: nodes that PipeWire's thread has not destructed
          usedNodes,    \* nodes_screenshare, nodes_audio_in, nodes_audio_out: pointers to nodes
          pwRemoving,   \* the thread has destructed a node, and has not told the module yet
          geoInUse,     \* GeoClueBackend::location_in_use
          geoTimer,     \* geoclue_timeout_conn runs
          locationInUse,    \* Privacy::location_in_use
          privDue,      \* updates asked for, each of which is made
          privItems,    \* of each kind: [init, inUse, visible, revealed, timer]
          privBox,      \* event_box_: [visible, timer]
          privNews,
          privLate      \* history: a node said that it runs before the module listened, and none said anything since

pwThread == <<pwNodes, privacyNodes, usedNodes, pwRemoving>>
geoVars == <<geoInUse, geoTimer, locationInUse>>
privView == <<privItems, privBox>>
privVars == <<pwThread, geoVars, privView, privDue, privNews, privLate>>

PrivNewsComes == privNews < MaxPrivNews /\ privNews' = privNews + 1

-----------------------------------------------------------------------------
(* PipeWire's thread.                                                      *)

\* handleRegistryEventGlobal(): a node is idle until it says otherwise.
NodeComes(n) ==
  /\ pwNodes[n] = "gone" /\ ~pwRemoving /\ PrivNewsComes
  /\ pwNodes' = [pwNodes EXCEPT ![n] = "idle"] /\ privacyNodes' = privacyNodes \cup {n}
  /\ UNCHANGED <<usedNodes, pwRemoving, geoVars, privView, privDue, privLate>>

\* onPWPrivacyNodesChanged()
NodesChanged(nodes) ==
  /\ usedNodes' = {n \in privacyNodes' : nodes[n] = "running"} \ IgnoredNodes
  /\ privDue' = privDue + 1 /\ privLate' = FALSE

\* getNodeInfo()
NodeInfo(n, running) ==
  LET state == IF running THEN "running" ELSE "idle" IN
  /\ pwNodes[n] \in {"idle", "running"} \ {state} /\ ~pwRemoving /\ PrivNewsComes
  /\ pwNodes' = [pwNodes EXCEPT ![n] = state]
  /\ UNCHANGED <<privacyNodes, pwRemoving>> /\ NodesChanged(pwNodes')
  /\ UNCHANGED <<geoVars, privView>>

\* handleRegistryEventGlobalRemove(): the node is destructed under the backend's mutex ..
NodeGoes(n) ==
  /\ pwNodes[n] # "gone" /\ ~pwRemoving /\ PrivNewsComes
  /\ pwNodes' = [pwNodes EXCEPT ![n] = "gone"] /\ privacyNodes' = privacyNodes \ {n}
  /\ pwRemoving' = TRUE
  /\ UNCHANGED <<usedNodes, geoVars, privView, privDue, privLate>>

RemovalUntold == UNCHANGED <<usedNodes, privDue, privLate>>      \* mutant: the event is not emitted

RemovalTold == NodesChanged(pwNodes)

\* .. and the module is told after.
NodeGone ==
  /\ pwRemoving /\ pwRemoving' = FALSE
  /\ UNCHANGED <<pwNodes, privacyNodes>> /\ RemovalTold
  /\ UNCHANGED <<geoVars, privView, privNews>>

-----------------------------------------------------------------------------
(* GeoClue, on the main thread.                                            *)

LocationSettles(inUse) == locationInUse' = inUse /\ privDue' = privDue + 1

\* propertyChanged(), onAppear(), onVanished(), onGeoCluePrivacyNodesChanged(): the end of a use
\* is shown three seconds later.
GeoChanges(inUse) ==
  /\ inUse # geoInUse /\ PrivNewsComes
  /\ geoInUse' = inUse /\ geoTimer' = ~inUse
  /\ IF inUse THEN LocationSettles(TRUE) ELSE UNCHANGED <<locationInUse, privDue>>
  /\ UNCHANGED <<pwThread, privView, privLate>>

LocationTimeout ==
  /\ geoTimer /\ geoTimer' = FALSE /\ LocationSettles(geoInUse)
  /\ UNCHANGED <<geoInUse, pwThread, privView, privNews, privLate>>

-----------------------------------------------------------------------------
(* The module, on the main thread.                                         *)

InUse(k) == IF k = LocationKind THEN locationInUse ELSE \E n \in usedNodes : KindOfNode[n] = k

NoTimer == "none"

\* What is due for the other state is called off, or nothing is due: the timer acts on in_use.
Switched(i, inUse) == [i EXCEPT !.inUse = inUse, !.visible = @ \/ inUse, !.revealed = @ /\ inUse,
                                !.timer = IF inUse THEN "reveal" ELSE "hide"]

\* set_in_use(): the first call only hides the item.
SetInUse(i, inUse) ==
  CASE ~i.init -> [i EXCEPT !.init = TRUE, !.visible = FALSE, !.revealed = FALSE]
    [] i.init /\ i.inUse = inUse -> i
    [] OTHER -> Switched(i, inUse)

AnyInUse == \E k \in PrivKind : InUse(k)

\* update()
PrivUpdate ==
  /\ privDue > 0 /\ privDue' = privDue - 1
  /\ privItems' = [k \in PrivKind |-> SetInUse(privItems[k], InUse(k))]
  /\ privBox' = IF AnyInUse = privBox.visible THEN privBox
                ELSE IF AnyInUse THEN [visible |-> TRUE, timer |-> FALSE]
                ELSE [privBox EXCEPT !.timer = TRUE]
  /\ UNCHANGED <<pwThread, geoVars, privNews, privLate>>

\* The timer of an item, which a new one replaces
ItemTimeout(k) ==
  /\ privItems[k].timer # NoTimer
  /\ privItems' = [privItems EXCEPT ![k] = IF @.inUse THEN [@ EXCEPT !.revealed = TRUE, !.timer = NoTimer]
                                           ELSE [@ EXCEPT !.visible = FALSE, !.timer = NoTimer]]
  /\ UNCHANGED <<pwThread, geoVars, privBox, privDue, privNews, privLate>>

\* The timer of the box looks again at what is in use.
BoxTimeout ==
  /\ privBox.timer /\ privBox' = [visible |-> AnyInUse, timer |-> FALSE]
  /\ UNCHANGED <<pwThread, geoVars, privItems, privDue, privNews, privLate>>

-----------------------------------------------------------------------------
\* The backend's thread starts before the module is connected to its signal.
\* An item's widget is hidden, and its revealer shows its child.
NewItem == [init |-> FALSE, inUse |-> FALSE, visible |-> FALSE, revealed |-> TRUE, timer |-> NoTimer]

PrivInit ==
  /\ pwNodes \in [PwNode -> {"gone", "running"}] /\ geoInUse = FALSE
  /\ privacyNodes = {n \in PwNode : pwNodes[n] = "running"} /\ usedNodes = {} /\ pwRemoving = FALSE
  /\ geoTimer = FALSE /\ locationInUse = FALSE
  /\ privLate = (privacyNodes # {})
  /\ privDue = 1 /\ privNews = 0
  /\ privItems = [k \in PrivKind |-> NewItem]
  /\ privBox = [visible |-> TRUE, timer |-> FALSE]

PrivNext ==
  \/ \E n \in PwNode : NodeComes(n)
  \/ \E n \in PwNode, running \in BOOLEAN : NodeInfo(n, running)
  \/ \E n \in PwNode : NodeGoes(n)
  \/ NodeGone
  \/ \E inUse \in BOOLEAN : GeoChanges(inUse)
  \/ LocationTimeout \/ PrivUpdate \/ BoxTimeout
  \/ \E k \in PrivKind : ItemTimeout(k)

PrivSpec == PrivInit /\ [][PrivNext]_privVars

-----------------------------------------------------------------------------
PrivTypeOK ==
  /\ pwNodes \in [PwNode -> {"gone", "idle", "running"}] /\ usedNodes \subseteq PwNode
  /\ {pwRemoving, privLate, geoInUse, geoTimer, locationInUse, privBox.visible, privBox.timer} \subseteq BOOLEAN
  /\ privDue \in 0..(2 * MaxPrivNews + 1) /\ privNews \in 0..MaxPrivNews

\* Once every update is made and no timer runs, an item shows, revealed, exactly if a node of
\* its kind runs that is not ignored, or the location is in use, and the module if an item does,
\* however uses began and ended meanwhile; but a module does not look at
\* the nodes that ran before it listened.  And the lists point to nodes that were destructed only until
\* PipeWire's thread, which destructs one under another mutex, has told the module: a tooltip
\* made just then reads one (pipewire_backend.cpp:152-162, privacy.cpp:131-262,
\* privacy_item.cpp:111-148).
PrivacyAgrees ==
  LET uses(k) == IF k = LocationKind THEN geoInUse
                 ELSE ~privLate /\ \E n \in PwNode \ IgnoredNodes : KindOfNode[n] = k /\ pwNodes[n] = "running"
      rests == privDue = 0 /\ ~pwRemoving /\ ~geoTimer /\ ~privBox.timer
                 /\ \A k \in PrivKind : privItems[k].timer = NoTimer
  IN /\ usedNodes \subseteq privacyNodes \/ pwRemoving
     /\ rests => /\ \A k \in PrivKind : {privItems[k].visible, privItems[k].revealed} = {uses(k)}
                 /\ privBox.visible = \E k \in PrivKind : uses(k)
=============================================================================
