------------------------------ MODULE Wireplumber ------------------------------
(***************************************************************************)
(* src/modules/wireplumber.cpp: the default sink and source of PipeWire.      *)
(*                                                                         *)
(* A connection is built in steps: the core connects, two components are       *)
(* loaded, two plugins activated and an object manager installed, each by a   *)
(* callback that comes later and cannot be withdrawn.  The module may be       *)
(* destroyed, or PipeWire go away and the connection be built anew, between   *)
(* any two; isModuleAlive() and the generation a call was made under tell.    *)
(***************************************************************************)
EXTENDS Naturals, FiniteSets

CONSTANTS WpSink, WpSource,   \* nodes
          NoNode,             \* an id that is not valid
          WpConfigs,   \* [physical: only-physical, devices: the nodes with a device, leads: the node
                       \* one's output goes to, deaf: the nodes without a volume]
          MaxWpNews, MaxWpGen   \* bounds on PipeWire's changes, and on generations

\* Sinks and sources are different nodes, and the output of a sink leads to a sink, if anywhere.
ASSUME WpAssumption ==
  /\ WpSink \cap WpSource = {} /\ NoNode \notin WpSink \cup WpSource
  /\ \A c \in WpConfigs : \A n \in WpSink : c.leads[n] \in WpSink \cup {NoNode}
  /\ MaxWpNews \in Nat /\ MaxWpGen \in Nat \ {0}

VARIABLES wpConfig,
          pipewire,      \* what PipeWire has: the default nodes, the nodes that are known to
                         \* the object manager, their volume, and whether it runs
          wpAlive, wpGen,
          wpCore,        \* wp_core_: "null", "up", "lost"
          wpCalls,       \* the callbacks to come: [step, gen]
          wpApis,        \* the components loaded in this core
          pendingPlugins,
          wpOm,          \* om_: "new", "asked", "installed"
          wpHears,       \* how often the signals of the two plugins are connected
          wpTimer,
          wpNode, wpName, wpVolume, wpLabel,   \* node_id_ .. of the sink and of the source
          wpDp, wpShown,
          wpNews,
          wpFailed,      \* history: a component of this core could not be loaded
          wpEarly,       \* history: nodes that came to be the one to show before the object manager
                         \* had them, or because an output leads elsewhere now
          wpTouched      \* history: a callback used a module that is gone

wpLife == <<wpAlive, wpGen, wpCore, wpCalls, wpApis, pendingPlugins, wpOm, wpTimer, wpFailed>>
wpLabels == <<wpNode, wpName, wpVolume, wpLabel, wpDp>>
wpVars == <<wpConfig, pipewire, wpLife, wpHears, wpLabels, wpShown, wpNews, wpEarly, wpTouched>>

Roles == {"sink", "source"}
WpNodes == WpSink \cup WpSource
NodesOf(role) == IF role = "sink" THEN WpSink ELSE WpSource

-----------------------------------------------------------------------------
\* resolvePhysicalSink(): the chain of outputs is followed to the first node that has a device,
\* is not known, leads nowhere, or was seen; at most ten steps.
ResolvePhysicalSink(p, start) ==
  LET onward(n) == n \in p.known /\ n \notin wpConfig.devices /\ wpConfig.leads[n] # NoNode
      step(w) == IF w.at \in w.seen \/ ~onward(w.at) THEN w
                 ELSE [at |-> wpConfig.leads[w.at], seen |-> w.seen \cup {w.at}]
      walk[i \in 0..10] == IF i = 0 THEN [at |-> start, seen |-> {}] ELSE step(walk[i - 1])
      end == walk[10].at
  IN IF wpConfig.physical /\ end \in p.known \ wpConfig.deaf THEN end ELSE start

\* The node a role is to show.
Effective(p, role) ==
  LET d == p.default[role] IN
  IF role = "sink" /\ d # NoNode THEN ResolvePhysicalSink(p, d) ELSE d

HasVolume(n) == n \in pipewire.known \ wpConfig.deaf

\* The nodes chosen are nodes, the roles in heard update their volume, and those in named
\* their name.
Refresh(nodes, heard, named) ==
  /\ wpNode' = nodes
  /\ wpVolume' = [r \in Roles |-> IF r \in heard /\ HasVolume(nodes[r]) THEN pipewire.volume[nodes[r]] ELSE wpVolume[r]]
  /\ wpLabel' = [r \in Roles |-> IF r \in named /\ nodes[r] \in pipewire.known THEN nodes[r] ELSE wpLabel[r]]
  /\ wpDp' = (wpDp \/ \E r \in heard : HasVolume(nodes[r]))

-----------------------------------------------------------------------------
(* PipeWire.  Signals reach the module while it is connected to them.        *)

PipewireChange(p) ==
  /\ pipewire.runs /\ wpNews < MaxWpNews /\ wpNews' = wpNews + 1
  /\ pipewire' = p
  /\ UNCHANGED <<wpConfig, wpLife, wpHears, wpShown, wpTouched>>

Hearing == wpCore = "up" /\ wpHears > 0

\* onMixerChanged()
VolumeOf(n, v) ==
  /\ n \in pipewire.known /\ v # pipewire.volume[n]
  /\ PipewireChange([pipewire EXCEPT !.volume[n] = v])
  /\ LET role == IF wpNode["sink"] = n THEN "sink" ELSE "source" IN
     IF Hearing /\ wpNode[role] = n /\ n \notin wpConfig.deaf
     THEN wpVolume' = [wpVolume EXCEPT ![role] = v] /\ wpDp' = TRUE
     ELSE UNCHANGED <<wpVolume, wpDp>>
  /\ UNCHANGED <<wpNode, wpName, wpLabel, wpEarly>>

OnMixerChanged(n, v) == VolumeOf(n, v)

\* handleScroll() sets the volume of the node that is shown.
WpHandleScroll(v) == wpAlive /\ Hearing /\ wpNode["sink"] # NoNode /\ VolumeOf(wpNode["sink"], v)

\* A node comes or goes; the object manager is told, the module is not.
NodeComesOrGoes(n) ==
  /\ \A r \in Roles : pipewire.default[r] = n => n \notin pipewire.known
  /\ LET p == [pipewire EXCEPT !.known = (@ \cup {n}) \ (@ \cap {n})]
     IN /\ PipewireChange(p)
        /\ wpEarly' = wpEarly \cup ({Effective(p, "sink")} \ {Effective(pipewire, "sink"), wpNode["sink"]})
  /\ UNCHANGED wpLabels

\* onDefaultNodesApiChanged(): both roles are looked at.
Changed(p, role) ==
  LET e == Effective(p, role) IN
  /\ e # NoNode /\ e \in p.known
  /\ wpName[role] # e \/ wpNode[role] # e

OnDefaultNodesApiChanged(role, n) ==
  /\ n # pipewire.default[role]
  /\ LET p == [pipewire EXCEPT !.default[role] = n]
         moved == {r \in Roles : Changed(p, r)}
         nodes == [r \in Roles |-> IF r \in moved THEN Effective(p, r) ELSE wpNode[r]]
         unknown == {n} \ (pipewire.known \cup {NoNode})
     IN /\ PipewireChange(p)
        /\ wpEarly' = (wpEarly \cup unknown) \ (IF Hearing THEN {nodes[r] : r \in moved} ELSE {})
        /\ IF Hearing
           THEN /\ Refresh(nodes, moved, moved)
                /\ wpName' = [r \in Roles |-> IF r \in moved THEN nodes[r] ELSE wpName[r]]
           ELSE UNCHANGED wpLabels

\* The service stops: the objects go with the connection.  onCoreDisconnected()
PipewireStops ==
  /\ pipewire.runs /\ wpGen < MaxWpGen
  /\ pipewire' = [pipewire EXCEPT !.runs = FALSE]
  /\ wpCore' = IF wpCore = "up" THEN "lost" ELSE wpCore
  /\ wpTimer' = (wpTimer \/ (wpAlive /\ wpCore = "up"))
  /\ UNCHANGED <<wpConfig, wpAlive, wpGen, wpCalls, wpApis, pendingPlugins, wpOm, wpHears, wpFailed, wpLabels, wpShown,
                 wpNews, wpEarly, wpTouched>>

PipewireStarts ==
  /\ ~pipewire.runs
  /\ pipewire' = [pipewire EXCEPT !.runs = TRUE]
  /\ UNCHANGED <<wpConfig, wpLife, wpHears, wpLabels, wpShown, wpNews, wpEarly, wpTouched>>

-----------------------------------------------------------------------------
\* setupConnection() after teardownConnection(): signals are disconnected, and objects and
\* names released; the calls that are to come stay.
OnReconnectTimeout ==
  /\ wpTimer /\ wpGen < MaxWpGen
  /\ wpGen' = wpGen + 1
  /\ IF pipewire.runs
     THEN wpCore' = "up" /\ wpTimer' = FALSE /\ wpCalls' = wpCalls \cup {[step |-> "nodes", gen |-> wpGen + 1]}
     ELSE wpCore' = "null" /\ UNCHANGED <<wpTimer, wpCalls>>
  /\ wpApis' = {} /\ pendingPlugins' = 0 /\ wpOm' = "new" /\ wpHears' = 0 /\ wpFailed' = FALSE
  /\ wpName' = [r \in Roles |-> NoNode]
  /\ UNCHANGED <<wpConfig, pipewire, wpAlive, wpNode, wpVolume, wpLabel, wpDp, wpShown, wpNews, wpEarly, wpTouched>>

\* The destructor.
WpDestroyed ==
  /\ wpAlive /\ wpAlive' = FALSE
  /\ wpTimer' = FALSE /\ wpCore' = "null" /\ wpApis' = {} /\ pendingPlugins' = 0 /\ wpOm' = "new" /\ wpHears' = 0
  /\ wpDp' = FALSE /\ wpName' = [r \in Roles |-> NoNode]
  /\ UNCHANGED <<wpConfig, pipewire, wpGen, wpCalls, wpFailed, wpNode, wpVolume, wpLabel, wpShown, wpNews, wpEarly, wpTouched>>

-----------------------------------------------------------------------------
ForThisCore(call) == wpAlive /\ call.gen = wpGen

\* A call whose module or connection is gone is dropped, else handled.
CallComes(call, ok) ==
  /\ call \in wpCalls
  /\ LET used == ForThisCore(call)  step == call.step IN
     /\ wpCalls' = (wpCalls \ {call}) \cup
          (IF ~used \/ ~ok THEN {} ELSE
           CASE step = "nodes" -> {[step |-> "mixer", gen |-> call.gen]}
             [] step = "mixer" -> {[step |-> "activate nodes", gen |-> wpGen], [step |-> "activate mixer", gen |-> wpGen]}
             [] OTHER -> {})
     /\ wpApis' = IF used /\ ok THEN wpApis \cup ({step} \cap {"nodes", "mixer"}) ELSE wpApis
     /\ LET left == CASE ~used \/ ~ok \/ step = "nodes" -> pendingPlugins
                      [] used /\ ok /\ step = "mixer" -> pendingPlugins + 2
                      [] OTHER -> (pendingPlugins + 3) % 4    \* an unsigned 32-bit counter, % 4 here
        IN /\ pendingPlugins' = left
           /\ wpOm' = IF used /\ ok /\ step \notin {"nodes", "mixer"} /\ left = 0 THEN "asked" ELSE wpOm
     /\ wpFailed' = (wpFailed \/ (used /\ ~ok))
     /\ wpDp' = (wpDp \/ (used /\ ok /\ step = "mixer"))
     /\ wpTouched' = (wpTouched \/ (used /\ ~wpAlive))
  /\ UNCHANGED <<wpConfig, pipewire, wpAlive, wpGen, wpCore, wpHears, wpTimer, wpNode, wpName, wpVolume, wpLabel, wpShown,
                 wpNews, wpEarly>>

\* The configured default need not be the one there is.
OnObjectManagerInstalled(configured) ==
  /\ wpOm = "asked" /\ wpCore = "up" /\ wpAlive
  /\ wpOm' = "installed"
  /\ IF wpApis # {"nodes", "mixer"} THEN UNCHANGED <<wpHears, wpLabels>>
     ELSE /\ wpHears' = wpHears + 1
          /\ wpName' = [r \in Roles |-> IF configured THEN pipewire.default[r] ELSE NoNode]
          /\ Refresh([r \in Roles |-> Effective(pipewire, r)], Roles, Roles)
  /\ wpEarly' = {Effective(pipewire, r) : r \in Roles} \ pipewire.known
  /\ UNCHANGED <<wpConfig, pipewire, wpAlive, wpGen, wpCore, wpCalls, wpApis, pendingPlugins, wpTimer, wpFailed, wpShown,
                 wpNews, wpTouched>>

WpUpdate ==
  /\ wpDp /\ wpDp' = FALSE
  /\ wpShown' = [r \in Roles |-> [volume |-> wpVolume[r], name |-> wpLabel[r]]]
  /\ UNCHANGED <<wpConfig, pipewire, wpLife, wpHears, wpNode, wpName, wpVolume, wpLabel, wpNews, wpEarly, wpTouched>>

-----------------------------------------------------------------------------
\* The constructor: PipeWire runs, or the module is not made.
WpInit ==
  /\ wpConfig \in WpConfigs
  /\ \E d \in WpSink \cup {NoNode}, s \in WpSource \cup {NoNode} : \E known \in {WpNodes, {d, s} \ {NoNode}} :
       pipewire = [runs |-> TRUE, default |-> [sink |-> d, source |-> s], known |-> known, volume |-> [n \in WpNodes |-> 1]]
  /\ wpAlive = TRUE /\ wpGen = 1 /\ wpCore = "up" /\ wpCalls = {[step |-> "nodes", gen |-> 1]}
  /\ wpApis = {} /\ pendingPlugins = 0 /\ wpOm = "new" /\ wpHears = 0 /\ wpTimer = FALSE
  /\ wpNode = [r \in Roles |-> NoNode] /\ wpName = wpNode /\ wpVolume = [r \in Roles |-> 0] /\ wpLabel = wpNode
  /\ wpDp = FALSE /\ wpShown = [r \in Roles |-> [volume |-> 0, name |-> NoNode]]
  /\ wpNews = 0 /\ wpFailed = FALSE /\ wpEarly = {} /\ wpTouched = FALSE

WpNext ==
  \/ \E n \in WpNodes, v \in 1..2 : OnMixerChanged(n, v)
  \/ \E v \in 1..2 : WpHandleScroll(v)
  \/ \E n \in WpNodes : NodeComesOrGoes(n)
  \/ \E r \in Roles : \E n \in NodesOf(r) \cup {NoNode} : OnDefaultNodesApiChanged(r, n)
  \/ PipewireStops \/ PipewireStarts
  \/ OnReconnectTimeout
  \/ WpDestroyed
  \/ \E call \in wpCalls, ok \in BOOLEAN : CallComes(call, ok)
  \/ \E configured \in BOOLEAN : OnObjectManagerInstalled(configured)
  \/ WpUpdate

WpSpec == WpInit /\ [][WpNext]_wpVars

-----------------------------------------------------------------------------
WpTypeOK ==
  /\ wpConfig \in WpConfigs /\ wpCore \in {"null", "up", "lost"} /\ wpOm \in {"new", "asked", "installed"}
  /\ {wpAlive, wpTimer, wpDp, wpFailed, wpTouched} \subseteq BOOLEAN /\ wpGen \in 1..MaxWpGen /\ wpHears \in Nat
  /\ pendingPlugins \in Nat /\ wpEarly \subseteq WpNodes \cup {NoNode} /\ wpNews \in 0..MaxWpNews

\* No callback uses a module that is gone, or counts for a connection it was not made for; and
\* once PipeWire is up and nothing is to come, the connection is complete, signals are
\* connected once, and each default the object manager knew in time is shown with its name
\* and volume; one chosen before stays without (wireplumber.cpp:26-180, 250-445, 447-611, 953-1036).
WpAgrees ==
  /\ ~wpTouched
  /\ wpAlive /\ pipewire.runs /\ wpCalls = {} /\ ~wpTimer /\ ~wpFailed /\ wpOm # "asked" /\ ~wpDp =>
       /\ wpCore = "up" /\ wpOm = "installed" /\ wpHears = 1
       /\ \A r \in Roles :
            LET e == Effective(pipewire, r) IN
            e \notin wpEarly \cup {NoNode} /\ HasVolume(e) => wpShown[r] = [volume |-> pipewire.volume[e], name |-> e]
=============================================================================
