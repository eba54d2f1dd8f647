--------------------------- MODULE ServicesProofs ---------------------------
(***************************************************************************)
(* Theorems about the modules of MCServices, for any nodes, players,         *)
(* devices, links and addresses and any number of changes: what they show at *)
(* rest is what is.                                                          *)
(***************************************************************************)
EXTENDS MCServices, FiniteSetTheorems, SequenceTheorems, WellFoundedInduction, TLAPS

-----------------------------------------------------------------------------
(* wireplumber.cpp.  A connection is at one stage after the other; once it   *)
(* is complete, each role has the node to show, or one that came too early.  *)

\* resolvePhysicalSink() ends at a sink the object manager has, or where it started.
LEMMA PhysicalIsASink ==
  ASSUME NEW p, NEW start \in WpSink, wpConfig \in WpConfigs
  PROVE  /\ ResolvePhysicalSink(p, start) \in WpSink
         /\ ResolvePhysicalSink(p, start) \in p.known \/ ResolvePhysicalSink(p, start) = start
<1> DEFINE onward(n) == n \in p.known /\ n \notin wpConfig.devices /\ wpConfig.leads[n] # NoNode
           step(w) == IF w.at \in w.seen \/ ~onward(w.at) THEN w
                      ELSE [at |-> wpConfig.leads[w.at], seen |-> w.seen \cup {w.at}]
           walk[i \in 0..10] == IF i = 0 THEN [at |-> start, seen |-> {}] ELSE step(walk[i - 1])
           W == [at : WpSink, seen : SUBSET WpSink]
<1>1. [at |-> start, seen |-> {}] \in W
  OBVIOUS
<1>2. \A w \in W : step(w) \in W
  BY WpAssumption
<1> HIDE DEF step, W
<1>3. PICK w0 \in W : w0 = [at |-> start, seen |-> {}]
  BY <1>1
<1>4. PICK w1 \in W : w1 = step(w0)
  BY <1>2
<1>5. PICK w2 \in W : w2 = step(w1)
  BY <1>2
<1>6. PICK w3 \in W : w3 = step(w2)
  BY <1>2
<1>7. PICK w4 \in W : w4 = step(w3)
  BY <1>2
<1>8. PICK w5 \in W : w5 = step(w4)
  BY <1>2
<1>9. PICK w6 \in W : w6 = step(w5)
  BY <1>2
<1>10. PICK w7 \in W : w7 = step(w6)
  BY <1>2
<1>11. PICK w8 \in W : w8 = step(w7)
  BY <1>2
<1>12. PICK w9 \in W : w9 = step(w8)
  BY <1>2
<1>13. PICK w10 \in W : w10 = step(w9)
  BY <1>2
<1> DEFINE h == [i \in 0..10 |-> IF i = 0 THEN w0 ELSE IF i = 1 THEN w1 ELSE IF i = 2 THEN w2 ELSE IF i = 3 THEN w3
                  ELSE IF i = 4 THEN w4 ELSE IF i = 5 THEN w5 ELSE IF i = 6 THEN w6 ELSE IF i = 7 THEN w7
                  ELSE IF i = 8 THEN w8 ELSE IF i = 9 THEN w9 ELSE w10]
<1>14. \A i \in 0..10 : h[i] = IF i = 0 THEN w0 ELSE step(h[i - 1])
  BY <1>4, <1>5, <1>6, <1>7, <1>8, <1>9, <1>10, <1>11, <1>12, <1>13
<1>15. h = [i \in 0..10 |-> IF i = 0 THEN [at |-> start, seen |-> {}] ELSE step(h[i - 1])]
  BY <1>14, <1>3
<1> HIDE DEF h
<1>16. walk = [i \in 0..10 |-> IF i = 0 THEN [at |-> start, seen |-> {}] ELSE step(walk[i - 1])]
  BY <1>15
<1> HIDE DEF walk
<1>17. walk[10] \in W
  <2>1. walk[0] \in W
    BY <1>16, <1>1
  <2>2. walk[1] = step(walk[0]) /\ walk[2] = step(walk[1]) /\ walk[3] = step(walk[2]) /\ walk[4] = step(walk[3])
    BY <1>16
  <2>3. walk[5] = step(walk[4]) /\ walk[6] = step(walk[5]) /\ walk[7] = step(walk[6]) /\ walk[8] = step(walk[7])
    BY <1>16
  <2>4. walk[9] = step(walk[8]) /\ walk[10] = step(walk[9])
    BY <1>16
  <2>5. walk[4] \in W
    BY <2>1, <2>2, <1>2
  <2>6. walk[8] \in W
    BY <2>5, <2>3, <1>2
  <2> QED  BY <2>6, <2>4, <1>2
<1>18. walk[10].at \in WpSink
  BY <1>17 DEF W
<1>19. ResolvePhysicalSink(p, start) = IF wpConfig.physical /\ walk[10].at \in p.known \ wpConfig.deaf THEN walk[10].at ELSE start
  BY DEF ResolvePhysicalSink, walk, step
<1> QED  BY <1>18, <1>19

LEMMA EffectiveNode ==
  ASSUME NEW p, NEW r \in Roles, wpConfig \in WpConfigs, p.default[r] \in NodesOf(r) \cup {NoNode}
  PROVE  /\ Effective(p, r) \in NodesOf(r) \cup {NoNode}
         /\ Effective(p, r) \in p.known \/ Effective(p, r) = p.default[r]
         /\ Effective(p, r) = NoNode <=> p.default[r] = NoNode
<1>1. CASE r = "sink" /\ p.default[r] # NoNode
  <2> DEFINE e == ResolvePhysicalSink(p, p.default[r])
  <2>1. p.default[r] \in WpSink /\ Effective(p, r) = e
    BY <1>1 DEF Effective, NodesOf
  <2>2. e \in WpSink /\ (e \in p.known \/ e = p.default[r])
    BY <2>1, PhysicalIsASink
  <2> QED  BY <1>1, <2>1, <2>2, WpAssumption DEF NodesOf
<1>2. CASE ~(r = "sink" /\ p.default[r] # NoNode)
  BY <1>2 DEF Effective
<1> QED  BY <1>1, <1>2

WpSteps == {"nodes", "mixer", "activate nodes", "activate mixer"}

\* The steps of the connection that are to be answered.
WpDue == {s \in WpSteps : [step |-> s, gen |-> wpGen] \in wpCalls}

\* A connection is at one of its stages, or a component could not be loaded and it stays as it is.
WpStages ==
  wpAlive /\ wpCore # "null" =>
    /\ wpFailed => /\ wpOm = "new" /\ wpHears = 0
                   /\ WpDue = {} \/ (WpDue \in {{"activate nodes"}, {"activate mixer"}} /\ pendingPlugins = 2)
    /\ ~wpFailed =>
         \/ WpDue = {"nodes"} /\ wpApis = {} /\ pendingPlugins = 0 /\ wpOm = "new" /\ wpHears = 0
         \/ WpDue = {"mixer"} /\ wpApis = {"nodes"} /\ pendingPlugins = 0 /\ wpOm = "new" /\ wpHears = 0
         \/ /\ wpApis = {"nodes", "mixer"} /\ wpOm = "new" /\ wpHears = 0
            /\ \/ WpDue = {"activate nodes", "activate mixer"} /\ pendingPlugins = 2
               \/ WpDue = {"activate nodes"} /\ pendingPlugins = 1
               \/ WpDue = {"activate mixer"} /\ pendingPlugins = 1
         \/ WpDue = {} /\ wpApis = {"nodes", "mixer"} /\ wpOm = "asked" /\ wpHears = 0
         \/ WpDue = {} /\ wpOm = "installed" /\ wpHears = 1

\* A connection that is lost is tried again.
WpRetried == wpAlive /\ wpCore # "up" => wpTimer

\* While the module hears PipeWire, the node a role has is the one to show, and has its name and
\* volume, but for the nodes that came to be it before the object manager had them.
WpChosen ==
  \A r \in Roles : LET e == Effective(pipewire, r) IN Hearing /\ e # NoNode => e \in wpEarly \/ wpNode[r] = e

WpLabelled ==
  \A r \in Roles : LET n == wpNode[r] IN
    Hearing /\ n \notin wpEarly \cup {NoNode} =>
      /\ wpLabel[r] = n
      /\ n \notin wpConfig.deaf => /\ wpVolume[r] = pipewire.volume[n]
                                   /\ wpDp \/ wpShown[r] = [volume |-> wpVolume[r], name |-> n]

WpPipewireTypes ==
  /\ wpConfig \in WpConfigs
  /\ pipewire \in [runs : BOOLEAN, default : [Roles -> WpNodes \cup {NoNode}], known : SUBSET WpNodes, volume : [WpNodes -> 1..2]]
  /\ \A r \in Roles : pipewire.default[r] \in NodesOf(r) \cup {NoNode}
WpModuleTypes ==
  /\ wpNode \in [Roles -> WpNodes \cup {NoNode}] /\ \A r \in Roles : wpNode[r] \in NodesOf(r) \cup {NoNode}
  /\ wpHears \in Nat /\ wpAlive \in BOOLEAN /\ wpTimer \in BOOLEAN /\ wpFailed \in BOOLEAN
  /\ wpCore \in {"null", "up", "lost"} /\ wpOm \in {"new", "asked", "installed"} /\ ~wpTouched
  /\ wpDp \in BOOLEAN /\ wpVolume \in [Roles -> Nat] /\ wpEarly \subseteq WpNodes \cup {NoNode}
WpCallTypes ==
  /\ wpCalls \subseteq [step : WpSteps, gen : Nat] /\ wpGen \in Nat \ {0} /\ pendingPlugins \in Nat
  /\ \A call \in wpCalls : call.gen <= wpGen

WpInv == WpPipewireTypes /\ WpModuleTypes /\ WpCallTypes /\ WpStages /\ WpRetried /\ WpChosen /\ WpLabelled

\* The node to show depends on the configuration and on PipeWire alone.
LEMMA EffectiveNext ==
  ASSUME NEW p, pipewire' = p, wpConfig' = wpConfig
  PROVE  \A r \in Roles : Effective(pipewire, r)' = Effective(p, r)
BY DEF Effective, ResolvePhysicalSink

LEMMA WpInitInv == WpInit => WpInv
<1> SUFFICES ASSUME WpInit PROVE WpInv
  OBVIOUS
<1>1. WpPipewireTypes
  BY WpAssumption DEF WpInit, WpPipewireTypes, WpNodes, NodesOf, Roles
<1>2. WpModuleTypes
  <2>1. wpNode = [r \in Roles |-> NoNode] /\ wpVolume = [r \in Roles |-> 0] /\ wpEarly = {} /\ ~wpTouched
    BY DEF WpInit
  <2>2. wpAlive = TRUE /\ wpTimer = FALSE /\ wpFailed = FALSE /\ wpDp = FALSE /\ wpHears = 0 /\ wpCore = "up" /\ wpOm = "new"
    BY DEF WpInit
  <2>3. wpNode \in [Roles -> WpNodes \cup {NoNode}] /\ wpVolume \in [Roles -> Nat]
    BY <2>1
  <2>4. \A r \in Roles : wpNode[r] \in NodesOf(r) \cup {NoNode}
    BY <2>1
  <2> QED  BY <2>1, <2>2, <2>3, <2>4 DEF WpModuleTypes
<1>6. WpCallTypes
  BY DEF WpInit, WpCallTypes, WpSteps
<1>3. WpDue = {"nodes"}
  BY DEF WpInit, WpDue, WpSteps
<1>4. WpStages /\ WpRetried
  BY <1>3 DEF WpInit, WpStages, WpRetried
<1>5. WpChosen /\ WpLabelled
  BY DEF WpInit, WpChosen, WpLabelled, Hearing
<1> QED  BY <1>1, <1>2, <1>4, <1>5, <1>6 DEF WpInv

LEMMA EffectiveSame ==
  ASSUME NEW p, NEW q, p.known = q.known, p.default = q.default
  PROVE  \A r \in Roles : Effective(p, r) = Effective(q, r)
BY DEF Effective, ResolvePhysicalSink

LEMMA WpConnectionKeeps ==
  ASSUME WpInv, UNCHANGED <<wpLife, wpHears>>
  PROVE  WpStages' /\ WpRetried' /\ WpCallTypes' /\ Hearing' = Hearing
<1>1. WpDue' = WpDue
  BY DEF WpDue, wpLife
<1> QED  BY <1>1 DEF WpInv, WpStages, WpRetried, WpCallTypes, Hearing, wpLife

LEMMA WpVolumeOfKeeps ==
  ASSUME WpInv, NEW n \in WpNodes, NEW v \in 1..2, VolumeOf(n, v)
  PROVE  WpInv'
<1> USE DEF WpInv
<1> DEFINE p == [pipewire EXCEPT !.volume[n] = v]
           role == IF wpNode["sink"] = n THEN "sink" ELSE "source"
           heard == Hearing /\ wpNode[role] = n /\ n \notin wpConfig.deaf
<1>1. /\ pipewire' = p /\ n \in pipewire.known /\ UNCHANGED <<wpConfig, wpLife, wpHears, wpShown, wpTouched, wpNode, wpLabel, wpEarly>>
      /\ heard => wpVolume' = [wpVolume EXCEPT ![role] = v] /\ wpDp' = TRUE
      /\ ~heard => UNCHANGED <<wpVolume, wpDp>>
  BY DEF VolumeOf, PipewireChange
<1>2. p.known = pipewire.known /\ p.default = pipewire.default /\ p.runs = pipewire.runs
  BY DEF WpPipewireTypes
<1>3. p.volume = [pipewire.volume EXCEPT ![n] = v] /\ pipewire.volume \in [WpNodes -> 1..2]
  BY DEF WpPipewireTypes
<1>4. WpPipewireTypes'
  BY <1>1, <1>2, <1>3 DEF WpPipewireTypes
<1>5. WpStages' /\ WpRetried' /\ WpCallTypes' /\ Hearing' = Hearing
  BY <1>1, WpConnectionKeeps
<1>6. role \in Roles
  BY DEF Roles
<1>10. WpModuleTypes'
  <2>1. wpVolume' \in [Roles -> Nat] /\ wpDp' \in BOOLEAN
    <3>1. wpVolume \in [Roles -> Nat] /\ wpDp \in BOOLEAN
      BY DEF WpModuleTypes
    <3>2. CASE heard
      <4>1. wpVolume' = [wpVolume EXCEPT ![role] = v] /\ wpDp' = TRUE
        BY <1>1, <3>2
      <4>2. wpDp' \in BOOLEAN
        BY <4>1
      <4>3. v \in Nat
        OBVIOUS
      <4> HIDE DEF role
      <4>4. wpVolume' \in [Roles -> Nat]
        BY <3>1, <4>1, <4>3
      <4> QED  BY <4>2, <4>4
    <3>3. CASE ~heard
      BY <1>1, <3>1, <3>3
    <3> QED  BY <3>2, <3>3
  <2>2. UNCHANGED <<wpAlive, wpTimer, wpFailed, wpCore, wpOm>>
    BY <1>1 DEF wpLife
  <2> QED  BY <1>1, <2>1, <2>2 DEF WpModuleTypes
<1>7. \A r \in Roles : Effective(pipewire, r)' = Effective(pipewire, r)
  <2>1. \A r \in Roles : Effective(p, r) = Effective(pipewire, r)
    BY <1>2, EffectiveSame
  <2>2. \A r \in Roles : Effective(pipewire, r)' = Effective(p, r)
    BY <1>1, EffectiveNext
  <2> QED  BY <2>1, <2>2
<1>8. WpChosen'
  BY <1>1, <1>5, <1>7 DEF WpChosen
<1>9. WpLabelled'
  <2> SUFFICES ASSUME NEW r \in Roles, Hearing, wpNode[r] \notin wpEarly \cup {NoNode}
               PROVE  /\ wpLabel'[r] = wpNode[r]
                      /\ wpNode[r] \notin wpConfig.deaf =>
                           /\ wpVolume'[r] = p.volume[wpNode[r]]
                           /\ wpDp' \/ wpShown'[r] = [volume |-> wpVolume'[r], name |-> wpNode[r]]
    BY <1>1, <1>5 DEF WpLabelled
  <2>1. /\ wpLabel[r] = wpNode[r] /\ wpNode[r] \in WpNodes
        /\ wpNode[r] \notin wpConfig.deaf => /\ wpVolume[r] = pipewire.volume[wpNode[r]]
                                             /\ wpDp \/ wpShown[r] = [volume |-> wpVolume[r], name |-> wpNode[r]]
    BY DEF WpLabelled, WpModuleTypes
  <2>2. CASE wpNode[r] = n
    <3>1. r = role
      BY <2>2, WpAssumption DEF WpModuleTypes, Roles, NodesOf
    <3> QED  BY <1>1, <1>3, <2>1, <2>2, <3>1 DEF WpModuleTypes
  <2>3. CASE wpNode[r] # n
    <3>1. p.volume[wpNode[r]] = pipewire.volume[wpNode[r]]
      BY <1>3, <2>1, <2>3
    <3>2. heard => r # role
      BY <2>3
    <3>3. wpVolume'[r] = wpVolume[r]
      BY <1>1, <3>2 DEF WpModuleTypes
    <3> QED  BY <1>1, <2>1, <3>1, <3>3
  <2> QED  BY <2>2, <2>3
<1> QED  BY <1>4, <1>5, <1>8, <1>9, <1>10

LEMMA WpNodeKeeps ==
  ASSUME WpInv, NEW n \in WpNodes, NodeComesOrGoes(n)
  PROVE  WpInv'
<1> USE DEF WpInv
<1> DEFINE p == [pipewire EXCEPT !.known = (pipewire.known \cup {n}) \ (pipewire.known \cap {n})]
<1>1. /\ pipewire' = p /\ UNCHANGED <<wpConfig, wpLife, wpHears, wpShown, wpTouched, wpNode, wpName, wpVolume, wpLabel, wpDp>>
      /\ wpEarly' = wpEarly \cup ({Effective(p, "sink")} \ {Effective(pipewire, "sink"), wpNode["sink"]})
  BY DEF NodeComesOrGoes, PipewireChange, wpLabels
<1>2. p.volume = pipewire.volume /\ p.default = pipewire.default /\ p.runs = pipewire.runs /\ p.known \subseteq WpNodes
  BY DEF WpPipewireTypes
<1>3. WpPipewireTypes'
  BY <1>1, <1>2 DEF WpPipewireTypes
<1>4. WpStages' /\ WpRetried' /\ WpCallTypes' /\ Hearing' = Hearing
  BY <1>1, WpConnectionKeeps
<1>5. Effective(p, "sink") \in WpNodes \cup {NoNode}
  BY <1>2, EffectiveNode DEF WpPipewireTypes, Roles, NodesOf, WpNodes
<1>6. WpModuleTypes'
  BY <1>1, <1>5 DEF WpModuleTypes, wpLife
<1>7. \A r \in Roles : Effective(pipewire, r)' = Effective(p, r)
  BY <1>1, EffectiveNext
<1> HIDE DEF p
<1>8. WpChosen'
  <2> SUFFICES ASSUME NEW r \in Roles, Hearing, Effective(p, r) # NoNode
               PROVE  Effective(p, r) \in wpEarly' \/ wpNode[r] = Effective(p, r)
    BY <1>1, <1>4, <1>7 DEF WpChosen
  <2>1. CASE Effective(p, r) = Effective(pipewire, r)
    BY <1>1, <2>1 DEF WpChosen
  <2>2. CASE Effective(p, r) # Effective(pipewire, r)
    <3>1. r = "sink"
      BY <1>2, <2>2 DEF Roles, Effective
    <3> QED  BY <1>1, <2>2, <3>1
  <2> QED  BY <2>1, <2>2
<1>9. WpLabelled'
  BY <1>1, <1>2, <1>4 DEF WpLabelled
<1> QED  BY <1>3, <1>4, <1>6, <1>8, <1>9

LEMMA WpDefaultKeeps ==
  ASSUME WpInv, NEW role \in Roles, NEW n \in NodesOf(role) \cup {NoNode}, OnDefaultNodesApiChanged(role, n)
  PROVE  WpInv'
<1> USE DEF WpInv
<1> DEFINE p == [pipewire EXCEPT !.default[role] = n]
           moved == {r \in Roles : Changed(p, r)}
           nodes == [r \in Roles |-> IF r \in moved THEN Effective(p, r) ELSE wpNode[r]]
           unknown == {n} \ (pipewire.known \cup {NoNode})
<1>1. /\ pipewire' = p /\ UNCHANGED <<wpConfig, wpLife, wpHears, wpShown, wpTouched>>
      /\ wpEarly' = (wpEarly \cup unknown) \ (IF Hearing THEN {nodes[r] : r \in moved} ELSE {})
      /\ Hearing => Refresh(nodes, moved, moved) /\ wpName' = [r \in Roles |-> IF r \in moved THEN nodes[r] ELSE wpName[r]]
      /\ ~Hearing => UNCHANGED wpLabels
  BY DEF OnDefaultNodesApiChanged, PipewireChange
<1>2. p.volume = pipewire.volume /\ p.known = pipewire.known /\ p.runs = pipewire.runs
      /\ p.default = [pipewire.default EXCEPT ![role] = n]
  BY DEF WpPipewireTypes
<1>3. WpPipewireTypes'
  <2>1. n \in WpNodes \cup {NoNode}
    BY DEF WpNodes, NodesOf
  <2> QED  BY <1>1, <1>2, <2>1 DEF WpPipewireTypes
<1>4. WpStages' /\ WpRetried' /\ WpCallTypes' /\ Hearing' = Hearing
  BY <1>1, WpConnectionKeeps
<1>5. \A r \in Roles : /\ Effective(p, r) \in NodesOf(r) \cup {NoNode}
                       /\ Effective(p, r) \in p.known \/ Effective(p, r) = p.default[r]
                       /\ Effective(p, r) = NoNode <=> p.default[r] = NoNode
  <2> TAKE r \in Roles
  <2>1. wpConfig \in WpConfigs /\ p.default[r] \in NodesOf(r) \cup {NoNode}
    BY <1>2 DEF WpPipewireTypes
  <2> QED  BY <2>1, EffectiveNode
<1>6. \A r \in Roles : Effective(pipewire, r)' = Effective(p, r)
  BY <1>1, EffectiveNext
<1>7. \A r \in Roles \ {role} : Effective(p, r) = Effective(pipewire, r)
  <2> TAKE r \in Roles \ {role}
  <2>1. p.default[r] = pipewire.default[r]
    BY <1>2 DEF WpPipewireTypes
  <2> HIDE DEF p
  <2>2. ResolvePhysicalSink(p, p.default[r]) = ResolvePhysicalSink(pipewire, p.default[r])
    BY <1>2 DEF ResolvePhysicalSink
  <2> QED  BY <2>1, <2>2 DEF Effective
<1>8. \A r \in moved : /\ Effective(p, r) \in pipewire.known \ {NoNode} /\ nodes[r] = Effective(p, r)
                       /\ Effective(p, r) \in NodesOf(r)
  BY <1>2, <1>5 DEF Changed
<1>9. \A r \in Roles \ moved : /\ nodes[r] = wpNode[r]
                               /\ Effective(p, r) # NoNode /\ Effective(p, r) \in pipewire.known => wpNode[r] = Effective(p, r)
  BY <1>2 DEF Changed
<1>10. \A r \in Roles : nodes[r] \in NodesOf(r) \cup {NoNode}
  BY <1>5, <1>8, <1>9 DEF WpModuleTypes
<1>11. nodes \in [Roles -> WpNodes \cup {NoNode}]
  BY <1>10 DEF WpNodes, NodesOf
<1> HIDE DEF p, moved, nodes
<1>12. WpModuleTypes'
  <2>1. unknown \subseteq WpNodes
    BY DEF WpNodes, NodesOf
  <2>2. wpEarly' \subseteq WpNodes \cup {NoNode}
    BY <1>1, <2>1 DEF WpModuleTypes
  <2>3. UNCHANGED <<wpAlive, wpTimer, wpFailed, wpCore, wpOm, wpHears, wpTouched>>
    BY <1>1 DEF wpLife
  <2>4. CASE Hearing
    <3>1. wpNode' = nodes
      BY <1>1, <2>4 DEF Refresh
    <3>2. \A m \in pipewire.known : pipewire.volume[m] \in Nat
      BY DEF WpPipewireTypes
    <3>3. wpVolume' \in [Roles -> Nat]
      BY <1>1, <2>4, <3>2 DEF Refresh, WpModuleTypes, HasVolume
    <3>4. wpDp' \in BOOLEAN
      BY <1>1, <2>4 DEF Refresh
    <3> QED  BY <1>10, <1>11, <2>2, <2>3, <3>1, <3>3, <3>4 DEF WpModuleTypes
  <2>5. CASE ~Hearing
    BY <1>1, <2>2, <2>3, <2>5 DEF WpModuleTypes, wpLabels
  <2> QED  BY <2>4, <2>5
<1>13. WpChosen'
  <2> SUFFICES ASSUME NEW r \in Roles, Hearing, Effective(p, r) # NoNode
               PROVE  Effective(p, r) \in wpEarly' \/ nodes[r] = Effective(p, r)
    BY <1>1, <1>4, <1>6 DEF WpChosen, Refresh
  <2>1. CASE Effective(p, r) \in pipewire.known
    BY <1>8, <1>9, <2>1
  <2>2. CASE Effective(p, r) \notin pipewire.known
    <3>1. nodes[r] = wpNode[r] /\ Effective(p, r) \notin {nodes[m] : m \in moved}
      BY <1>8, <1>9, <2>2
    <3>2. CASE r = role
      <4>1. Effective(p, r) = n
        BY <1>2, <1>5, <2>2, <3>2 DEF WpPipewireTypes
      <4> QED  BY <1>1, <2>2, <3>1, <4>1
    <3>3. CASE r # role
      BY <1>1, <1>7, <3>1, <3>3 DEF WpChosen
    <3> QED  BY <3>2, <3>3
  <2> QED  BY <2>1, <2>2
<1>14. WpLabelled'
  <2> SUFFICES ASSUME NEW r \in Roles, Hearing, nodes[r] \notin wpEarly' \cup {NoNode}
               PROVE  /\ wpLabel'[r] = nodes[r]
                      /\ nodes[r] \notin wpConfig.deaf =>
                           /\ wpVolume'[r] = pipewire.volume[nodes[r]]
                           /\ wpDp' \/ wpShown[r] = [volume |-> wpVolume'[r], name |-> nodes[r]]
    BY <1>1, <1>2, <1>4 DEF WpLabelled, Refresh
  <2>1. CASE r \in moved
    <3>1. nodes[r] \in pipewire.known
      BY <1>8, <2>1
    <3>2. wpLabel'[r] = nodes[r]
      BY <1>1, <2>1, <3>1 DEF Refresh
    <3>3. ASSUME nodes[r] \notin wpConfig.deaf
          PROVE  wpVolume'[r] = pipewire.volume[nodes[r]] /\ wpDp'
      BY <1>1, <2>1, <3>1, <3>3 DEF Refresh, HasVolume
    <3> QED  BY <3>2, <3>3
  <2>2. CASE r \notin moved
    <3>1. nodes[r] = wpNode[r] /\ wpVolume'[r] = wpVolume[r] /\ wpLabel'[r] = wpLabel[r] /\ (wpDp => wpDp')
      BY <1>1, <1>9, <2>2 DEF Refresh
    <3>2. wpNode[r] \notin {nodes[m] : m \in moved}
      <4> SUFFICES ASSUME NEW m \in moved, wpNode[r] = nodes[m] PROVE FALSE
        OBVIOUS
      <4>1. m \in Roles /\ m # r /\ nodes[m] \in NodesOf(m) \ {NoNode} /\ wpNode[r] \in NodesOf(r) \cup {NoNode}
        BY <1>8, <2>2 DEF WpModuleTypes, moved
      <4> QED  BY <4>1, WpAssumption DEF Roles, NodesOf
    <3>3. wpNode[r] \notin wpEarly
      BY <1>1, <3>1, <3>2
    <3> QED  BY <3>1, <3>3 DEF WpLabelled
  <2> QED  BY <2>1, <2>2
<1> QED  BY <1>3, <1>4, <1>12, <1>13, <1>14

LEMMA WpServiceKeeps ==
  ASSUME WpInv, PipewireStops \/ PipewireStarts
  PROVE  WpInv'
<1> USE DEF WpInv
<1> DEFINE p == pipewire'
<1>1. /\ UNCHANGED <<wpConfig, wpAlive, wpGen, wpCalls, wpApis, pendingPlugins, wpOm, wpHears, wpFailed, wpLabels, wpShown, wpEarly, wpTouched>>
      /\ pipewire' = [pipewire EXCEPT !.runs = TRUE] \/ pipewire' = [pipewire EXCEPT !.runs = FALSE]
      /\ wpCore' = IF PipewireStops /\ wpCore = "up" THEN "lost" ELSE wpCore
      /\ wpTimer' = (wpTimer \/ (wpAlive /\ wpCore' = "lost" /\ wpCore = "up"))
  BY DEF PipewireStops, PipewireStarts, wpLife, WpModuleTypes
<1>2. p.volume = pipewire.volume /\ p.known = pipewire.known /\ p.default = pipewire.default
  BY <1>1 DEF WpPipewireTypes
<1>3. WpPipewireTypes'
  BY <1>1 DEF WpPipewireTypes
<1>4. WpCallTypes'
  BY <1>1 DEF WpCallTypes
<1>5. wpCore' \in {"null", "up", "lost"} /\ wpTimer' \in BOOLEAN
  BY <1>1 DEF WpModuleTypes
<1>6. WpModuleTypes'
  BY <1>1, <1>5 DEF WpModuleTypes, wpLabels
<1>7. Hearing' => Hearing
  BY <1>1 DEF Hearing
<1>8. \A r \in Roles : Effective(pipewire, r)' = Effective(pipewire, r)
  <2>1. \A r \in Roles : Effective(p, r) = Effective(pipewire, r)
    BY <1>2, EffectiveSame
  <2>2. \A r \in Roles : Effective(pipewire, r)' = Effective(p, r)
    BY <1>1, EffectiveNext
  <2> QED  BY <2>1, <2>2
<1>9. WpChosen'
  BY <1>1, <1>7, <1>8 DEF WpChosen, wpLabels
<1>10. WpLabelled'
  BY <1>1, <1>2, <1>7 DEF WpLabelled, wpLabels
<1>11. WpDue' = WpDue
  BY <1>1 DEF WpDue
<1>12. wpCore' # "null" => wpCore # "null"
  BY <1>1
<1>13. WpStages'
  BY <1>1, <1>11, <1>12 DEF WpStages
<1>14. WpRetried'
  BY <1>1 DEF WpRetried, WpModuleTypes
<1> QED  BY <1>3, <1>4, <1>6, <1>9, <1>10, <1>13, <1>14

LEMMA WpReconnectKeeps ==
  ASSUME WpInv, OnReconnectTimeout
  PROVE  WpInv'
<1> USE DEF WpInv, OnReconnectTimeout
<1>1. WpPipewireTypes'
  BY DEF WpPipewireTypes
<1>2. WpModuleTypes'
  <2>1. wpCore' \in {"null", "up"} /\ wpTimer' \in BOOLEAN
    BY DEF WpModuleTypes
  <2> QED  BY <2>1 DEF WpModuleTypes
<1>3. ~Hearing'
  BY DEF Hearing
<1>4. WpChosen' /\ WpLabelled'
  BY <1>3 DEF WpChosen, WpLabelled
<1>5. WpCallTypes'
  <2>1. wpCalls' \subseteq wpCalls \cup {[step |-> "nodes", gen |-> wpGen + 1]}
    OBVIOUS
  <2>2. wpGen \in Nat \ {0} /\ wpGen' = wpGen + 1 /\ pendingPlugins' = 0
    BY DEF WpCallTypes
  <2>3. [step |-> "nodes", gen |-> wpGen + 1] \in [step : WpSteps, gen : Nat]
    BY <2>2 DEF WpSteps
  <2>4. \A call \in wpCalls' : call \in [step : WpSteps, gen : Nat] /\ call.gen <= wpGen + 1
    BY <2>1, <2>2, <2>3 DEF WpCallTypes
  <2> QED  BY <2>2, <2>4 DEF WpCallTypes
<1>6. wpCore' # "null" => WpDue' = {"nodes"}
  <2> SUFFICES ASSUME wpCore' # "null" PROVE WpDue' = {"nodes"}
    OBVIOUS
  <2>1. wpCalls' = wpCalls \cup {[step |-> "nodes", gen |-> wpGen + 1]} /\ wpGen' = wpGen + 1
    OBVIOUS
  <2>2. \A s \in WpSteps : [step |-> s, gen |-> wpGen + 1] \notin wpCalls
    BY DEF WpCallTypes
  <2> QED  BY <2>1, <2>2 DEF WpDue, WpSteps
<1>7. WpStages' /\ WpRetried'
  BY <1>6 DEF WpStages, WpRetried, WpModuleTypes
<1> QED  BY <1>1, <1>2, <1>4, <1>5, <1>7

LEMMA WpDestroyedKeeps ==
  ASSUME WpInv, WpDestroyed
  PROVE  WpInv'
<1> USE DEF WpInv, WpDestroyed
<1>1. WpPipewireTypes' /\ WpCallTypes'
  BY DEF WpPipewireTypes, WpCallTypes
<1>2. WpModuleTypes'
  BY DEF WpModuleTypes
<1>3. WpStages' /\ WpRetried'
  BY DEF WpStages, WpRetried
<1>4. WpChosen' /\ WpLabelled'
  BY DEF WpChosen, WpLabelled, Hearing
<1> QED  BY <1>1, <1>2, <1>3, <1>4

LEMMA WpUpdateKeeps ==
  ASSUME WpInv, WpUpdate
  PROVE  WpInv'
<1> USE DEF WpInv
<1>1. /\ UNCHANGED <<wpConfig, pipewire, wpLife, wpHears, wpNode, wpVolume, wpLabel, wpEarly, wpTouched>>
      /\ wpDp' = FALSE /\ wpShown' = [r \in Roles |-> [volume |-> wpVolume[r], name |-> wpLabel[r]]]
  BY DEF WpUpdate
<1>2. WpStages' /\ WpRetried' /\ WpCallTypes' /\ Hearing' = Hearing
  BY <1>1, WpConnectionKeeps
<1>3. WpPipewireTypes' /\ WpModuleTypes'
  BY <1>1 DEF WpPipewireTypes, WpModuleTypes, wpLife
<1>4. \A r \in Roles : Effective(pipewire, r)' = Effective(pipewire, r)
  BY <1>1, EffectiveNext
<1>5. WpChosen'
  BY <1>1, <1>2, <1>4 DEF WpChosen
<1>6. WpLabelled'
  BY <1>1, <1>2 DEF WpLabelled
<1> QED  BY <1>2, <1>3, <1>5, <1>6

LEMMA WpCallKeeps ==
  ASSUME WpInv, NEW call \in wpCalls, NEW ok \in BOOLEAN, CallComes(call, ok)
  PROVE  WpInv'
<1> USE DEF WpInv
<1> DEFINE used == ForThisCore(call)
           s == call.step
           more == IF ~used \/ ~ok THEN {} ELSE
                   CASE s = "nodes" -> {[step |-> "mixer", gen |-> call.gen]}
                     [] s = "mixer" -> {[step |-> "activate nodes", gen |-> wpGen], [step |-> "activate mixer", gen |-> wpGen]}
                     [] OTHER -> {}
           left == CASE ~used \/ ~ok \/ s = "nodes" -> pendingPlugins
                     [] used /\ ok /\ s = "mixer" -> pendingPlugins + 2
                     [] OTHER -> (pendingPlugins + 3) % 4
<1>1. /\ UNCHANGED <<wpConfig, pipewire, wpAlive, wpGen, wpCore, wpHears, wpTimer, wpNode, wpName, wpVolume, wpLabel, wpShown, wpEarly>>
      /\ wpCalls' = (wpCalls \ {call}) \cup more
      /\ wpApis' = IF used /\ ok THEN wpApis \cup ({s} \cap {"nodes", "mixer"}) ELSE wpApis
      /\ pendingPlugins' = left
      /\ wpOm' = IF used /\ ok /\ s \notin {"nodes", "mixer"} /\ left = 0 THEN "asked" ELSE wpOm
      /\ wpFailed' = (wpFailed \/ (used /\ ~ok)) /\ wpDp' = (wpDp \/ (used /\ ok /\ s = "mixer"))
      /\ wpTouched' = (wpTouched \/ (used /\ ~wpAlive))
  BY DEF CallComes
<1>2. call \in [step : WpSteps, gen : Nat] /\ s \in WpSteps /\ call.gen <= wpGen /\ call = [step |-> s, gen |-> call.gen]
  BY DEF WpCallTypes
<1>3. wpGen \in Nat /\ pendingPlugins \in Nat
  BY DEF WpCallTypes
<1>4. left \in Nat
  <2>1. pendingPlugins + 2 \in Nat /\ (pendingPlugins + 3) % 4 \in Nat
    BY <1>3
  <2> QED  BY <1>3, <2>1
<1>5. used => wpAlive /\ call.gen = wpGen
  BY DEF ForThisCore
<1>6. more \subseteq [step : WpSteps, gen : {wpGen}]
  <2>1. CASE ~used \/ ~ok
    BY <2>1
  <2>2. CASE used /\ ok /\ s = "nodes"
    <3>1. more = {[step |-> "mixer", gen |-> wpGen]}
      BY <1>5, <2>2
    <3> HIDE DEF more
    <3> QED  BY <3>1 DEF WpSteps
  <2>3. CASE used /\ ok /\ s = "mixer"
    <3> DEFINE a == [step |-> "activate nodes", gen |-> wpGen]
               b == [step |-> "activate mixer", gen |-> wpGen]
    <3>1. more = {a, b}
      BY <2>3
    <3>2. a \in [step : WpSteps, gen : {wpGen}] /\ b \in [step : WpSteps, gen : {wpGen}]
      BY DEF WpSteps
    <3> HIDE DEF more, a, b
    <3> QED  BY <3>1, <3>2
  <2>4. CASE s \notin {"nodes", "mixer"}
    BY <2>4
  <2> QED  BY <2>1, <2>2, <2>3, <2>4
<1> HIDE DEF used, left, more
<1>7. WpPipewireTypes'
  BY <1>1 DEF WpPipewireTypes
<1>8. WpCallTypes'
  <2>1. \A c \in wpCalls' : c \in [step : WpSteps, gen : Nat] /\ c.gen <= wpGen
    BY <1>1, <1>3, <1>6 DEF WpCallTypes
  <2> QED  BY <1>1, <1>4, <2>1 DEF WpCallTypes
<1>9. WpModuleTypes'
  <2>1. wpFailed' \in BOOLEAN /\ wpDp' \in BOOLEAN /\ ~wpTouched'
    BY <1>1, <1>5 DEF WpModuleTypes
  <2>2. wpOm' \in {"new", "asked", "installed"}
    BY <1>1 DEF WpModuleTypes
  <2> QED  BY <1>1, <2>1, <2>2 DEF WpModuleTypes
<1>10. WpRetried' /\ Hearing' = Hearing
  BY <1>1 DEF WpRetried, Hearing
<1>11. \A r \in Roles : Effective(pipewire, r)' = Effective(pipewire, r)
  BY <1>1, EffectiveNext
<1>12. WpChosen'
  BY <1>1, <1>10, <1>11 DEF WpChosen
<1>13. WpLabelled'
  BY <1>1, <1>10 DEF WpLabelled
<1>14. WpStages'
  <2> SUFFICES ASSUME wpAlive, wpCore # "null" PROVE WpStages'
    BY <1>1 DEF WpStages
  <2>3. CASE wpFailed \/ (used /\ ~ok)
    <3>1. wpFailed' = TRUE
      BY <1>1, <2>3
    <3>2. CASE ~used
      <4>1. more = {} /\ left = pendingPlugins /\ call.gen # wpGen
        BY <3>2 DEF more, left, used, ForThisCore
      <4>2. WpDue' = WpDue
        BY <1>1, <4>1 DEF WpDue
      <4> QED  BY <1>1, <2>3, <3>1, <3>2, <4>1, <4>2 DEF WpStages
    <3>3. CASE used
      <4>1. call = [step |-> s, gen |-> wpGen] /\ s \in WpDue
        BY <1>2, <1>5, <3>3 DEF WpDue
      <4>2. wpOm = "new" /\ wpHears = 0 /\ (wpFailed => s \notin {"nodes", "mixer"} /\ pendingPlugins = 2 /\ WpDue = {s})
        BY <2>3, <3>3, <4>1 DEF WpStages
      <4>3. more = {}
        BY <2>3, <3>3, <4>2 DEF more
      <4>4. WpDue' = WpDue \ {s}
        BY <1>1, <4>1, <4>3 DEF WpDue
      <4>5. CASE ok
        <5>1. wpFailed /\ left = (pendingPlugins + 3) % 4
          BY <2>3, <3>3, <4>2, <4>5 DEF left
        <5>2. left = 1
          BY <4>2, <5>1
        <5>3. WpDue' = {} /\ wpOm' = "new" /\ wpHears' = 0
          BY <1>1, <4>2, <4>4, <5>1, <5>2
        <5> QED  BY <3>1, <5>3 DEF WpStages
      <4>6. CASE ~ok
        <5>1. left = pendingPlugins /\ wpOm' = "new"
          BY <1>1, <4>2, <4>6 DEF left
        <5>2. WpDue' = {} \/ (WpDue' \in {{"activate nodes"}, {"activate mixer"}} /\ pendingPlugins = 2)
          BY <4>1, <4>2, <4>4 DEF WpStages
        <5> QED  BY <1>1, <3>1, <4>2, <5>1, <5>2 DEF WpStages
      <4> QED  BY <4>5, <4>6
    <3> QED  BY <3>2, <3>3
  <2>4. CASE ~(wpFailed \/ (used /\ ~ok))
    <3>0. ~wpFailed /\ (used => ok) /\ wpFailed' = FALSE
      BY <1>1, <2>4 DEF WpModuleTypes
    <3>1. CASE ~used
      <4>1. more = {} /\ left = pendingPlugins /\ call.gen # wpGen
        BY <3>1 DEF more, left, used, ForThisCore
      <4>2. WpDue' = WpDue
        BY <1>1, <4>1 DEF WpDue
      <4> QED  BY <1>1, <3>0, <3>1, <4>1, <4>2 DEF WpStages
    <3>2. CASE used
      <4>1. ok /\ call = [step |-> s, gen |-> wpGen] /\ s \in WpDue
        BY <1>2, <1>5, <3>0, <3>2 DEF WpDue
      <4>2. WpDue' = (WpDue \ {s}) \cup {c.step : c \in more}
        <5>1. \A d \in WpSteps : [step |-> d, gen |-> wpGen] \in wpCalls \ {call} <=> d \in WpDue \ {s}
          BY <4>1 DEF WpDue
        <5>2. \A d \in WpSteps : [step |-> d, gen |-> wpGen] \in more <=> d \in {c.step : c \in more}
          BY <1>6
        <5>3. {c.step : c \in more} \subseteq WpSteps
          BY <1>6
        <5> QED  BY <1>1, <5>1, <5>2, <5>3 DEF WpDue
      <4>3. CASE s = "nodes"
        <5>1. {c.step : c \in more} = {"mixer"} /\ left = pendingPlugins
          BY <3>2, <4>1, <4>3 DEF more, left
        <5>2. WpDue = {"nodes"} /\ wpApis = {} /\ pendingPlugins = 0 /\ wpOm = "new" /\ wpHears = 0
          BY <3>0, <4>1, <4>3 DEF WpStages
        <5> QED  BY <1>1, <3>2, <4>1, <4>2, <4>3, <5>1, <5>2 DEF WpStages
      <4>4. CASE s = "mixer"
        <5>1. more = {[step |-> "activate nodes", gen |-> wpGen], [step |-> "activate mixer", gen |-> wpGen]} /\ left = pendingPlugins + 2
          BY <3>2, <4>1, <4>4 DEF more, left
        <5>2. {c.step : c \in more} = {"activate nodes", "activate mixer"}
          <6>1. \E c \in more : c.step = "activate nodes"
            BY <5>1
          <6>2. \E c \in more : c.step = "activate mixer"
            BY <5>1
          <6>3. ASSUME NEW c \in more PROVE c.step = "activate nodes" \/ c.step = "activate mixer"
            <7>1. c = [step |-> "activate nodes", gen |-> wpGen] \/ c = [step |-> "activate mixer", gen |-> wpGen]
              BY <5>1
            <7>2. CASE c = [step |-> "activate nodes", gen |-> wpGen]
              BY <7>2
            <7>3. CASE c = [step |-> "activate mixer", gen |-> wpGen]
              BY <7>3
            <7> QED  BY <7>1, <7>2, <7>3
          <6> QED  BY <6>1, <6>2, <6>3
        <5>3. WpDue = {"mixer"} /\ wpApis = {"nodes"} /\ pendingPlugins = 0 /\ wpOm = "new" /\ wpHears = 0
          BY <3>0, <4>1, <4>4 DEF WpStages
        <5>4. WpDue' = {"activate nodes", "activate mixer"} /\ wpApis' = {"nodes", "mixer"}
          BY <1>1, <3>2, <4>1, <4>2, <4>4, <5>2, <5>3
        <5>6. pendingPlugins' = 2
          <6>1. pendingPlugins' = left
            BY <1>1
          <6>2. left = pendingPlugins + 2
            BY <5>1
          <6> QED  BY <5>3, <6>1, <6>2
        <5>5. pendingPlugins' = 2 /\ wpOm' = "new" /\ wpHears' = 0
          BY <1>1, <4>4, <5>3, <5>6
        <5> QED  BY <3>0, <5>4, <5>5 DEF WpStages
      <4>5. CASE s \in {"activate nodes", "activate mixer"}
        <5>1. more = {} /\ left = (pendingPlugins + 3) % 4
          BY <3>2, <4>1, <4>5 DEF more, left
        <5>2. /\ wpApis = {"nodes", "mixer"} /\ wpOm = "new" /\ wpHears = 0
              /\ \/ WpDue = {"activate nodes", "activate mixer"} /\ pendingPlugins = 2
                 \/ WpDue = {s} /\ pendingPlugins = 1
          BY <3>0, <4>1, <4>5 DEF WpStages
        <5>3. WpDue' = WpDue \ {s} /\ wpHears' = 0 /\ wpApis' = {"nodes", "mixer"}
          BY <1>1, <4>2, <4>5, <5>1, <5>2
        <5>4. CASE WpDue = {"activate nodes", "activate mixer"} /\ pendingPlugins = 2
          <6>1. pendingPlugins = 2 => left = 1
            BY <5>1
          <6>4. left = 1
            BY <5>4, <6>1
          <6>5. pendingPlugins' = left
            BY <1>1
          <6>2. pendingPlugins' = 1 /\ wpOm' = "new"
            <7>1. left # 0
              BY <6>4
            <7>2. wpOm' = "new"
              BY <1>1, <5>2, <7>1
            <7> QED  BY <6>4, <6>5, <7>2
          <6>3. WpDue' = {"activate nodes"} \/ WpDue' = {"activate mixer"}
            <7>1. CASE s = "activate nodes"
              BY <5>3, <5>4, <7>1
            <7>2. CASE s = "activate mixer"
              BY <5>3, <5>4, <7>2
            <7> QED  BY <4>5, <7>1, <7>2
          <6> QED  BY <3>0, <5>3, <6>2, <6>3 DEF WpStages
        <5>5. CASE WpDue = {s} /\ pendingPlugins = 1
          <6>1. left = 0
            BY <5>1, <5>5
          <6>2. wpOm' = "asked" /\ WpDue' = {}
            BY <1>1, <3>2, <4>1, <4>5, <5>3, <5>5, <6>1
          <6> QED  BY <3>0, <5>3, <6>2 DEF WpStages
        <5> QED  BY <5>2, <5>4, <5>5
      <4> QED  BY <1>2, <4>3, <4>4, <4>5 DEF WpSteps
    <3> QED  BY <3>1, <3>2
  <2> QED  BY <2>3, <2>4
<1> QED  BY <1>7, <1>8, <1>9, <1>10, <1>12, <1>13, <1>14

LEMMA WpInstalledKeeps ==
  ASSUME WpInv, NEW configured \in BOOLEAN, OnObjectManagerInstalled(configured)
  PROVE  WpInv'
<1> USE DEF WpInv
<1> DEFINE nodes == [r \in Roles |-> Effective(pipewire, r)]
           complete == wpApis = {"nodes", "mixer"}
<1>1. /\ wpOm = "asked" /\ wpCore = "up" /\ wpAlive /\ wpOm' = "installed"
      /\ ~complete => UNCHANGED <<wpHears, wpLabels>>
      /\ complete => wpHears' = wpHears + 1 /\ Refresh(nodes, Roles, Roles)
      /\ wpEarly' = {Effective(pipewire, r) : r \in Roles} \ pipewire.known
      /\ UNCHANGED <<wpConfig, pipewire, wpAlive, wpGen, wpCore, wpCalls, wpApis, pendingPlugins, wpTimer, wpFailed, wpShown, wpTouched>>
  BY DEF OnObjectManagerInstalled
<1>2. \A r \in Roles : nodes[r] \in NodesOf(r) \cup {NoNode} /\ nodes[r] = Effective(pipewire, r)
  <2> TAKE r \in Roles
  <2>1. wpConfig \in WpConfigs /\ pipewire.default[r] \in NodesOf(r) \cup {NoNode}
    BY DEF WpPipewireTypes
  <2> QED  BY <2>1, EffectiveNode
<1>3. nodes \in [Roles -> WpNodes \cup {NoNode}]
  BY <1>2 DEF WpNodes, NodesOf
<1> HIDE DEF nodes
<1>4. WpPipewireTypes' /\ WpCallTypes'
  BY <1>1 DEF WpPipewireTypes, WpCallTypes
<1>5. wpEarly' \subseteq WpNodes \cup {NoNode}
  BY <1>1, <1>2, <1>3
<1>6. WpModuleTypes'
  <2>1. CASE complete
    <3>1. wpNode' = nodes /\ wpHears' \in Nat
      BY <1>1, <2>1 DEF Refresh, WpModuleTypes
    <3>2. \A m \in pipewire.known : pipewire.volume[m] \in Nat
      BY DEF WpPipewireTypes
    <3>3. wpVolume' \in [Roles -> Nat]
      BY <1>1, <2>1, <3>2 DEF Refresh, WpModuleTypes, HasVolume
    <3>4. wpDp' \in BOOLEAN
      BY <1>1, <2>1 DEF Refresh
    <3> QED  BY <1>1, <1>2, <1>3, <1>5, <3>1, <3>3, <3>4 DEF WpModuleTypes
  <2>2. CASE ~complete
    BY <1>1, <1>5, <2>2 DEF WpModuleTypes, wpLabels
  <2> QED  BY <2>1, <2>2
<1>7. WpDue' = WpDue
  BY <1>1 DEF WpDue
<1>8. WpStages'
  BY <1>1, <1>7 DEF WpStages
<1>9. WpRetried'
  BY <1>1 DEF WpRetried
<1>10. \A r \in Roles : Effective(pipewire, r)' = nodes[r]
  BY <1>1, <1>2, EffectiveNext
<1>13. complete
  BY <1>1 DEF WpStages, WpModuleTypes
<1>11. WpChosen'
  BY <1>1, <1>10, <1>13 DEF WpChosen, Refresh
<1>12. WpLabelled'
  <2> SUFFICES ASSUME NEW r \in Roles, nodes[r] \notin wpEarly' \cup {NoNode}
               PROVE  /\ wpLabel'[r] = nodes[r]
                      /\ nodes[r] \notin wpConfig.deaf => wpVolume'[r] = pipewire.volume[nodes[r]] /\ wpDp'
    BY <1>1, <1>13 DEF WpLabelled, Refresh
  <2>1. nodes[r] \in pipewire.known
    BY <1>1, <1>2
  <2> QED  BY <1>1, <1>13, <2>1 DEF Refresh, HasVolume
<1> QED  BY <1>4, <1>6, <1>8, <1>9, <1>11, <1>12

LEMMA WpInvAgrees == WpInv => WpAgrees
<1> SUFFICES ASSUME WpInv PROVE WpAgrees
  OBVIOUS
<1> USE DEF WpInv
<1>1. ~wpTouched
  BY DEF WpModuleTypes
<1>2. ASSUME wpAlive, pipewire.runs, wpCalls = {}, ~wpTimer, ~wpFailed, wpOm # "asked", ~wpDp
      PROVE  /\ wpCore = "up" /\ wpOm = "installed" /\ wpHears = 1
             /\ \A r \in Roles :
                  LET e == Effective(pipewire, r) IN
                  e \notin wpEarly \cup {NoNode} /\ HasVolume(e) => wpShown[r] = [volume |-> pipewire.volume[e], name |-> e]
  <2>1. wpCore = "up"
    BY <1>2 DEF WpRetried
  <2>2. WpDue = {}
    BY <1>2 DEF WpDue
  <2>3. wpOm = "installed" /\ wpHears = 1
    BY <1>2, <2>1, <2>2 DEF WpStages
  <2>4. Hearing
    BY <2>1, <2>3 DEF Hearing
  <2>5. ASSUME NEW r \in Roles, Effective(pipewire, r) \notin wpEarly \cup {NoNode}, HasVolume(Effective(pipewire, r))
        PROVE  wpShown[r] = [volume |-> pipewire.volume[Effective(pipewire, r)], name |-> Effective(pipewire, r)]
    <3>1. wpNode[r] = Effective(pipewire, r)
      BY <2>4, <2>5 DEF WpChosen
    <3>2. wpNode[r] \notin wpConfig.deaf
      BY <2>5, <3>1 DEF HasVolume
    <3>3. wpVolume[r] = pipewire.volume[wpNode[r]] /\ wpShown[r] = [volume |-> wpVolume[r], name |-> wpNode[r]]
      BY <1>2, <2>4, <2>5, <3>1, <3>2 DEF WpLabelled
    <3> QED  BY <3>1, <3>3
  <2> QED  BY <2>1, <2>3, <2>5
<1> QED  BY <1>1, <1>2 DEF WpAgrees

\* Every step of the module and of PipeWire keeps the invariant.
LEMMA WpNextKeeps == WpInv /\ [WpNext]_wpVars => WpInv'
<1> SUFFICES ASSUME WpInv, [WpNext]_wpVars PROVE WpInv'
  OBVIOUS
<1>1. ASSUME NEW n \in WpNodes, NEW v \in 1..2, OnMixerChanged(n, v) PROVE WpInv'
  BY <1>1, WpVolumeOfKeeps DEF OnMixerChanged
<1>2. ASSUME NEW v \in 1..2, WpHandleScroll(v) PROVE WpInv'
  <2>1. wpNode["sink"] \in WpNodes
    BY <1>2 DEF WpHandleScroll, WpInv, WpModuleTypes, Roles
  <2> QED  BY <1>2, <2>1, WpVolumeOfKeeps DEF WpHandleScroll
<1>3. ASSUME NEW n \in WpNodes, NodeComesOrGoes(n) PROVE WpInv'
  BY <1>3, WpNodeKeeps
<1>4. ASSUME NEW r \in Roles, NEW n \in NodesOf(r) \cup {NoNode}, OnDefaultNodesApiChanged(r, n) PROVE WpInv'
  BY <1>4, WpDefaultKeeps
<1>5. CASE PipewireStops \/ PipewireStarts
  BY <1>5, WpServiceKeeps
<1>6. CASE OnReconnectTimeout
  BY <1>6, WpReconnectKeeps
<1>7. CASE WpDestroyed
  BY <1>7, WpDestroyedKeeps
<1>8. ASSUME NEW call \in wpCalls, NEW ok \in BOOLEAN, CallComes(call, ok) PROVE WpInv'
  BY <1>8, WpCallKeeps
<1>9. ASSUME NEW configured \in BOOLEAN, OnObjectManagerInstalled(configured) PROVE WpInv'
  BY <1>9, WpInstalledKeeps
<1>10. CASE WpUpdate
  BY <1>10, WpUpdateKeeps
<1>11. CASE UNCHANGED wpVars
  <2>1. UNCHANGED <<wpConfig, pipewire, wpLife, wpHears, wpLabels, wpShown, wpEarly, wpTouched>>
    BY <1>11 DEF wpVars
  <2>2. WpStages' /\ WpRetried' /\ WpCallTypes' /\ Hearing' = Hearing
    BY <2>1, WpConnectionKeeps
  <2>3. WpPipewireTypes' /\ WpModuleTypes'
    BY <2>1 DEF WpInv, WpPipewireTypes, WpModuleTypes, wpLife, wpLabels
  <2>4. \A r \in Roles : Effective(pipewire, r)' = Effective(pipewire, r)
    BY <2>1, EffectiveNext
  <2>5. WpChosen'
    BY <2>1, <2>2, <2>4 DEF WpInv, WpChosen, wpLabels
  <2>6. WpLabelled'
    BY <2>1, <2>2 DEF WpInv, WpLabelled, wpLabels
  <2> QED  BY <2>2, <2>3, <2>5, <2>6 DEF WpInv
<1> QED  BY <1>1, <1>2, <1>3, <1>4, <1>5, <1>6, <1>7, <1>8, <1>9, <1>10, <1>11 DEF WpNext

LEMMA WpInvariant == WpSpec => []WpInv
<1>1. WpInit => WpInv
  BY WpInitInv
<1>2. WpInv /\ [WpNext]_wpVars => WpInv'
  BY WpNextKeeps
<1> QED  BY <1>1, <1>2, PTL DEF WpSpec

\* Every state of the module: no callback uses a module that is gone, and at rest the connection
\* is complete and each role shows its node, however the connections, callbacks and changes of
\* PipeWire are ordered (wireplumber.cpp:26-189, 250-618).
THEOREM DefaultsAreShown == WpSpec => []WpAgrees
<1>1. WpInv => WpAgrees
  BY WpInvAgrees
<1> QED  BY <1>1, WpInvariant, PTL

-----------------------------------------------------------------------------
(* Sequences and finite sets.                                              *)

\* SetToSeq() has the elements of a finite set.
LEMMA SetToSeqElements ==
  ASSUME NEW S, IsFiniteSet(S)
  PROVE  SetToSeq(S) \in Seq(S) /\ ToSet(SetToSeq(S)) = S
<1> DEFINE n == Cardinality(S)
           f == SetToSeq(S)
<1>1. n \in Nat /\ ExistsBijection(1..n, S)
  BY FS_CardinalityType
<1>2. \E g \in [1..n -> S] : IsInjective(g)
  BY <1>1 DEF ExistsBijection, Bijection, Injection
<1>3. f \in [1..n -> S] /\ IsInjective(f)
  BY <1>2 DEF SetToSeq
<1> HIDE DEF f
<1>4. f \in Injection(1..n, S)
  BY <1>3 DEF Injection
<1>5. IsFiniteSet(1..n) /\ Cardinality(1..n) = n
  <2>1. IsFiniteSet(1..n) /\ Cardinality(1..n) = IF 1 > n THEN 0 ELSE n - 1 + 1
    BY <1>1, FS_Interval
  <2> QED  BY <1>1, <2>1
<1>6. f \in Surjection(1..n, S)
  BY <1>4, <1>5, FS_Injection
<1>7. \A x \in S : \E i \in 1..n : f[i] = x
  BY <1>6 DEF Surjection
<1>8. f \in Seq(S) /\ DOMAIN f = 1..n
  BY <1>1, <1>3
<1> QED  BY <1>3, <1>7, <1>8 DEF ToSet, f

LEMMA ToSetOfConcat ==
  ASSUME NEW S, NEW q \in Seq(S), NEW p \in Seq(S)
  PROVE  q \o p \in Seq(S) /\ ToSet(q \o p) = ToSet(q) \cup ToSet(p)
<1>1. /\ q \o p \in Seq(S) /\ Len(q) \in Nat /\ Len(p) \in Nat /\ Len(q \o p) = Len(q) + Len(p)
      /\ DOMAIN q = 1..Len(q) /\ DOMAIN p = 1..Len(p) /\ DOMAIN (q \o p) = 1..(Len(q) + Len(p))
      /\ \A i \in 1..Len(q) : (q \o p)[i] = q[i]
      /\ \A i \in 1..Len(p) : (q \o p)[Len(q) + i] = p[i]
  OBVIOUS
<1> DEFINE c == q \o p
<1> HIDE DEF c
<1>2. \A i \in 1..Len(q) : i \in 1..(Len(q) + Len(p))
  BY <1>1
<1>3. \A i \in 1..Len(p) : Len(q) + i \in 1..(Len(q) + Len(p))
  BY <1>1
<1>4. \A i \in 1..(Len(q) + Len(p)) : i \in 1..Len(q) \/ \E j \in 1..Len(p) : i = Len(q) + j
  <2> TAKE i \in 1..(Len(q) + Len(p))
  <2>1. CASE i > Len(q)
    <3>1. i - Len(q) \in 1..Len(p) /\ i = Len(q) + (i - Len(q))
      BY <1>1, <2>1
    <3> QED  BY <3>1
  <2>2. CASE ~(i > Len(q))
    BY <1>1, <2>2
  <2> QED  BY <2>1, <2>2
<1>5. ToSet(c) = {c[i] : i \in 1..(Len(q) + Len(p))}
  BY <1>1 DEF ToSet, c
<1>6. ToSet(q) = {q[i] : i \in 1..Len(q)} /\ ToSet(p) = {p[i] : i \in 1..Len(p)}
  BY <1>1 DEF ToSet
<1>7. /\ c \in Seq(S)
      /\ \A i \in 1..Len(q) : c[i] = q[i]
      /\ \A i \in 1..Len(p) : c[Len(q) + i] = p[i]
  BY <1>1 DEF c
<1>8. ToSet(c) \subseteq ToSet(q) \cup ToSet(p)
  <2> SUFFICES ASSUME NEW i \in 1..(Len(q) + Len(p)) PROVE c[i] \in ToSet(q) \cup ToSet(p)
    BY <1>5
  <2>1. CASE i \in 1..Len(q)
    BY <1>6, <1>7, <2>1
  <2>2. CASE \E j \in 1..Len(p) : i = Len(q) + j
    BY <1>6, <1>7, <2>2
  <2> QED  BY <1>4, <2>1, <2>2
<1>9. ToSet(q) \subseteq ToSet(c)
  BY <1>2, <1>5, <1>6, <1>7
<1>10. ToSet(p) \subseteq ToSet(c)
  BY <1>3, <1>5, <1>6, <1>7
<1> QED  BY <1>7, <1>8, <1>9, <1>10 DEF c

LEMMA ToSetOfTail ==
  ASSUME NEW S, NEW q \in Seq(S), q # <<>>
  PROVE  Head(q) \in S /\ Tail(q) \in Seq(S) /\ ToSet(q) = {Head(q)} \cup ToSet(Tail(q))
<1> DEFINE t == Tail(q)
<1>1. /\ t \in Seq(S) /\ Len(q) \in Nat \ {0} /\ Len(t) = Len(q) - 1 /\ Head(q) = q[1] /\ q[1] \in S
      /\ DOMAIN q = 1..Len(q) /\ DOMAIN t = 1..Len(t) /\ \A i \in 1..Len(t) : t[i] = q[i + 1]
  OBVIOUS
<1> HIDE DEF t
<1>2. \A i \in 1..Len(t) : i + 1 \in 1..Len(q)
  BY <1>1
<1>3. \A i \in 1..Len(q) : i = 1 \/ \E j \in 1..Len(t) : i = j + 1
  <2> TAKE i \in 1..Len(q)
  <2>1. CASE i # 1
    <3>1. i - 1 \in 1..Len(t) /\ i = (i - 1) + 1
      BY <1>1, <2>1
    <3> QED  BY <3>1
  <2> QED  BY <2>1
<1>4. 1 \in 1..Len(q)
  BY <1>1
<1>5. ToSet(t) = {t[i] : i \in 1..Len(t)} /\ ToSet(q) = {q[i] : i \in 1..Len(q)}
  BY <1>1 DEF ToSet
<1>6. ToSet(q) \subseteq {q[1]} \cup ToSet(t)
  <2> SUFFICES ASSUME NEW i \in 1..Len(q) PROVE q[i] \in {q[1]} \cup ToSet(t)
    BY <1>5
  <2>1. CASE \E j \in 1..Len(t) : i = j + 1
    BY <1>1, <1>5, <2>1
  <2> QED  BY <1>3, <2>1
<1>7. ToSet(t) \subseteq ToSet(q) /\ q[1] \in ToSet(q)
  BY <1>1, <1>2, <1>4, <1>5
<1> QED  BY <1>1, <1>6, <1>7 DEF t

\* The last message of q that is in T is x; or q has none.
LastIs(q, T, x) == \E i \in 1..Len(q) : q[i] = x /\ \A j \in 1..Len(q) : j > i /\ q[j] \in T => q[j] = x
Silent(q, T) == \A i \in 1..Len(q) : q[i] \notin T

LEMMA LastOfConcat ==
  ASSUME NEW S, NEW q \in Seq(S), NEW p \in Seq(S), NEW T, NEW x, NEW c, c = q \o p
  PROVE  /\ LastIs(p, T, x) => LastIs(c, T, x)
         /\ LastIs(q, T, x) /\ Silent(p, T) => LastIs(c, T, x)
         /\ Silent(q, T) /\ Silent(p, T) => Silent(c, T)
         /\ Silent(c, T) => Silent(q, T) /\ Silent(p, T)
<1>1. /\ Len(q) \in Nat /\ Len(p) \in Nat /\ Len(c) = Len(q) + Len(p)
      /\ \A i \in 1..Len(q) : c[i] = q[i]
      /\ \A i \in 1..Len(p) : c[Len(q) + i] = p[i]
  OBVIOUS
<1>2. \A i \in 1..Len(q) : i \in 1..Len(c)
  BY <1>1
<1>3. \A i \in 1..Len(p) : Len(q) + i \in 1..Len(c)
  BY <1>1
<1>4. \A i \in 1..Len(c) : i \in 1..Len(q) \/ (i - Len(q) \in 1..Len(p) /\ c[i] = p[i - Len(q)])
  <2> TAKE i \in 1..Len(c)
  <2>1. CASE i > Len(q)
    <3>1. i - Len(q) \in 1..Len(p) /\ i = Len(q) + (i - Len(q))
      BY <1>1, <2>1
    <3> QED  BY <1>1, <3>1
  <2>2. CASE ~(i > Len(q))
    BY <1>1, <2>2
  <2> QED  BY <2>1, <2>2
<1>5. ASSUME LastIs(p, T, x) PROVE LastIs(c, T, x)
  <2>1. PICK i \in 1..Len(p) : p[i] = x /\ \A j \in 1..Len(p) : j > i /\ p[j] \in T => p[j] = x
    BY <1>5 DEF LastIs
  <2>2. Len(q) + i \in 1..Len(c) /\ c[Len(q) + i] = x
    BY <1>1, <1>3, <2>1
  <2>3. ASSUME NEW j \in 1..Len(c), j > Len(q) + i, c[j] \in T PROVE c[j] = x
    <3>1. j - Len(q) \in 1..Len(p) /\ c[j] = p[j - Len(q)] /\ j - Len(q) > i
      BY <1>1, <1>4, <2>3
    <3> QED  BY <2>1, <2>3, <3>1
  <2> QED  BY <2>2, <2>3 DEF LastIs
<1>6. ASSUME LastIs(q, T, x), Silent(p, T) PROVE LastIs(c, T, x)
  <2>1. PICK i \in 1..Len(q) : q[i] = x /\ \A j \in 1..Len(q) : j > i /\ q[j] \in T => q[j] = x
    BY <1>6 DEF LastIs
  <2>2. i \in 1..Len(c) /\ c[i] = x
    BY <1>1, <1>2, <2>1
  <2>3. ASSUME NEW j \in 1..Len(c), j > i, c[j] \in T PROVE c[j] = x
    <3>1. j \in 1..Len(q)
      BY <1>4, <1>6, <2>3 DEF Silent
    <3> QED  BY <1>1, <2>1, <2>3, <3>1
  <2> QED  BY <2>2, <2>3 DEF LastIs
<1>7. Silent(q, T) /\ Silent(p, T) => Silent(c, T)
  BY <1>1, <1>4 DEF Silent
<1>8. Silent(c, T) => Silent(q, T) /\ Silent(p, T)
  BY <1>1, <1>2, <1>3 DEF Silent
<1> QED  BY <1>5, <1>6, <1>7, <1>8

LEMMA LastOfTail ==
  ASSUME NEW S, NEW q \in Seq(S), q # <<>>, NEW T, NEW x, NEW t, t = Tail(q)
  PROVE  /\ LastIs(q, T, x) => LastIs(t, T, x) \/ (Head(q) = x /\ Silent(t, T))
         /\ Silent(q, T) => Head(q) \notin T /\ Silent(t, T)
         /\ Silent(t, T) => Silent(q, T) \/ Head(q) \in T
<1>1. /\ Len(q) \in Nat \ {0} /\ Len(t) \in Nat /\ Len(q) = Len(t) + 1 /\ Head(q) = q[1]
      /\ \A i \in 1..Len(t) : t[i] = q[i + 1] /\ i + 1 \in 1..Len(q)
      /\ 1 \in 1..Len(q)
  OBVIOUS
<1>2. \A i \in 1..Len(q) : i = 1 \/ (i - 1 \in 1..Len(t) /\ q[i] = t[i - 1])
  <2> TAKE i \in 1..Len(q)
  <2>1. CASE i # 1
    <3>1. i - 1 \in 1..Len(t) /\ (i - 1) + 1 = i
      BY <1>1, <2>1
    <3> QED  BY <1>1, <3>1
  <2> QED  BY <2>1
<1>3. ASSUME LastIs(q, T, x) PROVE LastIs(t, T, x) \/ (Head(q) = x /\ Silent(t, T))
  <2>1. PICK i \in 1..Len(q) : q[i] = x /\ \A j \in 1..Len(q) : j > i /\ q[j] \in T => q[j] = x
    BY <1>3 DEF LastIs
  <2>2. \A j \in 1..Len(t) : j + 1 > i /\ t[j] \in T => t[j] = x
    BY <1>1, <2>1
  <2>3. CASE i # 1
    <3>1. i - 1 \in 1..Len(t) /\ t[i - 1] = x
      BY <1>2, <2>1, <2>3
    <3>2. \A j \in 1..Len(t) : j > i - 1 => j + 1 > i
      BY <1>1
    <3> QED  BY <2>2, <3>1, <3>2 DEF LastIs
  <2>4. CASE i = 1
    <3>1. CASE Silent(t, T)
      BY <1>1, <2>1, <2>4, <3>1
    <3>2. CASE ~Silent(t, T)
      <4>1. PICK k \in 1..Len(t) : t[k] \in T
        BY <3>2 DEF Silent
      <4>2. \A j \in 1..Len(t) : t[j] \in T => t[j] = x
        BY <1>1, <2>2, <2>4
      <4> QED  BY <4>1, <4>2 DEF LastIs
    <3> QED  BY <3>1, <3>2
  <2> QED  BY <2>3, <2>4
<1>4. Silent(q, T) => Head(q) \notin T /\ Silent(t, T)
  BY <1>1 DEF Silent
<1>5. Silent(t, T) => Silent(q, T) \/ Head(q) \in T
  BY <1>1, <1>2 DEF Silent
<1> QED  BY <1>3, <1>4, <1>5

LEMMA ToSetOfOne ==
  ASSUME NEW x
  PROVE  /\ ToSet(<<x>>) = {x} /\ Len(<<x>>) = 1 /\ <<x>>[1] = x
         /\ \A T : LastIs(<<x>>, T, x) /\ (x \notin T => Silent(<<x>>, T))
<1>1. Len(<<x>>) = 1 /\ <<x>>[1] = x /\ DOMAIN <<x>> = 1..1
  OBVIOUS
<1>2. ToSet(<<x>>) = {x}
  BY <1>1 DEF ToSet
<1> QED  BY <1>1, <1>2 DEF LastIs, Silent

LEMMA ToSetOfTwo ==
  ASSUME NEW x, NEW y
  PROVE  ToSet(<<x, y>>) = {x, y} /\ Len(<<x, y>>) = 2 /\ <<x, y>>[1] = x /\ <<x, y>>[2] = y
<1>1. Len(<<x, y>>) = 2 /\ <<x, y>>[1] = x /\ <<x, y>>[2] = y /\ DOMAIN <<x, y>> = 1..2
  OBVIOUS
<1> QED  BY <1>1 DEF ToSet

LEMMA NothingIsSilent ==
  /\ ToSet(<<>>) = {} /\ Len(<<>>) = 0
  /\ \A T : Silent(<<>>, T) /\ \A x : ~LastIs(<<>>, T, x)
<1>1. Len(<<>>) = 0 /\ DOMAIN <<>> = 1..0
  OBVIOUS
<1>2. ToSet(<<>>) = {}
  BY <1>1 DEF ToSet
<1>3. \A T : Silent(<<>>, T)
  BY <1>1 DEF Silent
<1>4. \A T, x : ~LastIs(<<>>, T, x)
  BY <1>1 DEF LastIs
<1> QED  BY <1>1, <1>2, <1>3, <1>4

LEMMA SilentOrSaid ==
  ASSUME NEW S, NEW q \in Seq(S), NEW T
  PROVE  /\ Silent(q, T) <=> \A m \in ToSet(q) : m \notin T
         /\ \A x : LastIs(q, T, x) => x \in ToSet(q)
         /\ ToSet(q) \subseteq S
<1>1. ToSet(q) = {q[i] : i \in 1..Len(q)} /\ \A i \in 1..Len(q) : q[i] \in S
  BY DEF ToSet
<1> QED  BY <1>1 DEF Silent, LastIs

-----------------------------------------------------------------------------
(* audio_backend.cpp.  What the backend does not know is on its way: an event, *)
(* a request or an answer is in one of the two queues.                       *)
PaMsgs ==
  [kind : {"changed"}, of : PaNodes \cup {"server"}] \cup [kind : {"modified"}]
    \cup [kind : {"defaults"}, sink : PaSink, source : PaSource]
    \cup [kind : {"info"}, of : PaNodes, volume : 0..MaxVolume, muted : BOOLEAN, running : BOOLEAN]
PaRequests ==
  [kind : {"server", "subscribe", "sinks", "sources"}] \cup [kind : {"info", "mute"}, of : PaNodes]
    \cup [kind : {"volume"}, of : PaNodes, to : 0..MaxVolume]

InfosOf(n) == {m \in PaMsgs : m.kind = "info" /\ m.of = n}
DefaultsMsgs == {m \in PaMsgs : m.kind = "defaults"}
DefaultsOf(p) == [kind |-> "defaults", sink |-> p.default, source |-> p.source]

Asked(k) == \E r \in ToSet(paAsked) : r.kind = k
ChangedSaid(n) == \E m \in ToSet(paSaid) : m.kind = "changed" /\ m.of = n
DefaultsSaid == \E m \in ToSet(paSaid) : m.kind = "defaults"

\* The server will yet be asked for its defaults; or it will be asked, or answer, how n is.
ServerDue == Asked("server") \/ ChangedSaid("server")
PaDue(n) ==
  \/ ServerDue \/ DefaultsSaid \/ ChangedSaid(n)
  \/ Asked(IF n \in PaSink THEN "sinks" ELSE "sources")
  \/ \E r \in ToSet(paAsked) : r.kind = "info" /\ r.of = n

\* A volume the module has set is not yet known to be set.
PaSetting == Asked("volume") \/ \E m \in ToSet(paSaid) : m.kind = "modified"

PaCurrent == Mapped(pulse.default)
PaMoving == PaSetting \/ PaDue(PaCurrent) \/ ~Silent(paSaid, InfosOf(PaCurrent))
PaLive == paState = "ready" /\ ~paMissed
PaFollows == PaLive /\ PaCurrent \notin paConfig.ignored

\* What a server can have.
PulseStates ==
  [default : PaSink, source : PaSource, volume : [PaNodes -> 0..MaxVolume], muted : SUBSET PaSink, running : SUBSET PaSink]

PaServerTypes ==
  /\ paConfig \in PaConfigs /\ paState \in {"connecting", "ready", "dead"}
  /\ paSubscribed \in BOOLEAN /\ paMissed \in BOOLEAN
  /\ pulse \in PulseStates
PaQueueTypes == paAsked \in Seq(PaRequests) /\ paSaid \in Seq(PaMsgs)
PaBackendTypes ==
  /\ backend \in [current : PaSink, default : PaSink, source : PaSource, running : BOOLEAN, idx : PaSink,
                  volume : 0..MaxVolume, muted : BOOLEAN, sourceVolume : 0..MaxVolume]
  /\ backend.current \in {backend.default, Mapped(backend.default)}
PaViewTypes ==
  /\ paDp \in BOOLEAN /\ scale \in 0..MaxVolume
  /\ MainFree \/ paReading \in [volume : 0..MaxVolume]
PaTypes == PaServerTypes /\ PaQueueTypes /\ PaBackendTypes /\ PaViewTypes

\* Before the subscription the defaults, and with them everything, are still to be asked for
\* after it.
PaSubscribing ==
  paState = "ready" /\ ~paSubscribed =>
    \E i \in 1..Len(paAsked) :
      /\ paAsked[i].kind = "subscribe"
      /\ \/ Asked("server")
         \/ DefaultsSaid
         \/ \E j, k \in 1..Len(paAsked) : j > i /\ k > i /\ paAsked[j].kind = "sinks" /\ paAsked[k].kind = "sources"

PaDefaults ==
  PaLive => \/ ServerDue
            \/ LastIs(paSaid, DefaultsMsgs, DefaultsOf(pulse))
            \/ Silent(paSaid, DefaultsMsgs) /\ backend.default = pulse.default /\ backend.source = pulse.source

PaChosen ==
  PaFollows => PaDue(PaCurrent) \/ ~Silent(paSaid, InfosOf(PaCurrent)) \/ backend.idx = PaCurrent

PaSinkKnown ==
  PaFollows =>
    \/ PaDue(PaCurrent) \/ LastIs(paSaid, InfosOf(PaCurrent), InfoOf(pulse, PaCurrent))
    \/ /\ Silent(paSaid, InfosOf(PaCurrent)) /\ backend.volume = pulse.volume[PaCurrent]
       /\ PaSetting \/ backend.muted = (PaCurrent \in pulse.muted)

PaSourceKnown ==
  PaLive => \/ PaDue(pulse.source) \/ LastIs(paSaid, InfosOf(pulse.source), InfoOf(pulse, pulse.source))
            \/ Silent(paSaid, InfosOf(pulse.source)) /\ backend.sourceVolume = pulse.volume[pulse.source]

\* What is shown is what the backend has, unless it will be shown, or the sink is not settled.
PaReads ==
  ~paDp => /\ ~MainFree => paReading.volume = backend.volume
           /\ MainFree => paShown.volume = backend.volume /\ paShown.source = backend.sourceVolume
PaShows ==
  ~paDp /\ MainFree /\ PaFollows /\ ~PaMoving =>
    /\ paShown.muted = backend.muted
    /\ paConfig.slider => \/ scale = IF backend.muted /\ paConfig.zeroOnMute THEN 0 ELSE backend.volume
                          \/ backend.muted /\ scale = 0

PaKnown == PaSubscribing /\ PaDefaults /\ PaChosen /\ PaSinkKnown /\ PaSourceKnown
PaInv == PaTypes /\ PaKnown /\ PaReads /\ PaShows

LEMMA MappedIsASink ==
  ASSUME paConfig \in PaConfigs, NEW d \in PaSink
  PROVE  Mapped(d) \in PaSink
BY PaAssumption DEF Mapped

LEMMA InfoIsMsg ==
  ASSUME NEW p \in PulseStates, NEW n \in PaNodes
  PROVE  InfoOf(p, n) \in InfosOf(n)
<1> DEFINE v == p.volume[n]
           a == n \in p.muted
           b == n \in p.running
<1>1. v \in 0..MaxVolume /\ a \in BOOLEAN /\ b \in BOOLEAN
  BY DEF PulseStates
<1> HIDE DEF v, a, b
<1>2. [kind |-> "info", of |-> n, volume |-> v, muted |-> a, running |-> b] \in InfosOf(n)
  BY <1>1 DEF InfosOf, PaMsgs
<1> QED  BY <1>2 DEF InfoOf, v, a, b

LEMMA InfosAreMsgs ==
  ASSUME PaServerTypes
  PROVE  /\ \A n \in PaNodes : InfoOf(pulse, n) \in InfosOf(n)
         /\ \A n : InfosOf(n) \subseteq PaMsgs
         /\ DefaultsOf(pulse) \in DefaultsMsgs /\ DefaultsMsgs \subseteq PaMsgs
         /\ PaCurrent \in PaSink /\ pulse.source \in PaSource /\ pulse.default \in PaSink
         /\ PaSink \subseteq PaNodes /\ PaSource \subseteq PaNodes
<1>1. pulse.default \in PaSink /\ pulse.source \in PaSource /\ paConfig \in PaConfigs
      /\ pulse.volume \in [PaNodes -> 0..MaxVolume]
  BY DEF PaServerTypes, PulseStates
<1>2. PaCurrent \in PaSink
  BY <1>1, MappedIsASink DEF PaCurrent
<1>3. ASSUME NEW n \in PaNodes PROVE InfoOf(pulse, n) \in InfosOf(n)
  BY InfoIsMsg DEF PaServerTypes
<1>4. DefaultsOf(pulse) \in DefaultsMsgs
  BY <1>1 DEF DefaultsOf, DefaultsMsgs, PaMsgs
<1> QED  BY <1>1, <1>2, <1>3, <1>4 DEF InfosOf, DefaultsMsgs, PaNodes

\* The queues keep their types when they grow and when their first is taken.
LEMMA QueuesGrow ==
  ASSUME PaQueueTypes, NEW x \in Seq(PaRequests), NEW y \in Seq(PaMsgs)
  PROVE  /\ paAsked \o x \in Seq(PaRequests) /\ paSaid \o y \in Seq(PaMsgs)
         /\ ToSet(paAsked \o x) = ToSet(paAsked) \cup ToSet(x) /\ ToSet(paSaid \o y) = ToSet(paSaid) \cup ToSet(y)
         /\ ToSet(paAsked) \subseteq PaRequests /\ ToSet(paSaid) \subseteq PaMsgs
         /\ ToSet(x) \subseteq PaRequests /\ ToSet(y) \subseteq PaMsgs
<1>1. paAsked \in Seq(PaRequests) /\ paSaid \in Seq(PaMsgs)
  BY DEF PaQueueTypes
<1> QED  BY <1>1, ToSetOfConcat, SilentOrSaid

LEMMA PaServerChangeTypes ==
  ASSUME PaTypes, NEW p, NEW of \in PaNodes \cup {"server"}, PulseChange(p, of), paMissed' \in BOOLEAN,
         p \in PulseStates
  PROVE  PaTypes'
<1>1. PaServerTypes'
  BY DEF PulseChange, PaTypes, PaServerTypes
<1>2. Event(of) \in Seq(PaMsgs)
  <2>1. [kind |-> "changed", of |-> of] \in PaMsgs
    BY DEF PaMsgs
  <2> QED  BY <2>1 DEF Event
<1>3. PaQueueTypes'
  <2>1. paSaid \o Event(of) \in Seq(PaMsgs)
    BY <1>2 DEF PaTypes, PaQueueTypes
  <2> QED  BY <2>1 DEF PaTypes, PaQueueTypes, PulseChange
<1>4. PaBackendTypes'
  BY DEF PulseChange, PaTypes, PaBackendTypes, Mapped
<1>5. PaViewTypes'
  BY DEF PulseChange, PaTypes, PaViewTypes, MainFree, paView
<1> QED  BY <1>1, <1>3, <1>4, <1>5 DEF PaTypes

\* A change of one node leaves the others as they are.
OneChanges(n, p) ==
  \/ \E v \in 0..MaxVolume : p = [pulse EXCEPT !.volume[n] = v]
  \/ n \in PaSink /\ p = [pulse EXCEPT !.muted = Toggled(@, n)]
  \/ n \in PaSink /\ p = [pulse EXCEPT !.running = Toggled(@, n)]
  \/ p = [pulse EXCEPT !.muted = @ \ {n}]

LEMMA OthersStay ==
  ASSUME PaTypes, NEW n \in PaNodes, NEW p, OneChanges(n, p)
  PROVE  /\ p \in PulseStates /\ p.default = pulse.default /\ p.source = pulse.source
         /\ \A m \in PaNodes : m # n => InfoOf(p, m) = InfoOf(pulse, m) /\ p.volume[m] = pulse.volume[m]
                                        /\ (m \in p.muted <=> m \in pulse.muted)
<1>1. pulse \in PulseStates
  BY DEF PaTypes, PaServerTypes
<1>2. \A set : n \in PaSink /\ set \in SUBSET PaSink => Toggled(set, n) \in SUBSET PaSink
  BY DEF Toggled
<1>3. p \in PulseStates /\ p.default = pulse.default /\ p.source = pulse.source
  <2>1. CASE \E v \in 0..MaxVolume : p = [pulse EXCEPT !.volume[n] = v]
    BY <1>1, <2>1 DEF PulseStates
  <2>2. CASE n \in PaSink /\ p = [pulse EXCEPT !.muted = Toggled(@, n)]
    BY <1>1, <1>2, <2>2 DEF PulseStates
  <2>3. CASE n \in PaSink /\ p = [pulse EXCEPT !.running = Toggled(@, n)]
    BY <1>1, <1>2, <2>3 DEF PulseStates
  <2>4. CASE p = [pulse EXCEPT !.muted = @ \ {n}]
    BY <1>1, <2>4 DEF PulseStates
  <2> QED  BY <2>1, <2>2, <2>3, <2>4 DEF OneChanges
<1>4. ASSUME NEW m \in PaNodes, m # n
      PROVE  p.volume[m] = pulse.volume[m] /\ (m \in p.muted <=> m \in pulse.muted) /\ (m \in p.running <=> m \in pulse.running)
  <2>1. CASE \E v \in 0..MaxVolume : p = [pulse EXCEPT !.volume[n] = v]
    BY <1>1, <1>4, <2>1 DEF PulseStates
  <2>2. CASE n \in PaSink /\ p = [pulse EXCEPT !.muted = Toggled(@, n)]
    BY <1>1, <1>4, <2>2 DEF Toggled, PulseStates
  <2>3. CASE n \in PaSink /\ p = [pulse EXCEPT !.running = Toggled(@, n)]
    BY <1>1, <1>4, <2>3 DEF Toggled, PulseStates
  <2>4. CASE p = [pulse EXCEPT !.muted = @ \ {n}]
    BY <1>1, <1>4, <2>4 DEF PulseStates
  <2> QED  BY <2>1, <2>2, <2>3, <2>4 DEF OneChanges
<1>5. ASSUME NEW m \in PaNodes, m # n PROVE InfoOf(p, m) = InfoOf(pulse, m)
  <2>1. (m \in p.muted) = (m \in pulse.muted) /\ (m \in p.running) = (m \in pulse.running)
    BY <1>4, <1>5
  <2> QED  BY <1>4, <1>5, <2>1 DEF InfoOf
<1> QED  BY <1>3, <1>4, <1>5

LEMMA PaGrows ==
  ASSUME PaQueueTypes, NEW x \in Seq(PaRequests), NEW y \in Seq(PaMsgs), paAsked' = paAsked \o x, paSaid' = paSaid \o y
  PROVE  /\ ToSet(paAsked)' = ToSet(paAsked) \cup ToSet(x) /\ ToSet(paSaid)' = ToSet(paSaid) \cup ToSet(y)
         /\ \A k : Asked(k) => Asked(k)'
         /\ DefaultsSaid => DefaultsSaid'
         /\ ServerDue => ServerDue'
         /\ \A n : PaDue(n) => PaDue(n)'
         /\ PaSetting => PaSetting'
<1>1. ToSet(paAsked)' = ToSet(paAsked) \cup ToSet(x) /\ ToSet(paSaid)' = ToSet(paSaid) \cup ToSet(y)
  BY QueuesGrow
<1>2. \A k : Asked(k) => Asked(k)'
  BY <1>1 DEF Asked
<1>3. \A n : ChangedSaid(n) => ChangedSaid(n)'
  BY <1>1 DEF ChangedSaid
<1>4. DefaultsSaid => DefaultsSaid'
  BY <1>1 DEF DefaultsSaid
<1>5. ServerDue => ServerDue'
  BY <1>2, <1>3 DEF ServerDue
<1>6. \A n : PaDue(n) => PaDue(n)'
  <2>1. \A n : (\E r \in ToSet(paAsked) : r.kind = "info" /\ r.of = n) => (\E r \in ToSet(paAsked)' : r.kind = "info" /\ r.of = n)
    BY <1>1
  <2> QED  BY <1>2, <1>3, <1>4, <1>5, <2>1 DEF PaDue
<1>7. PaSetting => PaSetting'
  BY <1>1, <1>2 DEF PaSetting
<1> QED  BY <1>1, <1>2, <1>4, <1>5, <1>6, <1>7

LEMMA SubscribingGrows ==
  ASSUME PaQueueTypes, NEW x \in Seq(PaRequests), NEW y \in Seq(PaMsgs), paAsked' = paAsked \o x, paSaid' = paSaid \o y,
         UNCHANGED <<paState, paSubscribed>>, PaSubscribing
  PROVE  PaSubscribing'
<1> SUFFICES ASSUME paState = "ready", ~paSubscribed
             PROVE  PaSubscribing'
  BY DEF PaSubscribing
<1>1. PICK i \in 1..Len(paAsked) :
        /\ paAsked[i].kind = "subscribe"
        /\ \/ Asked("server")
           \/ DefaultsSaid
           \/ \E j, k \in 1..Len(paAsked) : j > i /\ k > i /\ paAsked[j].kind = "sinks" /\ paAsked[k].kind = "sources"
  BY DEF PaSubscribing
<1>2. \A j \in 1..Len(paAsked) : j \in 1..Len(paAsked') /\ paAsked'[j] = paAsked[j]
  BY DEF PaQueueTypes
<1>3. (Asked("server") => Asked("server")') /\ (DefaultsSaid => DefaultsSaid')
  BY PaGrows
<1> QED  BY <1>1, <1>2, <1>3 DEF PaSubscribing

\* Before the subscription nothing is known that will not be asked for.
LEMMA AllDue ==
  ASSUME PaQueueTypes, PaSubscribing, paState = "ready", ~paSubscribed
  PROVE  \A n : PaDue(n)
<1>1. PICK i \in 1..Len(paAsked) :
        /\ paAsked[i].kind = "subscribe"
        /\ \/ Asked("server")
           \/ DefaultsSaid
           \/ \E j, k \in 1..Len(paAsked) : j > i /\ k > i /\ paAsked[j].kind = "sinks" /\ paAsked[k].kind = "sources"
  BY DEF PaSubscribing
<1>2. \A j \in 1..Len(paAsked) : paAsked[j] \in ToSet(paAsked)
  BY DEF PaQueueTypes, ToSet
<1>3. CASE \E j, k \in 1..Len(paAsked) : j > i /\ k > i /\ paAsked[j].kind = "sinks" /\ paAsked[k].kind = "sources"
  <2>1. Asked("sinks") /\ Asked("sources")
    BY <1>2, <1>3 DEF Asked
  <2> QED  BY <2>1 DEF PaDue
<1>4. CASE Asked("server")
  BY <1>4 DEF PaDue, ServerDue
<1>5. CASE DefaultsSaid
  BY <1>5 DEF PaDue
<1> QED  BY <1>1, <1>3, <1>4, <1>5

\* An event is said while subscribed.
LEMMA EventIsSaid ==
  ASSUME PaTypes, NEW of \in PaNodes \cup {"server"}, NEW y \in Seq(PaMsgs), paSaid' = paSaid \o (Event(of) \o y)
  PROVE  paSubscribed => ChangedSaid(of)'
<1> SUFFICES ASSUME paSubscribed PROVE ChangedSaid(of)'
  OBVIOUS
<1> DEFINE e == [kind |-> "changed", of |-> of]
<1>1. e \in PaMsgs /\ e.kind = "changed" /\ e.of = of
  BY DEF PaMsgs
<1> HIDE DEF e
<1>2. Event(of) = <<e>> /\ <<e>> \in Seq(PaMsgs)
  BY <1>1 DEF Event, e
<1>3. ToSet(Event(of) \o y) = {e} \cup ToSet(y) /\ Event(of) \o y \in Seq(PaMsgs)
  <2>1. ToSet(<<e>>) = {e}
    BY ToSetOfOne
  <2>2. PICK b \in Seq(PaMsgs) : b = <<e>>
    BY <1>2
  <2>3. b \o y \in Seq(PaMsgs) /\ ToSet(b \o y) = ToSet(b) \cup ToSet(y)
    BY ToSetOfConcat
  <2> QED  BY <1>2, <2>1, <2>2, <2>3
<1>4. ToSet(paSaid)' = ToSet(paSaid) \cup ({e} \cup ToSet(y))
  <2> DEFINE z == Event(of) \o y
  <2>1. z \in Seq(PaMsgs) /\ paSaid \in Seq(PaMsgs) /\ paSaid' = paSaid \o z /\ ToSet(z) = {e} \cup ToSet(y)
    BY <1>3 DEF PaTypes, PaQueueTypes
  <2> HIDE DEF z
  <2>2. ToSet(paSaid \o z) = ToSet(paSaid) \cup ToSet(z)
    BY <2>1, ToSetOfConcat
  <2> QED  BY <2>1, <2>2
<1> QED  BY <1>1, <1>4 DEF ChangedSaid

\* Steps that leave the fields what they are, up to a mute that is being set, and add to what is
\* said y, which has the last of what it is about.
PaSays(y) ==
  /\ UNCHANGED <<paConfig, paState, paMissed>>
  /\ pulse'.default = pulse.default /\ pulse'.source = pulse.source
  /\ backend'.idx = backend.idx /\ backend'.volume = backend.volume /\ backend'.sourceVolume = backend.sourceVolume
  /\ backend'.default = backend.default /\ backend'.source = backend.source
  /\ PaLive => PaSetting' \/ backend'.muted = backend.muted
  /\ PaLive => \A m \in PaNodes :
       \/ PaDue(m)'
       \/ /\ InfoOf(pulse', m) = InfoOf(pulse, m) /\ pulse'.volume[m] = pulse.volume[m]
          /\ (m \in pulse'.muted) = (m \in pulse.muted)
  /\ \A m \in PaNodes : Silent(y, InfosOf(m)) \/ LastIs(y, InfosOf(m), InfoOf(pulse', m))
  /\ Silent(y, DefaultsMsgs) \/ LastIs(y, DefaultsMsgs, DefaultsOf(pulse'))
  /\ \A m \in PaNodes : PaDue(m) => PaDue(m)' \/ LastIs(y, InfosOf(m), InfoOf(pulse', m))
  /\ ServerDue => ServerDue' \/ LastIs(y, DefaultsMsgs, DefaultsOf(pulse'))
  /\ PaSetting => PaSetting'

LEMMA KnownGrows ==
  ASSUME PaTypes, PaTypes', PaDefaults, PaChosen, PaSinkKnown, PaSourceKnown, NEW y \in Seq(PaMsgs), paSaid' = paSaid \o y,
         PaSays(y)
  PROVE  /\ PaDefaults' /\ PaChosen' /\ PaSinkKnown' /\ PaSourceKnown' /\ (PaMoving => PaMoving')
         /\ PaLive' = PaLive /\ PaFollows' = PaFollows /\ PaCurrent' = PaCurrent
<1>1. paSaid \in Seq(PaMsgs) /\ paSaid' \in Seq(PaMsgs)
  BY DEF PaTypes, PaQueueTypes
<1>2. PaCurrent' = PaCurrent /\ PaCurrent \in PaNodes /\ pulse.source \in PaNodes
  <2>1. PaCurrent' = PaCurrent
    BY DEF PaCurrent, Mapped, PaSays
  <2> QED  BY <2>1, InfosAreMsgs DEF PaTypes
<1>3. PaLive' = PaLive /\ PaFollows' = PaFollows
  BY <1>2 DEF PaLive, PaFollows, PaSays
<1>4. \A T, x : /\ LastIs(y, T, x) => LastIs(paSaid', T, x)
                /\ LastIs(paSaid, T, x) /\ Silent(y, T) => LastIs(paSaid', T, x)
                /\ Silent(paSaid, T) /\ Silent(y, T) => Silent(paSaid', T)
                /\ Silent(paSaid', T) => Silent(paSaid, T) /\ Silent(y, T)
  <2> TAKE T, x
  <2> QED  BY <1>1, LastOfConcat
<1>5. InfoOf(pulse, PaCurrent)' = InfoOf(pulse', PaCurrent) /\ InfoOf(pulse, pulse.source)' = InfoOf(pulse', pulse.source)
      /\ DefaultsOf(pulse)' = DefaultsOf(pulse')
  BY <1>2 DEF InfoOf, DefaultsOf, PaSays
<1>6. InfosOf(PaCurrent)' = InfosOf(PaCurrent) /\ InfosOf(pulse.source)' = InfosOf(pulse.source) /\ DefaultsMsgs' = DefaultsMsgs
  BY <1>2 DEF InfosOf, DefaultsMsgs, PaSays
<1>7. /\ PaLive => PaDue(PaCurrent)' \/ (InfoOf(pulse', PaCurrent) = InfoOf(pulse, PaCurrent)
                                        /\ pulse'.volume[PaCurrent] = pulse.volume[PaCurrent]
                                        /\ (PaCurrent \in pulse'.muted) = (PaCurrent \in pulse.muted))
      /\ Silent(y, InfosOf(PaCurrent)) \/ LastIs(y, InfosOf(PaCurrent), InfoOf(pulse', PaCurrent))
      /\ PaDue(PaCurrent) => PaDue(PaCurrent)' \/ LastIs(y, InfosOf(PaCurrent), InfoOf(pulse', PaCurrent))
  BY <1>2 DEF PaSays
<1>8. /\ PaLive => PaDue(pulse.source)' \/ (InfoOf(pulse', pulse.source) = InfoOf(pulse, pulse.source)
                                        /\ pulse'.volume[pulse.source] = pulse.volume[pulse.source])
      /\ Silent(y, InfosOf(pulse.source)) \/ LastIs(y, InfosOf(pulse.source), InfoOf(pulse', pulse.source))
      /\ PaDue(pulse.source) => PaDue(pulse.source)' \/ LastIs(y, InfosOf(pulse.source), InfoOf(pulse', pulse.source))
      /\ pulse'.source = pulse.source
  BY <1>2 DEF PaSays
<1>9. DefaultsOf(pulse') = DefaultsOf(pulse)
  BY DEF DefaultsOf, PaSays
<1>10. PaDefaults'
  <2> SUFFICES ASSUME PaLive PROVE PaDefaults'
    BY <1>3 DEF PaDefaults
  <2>1. CASE LastIs(y, DefaultsMsgs, DefaultsOf(pulse'))
    <3>1. LastIs(paSaid', DefaultsMsgs, DefaultsOf(pulse'))
      BY <1>4, <2>1
    <3> QED  BY <1>5, <1>6, <3>1 DEF PaDefaults
  <2>2. CASE Silent(y, DefaultsMsgs) /\ ServerDue
    BY <2>1, <2>2 DEF PaDefaults, PaSays
  <2>3. CASE Silent(y, DefaultsMsgs) /\ LastIs(paSaid, DefaultsMsgs, DefaultsOf(pulse))
    <3>1. LastIs(paSaid', DefaultsMsgs, DefaultsOf(pulse'))
      BY <1>4, <1>9, <2>3
    <3> QED  BY <1>5, <1>6, <3>1 DEF PaDefaults
  <2>4. CASE Silent(y, DefaultsMsgs) /\ Silent(paSaid, DefaultsMsgs) /\ backend.default = pulse.default /\ backend.source = pulse.source
    <3>1. Silent(paSaid', DefaultsMsgs)
      BY <1>4, <2>4
    <3>2. backend'.default = pulse'.default /\ backend'.source = pulse'.source
      BY <2>4 DEF PaSays
    <3> QED  BY <1>6, <3>1, <3>2 DEF PaDefaults
  <2> QED  BY <2>1, <2>2, <2>3, <2>4 DEF PaDefaults, PaSays
<1>11. LastIs(y, InfosOf(PaCurrent), InfoOf(pulse', PaCurrent)) =>
         LastIs(paSaid', InfosOf(PaCurrent), InfoOf(pulse', PaCurrent)) /\ ~Silent(paSaid', InfosOf(PaCurrent))
  <2>1. InfoOf(pulse', PaCurrent) \in InfosOf(PaCurrent)
    <3>1. pulse' \in PulseStates
      BY DEF PaTypes, PaServerTypes
    <3> QED  BY <1>2, <3>1, InfoIsMsg
  <2>2. LastIs(paSaid', InfosOf(PaCurrent), InfoOf(pulse', PaCurrent)) => ~Silent(paSaid', InfosOf(PaCurrent))
    BY <2>1 DEF LastIs, Silent
  <2> QED  BY <1>4, <2>2
<1>12. ~Silent(paSaid, InfosOf(PaCurrent)) => ~Silent(paSaid', InfosOf(PaCurrent))
  BY <1>4
<1>13. PaChosen'
  <2> SUFFICES ASSUME PaFollows PROVE PaChosen'
    BY <1>3 DEF PaChosen
  <2>1. PaDue(PaCurrent)' \/ ~Silent(paSaid', InfosOf(PaCurrent)) \/ backend'.idx = PaCurrent'
    BY <1>2, <1>7, <1>11, <1>12 DEF PaChosen, PaSays
  <2> QED  BY <1>6, <2>1 DEF PaChosen
<1>14. PaSinkKnown'
  <2> SUFFICES ASSUME PaFollows, ~PaDue(PaCurrent)', ~LastIs(y, InfosOf(PaCurrent), InfoOf(pulse', PaCurrent))
               PROVE  PaSinkKnown'
    BY <1>3, <1>5, <1>6, <1>11 DEF PaSinkKnown
  <2>1. PaLive /\ ~PaDue(PaCurrent) /\ Silent(y, InfosOf(PaCurrent)) /\ InfoOf(pulse', PaCurrent) = InfoOf(pulse, PaCurrent)
        /\ pulse'.volume[PaCurrent] = pulse.volume[PaCurrent] /\ (PaCurrent \in pulse'.muted) = (PaCurrent \in pulse.muted)
    BY <1>7 DEF PaFollows
  <2>2. CASE LastIs(paSaid, InfosOf(PaCurrent), InfoOf(pulse, PaCurrent))
    <3>1. LastIs(paSaid', InfosOf(PaCurrent), InfoOf(pulse', PaCurrent))
      BY <1>4, <2>1, <2>2
    <3> QED  BY <1>5, <1>6, <3>1 DEF PaSinkKnown
  <2>3. CASE /\ Silent(paSaid, InfosOf(PaCurrent)) /\ backend.volume = pulse.volume[PaCurrent]
             /\ PaSetting \/ backend.muted = (PaCurrent \in pulse.muted)
    <3>1. Silent(paSaid', InfosOf(PaCurrent))
      BY <1>4, <2>1, <2>3
    <3>2. backend'.volume = pulse'.volume[PaCurrent']
      BY <1>2, <2>1, <2>3 DEF PaSays
    <3>3. PaSetting' \/ backend'.muted = (PaCurrent \in pulse'.muted)
      BY <2>1, <2>3 DEF PaSays
    <3> QED  BY <1>2, <1>6, <3>1, <3>2, <3>3 DEF PaSinkKnown
  <2> QED  BY <2>1, <2>2, <2>3 DEF PaSinkKnown
<1>15. PaSourceKnown'
  <2> SUFFICES ASSUME PaLive PROVE PaSourceKnown'
    BY <1>3 DEF PaSourceKnown
  <2>1. CASE LastIs(y, InfosOf(pulse.source), InfoOf(pulse', pulse.source))
    <3>1. LastIs(paSaid', InfosOf(pulse.source), InfoOf(pulse', pulse.source))
      BY <1>4, <2>1
    <3> QED  BY <1>5, <1>6, <3>1 DEF PaSourceKnown
  <2>2. CASE PaDue(pulse.source)'
    BY <2>2 DEF PaSourceKnown
  <2>3. CASE ~LastIs(y, InfosOf(pulse.source), InfoOf(pulse', pulse.source)) /\ ~PaDue(pulse.source)'
    <3>1. Silent(y, InfosOf(pulse.source)) /\ ~PaDue(pulse.source) /\ InfoOf(pulse', pulse.source) = InfoOf(pulse, pulse.source)
          /\ pulse'.volume[pulse.source] = pulse.volume[pulse.source]
      BY <1>8, <2>3
    <3>2. CASE LastIs(paSaid, InfosOf(pulse.source), InfoOf(pulse, pulse.source))
      <4>1. LastIs(paSaid', InfosOf(pulse.source), InfoOf(pulse', pulse.source))
        BY <1>4, <3>1, <3>2
      <4> QED  BY <1>5, <1>6, <4>1 DEF PaSourceKnown
    <3>3. CASE Silent(paSaid, InfosOf(pulse.source)) /\ backend.sourceVolume = pulse.volume[pulse.source]
      <4>1. Silent(paSaid', InfosOf(pulse.source))
        BY <1>4, <3>1, <3>3
      <4>2. backend'.sourceVolume = pulse'.volume[pulse'.source]
        BY <1>8, <3>1, <3>3 DEF PaSays
      <4> QED  BY <1>6, <4>1, <4>2 DEF PaSourceKnown
    <3> QED  BY <3>1, <3>2, <3>3 DEF PaSourceKnown
  <2> QED  BY <2>1, <2>2, <2>3
<1>16. PaMoving => PaMoving'
  <2>1. PaSetting => PaSetting'
    BY DEF PaSays
  <2>2. PaDue(PaCurrent) => PaDue(PaCurrent)' \/ ~Silent(paSaid', InfosOf(PaCurrent))
    BY <1>7, <1>11
  <2> QED  BY <1>6, <1>12, <2>1, <2>2 DEF PaMoving
<1> QED  BY <1>2, <1>3, <1>10, <1>13, <1>14, <1>15, <1>16

\* Where the defaults are asked for nothing else has to be known.
LEMMA ServerDueIsEnough ==
  ASSUME ~PaLive' \/ ServerDue'
  PROVE  PaDefaults' /\ PaChosen' /\ PaSinkKnown' /\ PaSourceKnown' /\ PaShows'
<1>1. CASE ~PaLive'
  <2>1. ~PaFollows'
    BY <1>1 DEF PaFollows
  <2> QED  BY <1>1, <2>1 DEF PaDefaults, PaChosen, PaSinkKnown, PaSourceKnown, PaShows
<1>2. CASE ServerDue'
  <2>1. PaDue(PaCurrent)' /\ PaDue(pulse.source)'
    BY <1>2 DEF PaDue
  <2>2. PaMoving'
    BY <2>1 DEF PaMoving
  <2> QED  BY <1>2, <2>1, <2>2 DEF PaDefaults, PaChosen, PaSinkKnown, PaSourceKnown, PaShows
<1> QED  BY <1>1, <1>2

\* What is shown stays so where it and the fields do.
LEMMA PaShowsKeeps ==
  ASSUME PaReads, PaShows, UNCHANGED <<paConfig, paDp, paReading, paShown, scale>>,
         backend'.volume = backend.volume, backend'.sourceVolume = backend.sourceVolume,
         PaFollows' /\ ~PaMoving' => PaFollows /\ ~PaMoving /\ backend'.muted = backend.muted
  PROVE  PaReads' /\ PaShows'
<1>1. PaReads'
  BY DEF PaReads, MainFree, Nothing
<1>2. PaShows'
  BY DEF PaShows, MainFree, Nothing
<1> QED  BY <1>1, <1>2

LEMMA EventIsNoAnswer ==
  ASSUME NEW of \in PaNodes \cup {"server"}
  PROVE  /\ Event(of) \in Seq(PaMsgs) /\ Silent(Event(of), DefaultsMsgs)
         /\ \A m : Silent(Event(of), InfosOf(m))
<1> DEFINE e == [kind |-> "changed", of |-> of]
<1>1. e \in PaMsgs /\ e.kind = "changed"
  BY DEF PaMsgs
<1>2. e \notin DefaultsMsgs /\ \A m : e \notin InfosOf(m)
  BY <1>1 DEF DefaultsMsgs, InfosOf
<1> HIDE DEF e
<1>3. CASE paSubscribed
  <2>1. Event(of) = <<e>>
    BY <1>3 DEF Event, e
  <2>2. <<e>> \in Seq(PaMsgs) /\ Silent(<<e>>, DefaultsMsgs) /\ \A m : Silent(<<e>>, InfosOf(m))
    BY <1>1, <1>2, ToSetOfOne
  <2> QED  BY <2>1, <2>2
<1>4. CASE ~paSubscribed
  <2>1. Event(of) = <<>>
    BY <1>4 DEF Event
  <2> QED  BY <2>1, NothingIsSilent
<1> QED  BY <1>3, <1>4

LEMMA PaNodeChangeKeeps ==
  ASSUME PaInv,
         NEW n \in PaNodes, NEW p, PulseChange(p, n), UNCHANGED paMissed,
         OneChanges(n, p)
  PROVE  PaInv'
<1> DEFINE y == Event(n)
<1>1. PaTypes /\ PaKnown /\ PaReads /\ PaShows
  BY DEF PaInv
<1>2. /\ PaTypes' /\ p.default = pulse.default /\ p.source = pulse.source
      /\ \A m \in PaNodes : m # n => InfoOf(p, m) = InfoOf(pulse, m) /\ p.volume[m] = pulse.volume[m]
                                     /\ (m \in p.muted <=> m \in pulse.muted)
  <2>1. /\ p \in PulseStates /\ p.default = pulse.default /\ p.source = pulse.source
        /\ \A m \in PaNodes : m # n => InfoOf(p, m) = InfoOf(pulse, m) /\ p.volume[m] = pulse.volume[m]
                                       /\ (m \in p.muted <=> m \in pulse.muted)
    BY <1>1, OthersStay
  <2>2. paMissed' \in BOOLEAN
    BY <1>1 DEF PaTypes, PaServerTypes
  <2>3. PaTypes'
    BY <1>1, <2>1, <2>2, PaServerChangeTypes
  <2> QED  BY <2>1, <2>3
<1>3. y \in Seq(PaMsgs) /\ Silent(y, DefaultsMsgs) /\ \A m : Silent(y, InfosOf(m))
  BY EventIsNoAnswer
<1>4. <<>> \in Seq(PaRequests) /\ <<>> \in Seq(PaMsgs) /\ PaQueueTypes
  BY <1>1 DEF PaTypes
<1>5. paAsked' = paAsked \o <<>> /\ paSaid' = paSaid \o y /\ y = y \o <<>>
  <2>1. paAsked = paAsked \o <<>>
    BY <1>4 DEF PaQueueTypes
  <2>2. y = y \o <<>>
    BY <1>3
  <2> QED  BY <2>1, <2>2 DEF PulseChange
<1>6. UNCHANGED <<paConfig, paState, paSubscribed, backend, paDp, paReading, paShown, scale, paMissed>> /\ pulse' = p
  BY DEF PulseChange, paView
<1>7. paState = "ready" => PaDue(n)'
  <2> SUFFICES ASSUME paState = "ready" PROVE PaDue(n)'
    OBVIOUS
  <2>1. CASE paSubscribed
    <3>1. paSaid' = paSaid \o (Event(n) \o <<>>)
      BY <1>5
    <3>2. ChangedSaid(n)'
      BY <1>1, <1>2, <1>4, <1>5, <2>1, <3>1, EventIsSaid DEF PaKnown
    <3> QED  BY <3>2 DEF PaDue
  <2>2. CASE ~paSubscribed
    <3>1. PaDue(n)
      BY <1>1, <1>4, <2>2, AllDue DEF PaKnown
    <3> QED  BY <1>3, <1>4, <1>5, <3>1, PaGrows
  <2> QED  BY <2>1, <2>2
<1> HIDE DEF y
<1>8. PaSays(y)
  <2>1. PaLive => \A m \in PaNodes :
          \/ PaDue(m)'
          \/ /\ InfoOf(pulse', m) = InfoOf(pulse, m) /\ pulse'.volume[m] = pulse.volume[m]
             /\ (m \in pulse'.muted) = (m \in pulse.muted)
    BY <1>2, <1>6, <1>7 DEF PaLive
  <2>2. (\A m : PaDue(m) => PaDue(m)') /\ (ServerDue => ServerDue') /\ (PaSetting => PaSetting')
    BY <1>3, <1>4, <1>5, PaGrows
  <2> QED  BY <1>2, <1>3, <1>6, <2>1, <2>2 DEF PaSays
<1>9. /\ PaDefaults' /\ PaChosen' /\ PaSinkKnown' /\ PaSourceKnown' /\ (PaMoving => PaMoving')
      /\ PaFollows' = PaFollows
  BY <1>1, <1>2, <1>3, <1>5, <1>8, KnownGrows DEF PaKnown
<1>10. PaSubscribing'
  BY <1>1, <1>3, <1>4, <1>5, <1>6, SubscribingGrows DEF PaKnown
<1>11. PaReads' /\ PaShows'
  BY <1>1, <1>6, <1>9, PaShowsKeeps
<1> QED  BY <1>2, <1>9, <1>10, <1>11 DEF PaInv, PaKnown

LEMMA PaDefaultsChangeKeeps ==
  ASSUME PaInv, NEW s \in PaSink, NEW m \in PaSource, DefaultsChange(s, m)
  PROVE  PaInv'
<1> DEFINE p == [pulse EXCEPT !.default = s, !.source = m]
           y == Event("server")
<1>1. PaTypes /\ PaKnown /\ PaReads /\ PaShows
  BY DEF PaInv
<1>2. p \in PulseStates /\ paMissed' \in BOOLEAN /\ PulseChange(p, "server")
  BY <1>1 DEF PaTypes, PaServerTypes, PulseStates, DefaultsChange
<1>3. PaTypes'
  <2> HIDE DEF p
  <2> QED  BY <1>1, <1>2, PaServerChangeTypes
<1>4. y \in Seq(PaMsgs)
  BY EventIsNoAnswer
<1>5. <<>> \in Seq(PaRequests) /\ <<>> \in Seq(PaMsgs) /\ PaQueueTypes
  BY <1>1 DEF PaTypes
<1>6. paAsked' = paAsked \o <<>> /\ paSaid' = paSaid \o y /\ y = y \o <<>>
  <2>1. paAsked = paAsked \o <<>>
    BY <1>5 DEF PaQueueTypes
  <2>2. y = y \o <<>>
    BY <1>4
  <2> QED  BY <1>2, <2>1, <2>2 DEF PulseChange
<1>7. UNCHANGED <<paConfig, paState, paSubscribed, backend, paDp, paReading, paShown, scale>>
  BY <1>2 DEF PulseChange, paView
<1>8. ~PaLive' \/ ServerDue'
  <2> SUFFICES ASSUME PaLive' PROVE ServerDue'
    OBVIOUS
  <2>1. paState = "ready" /\ paSubscribed
    BY <1>1, <1>7 DEF PaLive, DefaultsChange, PaTypes, PaServerTypes
  <2>2. paSaid' = paSaid \o (Event("server") \o <<>>)
    BY <1>6
  <2>3. ChangedSaid("server")'
    BY <1>1, <1>3, <1>5, <1>6, <2>1, <2>2, EventIsSaid DEF PaKnown
  <2> QED  BY <2>3 DEF ServerDue
<1>9. PaDefaults' /\ PaChosen' /\ PaSinkKnown' /\ PaSourceKnown' /\ PaShows'
  BY <1>8, ServerDueIsEnough
<1>10. PaSubscribing'
  BY <1>1, <1>4, <1>5, <1>6, <1>7, SubscribingGrows DEF PaKnown
<1>11. PaReads'
  BY <1>1, <1>7 DEF PaReads, MainFree, Nothing
<1> QED  BY <1>3, <1>9, <1>10, <1>11 DEF PaInv, PaKnown

LEMMA ContextKeeps ==
  ASSUME PaInv, ContextReady \/ \E again \in BOOLEAN : ContextFails(again)
  PROVE  PaInv'
<1>1. PaTypes /\ PaKnown /\ PaReads /\ PaShows
  BY DEF PaInv
<1>2. UNCHANGED <<paConfig, pulse, backend, paDp, paReading, paShown, scale>>
  BY DEF ContextReady, ContextFails, paView
<1>3. PaBackendTypes' /\ PaViewTypes' /\ PaReads'
  <2>1. PaBackendTypes'
    BY <1>1, <1>2 DEF PaTypes, PaBackendTypes, Mapped
  <2>2. PaViewTypes'
    BY <1>1, <1>2 DEF PaTypes, PaViewTypes, MainFree, Nothing
  <2>3. PaReads'
    BY <1>1, <1>2 DEF PaReads, MainFree, Nothing
  <2> QED  BY <2>1, <2>2, <2>3
<1>4. PaServerTypes'
  BY <1>1, <1>2 DEF PaTypes, PaServerTypes, ContextReady, ContextFails
<1>5. CASE \E again \in BOOLEAN : ContextFails(again)
  <2>1. paState' # "ready" /\ PaQueueTypes'
    BY <1>1, <1>5 DEF ContextFails, PaQueueTypes
  <2>2. ~PaLive'
    BY <2>1 DEF PaLive
  <2>3. PaDefaults' /\ PaChosen' /\ PaSinkKnown' /\ PaSourceKnown' /\ PaShows'
    BY <2>2, ServerDueIsEnough
  <2>4. PaSubscribing'
    BY <2>1 DEF PaSubscribing
  <2> QED  BY <1>3, <1>4, <2>1, <2>3, <2>4 DEF PaInv, PaKnown, PaTypes
<1>6. CASE ContextReady
  <2> DEFINE a == [kind |-> "server"]
             b == [kind |-> "subscribe"]
  <2>1. a \in PaRequests /\ b \in PaRequests /\ a.kind = "server" /\ b.kind = "subscribe"
    BY DEF PaRequests
  <2>2. paAsked' = <<a, b>> /\ paSaid' = paSaid
    BY <1>6 DEF ContextReady
  <2> HIDE DEF a, b
  <2>3. ToSet(paAsked)' = {a, b} /\ Len(paAsked)' = 2 /\ paAsked'[2] = b
    BY <2>2, ToSetOfTwo
  <2>4. PaQueueTypes'
    BY <1>1, <2>1, <2>2 DEF PaTypes, PaQueueTypes
  <2>5. Asked("server")'
    BY <2>1, <2>3 DEF Asked
  <2>6. PaDefaults' /\ PaChosen' /\ PaSinkKnown' /\ PaSourceKnown' /\ PaShows'
    BY <2>5, ServerDueIsEnough DEF ServerDue
  <2>7. PaSubscribing'
    <3>1. 2 \in 1..Len(paAsked)' /\ (paAsked[2].kind)' = "subscribe"
      BY <2>1, <2>3
    <3> QED  BY <2>5, <3>1 DEF PaSubscribing
  <2> QED  BY <1>3, <1>4, <2>4, <2>6, <2>7 DEF PaInv, PaKnown, PaTypes
<1> QED  BY <1>5, <1>6

\* The first request is answered: the others wait.
LEMMA PaAnswered ==
  ASSUME PaQueueTypes, paAsked # <<>>, NEW r, r = Head(paAsked), paAsked' = Tail(paAsked), NEW y \in Seq(PaMsgs), paSaid' = paSaid \o y
  PROVE  /\ r \in PaRequests /\ PaQueueTypes' /\ ToSet(paAsked) = {r} \cup ToSet(paAsked)' /\ ToSet(paSaid)' = ToSet(paSaid) \cup ToSet(y)
         /\ \A k : Asked(k) => Asked(k)' \/ r.kind = k
         /\ DefaultsSaid => DefaultsSaid'
         /\ ServerDue => ServerDue' \/ r.kind = "server"
         /\ \A n : PaDue(n) => PaDue(n)' \/ r.kind \in {"server", IF n \in PaSink THEN "sinks" ELSE "sources"} \/ (r.kind = "info" /\ r.of = n)
         /\ PaSetting => PaSetting' \/ r.kind = "volume"
<1>1. paAsked \in Seq(PaRequests) /\ paSaid \in Seq(PaMsgs)
  BY DEF PaQueueTypes
<1>2. r \in PaRequests /\ paAsked' \in Seq(PaRequests) /\ ToSet(paAsked) = {r} \cup ToSet(paAsked)'
  BY <1>1, ToSetOfTail
<1>3. ToSet(paSaid)' = ToSet(paSaid) \cup ToSet(y) /\ paSaid' \in Seq(PaMsgs)
  BY <1>1, ToSetOfConcat
<1>4. \A k : Asked(k) => Asked(k)' \/ r.kind = k
  BY <1>2 DEF Asked
<1>5. \A n : ChangedSaid(n) => ChangedSaid(n)'
  BY <1>3 DEF ChangedSaid
<1>6. DefaultsSaid => DefaultsSaid'
  BY <1>3 DEF DefaultsSaid
<1>7. ServerDue => ServerDue' \/ r.kind = "server"
  BY <1>4, <1>5 DEF ServerDue
<1>8. \A n : PaDue(n) => PaDue(n)' \/ r.kind \in {"server", IF n \in PaSink THEN "sinks" ELSE "sources"} \/ (r.kind = "info" /\ r.of = n)
  <2> TAKE n
  <2> DEFINE k == IF n \in PaSink THEN "sinks" ELSE "sources"
  <2>1. (\E q \in ToSet(paAsked) : q.kind = "info" /\ q.of = n) =>
          (\E q \in ToSet(paAsked)' : q.kind = "info" /\ q.of = n) \/ (r.kind = "info" /\ r.of = n)
    BY <1>2
  <2>2. Asked(k) => Asked(k)' \/ r.kind = k
    BY <1>4
  <2> QED  BY <1>5, <1>6, <1>7, <2>1, <2>2 DEF PaDue
<1>9. PaSetting => PaSetting' \/ r.kind = "volume"
  BY <1>3, <1>4 DEF PaSetting
<1> QED  BY <1>2, <1>3, <1>4, <1>6, <1>7, <1>8, <1>9 DEF PaQueueTypes

LEMMA SubscribingAnswered ==
  ASSUME PaQueueTypes, paAsked # <<>>, NEW r, r = Head(paAsked), paAsked' = Tail(paAsked), NEW y \in Seq(PaMsgs), paSaid' = paSaid \o y,
         UNCHANGED paState, paSubscribed' = (paSubscribed \/ r.kind = "subscribe"), r.kind = "server" => DefaultsSaid', PaSubscribing
  PROVE  PaSubscribing'
<1> SUFFICES ASSUME paState = "ready", ~paSubscribed, r.kind # "subscribe"
             PROVE  PaSubscribing'
  BY DEF PaSubscribing
<1>1. PICK i \in 1..Len(paAsked) :
        /\ paAsked[i].kind = "subscribe"
        /\ \/ Asked("server")
           \/ DefaultsSaid
           \/ \E j, k \in 1..Len(paAsked) : j > i /\ k > i /\ paAsked[j].kind = "sinks" /\ paAsked[k].kind = "sources"
  BY DEF PaSubscribing
<1>2. \A j \in 1..Len(paAsked) : j > 1 => j - 1 \in 1..Len(paAsked') /\ paAsked'[j - 1] = paAsked[j]
  BY DEF PaQueueTypes
<1>3. i > 1 /\ i \in Nat
  BY <1>1 DEF PaQueueTypes
<1>4. i - 1 \in 1..Len(paAsked') /\ paAsked'[i - 1].kind = "subscribe"
  BY <1>1, <1>2, <1>3
<1>5. CASE Asked("server") \/ DefaultsSaid
  <2>1. Asked("server")' \/ DefaultsSaid'
    BY <1>5, PaAnswered
  <2> QED  BY <1>4, <2>1 DEF PaSubscribing
<1>6. CASE \E j, k \in 1..Len(paAsked) : j > i /\ k > i /\ paAsked[j].kind = "sinks" /\ paAsked[k].kind = "sources"
  <2>1. PICK j, k \in 1..Len(paAsked) : j > i /\ k > i /\ paAsked[j].kind = "sinks" /\ paAsked[k].kind = "sources"
    BY <1>6
  <2>2. /\ j - 1 \in 1..Len(paAsked') /\ k - 1 \in 1..Len(paAsked') /\ j - 1 > i - 1 /\ k - 1 > i - 1
        /\ paAsked'[j - 1].kind = "sinks" /\ paAsked'[k - 1].kind = "sources"
    BY <1>2, <1>3, <2>1
  <2> QED  BY <1>4, <2>2 DEF PaSubscribing
<1> QED  BY <1>1, <1>5, <1>6

\* An answer that leaves all known makes the step keep the invariant.
LEMMA AnswerKeeps ==
  ASSUME PaInv, paAsked # <<>>, NEW r, r = Head(paAsked), paAsked' = Tail(paAsked), NEW y \in Seq(PaMsgs), paSaid' = paSaid \o y,
         UNCHANGED <<paConfig, paState, backend, paView, paMissed>>, paSubscribed' = (paSubscribed \/ r.kind = "subscribe"),
         r.kind = "server" => DefaultsSaid', pulse' \in PulseStates, PaSays(y)
  PROVE  PaInv'
<1>1. PaTypes /\ PaKnown /\ PaReads /\ PaShows /\ PaQueueTypes
  BY DEF PaInv, PaTypes
<1>2. PaTypes'
  <2>1. PaServerTypes'
    BY <1>1 DEF PaTypes, PaServerTypes
  <2>2. PaQueueTypes'
    BY <1>1, PaAnswered
  <2>3. PaBackendTypes'
    BY <1>1 DEF PaTypes, PaBackendTypes, Mapped
  <2>4. PaViewTypes'
    BY <1>1 DEF PaTypes, PaViewTypes, MainFree, Nothing, paView
  <2> QED  BY <2>1, <2>2, <2>3, <2>4 DEF PaTypes
<1>3. /\ PaDefaults' /\ PaChosen' /\ PaSinkKnown' /\ PaSourceKnown' /\ (PaMoving => PaMoving')
      /\ PaFollows' = PaFollows
  BY <1>1, <1>2, KnownGrows DEF PaKnown
<1>4. PaSubscribing'
  BY <1>1, SubscribingAnswered DEF PaKnown
<1>5. PaReads' /\ PaShows'
  BY <1>1, <1>3, PaShowsKeeps DEF paView
<1> QED  BY <1>2, <1>3, <1>4, <1>5 DEF PaInv, PaKnown

LEMMA SeqOfLarger ==
  ASSUME NEW S, NEW T, S \subseteq T, NEW q \in Seq(S)
  PROVE  q \in Seq(T) /\ \A i \in 1..Len(q) : q[i] \in S
<1>1. Len(q) \in Nat /\ q \in [1..Len(q) -> S]
  OBVIOUS
<1>2. q \in [1..Len(q) -> T]
  BY <1>1
<1> QED  BY <1>1, <1>2

\* The answer about a set of nodes has one info of each.
LEMMA InfosAnswer ==
  ASSUME PaTypes, NEW N \in {PaSink, PaSource}, NEW y, y = SetToSeq({InfoOf(pulse, s) : s \in N})
  PROVE  /\ y \in Seq(PaMsgs) /\ Silent(y, DefaultsMsgs)
         /\ \A m \in N : LastIs(y, InfosOf(m), InfoOf(pulse, m))
         /\ \A m \in PaNodes \ N : Silent(y, InfosOf(m))
<1> DEFINE I == {InfoOf(pulse, s) : s \in N}
<1>1. IsFiniteSet(I)
  <2> DEFINE f == [s \in N |-> InfoOf(pulse, s)]
  <2>1. IsFiniteSet(N)
    BY PaAssumption
  <2>2. f \in Surjection(N, I)
    BY DEF Surjection
  <2> HIDE DEF f, I
  <2> QED  BY <2>1, <2>2, FS_Surjection
<1>2. N \subseteq PaNodes
  BY DEF PaNodes
<1>3. \A s \in N : InfoOf(pulse, s) \in PaMsgs /\ InfoOf(pulse, s).kind = "info" /\ InfoOf(pulse, s).of = s
  BY <1>2, InfoIsMsg DEF PaTypes, PaServerTypes, InfosOf
<1>4. y \in Seq(I) /\ ToSet(y) = I
  <2> HIDE DEF I
  <2> QED  BY <1>1, SetToSeqElements DEF I
<1>5. I \subseteq PaMsgs
  BY <1>3
<1>6. y \in Seq(PaMsgs) /\ \A i \in 1..Len(y) : y[i] \in I
  <2> HIDE DEF I
  <2> QED  BY <1>4, <1>5, SeqOfLarger
<1>7. Silent(y, DefaultsMsgs)
  BY <1>3, <1>6 DEF Silent, DefaultsMsgs
<1>8. ASSUME NEW m \in PaNodes \ N PROVE Silent(y, InfosOf(m))
  BY <1>3, <1>6, <1>8 DEF Silent, InfosOf
<1>9. ASSUME NEW m \in N PROVE LastIs(y, InfosOf(m), InfoOf(pulse, m))
  <2>1. PICK i \in 1..Len(y) : y[i] = InfoOf(pulse, m)
    <3>1. InfoOf(pulse, m) \in ToSet(y) /\ DOMAIN y = 1..Len(y)
      BY <1>4, <1>6
    <3> QED  BY <3>1 DEF ToSet
  <2>2. \A j \in 1..Len(y) : y[j] \in InfosOf(m) => y[j] = InfoOf(pulse, m)
    BY <1>3, <1>6 DEF InfosOf
  <2> QED  BY <2>1, <2>2 DEF LastIs
<1> QED  BY <1>6, <1>7, <1>8, <1>9

LEMMA PulseAnswersKeeps ==
  ASSUME PaInv, PulseAnswers
  PROVE  PaInv'
<1> DEFINE r == Head(paAsked)
           answer == CASE r.kind = "server" -> <<DefaultsOf(pulse)>>
                       [] r.kind = "info" -> <<InfoOf(pulse, r.of)>>
                       [] r.kind = "sinks" -> SetToSeq({InfoOf(pulse, s) : s \in PaSink})
                       [] r.kind = "sources" -> SetToSeq({InfoOf(pulse, s) : s \in PaSource})
                       [] OTHER -> <<>>
           next == CASE r.kind = "volume" -> [pulse EXCEPT !.volume[r.of] = r.to]
                     [] r.kind = "mute" -> [pulse EXCEPT !.muted = @ \ {r.of}]
                     [] OTHER -> pulse
           event == IF next # pulse THEN Event(r.of) ELSE <<>>
           done == IF r.kind = "volume" THEN <<[kind |-> "modified"]>> ELSE <<>>
<1>1. PaTypes /\ PaQueueTypes /\ PaKnown /\ pulse \in PulseStates
  BY DEF PaInv, PaTypes, PaServerTypes
<1>2. /\ paAsked # <<>> /\ paState = "ready" /\ pulse' = next /\ paSaid' = paSaid \o answer \o event \o done
      /\ paSubscribed' = (paSubscribed \/ r.kind = "subscribe") /\ paAsked' = Tail(paAsked)
      /\ UNCHANGED <<paConfig, paState, backend, paView, paMissed>>
  BY DEF PulseAnswers, DefaultsOf, paPast
<1>3. r \in PaRequests /\ r = Head(paAsked)
  BY <1>1, <1>2, ToSetOfTail DEF PaQueueTypes
<1>4. paSaid \in Seq(PaMsgs)
  BY <1>1 DEF PaQueueTypes
<1>5. CASE r.kind \notin {"volume", "mute"}
  <2>1. next = pulse /\ event = <<>> /\ done = <<>>
    BY <1>5
  <2>2. answer \in Seq(PaMsgs) => paSaid' = paSaid \o answer
    <3> HIDE DEF answer
    <3>1. answer \in Seq(PaMsgs) => paSaid \o answer \o <<>> \o <<>> = paSaid \o answer
      BY <1>4
    <3> QED  BY <1>2, <2>1, <3>1
  <2>3. /\ answer \in Seq(PaMsgs)
        /\ Silent(answer, DefaultsMsgs) \/ LastIs(answer, DefaultsMsgs, DefaultsOf(pulse))
        /\ \A m \in PaNodes : Silent(answer, InfosOf(m)) \/ LastIs(answer, InfosOf(m), InfoOf(pulse, m))
        /\ r.kind = "server" => LastIs(answer, DefaultsMsgs, DefaultsOf(pulse)) /\ DefaultsOf(pulse) \in ToSet(answer)
        /\ \A m \in PaNodes : r.kind = (IF m \in PaSink THEN "sinks" ELSE "sources") \/ (r.kind = "info" /\ r.of = m) =>
             LastIs(answer, InfosOf(m), InfoOf(pulse, m))
    <3>1. CASE r.kind = "server"
      <4>1. answer = <<DefaultsOf(pulse)>>
        BY <3>1
      <4>2. DefaultsOf(pulse) \in PaMsgs /\ \A m : DefaultsOf(pulse) \notin InfosOf(m)
        BY <1>1, InfosAreMsgs DEF PaTypes, InfosOf, DefaultsMsgs
      <4> DEFINE d == DefaultsOf(pulse)
      <4> HIDE DEF d
      <4>3. <<d>> \in Seq(PaMsgs) /\ LastIs(<<d>>, DefaultsMsgs, d) /\ d \in ToSet(<<d>>) /\ \A m : Silent(<<d>>, InfosOf(m))
        BY <4>2, ToSetOfOne DEF d
      <4> HIDE DEF answer, r
      <4> QED  BY <3>1, <4>1, <4>3 DEF d
    <3>2. CASE r.kind = "info"
      <4>1. answer = <<InfoOf(pulse, r.of)>> /\ r.of \in PaNodes
        BY <1>3, <3>2 DEF PaRequests
      <4> DEFINE d == InfoOf(pulse, r.of)
      <4>2. d \in PaMsgs /\ d \notin DefaultsMsgs /\ \A m \in PaNodes : m # r.of => d \notin InfosOf(m)
        BY <1>1, <4>1, InfoIsMsg DEF InfosOf, DefaultsMsgs
      <4> HIDE DEF d
      <4>3. <<d>> \in Seq(PaMsgs) /\ Silent(<<d>>, DefaultsMsgs) /\ (\A m \in PaNodes : m # r.of => Silent(<<d>>, InfosOf(m)))
            /\ LastIs(<<d>>, InfosOf(r.of), d)
        BY <4>2, ToSetOfOne
      <4>4. answer = <<d>> /\ d = InfoOf(pulse, r.of)
        BY <4>1 DEF d
      <4> HIDE DEF answer, r
      <4> QED  BY <3>2, <4>1, <4>3, <4>4
    <3>3. CASE r.kind = "sinks"
      <4>1. answer = SetToSeq({InfoOf(pulse, s) : s \in PaSink})
        BY <3>3
      <4> HIDE DEF answer, r
      <4>2. /\ answer \in Seq(PaMsgs) /\ Silent(answer, DefaultsMsgs)
            /\ \A m \in PaSink : LastIs(answer, InfosOf(m), InfoOf(pulse, m))
            /\ \A m \in PaNodes \ PaSink : Silent(answer, InfosOf(m))
        BY <1>1, <4>1, InfosAnswer
      <4> QED  BY <3>3, <4>2
    <3>4. CASE r.kind = "sources"
      <4>1. answer = SetToSeq({InfoOf(pulse, s) : s \in PaSource})
        BY <3>4
      <4> HIDE DEF answer, r
      <4>2. /\ answer \in Seq(PaMsgs) /\ Silent(answer, DefaultsMsgs)
            /\ \A m \in PaSource : LastIs(answer, InfosOf(m), InfoOf(pulse, m))
            /\ \A m \in PaNodes \ PaSource : Silent(answer, InfosOf(m))
        BY <1>1, <4>1, InfosAnswer
      <4>3. \A m \in PaNodes : m \in PaSink \/ m \in PaSource
        BY DEF PaNodes
      <4> QED  BY <3>4, <4>2, <4>3
    <3>5. CASE r.kind = "subscribe"
      <4>1. answer = <<>>
        BY <3>5
      <4> HIDE DEF answer, r
      <4> QED  BY <3>5, <4>1, NothingIsSilent
    <3>6. r.kind \in {"server", "info", "sinks", "sources", "subscribe"}
      BY <1>3, <1>5 DEF PaRequests
    <3> HIDE DEF answer, r
    <3> QED  BY <3>1, <3>2, <3>3, <3>4, <3>5, <3>6
  <2>4. pulse' = pulse /\ paSaid' = paSaid \o answer
    BY <1>2, <2>1, <2>2, <2>3
  <2> HIDE DEF answer, r, next, event, done
  <2>5. /\ ServerDue => ServerDue' \/ r.kind = "server"
        /\ \A n : PaDue(n) => PaDue(n)' \/ r.kind \in {"server", IF n \in PaSink THEN "sinks" ELSE "sources"} \/ (r.kind = "info" /\ r.of = n)
        /\ PaSetting => PaSetting' \/ r.kind = "volume"
        /\ ToSet(paSaid)' = ToSet(paSaid) \cup ToSet(answer)
    BY <1>1, <1>2, <1>3, <2>3, <2>4, PaAnswered
  <2>6. r.kind = "server" => DefaultsSaid'
    <3>1. DefaultsOf(pulse).kind = "defaults"
      BY DEF DefaultsOf
    <3> QED  BY <2>3, <2>5, <3>1 DEF DefaultsSaid
  <2>7. r.kind = "server" => \A m : PaDue(m)'
    BY <2>6 DEF PaDue
  <2>8. PaSays(answer)
    <3>1. \A m \in PaNodes : PaDue(m) => PaDue(m)' \/ LastIs(answer, InfosOf(m), InfoOf(pulse', m))
      BY <2>3, <2>4, <2>5, <2>7
    <3>2. ServerDue => ServerDue' \/ LastIs(answer, DefaultsMsgs, DefaultsOf(pulse'))
      BY <2>3, <2>4, <2>5
    <3>3. PaSetting => PaSetting'
      BY <1>5, <2>5
    <3> QED  BY <1>2, <2>3, <2>4, <3>1, <3>2, <3>3 DEF PaSays
  <2> QED  BY <1>1, <1>2, <1>3, <2>3, <2>4, <2>6, <2>8, AnswerKeeps
<1>6. CASE r.kind \in {"volume", "mute"}
  <2> DEFINE y == event \o done
  <2>1. r.of \in PaNodes /\ (r.kind = "volume" => r.to \in 0..MaxVolume)
    BY <1>3, <1>6 DEF PaRequests
  <2>2. OneChanges(r.of, next)
    <3>1. CASE r.kind = "volume"
      <4>1. next = [pulse EXCEPT !.volume[r.of] = r.to]
        BY <3>1
      <4> HIDE DEF r, next
      <4> QED  BY <2>1, <3>1, <4>1 DEF OneChanges
    <3>2. CASE r.kind = "mute"
      <4>1. next = [pulse EXCEPT !.muted = @ \ {r.of}]
        BY <3>2
      <4> HIDE DEF r, next
      <4> QED  BY <3>2, <4>1 DEF OneChanges
    <3> HIDE DEF r, next
    <3> QED  BY <1>6, <3>1, <3>2
  <2>3. /\ pulse' \in PulseStates /\ pulse'.default = pulse.default /\ pulse'.source = pulse.source
        /\ \A m \in PaNodes : m # r.of => InfoOf(pulse', m) = InfoOf(pulse, m) /\ pulse'.volume[m] = pulse.volume[m]
                                          /\ (m \in pulse'.muted <=> m \in pulse.muted)
    <3> HIDE DEF r, next
    <3> QED  BY <1>1, <1>2, <2>1, <2>2, OthersStay
  <2>4. done \in Seq(PaMsgs) /\ Silent(done, DefaultsMsgs) /\ (\A m : Silent(done, InfosOf(m)))
        /\ (r.kind = "volume" => \E m \in ToSet(done) : m.kind = "modified")
    <3> DEFINE d == [kind |-> "modified"]
    <3>1. d \in PaMsgs /\ d.kind = "modified"
      BY DEF PaMsgs
    <3>2. done = IF r.kind = "volume" THEN <<d>> ELSE <<>>
      OBVIOUS
    <3> HIDE DEF d, done, r
    <3>3. <<d>> \in Seq(PaMsgs) /\ Silent(<<d>>, DefaultsMsgs) /\ (\A m : Silent(<<d>>, InfosOf(m))) /\ d \in ToSet(<<d>>)
      BY <3>1, ToSetOfOne DEF DefaultsMsgs, InfosOf
    <3> QED  BY <3>1, <3>2, <3>3, NothingIsSilent
  <2>5. event \in Seq(PaMsgs) /\ Silent(event, DefaultsMsgs) /\ (\A m : Silent(event, InfosOf(m)))
    <3> HIDE DEF r, next
    <3> QED  BY <2>1, EventIsNoAnswer, NothingIsSilent
  <2>6. answer = <<>>
    BY <1>6
  <2> HIDE DEF answer, r, next, done
  <2>7. paSaid' = paSaid \o y /\ y \in Seq(PaMsgs)
    <3> HIDE DEF event
    <3>1. paSaid \o <<>> \o event \o done = paSaid \o (event \o done)
      BY <1>4, <2>4, <2>5
    <3> QED  BY <1>2, <2>4, <2>5, <2>6, <3>1
  <2>8. next # pulse => paSaid' = paSaid \o (Event(r.of) \o done)
    BY <2>7
  <2> HIDE DEF event
  <2>9. Silent(y, DefaultsMsgs) /\ (\A m : Silent(y, InfosOf(m))) /\ ToSet(y) = ToSet(event) \cup ToSet(done)
    <3>1. \A T : Silent(event, T) /\ Silent(done, T) => Silent(event \o done, T)
      BY <2>4, <2>5, LastOfConcat
    <3>2. ToSet(event \o done) = ToSet(event) \cup ToSet(done)
      BY <2>4, <2>5, ToSetOfConcat
    <3> QED  BY <2>4, <2>5, <3>1, <3>2
  <2> HIDE DEF y
  <2>10. /\ ServerDue => ServerDue' \/ r.kind = "server"
         /\ \A n : PaDue(n) => PaDue(n)' \/ r.kind \in {"server", IF n \in PaSink THEN "sinks" ELSE "sources"} \/ (r.kind = "info" /\ r.of = n)
         /\ PaSetting => PaSetting' \/ r.kind = "volume"
         /\ ToSet(paSaid)' = ToSet(paSaid) \cup ToSet(y)
    BY <1>1, <1>2, <1>3, <2>7, PaAnswered
  <2>11. (\A n : PaDue(n) => PaDue(n)') /\ (ServerDue => ServerDue')
    BY <1>6, <2>10
  <2>12. PaSetting => PaSetting'
    <3>1. r.kind = "volume" => PaSetting'
      BY <2>4, <2>9, <2>10 DEF PaSetting
    <3> QED  BY <2>10, <3>1
  <2>13. PICK n \in PaNodes : n = r.of
    BY <2>1
  <2>14. next # pulse => PaDue(n)'
    <3>1. CASE next # pulse /\ paSubscribed
      <4>1. ChangedSaid(n)'
        BY <1>1, <2>13, <2>4, <2>8, <3>1, EventIsSaid
      <4> QED  BY <4>1 DEF PaDue
    <3>2. CASE ~paSubscribed
      BY <1>1, <1>2, <2>11, <3>2, AllDue DEF PaKnown
    <3> QED  BY <3>1, <3>2
  <2>15. \A m \in PaNodes :
           \/ PaDue(m)'
           \/ /\ InfoOf(pulse', m) = InfoOf(pulse, m) /\ pulse'.volume[m] = pulse.volume[m]
              /\ (m \in pulse'.muted) = (m \in pulse.muted)
    <3> TAKE m \in PaNodes
    <3>1. CASE m = n /\ next = pulse
      BY <1>2, <3>1
    <3>2. CASE m = n /\ next # pulse
      BY <2>14, <3>2
    <3>3. CASE m # n
      <4>1. (m \in pulse'.muted) = (m \in pulse.muted)
        BY <2>13, <2>3, <3>3
      <4> QED  BY <2>13, <2>3, <3>3, <4>1
    <3> QED  BY <3>1, <3>2, <3>3
  <2>16. PaSays(y)
    BY <1>2, <2>3, <2>9, <2>11, <2>12, <2>15 DEF PaSays
  <2>17. r.kind # "server"
    BY <1>6
  <2> QED  BY <1>1, <1>2, <1>3, <2>3, <2>7, <2>16, <2>17, AnswerKeeps
<1> HIDE DEF r
<1> QED  BY <1>5, <1>6

LEMMA ConcatShape ==
  ASSUME NEW S, NEW q \in Seq(S), NEW p \in Seq(S), NEW c, c = q \o p
  PROVE  Len(q) \in Nat /\ Len(c) = Len(q) + Len(p) /\ \A i \in 1..Len(p) : c[Len(q) + i] = p[i]
OBVIOUS

\* sinkInfoCb() takes what it is told of the sink that the default is mapped to, and skips the rest.
LEMMA SinkInfoTakes ==
  ASSUME PaBackendTypes, paConfig \in PaConfigs, NEW i \in PaMsgs, i.kind = "info", i.of \in PaSink, NEW b, b = SinkInfo(backend, i)
  PROVE  /\ b \in [current : PaSink, default : PaSink, source : PaSource, running : BOOLEAN, idx : PaSink,
                   volume : 0..MaxVolume, muted : BOOLEAN, sourceVolume : 0..MaxVolume]
         /\ b.current \in {b.default, Mapped(b.default)}
         /\ b.default = backend.default /\ b.source = backend.source /\ b.sourceVolume = backend.sourceVolume
         /\ i.of \in paConfig.ignored \/ i.of # Mapped(backend.default) =>
              SkipsSink(backend, i) /\ b.idx = backend.idx /\ b.volume = backend.volume /\ b.muted = backend.muted
         /\ i.of \notin paConfig.ignored /\ i.of = Mapped(backend.default) =>
              ~SkipsSink(backend, i) /\ b.idx = i.of /\ b.volume = i.volume /\ b.muted = i.muted
<1> DEFINE B == [current : PaSink, default : PaSink, source : PaSource, running : BOOLEAN, idx : PaSink,
                 volume : 0..MaxVolume, muted : BOOLEAN, sourceVolume : 0..MaxVolume]
           c == Current(backend, i)
           mapped == backend.default \in DOMAIN paConfig.mapping
<1>1. /\ backend \in B /\ backend.current \in {backend.default, Mapped(backend.default)}
      /\ i.volume \in 0..MaxVolume /\ i.muted \in BOOLEAN /\ i.running \in BOOLEAN
  BY DEF PaBackendTypes, PaMsgs
<1>2. ~mapped => Mapped(backend.default) = backend.default /\ backend.current = backend.default
  BY <1>1 DEF Mapped
<1>3. SkipsSink(backend, i) <=> i.of \in paConfig.ignored \/ i.of # Mapped(backend.default)
  <2>1. CASE mapped
    BY <2>1 DEF SkipsSink
  <2>2. CASE ~mapped
    BY <1>2, <2>2 DEF SkipsSink
  <2> QED  BY <2>1, <2>2
<1>4. CASE i.of \in paConfig.ignored
  <2> DEFINE v == backend.running /\ i.of # backend.current
  <2>1. v \in BOOLEAN
    OBVIOUS
  <2>2. b = [backend EXCEPT !.running = v]
    BY <1>4 DEF SinkInfo
  <2> HIDE DEF v
  <2> QED  BY <1>1, <1>3, <1>4, <2>1, <2>2
<1>5. CASE i.of \notin paConfig.ignored /\ i.of # Mapped(backend.default)
  <2>1. c = backend
    <3>1. CASE mapped
      BY <1>5, <3>1 DEF Current
    <3>2. CASE ~mapped
      BY <1>2, <1>5, <3>2 DEF Current
    <3> QED  BY <3>1, <3>2
  <2>2. b = backend
    BY <1>3, <1>5, <2>1 DEF SinkInfo
  <2> QED  BY <1>1, <1>3, <1>5, <2>2
<1>6. CASE i.of \notin paConfig.ignored /\ i.of = Mapped(backend.default)
  <2>1. \E v \in BOOLEAN : c = [backend EXCEPT !.current = i.of, !.running = v]
    <3>1. CASE mapped
      <4>1. c = [backend EXCEPT !.current = i.of, !.running = i.running]
        BY <1>6, <3>1 DEF Current
      <4> QED  BY <1>1, <4>1
    <3>2. CASE ~mapped
      <4>1. backend.current = i.of /\ i.of = backend.default
        BY <1>2, <1>6, <3>2
      <4>2. c = IF ~i.running /\ i.running THEN [backend EXCEPT !.current = i.of, !.running = TRUE]
                ELSE [backend EXCEPT !.running = i.running]
        BY <3>2, <4>1 DEF Current
      <4>3. c = [backend EXCEPT !.running = i.running]
        BY <1>1, <4>2
      <4>4. c = [backend EXCEPT !.current = i.of, !.running = i.running]
        BY <1>1, <4>1, <4>3
      <4> QED  BY <1>1, <4>4
    <3> QED  BY <3>1, <3>2
  <2>2. PICK v \in BOOLEAN : c = [backend EXCEPT !.current = i.of, !.running = v]
    BY <2>1
  <2> HIDE DEF c
  <2>3. c \in B /\ c.current = i.of /\ c.default = backend.default /\ c.source = backend.source
        /\ c.sourceVolume = backend.sourceVolume
    BY <1>1, <2>2
  <2>4. b = [c EXCEPT !.idx = i.of, !.volume = i.volume, !.muted = i.muted]
    BY <1>3, <1>6, <2>3 DEF SinkInfo, c
  <2> QED  BY <1>1, <1>3, <1>6, <2>3, <2>4
<1> QED  BY <1>4, <1>5, <1>6

\* The first thing said is taken: the others wait.
LEMMA PaHeard ==
  ASSUME PaQueueTypes, paSaid # <<>>, NEW m, m = Head(paSaid), paSaid' = Tail(paSaid), NEW x \in Seq(PaRequests), paAsked' = paAsked \o x
  PROVE  /\ m \in PaMsgs /\ PaQueueTypes' /\ ToSet(paSaid) = {m} \cup ToSet(paSaid)' /\ ToSet(paAsked)' = ToSet(paAsked) \cup ToSet(x)
         /\ Asked("server") => Asked("server")'
         /\ DefaultsSaid => DefaultsSaid' \/ m.kind = "defaults"
         /\ ServerDue => ServerDue' \/ (m.kind = "changed" /\ m.of = "server")
         /\ \A n : PaDue(n) => PaDue(n)' \/ m.kind = "defaults" \/ (m.kind = "changed" /\ m.of \in {n, "server"})
         /\ PaSetting => PaSetting' \/ m.kind = "modified"
<1>1. paAsked \in Seq(PaRequests) /\ paSaid \in Seq(PaMsgs)
  BY DEF PaQueueTypes
<1>2. m \in PaMsgs /\ paSaid' \in Seq(PaMsgs) /\ ToSet(paSaid) = {m} \cup ToSet(paSaid)'
  BY <1>1, ToSetOfTail
<1>3. ToSet(paAsked)' = ToSet(paAsked) \cup ToSet(x) /\ paAsked' \in Seq(PaRequests)
  BY <1>1, ToSetOfConcat
<1>4. \A k : Asked(k) => Asked(k)'
  BY <1>3 DEF Asked
<1>5. \A n : ChangedSaid(n) => ChangedSaid(n)' \/ (m.kind = "changed" /\ m.of = n)
  BY <1>2 DEF ChangedSaid
<1>6. DefaultsSaid => DefaultsSaid' \/ m.kind = "defaults"
  BY <1>2 DEF DefaultsSaid
<1>7. ServerDue => ServerDue' \/ (m.kind = "changed" /\ m.of = "server")
  BY <1>4, <1>5 DEF ServerDue
<1>8. \A n : PaDue(n) => PaDue(n)' \/ m.kind = "defaults" \/ (m.kind = "changed" /\ m.of \in {n, "server"})
  <2> TAKE n
  <2> DEFINE k == IF n \in PaSink THEN "sinks" ELSE "sources"
  <2>1. (\E q \in ToSet(paAsked) : q.kind = "info" /\ q.of = n) => (\E q \in ToSet(paAsked)' : q.kind = "info" /\ q.of = n)
    BY <1>3
  <2>2. Asked(k) => Asked(k)'
    BY <1>4
  <2> QED  BY <1>5, <1>6, <1>7, <2>1, <2>2 DEF PaDue
<1>9. PaSetting => PaSetting' \/ m.kind = "modified"
  BY <1>2, <1>4 DEF PaSetting
<1> QED  BY <1>2, <1>3, <1>4, <1>6, <1>7, <1>8, <1>9 DEF PaQueueTypes

LEMMA TwoAreAsked ==
  ASSUME PaQueueTypes, NEW x \in Seq(PaRequests), paAsked' = paAsked \o x
  PROVE  Len(x) = 2 =>
         /\ Len(paAsked) \in Nat /\ Len(paAsked') = Len(paAsked) + 2
         /\ paAsked'[Len(paAsked) + 1] = x[1] /\ paAsked'[Len(paAsked) + 2] = x[2]
<1>1. Len(paAsked) \in Nat /\ Len(paAsked') = Len(paAsked) + Len(x) /\ \A i \in 1..Len(x) : paAsked'[Len(paAsked) + i] = x[i]
  BY ConcatShape DEF PaQueueTypes
<1>2. Len(x) = 2 => 1 \in 1..Len(x) /\ 2 \in 1..Len(x)
  OBVIOUS
<1> QED  BY <1>1, <1>2

LEMMA SubscribingHeard ==
  ASSUME PaQueueTypes, paSaid # <<>>, NEW m, m = Head(paSaid), paSaid' = Tail(paSaid), NEW x \in Seq(PaRequests), paAsked' = paAsked \o x,
         UNCHANGED <<paState, paSubscribed>>, PaSubscribing,
         m.kind = "defaults" => Len(x) = 2 /\ x[1].kind = "sinks" /\ x[2].kind = "sources"
  PROVE  PaSubscribing'
<1> SUFFICES ASSUME paState = "ready", ~paSubscribed
             PROVE  PaSubscribing'
  BY DEF PaSubscribing
<1>1. PICK i \in 1..Len(paAsked) :
        /\ paAsked[i].kind = "subscribe"
        /\ \/ Asked("server")
           \/ DefaultsSaid
           \/ \E j, k \in 1..Len(paAsked) : j > i /\ k > i /\ paAsked[j].kind = "sinks" /\ paAsked[k].kind = "sources"
  BY DEF PaSubscribing
<1>2. \A j \in 1..Len(paAsked) : j \in 1..Len(paAsked') /\ paAsked'[j] = paAsked[j]
  BY DEF PaQueueTypes
<1>3. (Asked("server") => Asked("server")') /\ (DefaultsSaid => DefaultsSaid' \/ m.kind = "defaults")
  BY PaHeard
<1>4. CASE m.kind = "defaults"
  <2> DEFINE n == Len(paAsked)
  <2>1. n \in Nat /\ Len(paAsked') = n + 2 /\ paAsked'[n + 1] = x[1] /\ paAsked'[n + 2] = x[2] /\ i <= n /\ i \in Nat
    <3>1. n \in Nat /\ Len(paAsked') = n + 2 /\ paAsked'[n + 1] = x[1] /\ paAsked'[n + 2] = x[2]
      BY <1>4, TwoAreAsked
    <3> QED  BY <3>1
  <2> HIDE DEF n
  <2>2. n + 1 \in 1..Len(paAsked') /\ n + 2 \in 1..Len(paAsked') /\ n + 1 > i /\ n + 2 > i
    BY <2>1
  <2>3. paAsked'[n + 1].kind = "sinks" /\ paAsked'[n + 2].kind = "sources"
    BY <1>4, <2>1
  <2>4. i \in 1..Len(paAsked') /\ paAsked'[i].kind = "subscribe"
    BY <1>1, <1>2
  <2> QED  BY <2>2, <2>3, <2>4 DEF PaSubscribing
<1>5. CASE m.kind # "defaults"
  BY <1>1, <1>2, <1>3, <1>5 DEF PaSubscribing
<1> QED  BY <1>4, <1>5

\* Callbacks that leave the defaults what they are: what m says of the sink and the source is taken
\* unless they are due.
PaHears(m) ==
  /\ UNCHANGED <<paConfig, paState, paMissed, pulse>>
  /\ backend'.default = backend.default /\ backend'.source = backend.source
  /\ m \notin DefaultsMsgs
  /\ ServerDue => ServerDue'
  /\ \A n \in PaNodes : PaDue(n) => PaDue(n)'
  /\ PaFollows /\ ~PaDue(PaCurrent) =>
       IF m \in InfosOf(PaCurrent)
       THEN paDp' /\ backend'.idx = PaCurrent /\ backend'.volume = m.volume /\ backend'.muted = m.muted
       ELSE backend'.idx = backend.idx /\ backend'.volume = backend.volume /\ backend'.muted = backend.muted
  /\ PaFollows /\ PaSetting => PaMoving'
  /\ PaLive /\ ~PaDue(pulse.source) =>
       backend'.sourceVolume = IF m \in InfosOf(pulse.source) THEN m.volume ELSE backend.sourceVolume

LEMMA KnownHeard ==
  ASSUME PaTypes, PaTypes', PaDefaults, PaChosen, PaSinkKnown, PaSourceKnown, paSaid # <<>>, NEW m, m = Head(paSaid),
         paSaid' = Tail(paSaid), PaHears(m)
  PROVE  /\ PaDefaults' /\ PaChosen' /\ PaSinkKnown' /\ PaSourceKnown' /\ (PaFollows /\ PaMoving => PaMoving' \/ paDp')
         /\ PaFollows' = PaFollows
<1>1. paSaid \in Seq(PaMsgs) /\ paSaid' \in Seq(PaMsgs)
  BY DEF PaTypes, PaQueueTypes
<1>2. PaCurrent' = PaCurrent /\ PaCurrent \in PaNodes /\ pulse.source \in PaNodes /\ pulse' = pulse
  <2>1. PaCurrent' = PaCurrent /\ pulse' = pulse
    BY DEF PaCurrent, Mapped, PaHears
  <2> QED  BY <2>1, InfosAreMsgs DEF PaTypes
<1>3. PaLive' = PaLive /\ PaFollows' = PaFollows
  BY <1>2 DEF PaLive, PaFollows, PaHears
<1>4. \A T, x : /\ LastIs(paSaid, T, x) => LastIs(paSaid', T, x) \/ (m = x /\ Silent(paSaid', T))
                /\ Silent(paSaid, T) => m \notin T /\ Silent(paSaid', T)
                /\ Silent(paSaid', T) => Silent(paSaid, T) \/ m \in T
  <2> TAKE T, x
  <2> QED  BY <1>1, LastOfTail
<1>5. InfoOf(pulse, PaCurrent)' = InfoOf(pulse, PaCurrent) /\ InfoOf(pulse, pulse.source)' = InfoOf(pulse, pulse.source)
      /\ DefaultsOf(pulse)' = DefaultsOf(pulse)
  BY <1>2 DEF InfoOf, DefaultsOf
<1>6. InfosOf(PaCurrent)' = InfosOf(PaCurrent) /\ InfosOf(pulse.source)' = InfosOf(pulse.source) /\ DefaultsMsgs' = DefaultsMsgs
  BY <1>2 DEF InfosOf, DefaultsMsgs
<1>7. (PaDue(PaCurrent) => PaDue(PaCurrent)') /\ (PaDue(pulse.source) => PaDue(pulse.source)')
  BY <1>2 DEF PaHears
<1>8. PaDefaults'
  <2> SUFFICES ASSUME PaLive PROVE PaDefaults'
    BY <1>3 DEF PaDefaults
  <2>1. CASE ServerDue
    BY <2>1 DEF PaDefaults, PaHears
  <2>2. CASE LastIs(paSaid, DefaultsMsgs, DefaultsOf(pulse))
    <3>1. DefaultsOf(pulse) \in DefaultsMsgs
      BY InfosAreMsgs DEF PaTypes
    <3>2. LastIs(paSaid', DefaultsMsgs, DefaultsOf(pulse))
      BY <1>4, <2>2, <3>1 DEF PaHears
    <3> QED  BY <1>5, <1>6, <3>2 DEF PaDefaults
  <2>3. CASE Silent(paSaid, DefaultsMsgs) /\ backend.default = pulse.default /\ backend.source = pulse.source
    <3>1. Silent(paSaid', DefaultsMsgs)
      BY <1>4, <2>3
    <3>2. backend'.default = pulse'.default /\ backend'.source = pulse'.source
      BY <1>2, <2>3 DEF PaHears
    <3> QED  BY <1>6, <3>1, <3>2 DEF PaDefaults
  <2> QED  BY <2>1, <2>2, <2>3 DEF PaDefaults
<1>9. PaChosen'
  <2> SUFFICES ASSUME PaFollows, ~PaDue(PaCurrent), Silent(paSaid', InfosOf(PaCurrent)) PROVE backend'.idx = PaCurrent'
    BY <1>3, <1>6, <1>7 DEF PaChosen
  <2>1. CASE m \in InfosOf(PaCurrent)
    BY <1>2, <2>1 DEF PaHears
  <2>2. CASE m \notin InfosOf(PaCurrent)
    <3>1. Silent(paSaid, InfosOf(PaCurrent))
      BY <1>4, <2>2
    <3> QED  BY <1>2, <2>2, <3>1 DEF PaHears, PaChosen
  <2> QED  BY <2>1, <2>2
<1>10. PaSinkKnown'
  <2> SUFFICES ASSUME PaFollows, ~PaDue(PaCurrent), ~LastIs(paSaid', InfosOf(PaCurrent), InfoOf(pulse, PaCurrent))
               PROVE  \/ PaDue(PaCurrent)'
                      \/ /\ Silent(paSaid', InfosOf(PaCurrent)) /\ backend'.volume = pulse.volume[PaCurrent]
                         /\ PaSetting' \/ backend'.muted = (PaCurrent \in pulse.muted)
    BY <1>2, <1>3, <1>5, <1>6, <1>7 DEF PaSinkKnown
  <2>1. CASE LastIs(paSaid, InfosOf(PaCurrent), InfoOf(pulse, PaCurrent))
    <3>1. m = InfoOf(pulse, PaCurrent) /\ Silent(paSaid', InfosOf(PaCurrent))
      BY <1>4, <2>1
    <3>2. m \in InfosOf(PaCurrent)
      BY <1>2, <3>1, InfosAreMsgs DEF PaTypes
    <3>3. backend'.volume = m.volume /\ backend'.muted = m.muted
      BY <3>2 DEF PaHears
    <3>4. m.volume = pulse.volume[PaCurrent] /\ m.muted = (PaCurrent \in pulse.muted)
      BY <3>1 DEF InfoOf
    <3> QED  BY <3>1, <3>3, <3>4
  <2>2. CASE /\ Silent(paSaid, InfosOf(PaCurrent)) /\ backend.volume = pulse.volume[PaCurrent]
             /\ PaSetting \/ backend.muted = (PaCurrent \in pulse.muted)
    <3>1. Silent(paSaid', InfosOf(PaCurrent)) /\ m \notin InfosOf(PaCurrent)
      BY <1>4, <2>2
    <3>2. backend'.volume = backend.volume /\ backend'.muted = backend.muted
      BY <3>1 DEF PaHears
    <3>3. PaSetting => PaSetting' \/ PaDue(PaCurrent)'
      BY <1>6, <3>1 DEF PaHears, PaMoving
    <3> QED  BY <2>2, <3>1, <3>2, <3>3
  <2> QED  BY <2>1, <2>2 DEF PaSinkKnown
<1>11. PaSourceKnown'
  <2> SUFFICES ASSUME PaLive, ~PaDue(pulse.source), ~LastIs(paSaid', InfosOf(pulse.source), InfoOf(pulse, pulse.source))
               PROVE  Silent(paSaid', InfosOf(pulse.source)) /\ backend'.sourceVolume = pulse.volume[pulse.source]
    BY <1>2, <1>3, <1>5, <1>6, <1>7 DEF PaSourceKnown
  <2>1. CASE LastIs(paSaid, InfosOf(pulse.source), InfoOf(pulse, pulse.source))
    <3>1. m = InfoOf(pulse, pulse.source) /\ Silent(paSaid', InfosOf(pulse.source))
      BY <1>4, <2>1
    <3>2. m \in InfosOf(pulse.source)
      BY <1>2, <3>1, InfosAreMsgs DEF PaTypes
    <3>3. m.volume = pulse.volume[pulse.source]
      BY <3>1 DEF InfoOf
    <3> QED  BY <3>1, <3>2, <3>3 DEF PaHears
  <2>2. CASE Silent(paSaid, InfosOf(pulse.source)) /\ backend.sourceVolume = pulse.volume[pulse.source]
    <3>1. Silent(paSaid', InfosOf(pulse.source)) /\ m \notin InfosOf(pulse.source)
      BY <1>4, <2>2
    <3> QED  BY <2>2, <3>1 DEF PaHears
  <2> QED  BY <2>1, <2>2 DEF PaSourceKnown
<1>12. PaFollows /\ PaMoving => PaMoving' \/ paDp'
  <2> SUFFICES ASSUME PaFollows, PaMoving PROVE PaMoving' \/ paDp'
    OBVIOUS
  <2>1. CASE PaSetting
    BY <2>1 DEF PaHears
  <2>2. CASE PaDue(PaCurrent)
    BY <1>7, <2>2 DEF PaMoving
  <2>3. CASE ~Silent(paSaid, InfosOf(PaCurrent)) /\ ~PaDue(PaCurrent)
    <3>1. CASE m \in InfosOf(PaCurrent)
      BY <2>3, <3>1 DEF PaHears
    <3>2. CASE m \notin InfosOf(PaCurrent)
      <4>1. ~Silent(paSaid', InfosOf(PaCurrent))
        BY <1>4, <2>3, <3>2
      <4> QED  BY <1>6, <4>1 DEF PaMoving
    <3> QED  BY <3>1, <3>2
  <2> QED  BY <2>1, <2>2, <2>3 DEF PaMoving
<1> QED  BY <1>3, <1>8, <1>9, <1>10, <1>11, <1>12

LEMMA HearingKeeps ==
  ASSUME PaInv, paSaid # <<>>, NEW m, m = Head(paSaid), paSaid' = Tail(paSaid), NEW x \in Seq(PaRequests), paAsked' = paAsked \o x,
         UNCHANGED <<paConfig, pulse, paState, paSubscribed, paReading, paShown, scale, paMissed>>, PaBackendTypes',
         paDp' \in BOOLEAN, paDp => paDp', m.kind # "defaults",
         ~paDp' => backend'.volume = backend.volume /\ backend'.sourceVolume = backend.sourceVolume /\ backend'.muted = backend.muted,
         PaHears(m) \/ ServerDue'
  PROVE  PaInv'
<1>1. PaTypes /\ PaQueueTypes /\ PaKnown /\ PaReads /\ PaShows
  BY DEF PaInv, PaTypes
<1>2. PaTypes'
  <2>1. PaServerTypes'
    BY <1>1 DEF PaTypes, PaServerTypes
  <2>2. PaQueueTypes'
    BY <1>1, PaHeard
  <2>3. PaViewTypes'
    BY <1>1 DEF PaTypes, PaViewTypes, MainFree, Nothing
  <2> QED  BY <2>1, <2>2, <2>3 DEF PaTypes
<1>3. PaSubscribing'
  BY <1>1, SubscribingHeard DEF PaKnown
<1>4. PaReads'
  BY <1>1 DEF PaReads, MainFree, Nothing
<1>5. CASE ServerDue'
  <2>1. PaDefaults' /\ PaChosen' /\ PaSinkKnown' /\ PaSourceKnown' /\ PaShows'
    BY <1>5, ServerDueIsEnough
  <2> QED  BY <1>2, <1>3, <1>4, <2>1 DEF PaInv, PaKnown
<1>6. CASE PaHears(m)
  <2>1. /\ PaDefaults' /\ PaChosen' /\ PaSinkKnown' /\ PaSourceKnown' /\ (PaFollows /\ PaMoving => PaMoving' \/ paDp')
        /\ PaFollows' = PaFollows
    BY <1>1, <1>2, <1>6, KnownHeard DEF PaKnown
  <2>2. PaShows'
    <3>1. CASE paDp'
      BY <3>1 DEF PaShows
    <3>2. CASE ~paDp'
      <4>1. UNCHANGED paDp
        BY <1>1, <3>2 DEF PaTypes, PaViewTypes
      <4> QED  BY <1>1, <2>1, <3>2, <4>1, PaShowsKeeps
    <3> QED  BY <3>1, <3>2
  <2> QED  BY <1>2, <1>3, <1>4, <2>1, <2>2 DEF PaInv, PaKnown
<1> QED  BY <1>5, <1>6

\* A node is not due when the defaults are known: the backend has them.
LEMMA DefaultsAreKnown ==
  ASSUME PaTypes, PaDefaults, PaLive, NEW n, ~PaDue(n)
  PROVE  backend.default = pulse.default /\ backend.source = pulse.source
<1>1. ~ServerDue /\ ~DefaultsSaid
  BY DEF PaDue
<1>2. DefaultsOf(pulse) \notin ToSet(paSaid)
  BY <1>1 DEF DefaultsSaid, DefaultsOf
<1>3. ~LastIs(paSaid, DefaultsMsgs, DefaultsOf(pulse))
  BY <1>2, SilentOrSaid DEF PaTypes, PaQueueTypes
<1> QED  BY <1>1, <1>3 DEF PaDefaults

LEMMA CallbackKeeps ==
  ASSUME PaInv, CallbackRuns
  PROVE  PaInv'
<1> DEFINE h == Head(paSaid)
           asks == CASE h.kind = "changed" -> <<IF h.of = "server" THEN [kind |-> "server"] ELSE [kind |-> "info", of |-> h.of]>>
                     [] h.kind = "modified" -> <<[kind |-> "info", of |-> backend.idx]>>
                     [] h.kind = "defaults" -> <<[kind |-> "sinks"], [kind |-> "sources"]>>
                     [] OTHER -> <<>>
           now == CASE h.kind = "defaults" -> [backend EXCEPT !.current = h.sink, !.default = h.sink, !.source = h.source]
                    [] h.kind = "info" /\ h.of \in PaSink -> SinkInfo(backend, h)
                    [] h.kind = "info" /\ h.of \in PaSource -> SourceInfo(backend, h)
                    [] OTHER -> backend
           takes == h.kind = "info" /\ (IF h.of \in PaSink THEN ~SkipsSink(backend, h) ELSE h.of = backend.source)
<1>1. PaTypes /\ PaQueueTypes /\ PaKnown /\ PaReads /\ PaShows /\ PaBackendTypes /\ paConfig \in PaConfigs /\ paDp \in BOOLEAN
  BY DEF PaInv, PaTypes, PaServerTypes, PaViewTypes
<1>2. /\ paSaid # <<>> /\ paSaid' = Tail(paSaid) /\ backend' = now /\ paAsked' = paAsked \o asks
      /\ paDp' = (paDp \/ takes)
      /\ UNCHANGED <<paConfig, pulse, paState, paSubscribed, paReading, paShown, scale, paMissed>>
  BY DEF CallbackRuns, paPast
<1>3. PICK m \in PaMsgs : m = h
  BY <1>1, <1>2, ToSetOfTail DEF PaQueueTypes
<1>4. paDp' \in BOOLEAN /\ (paDp => paDp')
  <2> HIDE DEF takes
  <2> QED  BY <1>1, <1>2
<1>5. PaCurrent \in PaSink /\ PaCurrent \in PaNodes /\ pulse.source \in PaSource /\ pulse.source \in PaNodes
  BY <1>1, InfosAreMsgs DEF PaTypes
<1>6. m.kind \in {"changed", "modified"} => PaBackendTypes' /\ backend' = backend /\ m \notin DefaultsMsgs /\ \A n : m \notin InfosOf(n)
  <2>1. m.kind \in {"changed", "modified"} => now = backend
    BY <1>3
  <2> QED  BY <1>1, <1>2, <2>1 DEF PaBackendTypes, Mapped, DefaultsMsgs, InfosOf
<1>7. CASE m.kind = "changed"
  <2> DEFINE q == IF m.of = "server" THEN [kind |-> "server"] ELSE [kind |-> "info", of |-> m.of]
  <2>1. asks = <<q>>
    BY <1>3, <1>7
  <2>2. m.of \in PaNodes \cup {"server"}
    BY <1>7 DEF PaMsgs
  <2>3. q \in PaRequests /\ (m.of = "server" => q.kind = "server") /\ (m.of # "server" => q.kind = "info" /\ q.of = m.of)
    BY <2>2 DEF PaRequests
  <2> HIDE DEF q, asks, now, takes
  <2>4. <<q>> \in Seq(PaRequests) /\ paAsked' = paAsked \o <<q>> /\ ToSet(<<q>>) = {q}
    BY <1>2, <2>1, <2>3, ToSetOfOne
  <2>5. /\ ToSet(paAsked)' = ToSet(paAsked) \cup {q}
        /\ ServerDue => ServerDue' \/ (m.kind = "changed" /\ m.of = "server")
        /\ \A n : PaDue(n) => PaDue(n)' \/ m.kind = "defaults" \/ (m.kind = "changed" /\ m.of \in {n, "server"})
        /\ PaSetting => PaSetting' \/ m.kind = "modified"
    BY <1>1, <1>2, <1>3, <2>4, PaHeard
  <2>6. m.of = "server" => ServerDue'
    BY <2>3, <2>5 DEF ServerDue, Asked
  <2>7. m.of # "server" => PaDue(m.of)'
    BY <2>3, <2>5 DEF PaDue
  <2>8. (ServerDue => ServerDue') /\ (\A n \in PaNodes : PaDue(n) => PaDue(n)')
    <3>1. ServerDue' => \A n : PaDue(n)'
      BY DEF PaDue
    <3> QED  BY <1>7, <2>5, <2>6, <2>7, <3>1
  <2>9. PaSetting => PaSetting'
    BY <1>7, <2>5
  <2>10. PaHears(m)
    BY <1>2, <1>6, <1>7, <2>8, <2>9 DEF PaHears, PaMoving
  <2> QED  BY <1>1, <1>2, <1>3, <1>4, <1>6, <1>7, <2>4, <2>10, HearingKeeps
<1>8. CASE m.kind = "modified"
  <2> DEFINE q == [kind |-> "info", of |-> backend.idx]
  <2>1. asks = <<q>>
    BY <1>3, <1>8
  <2>2. q \in PaRequests /\ q.kind = "info" /\ q.of = backend.idx
    BY <1>1 DEF PaBackendTypes, PaRequests, PaNodes
  <2> HIDE DEF q, asks, now, takes
  <2>3. <<q>> \in Seq(PaRequests) /\ paAsked' = paAsked \o <<q>> /\ ToSet(<<q>>) = {q}
    BY <1>2, <2>1, <2>2, ToSetOfOne
  <2>4. /\ ToSet(paAsked)' = ToSet(paAsked) \cup {q}
        /\ ServerDue => ServerDue' \/ (m.kind = "changed" /\ m.of = "server")
        /\ \A n : PaDue(n) => PaDue(n)' \/ m.kind = "defaults" \/ (m.kind = "changed" /\ m.of \in {n, "server"})
    BY <1>1, <1>2, <1>3, <2>3, PaHeard
  <2>5. (ServerDue => ServerDue') /\ (\A n : PaDue(n) => PaDue(n)')
    BY <1>8, <2>4
  <2>6. PaFollows => PaMoving'
    <3> SUFFICES ASSUME PaFollows PROVE PaMoving'
      OBVIOUS
    <3>1. PaCurrent' = PaCurrent /\ InfosOf(PaCurrent)' = InfosOf(PaCurrent)
      BY <1>2 DEF PaCurrent, Mapped, InfosOf
    <3>2. CASE PaDue(PaCurrent)
      <4>1. PaDue(PaCurrent)'
        BY <2>5, <3>1, <3>2
      <4> QED  BY <4>1 DEF PaMoving
    <3>3. CASE ~Silent(paSaid, InfosOf(PaCurrent))
      <4>1. ~Silent(paSaid', InfosOf(PaCurrent))
        BY <1>1, <1>2, <1>3, <1>6, <1>8, <3>3, LastOfTail DEF PaQueueTypes
      <4> QED  BY <3>1, <4>1 DEF PaMoving
    <3>4. CASE backend.idx = PaCurrent
      <4>1. PaDue(PaCurrent)'
        BY <2>2, <2>4, <3>1, <3>4 DEF PaDue
      <4> QED  BY <4>1 DEF PaMoving
    <3> QED  BY <1>1, <3>2, <3>3, <3>4 DEF PaKnown, PaChosen
  <2>7. PaHears(m)
    BY <1>2, <1>6, <1>8, <2>5, <2>6 DEF PaHears
  <2> QED  BY <1>1, <1>2, <1>3, <1>4, <1>6, <1>8, <2>3, <2>7, HearingKeeps
<1>9. CASE m.kind = "defaults"
  <2> DEFINE a == [kind |-> "sinks"]
             b == [kind |-> "sources"]
  <2>1. asks = <<a, b>> /\ now = [backend EXCEPT !.current = m.sink, !.default = m.sink, !.source = m.source] /\ ~takes
    BY <1>3, <1>9
  <2>2. a \in PaRequests /\ b \in PaRequests /\ a.kind = "sinks" /\ b.kind = "sources"
    BY DEF PaRequests
  <2>3. m.sink \in PaSink /\ m.source \in PaSource /\ m \in DefaultsMsgs
    BY <1>9 DEF PaMsgs, DefaultsMsgs
  <2> HIDE DEF asks, now, takes, a, b
  <2>4. /\ <<a, b>> \in Seq(PaRequests) /\ paAsked' = paAsked \o <<a, b>> /\ ToSet(<<a, b>>) = {a, b}
        /\ Len(<<a, b>>) = 2 /\ <<a, b>>[1] = a /\ <<a, b>>[2] = b
    BY <1>2, <2>1, <2>2, ToSetOfTwo
  <2> DEFINE x == <<a, b>>
  <2> HIDE DEF x
  <2>5. /\ x \in Seq(PaRequests) /\ paAsked' = paAsked \o x /\ ToSet(x) = {a, b}
        /\ Len(x) = 2 /\ x[1].kind = "sinks" /\ x[2].kind = "sources"
    BY <2>2, <2>4 DEF x
  <2>6. /\ ToSet(paAsked)' = ToSet(paAsked) \cup {a, b} /\ PaQueueTypes'
        /\ ServerDue => ServerDue' \/ (m.kind = "changed" /\ m.of = "server")
    BY <1>1, <1>2, <1>3, <2>5, PaHeard
  <2>7. \A n : PaDue(n)'
    <3>1. Asked("sinks")' /\ Asked("sources")'
      BY <2>2, <2>6 DEF Asked
    <3> QED  BY <3>1 DEF PaDue
  <2>8. /\ backend' = [backend EXCEPT !.current = m.sink, !.default = m.sink, !.source = m.source] /\ PaBackendTypes'
        /\ backend'.volume = backend.volume /\ backend'.sourceVolume = backend.sourceVolume
    BY <1>1, <1>2, <2>1, <2>3 DEF PaBackendTypes
  <2>9. PaTypes'
    <3>1. PaServerTypes'
      BY <1>1, <1>2 DEF PaTypes, PaServerTypes
    <3>2. PaViewTypes'
      BY <1>1, <1>2, <1>4 DEF PaTypes, PaViewTypes, MainFree, Nothing
    <3> QED  BY <2>6, <2>8, <3>1, <3>2 DEF PaTypes
  <2>10. PaSubscribing'
    BY <1>1, <1>2, <1>3, <2>5, SubscribingHeard DEF PaKnown
  <2>11. PaDefaults'
    <3>1. CASE ~PaLive
      BY <1>2, <3>1 DEF PaDefaults, PaLive
    <3>2. CASE ServerDue
      BY <1>9, <2>6, <3>2 DEF PaDefaults
    <3>3. CASE LastIs(paSaid, DefaultsMsgs, DefaultsOf(pulse))
      <4>1. LastIs(paSaid', DefaultsMsgs, DefaultsOf(pulse)) \/ (m = DefaultsOf(pulse) /\ Silent(paSaid', DefaultsMsgs))
        BY <1>1, <1>2, <1>3, <3>3, LastOfTail DEF PaQueueTypes
      <4>2. DefaultsOf(pulse)' = DefaultsOf(pulse) /\ DefaultsMsgs' = DefaultsMsgs
        BY <1>2 DEF DefaultsOf, DefaultsMsgs
      <4>3. CASE LastIs(paSaid', DefaultsMsgs, DefaultsOf(pulse))
        BY <4>2, <4>3 DEF PaDefaults
      <4>4. CASE m = DefaultsOf(pulse) /\ Silent(paSaid', DefaultsMsgs)
        <5>1. m.sink = pulse.default /\ m.source = pulse.source
          BY <4>4 DEF DefaultsOf
        <5>2. backend'.default = pulse'.default /\ backend'.source = pulse'.source
          BY <1>1, <1>2, <2>8, <5>1 DEF PaBackendTypes
        <5> QED  BY <4>2, <4>4, <5>2 DEF PaDefaults
      <4> QED  BY <4>1, <4>3, <4>4
    <3>4. CASE Silent(paSaid, DefaultsMsgs)
      <4>1. m \notin DefaultsMsgs
        BY <1>1, <1>2, <1>3, <3>4, LastOfTail DEF PaQueueTypes
      <4> QED  BY <2>3, <4>1
    <3> QED  BY <1>1, <3>1, <3>2, <3>3, <3>4 DEF PaKnown, PaDefaults
  <2>12. PaDue(PaCurrent)' /\ PaDue(pulse.source)'
    BY <2>7
  <2>13. PaChosen' /\ PaSinkKnown' /\ PaSourceKnown' /\ PaShows'
    BY <2>12 DEF PaChosen, PaSinkKnown, PaSourceKnown, PaShows, PaMoving
  <2>14. PaReads'
    <3>1. paDp' = paDp
      BY <1>1, <1>2, <2>1
    <3> QED  BY <1>1, <1>2, <2>8, <3>1 DEF PaReads, MainFree, Nothing
  <2> QED  BY <2>9, <2>10, <2>11, <2>13, <2>14 DEF PaInv, PaKnown
<1>10. CASE m.kind = "info"
  <2>1. asks = <<>> /\ m.of \in PaNodes /\ m.volume \in 0..MaxVolume
    BY <1>3, <1>10 DEF PaMsgs
  <2> HIDE DEF asks
  <2>2. <<>> \in Seq(PaRequests) /\ paAsked' = paAsked \o <<>>
    BY <1>2, <2>1
  <2>3. /\ ServerDue => ServerDue' \/ (m.kind = "changed" /\ m.of = "server")
        /\ \A n : PaDue(n) => PaDue(n)' \/ m.kind = "defaults" \/ (m.kind = "changed" /\ m.of \in {n, "server"})
        /\ PaSetting => PaSetting' \/ m.kind = "modified"
    BY <1>1, <1>2, <1>3, <2>2, PaHeard
  <2>4. (ServerDue => ServerDue') /\ (\A n : PaDue(n) => PaDue(n)') /\ (PaSetting => PaMoving')
    BY <1>10, <2>3 DEF PaMoving
  <2>5. m \notin DefaultsMsgs /\ \A n : m \in InfosOf(n) <=> m.of = n
    BY <1>10 DEF DefaultsMsgs, InfosOf
  <2>6. CASE m.of \in PaSink
    <3>1. now = SinkInfo(backend, m) /\ (takes <=> ~SkipsSink(backend, m))
      <4>1. h.kind = "info" /\ h.of \in PaSink /\ h.of \notin PaSource
        BY <1>3, <1>10, <2>6, PaAssumption
      <4>2. now = SinkInfo(backend, h)
        BY <4>1
      <4>3. takes <=> ~SkipsSink(backend, h)
        BY <4>1
      <4> HIDE DEF h, now, takes
      <4>4. SinkInfo(backend, h) = SinkInfo(backend, m)
        BY <1>3
      <4>5. SkipsSink(backend, h) <=> SkipsSink(backend, m)
        BY <1>3
      <4> QED  BY <4>2, <4>3, <4>4, <4>5
    <3> HIDE DEF now, takes
    <3>2. /\ PaBackendTypes'
          /\ backend'.default = backend.default /\ backend'.source = backend.source /\ backend'.sourceVolume = backend.sourceVolume
          /\ m.of \in paConfig.ignored \/ m.of # Mapped(backend.default) =>
               SkipsSink(backend, m) /\ backend'.idx = backend.idx /\ backend'.volume = backend.volume /\ backend'.muted = backend.muted
          /\ m.of \notin paConfig.ignored /\ m.of = Mapped(backend.default) =>
               ~SkipsSink(backend, m) /\ backend'.idx = m.of /\ backend'.volume = m.volume /\ backend'.muted = m.muted
      <4>1. backend' = SinkInfo(backend, m)
        BY <1>2, <3>1
      <4>2. /\ backend' \in [current : PaSink, default : PaSink, source : PaSource, running : BOOLEAN, idx : PaSink,
                              volume : 0..MaxVolume, muted : BOOLEAN, sourceVolume : 0..MaxVolume]
            /\ backend'.current \in {backend'.default, Mapped(backend'.default)}
            /\ backend'.default = backend.default /\ backend'.source = backend.source /\ backend'.sourceVolume = backend.sourceVolume
            /\ m.of \in paConfig.ignored \/ m.of # Mapped(backend.default) =>
                 SkipsSink(backend, m) /\ backend'.idx = backend.idx /\ backend'.volume = backend.volume /\ backend'.muted = backend.muted
            /\ m.of \notin paConfig.ignored /\ m.of = Mapped(backend.default) =>
                 ~SkipsSink(backend, m) /\ backend'.idx = m.of /\ backend'.volume = m.volume /\ backend'.muted = m.muted
        BY <1>1, <1>10, <2>6, <4>1, SinkInfoTakes
      <4>3. Mapped(backend.default)' = Mapped(backend'.default)
        BY <1>2 DEF Mapped
      <4> QED  BY <4>2, <4>3 DEF PaBackendTypes
    <3>3. PaFollows /\ ~PaDue(PaCurrent) => Mapped(backend.default) = PaCurrent /\ PaCurrent \notin paConfig.ignored
      <4> SUFFICES ASSUME PaFollows, ~PaDue(PaCurrent) PROVE Mapped(backend.default) = PaCurrent /\ PaCurrent \notin paConfig.ignored
        OBVIOUS
      <4>1. backend.default = pulse.default
        BY <1>1, DefaultsAreKnown DEF PaKnown, PaFollows
      <4> QED  BY <4>1 DEF PaCurrent, PaFollows
    <3>4. PaFollows /\ ~PaDue(PaCurrent) =>
            IF m \in InfosOf(PaCurrent)
            THEN paDp' /\ backend'.idx = PaCurrent /\ backend'.volume = m.volume /\ backend'.muted = m.muted
            ELSE backend'.idx = backend.idx /\ backend'.volume = backend.volume /\ backend'.muted = backend.muted
      BY <1>2, <2>5, <3>1, <3>2, <3>3
    <3>5. m \notin InfosOf(pulse.source)
      BY <1>5, <2>5, <2>6, PaAssumption
    <3>6. PaHears(m)
      BY <1>2, <2>4, <2>5, <3>2, <3>4, <3>5 DEF PaHears
    <3>7. ~paDp' => backend'.volume = backend.volume /\ backend'.sourceVolume = backend.sourceVolume /\ backend'.muted = backend.muted
      BY <1>2, <3>1, <3>2
    <3> QED  BY <1>1, <1>2, <1>3, <1>4, <1>10, <2>2, <3>2, <3>6, <3>7, HearingKeeps
  <2>7. CASE m.of \in PaSource
    <3>1. m.of \notin PaSink
      BY <2>7, PaAssumption
    <3>2. now = SourceInfo(backend, m) /\ (takes <=> m.of = backend.source)
      BY <1>3, <1>10, <2>7, <3>1
    <3> HIDE DEF now, takes
    <3>3. backend' = IF m.of = backend.source THEN [backend EXCEPT !.sourceVolume = m.volume] ELSE backend
      BY <1>2, <3>2 DEF SourceInfo
    <3>4. /\ PaBackendTypes' /\ backend'.default = backend.default /\ backend'.source = backend.source /\ backend'.idx = backend.idx
          /\ backend'.volume = backend.volume /\ backend'.muted = backend.muted
          /\ backend'.sourceVolume = IF m.of = backend.source THEN m.volume ELSE backend.sourceVolume
      <4>1. CASE m.of = backend.source
        BY <1>1, <1>2, <2>1, <3>3, <4>1 DEF PaBackendTypes, Mapped
      <4>2. CASE m.of # backend.source
        BY <1>1, <1>2, <3>3, <4>2 DEF PaBackendTypes, Mapped
      <4> QED  BY <4>1, <4>2
    <3>5. PaLive /\ ~PaDue(pulse.source) => backend.source = pulse.source
      BY <1>1, DefaultsAreKnown DEF PaKnown
    <3>6. m \notin InfosOf(PaCurrent)
      BY <1>5, <2>5, <3>1
    <3>7. PaHears(m)
      BY <1>2, <2>4, <2>5, <3>4, <3>5, <3>6 DEF PaHears
    <3>8. ~paDp' => backend'.volume = backend.volume /\ backend'.sourceVolume = backend.sourceVolume /\ backend'.muted = backend.muted
      BY <1>2, <3>2, <3>4
    <3> QED  BY <1>1, <1>2, <1>3, <1>4, <1>10, <2>2, <3>4, <3>7, <3>8, HearingKeeps
  <2> QED  BY <2>1, <2>6, <2>7 DEF PaNodes
<1>11. m.kind \in {"changed", "modified", "defaults", "info"}
  BY DEF PaMsgs
<1> QED  BY <1>7, <1>8, <1>9, <1>10, <1>11

\* The main thread asks, and may unmute; the callbacks' knowledge stays.
LEMMA AskingKeeps ==
  ASSUME PaInv, NEW x \in Seq(PaRequests), paAsked' = paAsked \o x, UNCHANGED <<paConfig, pulse, paState, paSaid, paSubscribed, paMissed>>,
         PaViewTypes', backend' = backend \/ (backend' = [backend EXCEPT !.muted = FALSE] /\ PaSetting')
  PROVE  PaTypes' /\ PaKnown' /\ (PaMoving => PaMoving') /\ PaFollows' = PaFollows
<1>1. PaTypes /\ PaQueueTypes /\ PaKnown /\ PaBackendTypes
  BY DEF PaInv, PaTypes
<1>2. <<>> \in Seq(PaMsgs) /\ paSaid' = paSaid \o <<>>
  BY <1>1 DEF PaQueueTypes
<1>3. /\ PaBackendTypes' /\ backend'.idx = backend.idx /\ backend'.volume = backend.volume /\ backend'.sourceVolume = backend.sourceVolume
      /\ backend'.default = backend.default /\ backend'.source = backend.source
      /\ PaSetting' \/ backend'.muted = backend.muted
  BY <1>1 DEF PaBackendTypes, Mapped
<1>4. PaTypes'
  <2>1. PaServerTypes'
    BY <1>1 DEF PaTypes, PaServerTypes
  <2>2. PaQueueTypes'
    BY <1>1, <1>2, QueuesGrow DEF PaQueueTypes
  <2> QED  BY <1>3, <2>1, <2>2 DEF PaTypes
<1>5. (\A n : PaDue(n) => PaDue(n)') /\ (ServerDue => ServerDue') /\ (PaSetting => PaSetting')
  BY <1>1, <1>2, PaGrows
<1>6. PaSays(<<>>)
  BY <1>3, <1>5, NothingIsSilent DEF PaSays
<1>7. /\ PaDefaults' /\ PaChosen' /\ PaSinkKnown' /\ PaSourceKnown' /\ (PaMoving => PaMoving')
      /\ PaFollows' = PaFollows
  BY <1>1, <1>2, <1>4, <1>6, KnownGrows DEF PaKnown
<1>8. PaSubscribing'
  BY <1>1, <1>2, SubscribingGrows DEF PaKnown
<1> QED  BY <1>4, <1>7, <1>8 DEF PaKnown

\* PulseaudioSlider::onValueChanged() asks for the volume, unless the sink is muted and it is 0.
LEMMA ValueIsSet ==
  ASSUME PaTypes, NEW to \in 0..MaxVolume, OnValueChanged(to, backend.muted)
  PROVE  \E x \in Seq(PaRequests) :
           /\ paAsked' = paAsked \o x
           /\ \/ backend' = backend /\ (paState # "ready" \/ (backend.muted /\ to = 0))
              \/ backend' \in {backend, [backend EXCEPT !.muted = FALSE]} /\ PaSetting'
<1> DEFINE acts == ~backend.muted \/ to # 0
           unmutes == acts /\ paConfig.unmute
           ready == paState = "ready"
           u == [kind |-> "mute", of |-> backend.idx]
           v == [kind |-> "volume", of |-> backend.idx, to |-> to]
           q == (IF unmutes THEN <<u>> ELSE <<>>)
<1>1. /\ backend' = IF unmutes /\ ready THEN [backend EXCEPT !.muted = FALSE] ELSE backend
      /\ paAsked' = IF ~acts \/ ~ready THEN paAsked ELSE paAsked \o q \o <<v>>
  BY DEF OnValueChanged
<1>2. u \in PaRequests /\ v \in PaRequests /\ v.kind = "volume" /\ paAsked \in Seq(PaRequests)
  <2>1. backend.idx \in PaNodes /\ paAsked \in Seq(PaRequests)
    BY DEF PaTypes, PaBackendTypes, PaNodes, PaQueueTypes
  <2> QED  BY <2>1 DEF PaRequests
<1>3. q \in Seq(PaRequests)
  <2> HIDE DEF u, unmutes
  <2> QED  BY <1>2
<1>4. CASE ~acts \/ ~ready
  <2>1. paAsked' = paAsked \o <<>> /\ <<>> \in Seq(PaRequests)
    BY <1>1, <1>2, <1>4
  <2>2. backend' = backend
    BY <1>1, <1>4
  <2> QED  BY <1>4, <2>1, <2>2
<1>5. CASE acts /\ ready
  <2> DEFINE x == q \o <<v>>
  <2> HIDE DEF q, v, u
  <2>1. x \in Seq(PaRequests) /\ ToSet(x) = ToSet(q) \cup {v}
    <3>1. <<v>> \in Seq(PaRequests) /\ ToSet(<<v>>) = {v}
      BY <1>2, ToSetOfOne
    <3>2. PICK b \in Seq(PaRequests) : b = <<v>>
      BY <3>1
    <3>3. q \o b \in Seq(PaRequests) /\ ToSet(q \o b) = ToSet(q) \cup ToSet(b)
      BY <1>3, ToSetOfConcat
    <3> QED  BY <3>1, <3>2, <3>3
  <2>2. paAsked' = paAsked \o x
    <3>1. <<v>> \in Seq(PaRequests)
      BY <1>2
    <3>2. paAsked \o q \o <<v>> = paAsked \o (q \o <<v>>)
      BY <1>2, <1>3, <3>1
    <3> QED  BY <1>1, <1>5, <3>2
  <2> HIDE DEF x
  <2>3. v \in ToSet(paAsked)'
    <3>1. ToSet(paAsked \o x) = ToSet(paAsked) \cup ToSet(x)
      BY <1>2, <2>1, ToSetOfConcat
    <3> QED  BY <2>1, <2>2, <3>1
  <2>4. PaSetting'
    BY <1>2, <2>3 DEF PaSetting, Asked
  <2>5. backend' \in {backend, [backend EXCEPT !.muted = FALSE]}
    BY <1>1
  <2> QED  BY <2>1, <2>2, <2>4, <2>5
<1> QED  BY <1>4, <1>5

LEMMA UpdateReadsKeeps ==
  ASSUME PaInv, UpdateReads
  PROVE  PaInv'
<1>1. PaTypes /\ backend.volume \in 0..MaxVolume /\ paAsked \in Seq(PaRequests)
  BY DEF PaInv, PaTypes, PaBackendTypes, PaQueueTypes
<1>2. paAsked' = paAsked \o <<>> /\ <<>> \in Seq(PaRequests)
  BY <1>1 DEF UpdateReads, paWire
<1>3. paReading' = [volume |-> backend.volume] /\ UNCHANGED <<paConfig, pulse, paState, paSaid, paSubscribed, paMissed, backend, scale>>
      /\ paDp' = FALSE
  BY DEF UpdateReads, paWire, paPast
<1>4. ~MainFree' /\ paReading' \in [volume : 0..MaxVolume] /\ paReading'.volume = backend.volume
  <2>1. backend.volume # MaxVolume + 1
    BY <1>1, PaAssumption
  <2>2. paReading'.volume = backend.volume /\ Nothing.volume = MaxVolume + 1
    BY <1>3 DEF Nothing
  <2>3. paReading' # Nothing
    BY <2>1, <2>2
  <2> QED  BY <1>1, <1>3, <2>2, <2>3 DEF MainFree, Nothing
<1>5. PaViewTypes'
  BY <1>1, <1>3, <1>4 DEF PaTypes, PaViewTypes
<1>6. PaTypes' /\ PaKnown'
  BY <1>2, <1>3, <1>5, AskingKeeps
<1>7. PaReads' /\ PaShows'
  BY <1>3, <1>4 DEF PaReads, PaShows
<1> QED  BY <1>6, <1>7 DEF PaInv

LEMMA UpdateShowsKeeps ==
  ASSUME PaInv, UpdateShows
  PROVE  PaInv'
<1> DEFINE to == IF backend.muted /\ paConfig.zeroOnMute THEN 0 ELSE paReading.volume
<1>1. PaTypes /\ PaReads /\ paReading.volume \in 0..MaxVolume /\ paAsked \in Seq(PaRequests) /\ paDp \in BOOLEAN
  BY DEF PaInv, PaTypes, PaViewTypes, UpdateShows, PaQueueTypes
<1>2. /\ ~MainFree /\ paReading' = Nothing
      /\ paShown' = [volume |-> paReading.volume, muted |-> backend.muted, source |-> backend.sourceVolume]
      /\ IF paConfig.slider /\ to # scale
         THEN scale' = to /\ OnValueChanged(to, backend.muted)
         ELSE UNCHANGED <<scale, backend, paAsked>>
      /\ UNCHANGED <<paConfig, pulse, paState, paSaid, paSubscribed, paDp, paMissed>>
  BY DEF UpdateShows
<1>3. to \in 0..MaxVolume
  <2>1. 0 \in 0..MaxVolume
    BY PaAssumption
  <2> QED  BY <1>1, <2>1
<1> HIDE DEF to
<1>4. PICK x \in Seq(PaRequests) :
        /\ paAsked' = paAsked \o x
        /\ \/ /\ backend' = backend
              /\ paState # "ready" \/ (backend.muted /\ to = 0) \/ ~(paConfig.slider /\ to # scale)
           \/ backend' \in {backend, [backend EXCEPT !.muted = FALSE]} /\ PaSetting'
  <2>1. CASE paConfig.slider /\ to # scale
    BY <1>1, <1>2, <1>3, <2>1, ValueIsSet
  <2>2. CASE ~(paConfig.slider /\ to # scale)
    <3>1. paAsked' = paAsked \o <<>> /\ <<>> \in Seq(PaRequests)
      BY <1>1, <1>2, <2>2
    <3> QED  BY <1>2, <2>2, <3>1
  <2> QED  BY <2>1, <2>2
<1>5. scale' \in 0..MaxVolume /\ (paConfig.slider => scale' = to)
  BY <1>1, <1>2, <1>3 DEF PaTypes, PaViewTypes
<1>6. PaViewTypes'
  BY <1>1, <1>2, <1>5 DEF PaViewTypes, MainFree, Nothing
<1>7. PaTypes' /\ PaKnown'
  BY <1>2, <1>4, <1>6, AskingKeeps
<1>8. MainFree' /\ paShown'.volume = paReading.volume /\ paShown'.muted = backend.muted /\ paShown'.source = backend.sourceVolume
  BY <1>2 DEF MainFree, Nothing
<1>9. backend'.volume = backend.volume /\ backend'.sourceVolume = backend.sourceVolume
  BY <1>1, <1>4 DEF PaTypes, PaBackendTypes
<1>10. PaReads'
  BY <1>1, <1>2, <1>8, <1>9 DEF PaReads
<1>11. PaShows'
  <2> SUFFICES ASSUME ~paDp', PaFollows', ~PaMoving' PROVE PaShows'
    BY DEF PaShows
  <2>1. paReading.volume = backend.volume
    BY <1>1, <1>2 DEF PaReads
  <2>2. paState = "ready" /\ ~PaSetting'
    BY <1>2 DEF PaFollows, PaLive, PaMoving
  <2>3. backend' = backend /\ ((backend.muted /\ to = 0) \/ ~(paConfig.slider /\ to # scale))
    BY <1>4, <2>2
  <2>4. paConfig.slider => scale' = IF backend.muted /\ paConfig.zeroOnMute THEN 0 ELSE backend.volume
    BY <1>5, <2>1 DEF to
  <2> QED  BY <1>2, <1>8, <2>3, <2>4 DEF PaShows
<1> QED  BY <1>7, <1>10, <1>11 DEF PaInv

LEMMA UserMovesKeeps ==
  ASSUME PaInv, NEW to \in 0..MaxVolume, UserMovesSlider(to)
  PROVE  PaInv'
<1>1. PaTypes /\ PaReads /\ PaShows /\ paDp \in BOOLEAN
  BY DEF PaInv, PaTypes, PaViewTypes
<1>2. /\ MainFree /\ scale' = to /\ OnValueChanged(to, backend.muted)
      /\ UNCHANGED <<paConfig, pulse, paState, paSaid, paSubscribed, paDp, paReading, paShown, paMissed>>
  BY DEF UserMovesSlider
<1>3. PICK x \in Seq(PaRequests) :
        /\ paAsked' = paAsked \o x
        /\ \/ backend' = backend /\ (paState # "ready" \/ (backend.muted /\ to = 0))
           \/ backend' \in {backend, [backend EXCEPT !.muted = FALSE]} /\ PaSetting'
  BY <1>1, <1>2, ValueIsSet
<1>4. PaViewTypes'
  BY <1>1, <1>2 DEF PaTypes, PaViewTypes, MainFree, Nothing
<1>5. PaTypes' /\ PaKnown' /\ (PaMoving => PaMoving') /\ PaFollows' = PaFollows
  BY <1>2, <1>3, <1>4, AskingKeeps
<1>6. backend'.volume = backend.volume /\ backend'.sourceVolume = backend.sourceVolume
  BY <1>1, <1>3 DEF PaTypes, PaBackendTypes
<1>7. PaReads'
  BY <1>1, <1>2, <1>6 DEF PaReads, MainFree, Nothing
<1>8. PaShows'
  <2> SUFFICES ASSUME ~paDp', PaFollows', ~PaMoving' PROVE PaShows'
    BY DEF PaShows
  <2>1. paState = "ready" /\ ~PaSetting' /\ PaFollows /\ ~PaMoving
    BY <1>2, <1>5 DEF PaFollows, PaLive, PaMoving
  <2>2. backend' = backend /\ backend.muted /\ to = 0
    BY <1>3, <2>1
  <2>3. paShown.muted = backend.muted
    BY <1>1, <1>2, <2>1 DEF PaShows
  <2> QED  BY <1>2, <2>2, <2>3 DEF PaShows
<1> QED  BY <1>5, <1>7, <1>8 DEF PaInv

LEMMA ScrollKeeps ==
  ASSUME PaInv, NEW up \in BOOLEAN, PaHandleScroll(up)
  PROVE  PaInv'
<1> DEFINE v == IF up THEN backend.volume + 1 ELSE backend.volume - 1
           r == [kind |-> "volume", of |-> backend.idx, to |-> v]
<1>1. PaTypes /\ PaReads /\ PaShows /\ backend.volume \in 0..MaxVolume /\ backend.idx \in PaNodes /\ paAsked \in Seq(PaRequests)
  BY DEF PaInv, PaTypes, PaBackendTypes, PaNodes, PaQueueTypes
<1>2. v \in 0..MaxVolume
  <2>1. IF up THEN backend.volume < MaxVolume ELSE backend.volume > 0
    BY DEF PaHandleScroll
  <2> QED  BY <1>1, <2>1, PaAssumption
<1>3. r \in PaRequests /\ r.kind = "volume"
  <2> HIDE DEF v
  <2> QED  BY <1>1, <1>2 DEF PaRequests
<1>4. /\ paAsked' = Append(paAsked, r)
      /\ UNCHANGED <<paConfig, pulse, paState, paSaid, paSubscribed, backend, paDp, paReading, paShown, scale, paMissed>>
  BY DEF PaHandleScroll, ScrollBy, paView
<1> HIDE DEF r
<1>5. <<r>> \in Seq(PaRequests) /\ ToSet(<<r>>) = {r} /\ paAsked' = paAsked \o <<r>>
  BY <1>1, <1>3, <1>4, ToSetOfOne
<1>6. PaViewTypes'
  BY <1>1, <1>4 DEF PaTypes, PaViewTypes, MainFree, Nothing
<1>7. PaTypes' /\ PaKnown' /\ (PaMoving => PaMoving') /\ PaFollows' = PaFollows
  BY <1>4, <1>5, <1>6, AskingKeeps
<1>8. PaReads' /\ PaShows'
  BY <1>1, <1>4, <1>7, PaShowsKeeps
<1> QED  BY <1>7, <1>8 DEF PaInv

LEMMA PaInitInv ==
  ASSUME PaInit
  PROVE  PaInv
<1>1. PICK s \in PaSink, m \in PaSource, muted \in BOOLEAN :
        /\ s = Mapped(s) /\ s \notin paConfig.ignored
        /\ pulse = [default |-> s, source |-> m, volume |-> [n \in PaNodes |-> 1], muted |-> IF muted THEN {s} ELSE {}, running |-> {s}]
        /\ backend = [current |-> s, default |-> s, source |-> m, running |-> TRUE, idx |-> s,
                      volume |-> 1, muted |-> muted, sourceVolume |-> 1]
        /\ paShown = [volume |-> 1, muted |-> muted, source |-> 1]
        /\ scale = IF muted /\ paConfig.zeroOnMute THEN 0 ELSE 1
  BY DEF PaInit
<1>2. /\ paConfig \in PaConfigs /\ paState = "ready" /\ paAsked = <<>> /\ paSaid = <<>> /\ paSubscribed = TRUE
      /\ paDp = FALSE /\ MainFree /\ paMissed = FALSE
  BY DEF PaInit, MainFree
<1>3. 0 \in 0..MaxVolume /\ 1 \in 0..MaxVolume
  BY PaAssumption
<1>4. PaServerTypes
  <2>1. (IF muted THEN {s} ELSE {}) \in SUBSET PaSink
    OBVIOUS
  <2>2. [n \in PaNodes |-> 1] \in [PaNodes -> 0..MaxVolume]
    BY <1>3
  <2>3. pulse \in PulseStates
    BY <1>1, <2>1, <2>2 DEF PulseStates
  <2> QED  BY <1>2, <2>3 DEF PaServerTypes
<1>5. PaTypes
  <2>1. PaQueueTypes
    BY <1>2 DEF PaQueueTypes
  <2>2. PaBackendTypes
    BY <1>1, <1>3 DEF PaBackendTypes
  <2>3. PaViewTypes
    BY <1>1, <1>2, <1>3 DEF PaViewTypes
  <2> QED  BY <1>4, <2>1, <2>2, <2>3 DEF PaTypes
<1>6. PaCurrent = s /\ pulse.source = m /\ s \in PaNodes /\ m \in PaNodes
  BY <1>1 DEF PaCurrent, PaNodes
<1>7. pulse.volume[s] = 1 /\ pulse.volume[m] = 1 /\ (s \in pulse.muted <=> muted)
  BY <1>1, <1>6
<1>8. Silent(paSaid, DefaultsMsgs) /\ \A n : Silent(paSaid, InfosOf(n))
  BY <1>2, NothingIsSilent
<1>9. PaKnown
  <2>1. PaSubscribing
    BY <1>2 DEF PaSubscribing
  <2>2. PaDefaults
    BY <1>1, <1>8 DEF PaDefaults
  <2>3. PaChosen
    BY <1>1, <1>6 DEF PaChosen
  <2>4. backend.muted = (PaCurrent \in pulse.muted) /\ backend.volume = pulse.volume[PaCurrent]
    BY <1>1, <1>6, <1>7
  <2>5. PaSinkKnown
    BY <1>8, <2>4 DEF PaSinkKnown
  <2>6. PaSourceKnown
    BY <1>1, <1>6, <1>7, <1>8 DEF PaSourceKnown
  <2> QED  BY <2>1, <2>2, <2>3, <2>5, <2>6 DEF PaKnown
<1>10. PaReads /\ PaShows
  BY <1>1, <1>2 DEF PaReads, PaShows
<1> QED  BY <1>5, <1>9, <1>10 DEF PaInv

LEMMA PaInvAgrees ==
  ASSUME PaInv
  PROVE  PaAgrees
<1> SUFFICES ASSUME paState = "ready", paAsked = <<>>, paSaid = <<>>, ~paDp, MainFree, ~paMissed
             PROVE  PaAgrees
  BY DEF PaAgrees
<1>1. ToSet(paAsked) = {} /\ ToSet(paSaid) = {} /\ \A T : Silent(paSaid, T) /\ \A x : ~LastIs(paSaid, T, x)
  BY NothingIsSilent
<1>2. ~ServerDue /\ ~PaSetting /\ \A n : ~PaDue(n)
  BY <1>1 DEF PaDue, ServerDue, PaSetting, Asked, ChangedSaid, DefaultsSaid
<1>3. PaLive /\ ~PaMoving
  BY <1>1, <1>2 DEF PaLive, PaMoving
<1>4. paShown.volume = backend.volume /\ paShown.source = backend.sourceVolume
  BY DEF PaInv, PaReads
<1>5. backend.sourceVolume = pulse.volume[pulse.source]
  BY <1>1, <1>2, <1>3 DEF PaInv, PaKnown, PaSourceKnown
<1>6. ASSUME PaCurrent \notin paConfig.ignored
      PROVE  /\ backend.idx = PaCurrent
             /\ paShown.volume = pulse.volume[PaCurrent] /\ paShown.muted = (PaCurrent \in pulse.muted)
             /\ paConfig.slider =>
                  \/ scale = IF PaCurrent \in pulse.muted /\ paConfig.zeroOnMute THEN 0 ELSE pulse.volume[PaCurrent]
                  \/ PaCurrent \in pulse.muted /\ scale = 0
  <2>1. PaFollows
    BY <1>3, <1>6 DEF PaFollows
  <2>2. backend.idx = PaCurrent
    BY <1>1, <1>2, <2>1 DEF PaInv, PaKnown, PaChosen
  <2>3. backend.volume = pulse.volume[PaCurrent] /\ backend.muted = (PaCurrent \in pulse.muted)
    BY <1>1, <1>2, <2>1 DEF PaInv, PaKnown, PaSinkKnown
  <2>4. /\ paShown.muted = backend.muted
        /\ paConfig.slider => \/ scale = IF backend.muted /\ paConfig.zeroOnMute THEN 0 ELSE backend.volume
                              \/ backend.muted /\ scale = 0
    BY <1>3, <2>1 DEF PaInv, PaShows
  <2> QED  BY <1>4, <2>2, <2>3, <2>4
<1> QED  BY <1>4, <1>5, <1>6 DEF PaAgrees, PaCurrent

LEMMA PaNextKeeps ==
  ASSUME PaInv, [PaNext]_paVars
  PROVE  PaInv'
<1>1. CASE \E s \in PaSink, v \in 0..MaxVolume : VolumeChanges(s, v)
  <2>1. PICK s \in PaSink, v \in 0..MaxVolume : VolumeChanges(s, v)
    BY <1>1
  <2>2. s \in PaNodes /\ PulseChange([pulse EXCEPT !.volume[s] = v], s) /\ UNCHANGED paMissed
    BY <2>1 DEF VolumeChanges, SinkChanges, PaNodes
  <2>3. OneChanges(s, [pulse EXCEPT !.volume[s] = v])
    BY DEF OneChanges
  <2> QED  BY <2>2, <2>3, PaNodeChangeKeeps
<1>2. CASE \E s \in PaSink : MuteChanges(s)
  <2>1. PICK s \in PaSink : MuteChanges(s)
    BY <1>2
  <2>2. s \in PaNodes /\ PulseChange([pulse EXCEPT !.muted = Toggled(@, s)], s) /\ UNCHANGED paMissed
    BY <2>1 DEF MuteChanges, SinkChanges, PaNodes
  <2>3. OneChanges(s, [pulse EXCEPT !.muted = Toggled(@, s)])
    BY DEF OneChanges
  <2> QED  BY <2>2, <2>3, PaNodeChangeKeeps
<1>3. CASE \E s \in PaSink : RunningChanges(s)
  <2>1. PICK s \in PaSink : RunningChanges(s)
    BY <1>3
  <2>2. s \in PaNodes /\ PulseChange([pulse EXCEPT !.running = Toggled(@, s)], s) /\ UNCHANGED paMissed
    BY <2>1 DEF RunningChanges, SinkChanges, PaNodes
  <2>3. OneChanges(s, [pulse EXCEPT !.running = Toggled(@, s)])
    BY DEF OneChanges
  <2> QED  BY <2>2, <2>3, PaNodeChangeKeeps
<1>4. CASE \E m \in PaSource, v \in 0..MaxVolume : SourceChanges(m, v)
  <2>1. PICK m \in PaSource, v \in 0..MaxVolume : SourceChanges(m, v)
    BY <1>4
  <2>2. m \in PaNodes /\ PulseChange([pulse EXCEPT !.volume[m] = v], m) /\ UNCHANGED paMissed
    BY <2>1 DEF SourceChanges, PaNodes
  <2>3. OneChanges(m, [pulse EXCEPT !.volume[m] = v])
    BY DEF OneChanges
  <2> QED  BY <2>2, <2>3, PaNodeChangeKeeps
<1>5. CASE \E s \in PaSink, m \in PaSource : DefaultsChange(s, m)
  BY <1>5, PaDefaultsChangeKeeps
<1>6. CASE PulseAnswers
  BY <1>6, PulseAnswersKeeps
<1>7. CASE ContextReady \/ \E again \in BOOLEAN : ContextFails(again)
  BY <1>7, ContextKeeps
<1>8. CASE CallbackRuns
  BY <1>8, CallbackKeeps
<1>9. CASE UpdateReads
  BY <1>9, UpdateReadsKeeps
<1>10. CASE UpdateShows
  BY <1>10, UpdateShowsKeeps
<1>11. CASE \E v \in 0..MaxVolume : UserMovesSlider(v)
  BY <1>11, UserMovesKeeps
<1>12. CASE \E up \in BOOLEAN : PaHandleScroll(up)
  BY <1>12, ScrollKeeps
<1>13. CASE UNCHANGED paVars
  <2>1. <<>> \in Seq(PaRequests) /\ paAsked' = paAsked \o <<>> /\ PaViewTypes /\ PaReads /\ PaShows
    BY <1>13 DEF PaInv, PaTypes, PaQueueTypes, paVars, paWire
  <2>2. UNCHANGED <<paConfig, pulse, paState, paSaid, paSubscribed, paMissed, backend, paDp, paReading, paShown, scale>>
    BY <1>13 DEF paVars, paWire, paView, paPast
  <2>3. PaViewTypes'
    BY <2>1, <2>2 DEF PaViewTypes, MainFree, Nothing
  <2>4. PaTypes' /\ PaKnown' /\ (PaMoving => PaMoving') /\ PaFollows' = PaFollows
    BY <2>1, <2>2, <2>3, AskingKeeps
  <2>5. PaReads' /\ PaShows'
    BY <2>1, <2>2, <2>4, PaShowsKeeps
  <2> QED  BY <2>4, <2>5 DEF PaInv
<1> QED  BY <1>1, <1>2, <1>3, <1>4, <1>5, <1>6, <1>7, <1>8, <1>9, <1>10, <1>11, <1>12, <1>13 DEF PaNext

LEMMA PaInvariant == PaSpec => []PaInv
<1>1. PaInit => PaInv
  BY PaInitInv
<1>2. PaInv /\ [PaNext]_paVars => PaInv'
  BY PaNextKeeps
<1> QED  BY <1>1, <1>2, PTL DEF PaSpec

\* AudioBackend: at rest, the sink the default is mapped to and the default source are shown as
\* the server has them, for any sinks, sources and mapping, however events, requests, answers
\* and reads on the other thread were ordered and however often the server went and came back.
THEOREM SinksAreShown == PaSpec => []PaAgrees
<1>1. PaInv => PaAgrees
  BY PaInvAgrees
<1> QED  BY <1>1, PaInvariant, PTL

-----------------------------------------------------------------------------
(* The composition: a step of one component is a step or a stutter of each.  *)

LEMMA StepsOfAudio ==
  ASSUME Next
  PROVE  [WpNext]_wpVars /\ [PaNext]_paVars
<1>1. CASE InNetworkStep
  <2>1. UNCHANGED <<wpVars, paVars>>
    BY <1>1 DEF InNetworkStep, InNetwork
  <2> QED  BY <2>1
<1>2. CASE InMprisStep
  <2>1. UNCHANGED <<wpVars, paVars>>
    BY <1>2 DEF InMprisStep, InMpris
  <2> QED  BY <2>1
<1>3. CASE InBluetoothStep
  <2>1. UNCHANGED <<wpVars, paVars>>
    BY <1>3 DEF InBluetoothStep, InBluetooth
  <2> QED  BY <2>1
<1>4. CASE InWireplumberStep
  <2>1. UNCHANGED paVars
    BY <1>4 DEF InWireplumberStep, InWireplumber
  <2>2. WpNext
    BY <1>4 DEF InWireplumberStep, InWireplumber, WpNext
  <2> QED  BY <2>1, <2>2
<1>5. CASE InAudioStep
  <2>1. UNCHANGED wpVars
    BY <1>5 DEF InAudioStep, InAudio
  <2>2. PaNext
    BY <1>5 DEF InAudioStep, InAudio, PaNext
  <2> QED  BY <2>1, <2>2
<1> QED  BY <1>1, <1>2, <1>3, <1>4, <1>5 DEF Next

\* The two audio modules among the others: what they show at rest is what the sound server has
\* (wireplumber.cpp, audio_backend.cpp, pulseaudio.cpp, pulseaudio_slider.cpp).
THEOREM AudioIsShown == Spec => []AudioAgrees
<1>1. Init => WpInit /\ PaInit
  BY DEF Init
<1>2. [Next]_<<part, netVars, wpVars, paVars, mprisVars, btVars>> => [WpNext]_wpVars /\ [PaNext]_paVars
  <2>1. Next => [WpNext]_wpVars /\ [PaNext]_paVars
    BY StepsOfAudio
  <2>2. UNCHANGED <<part, netVars, wpVars, paVars, mprisVars, btVars>> => UNCHANGED wpVars /\ UNCHANGED paVars
    OBVIOUS
  <2> QED  BY <2>1, <2>2
<1>3. Spec => WpSpec /\ PaSpec
  BY <1>1, <1>2, PTL DEF Spec, WpSpec, PaSpec
<1>4. WpAgrees /\ PaAgrees => AudioAgrees
  BY DEF AudioAgrees
<1> QED  BY <1>3, <1>4, DefaultsAreShown, SinksAreShown, PTL

-----------------------------------------------------------------------------
(* What the helpers on sequences give.                                       *)

LEMMA LeastPosition ==
  ASSUME NEW S, S \subseteq Nat, S # {}
  PROVE  Min(S) \in S
<1>1. IsWellFoundedOn(OpToRel(<, Nat), Nat)
  BY NatLessThanWellFounded
<1>2. PICK x \in S : \A y \in S : ~(<<y, x>> \in OpToRel(<, Nat))
  BY <1>1, WFMin
<1>3. \A y \in S : ~(y < x)
  BY <1>2 DEF OpToRel
<1>4. \A y \in S : x =< y
  BY <1>3
<1> QED  BY <1>4 DEF Min

\* A sequence without the one place of an element.
LEMMA PlaceRemoved ==
  ASSUME NEW S, NEW s \in Seq(S), NEW k \in DOMAIN s,
         \A i, j \in DOMAIN s : s[i] = s[j] => i = j
  PROVE  LET t == RemoveAt(s, k) IN
         /\ t \in Seq(S)
         /\ Len(t) = Len(s) - 1
         /\ \A i \in DOMAIN t : t[i] = IF i < k THEN s[i] ELSE s[i + 1]
<1> DEFINE u == SubSeq(s, 1, k - 1)
           v == SubSeq(s, k + 1, Len(s))
<1>1. k \in 1..Len(s) /\ Len(s) \in Nat
  OBVIOUS
<1>2. u \in Seq(S) /\ Len(u) = k - 1 /\ \A i \in 1..(k - 1) : u[i] = s[i]
  BY <1>1
<1>3. v \in Seq(S) /\ Len(v) = Len(s) - k /\ \A i \in 1..(Len(s) - k) : v[i] = s[k + i]
  BY <1>1
<1> HIDE DEF u, v
<1>4. u \o v \in Seq(S) /\ Len(u \o v) = Len(s) - 1
  BY <1>1, <1>2, <1>3
<1>5. \A i \in 1..(Len(s) - 1) : (u \o v)[i] = IF i < k THEN s[i] ELSE s[i + 1]
  BY <1>1, <1>2, <1>3
<1>6. RemoveAt(s, k) = u \o v
  BY DEF RemoveAt, u, v
<1>7. DOMAIN (u \o v) = 1..(Len(s) - 1)
  BY <1>4
<1> QED  BY <1>4, <1>5, <1>6, <1>7

\* .. keeps its other elements, once each.
LEMMA ElementRemoved ==
  ASSUME NEW S, NEW s \in Seq(S), NEW k \in DOMAIN s,
         \A i, j \in DOMAIN s : s[i] = s[j] => i = j
  PROVE  LET t == RemoveAt(s, k) IN
         /\ t \in Seq(S)
         /\ \A i, j \in DOMAIN t : t[i] = t[j] => i = j
         /\ \A i \in DOMAIN t : \E j \in DOMAIN s : j # k /\ t[i] = s[j]
         /\ \A j \in DOMAIN s : j # k => \E i \in DOMAIN t : t[i] = s[j]
         /\ ToSet(t) = ToSet(s) \ {s[k]}
<1> DEFINE t == RemoveAt(s, k)
<1>1. t \in Seq(S) /\ Len(t) = Len(s) - 1 /\ \A i \in DOMAIN t : t[i] = IF i < k THEN s[i] ELSE s[i + 1]
  BY PlaceRemoved
<1> HIDE DEF t
<1>2. DOMAIN t = 1..(Len(s) - 1) /\ DOMAIN s = 1..Len(s) /\ Len(s) \in Nat /\ k \in 1..Len(s)
  BY <1>1
<1>3. \A i \in DOMAIN t : \E j \in DOMAIN s : j # k /\ t[i] = s[j]
  BY <1>1, <1>2
<1>4. \A j \in DOMAIN s : j # k => \E i \in DOMAIN t : t[i] = s[j]
  <2> SUFFICES ASSUME NEW j \in DOMAIN s, j # k
               PROVE  \E i \in DOMAIN t : t[i] = s[j]
    OBVIOUS
  <2>1. CASE j < k
    BY <2>1, <1>1, <1>2
  <2>2. CASE j > k
    <3>1. j - 1 \in DOMAIN t /\ ~(j - 1 < k) /\ (j - 1) + 1 = j
      BY <2>2, <1>2
    <3>2. t[j - 1] = s[j]
      BY <3>1, <1>1
    <3> QED  BY <3>1, <3>2
  <2> QED  BY <2>1, <2>2, <1>2
<1>5. \A i, j \in DOMAIN t : t[i] = t[j] => i = j
  <2> SUFFICES ASSUME NEW i \in DOMAIN t, NEW j \in DOMAIN t, t[i] = t[j]
               PROVE  i = j
    OBVIOUS
  <2>1. i \in DOMAIN s /\ i + 1 \in DOMAIN s /\ j \in DOMAIN s /\ j + 1 \in DOMAIN s
    BY <1>2
  <2> QED  BY <2>1, <1>1, <1>2
<1>6. ToSet(t) = ToSet(s) \ {s[k]}
  BY <1>3, <1>4 DEF ToSet
<1> QED  BY <1>1, <1>3, <1>4, <1>5, <1>6 DEF t

\* RemoveFirst() takes an element out of a sequence that has it at most once.
LEMMA RemovedFirst ==
  ASSUME NEW S, NEW s \in Seq(S), NEW e, \A i, j \in DOMAIN s : s[i] = s[j] => i = j
  PROVE  LET t == RemoveFirst(s, e) IN
         /\ t \in Seq(S)
         /\ \A i, j \in DOMAIN t : t[i] = t[j] => i = j
         /\ ToSet(t) = ToSet(s) \ {e}
<1>1. DOMAIN s = 1..Len(s)
  OBVIOUS
<1>2. CASE \E i \in 1..Len(s) : s[i] = e
  <2> DEFINE I == {i \in 1..Len(s) : s[i] = e}
             k == Min(I)
  <2>1. I \subseteq Nat /\ I # {}
    BY <1>2
  <2>2. k \in I
    <3> HIDE DEF I
    <3> QED  BY <2>1, LeastPosition
  <2>3. RemoveFirst(s, e) = RemoveAt(s, k)
    BY <1>2 DEF RemoveFirst, SelectInSeq
  <2> HIDE DEF k
  <2>4. k \in DOMAIN s /\ s[k] = e
    BY <2>2
  <2> QED  BY <2>3, <2>4, ElementRemoved
<1>3. CASE ~\E i \in 1..Len(s) : s[i] = e
  <2>1. RemoveFirst(s, e) = s
    BY <1>3 DEF RemoveFirst
  <2>2. e \notin ToSet(s)
    BY <1>3 DEF ToSet
  <2> QED  BY <2>1, <2>2
<1> QED  BY <1>2, <1>3

-----------------------------------------------------------------------------
(* mpris.cpp.  Every change of a player that could be shown is heard, because *)
(* the object that hears it lives; until the update, dp is pending.           *)

MprisTypes ==
  /\ mprisConfig \in MprisConfigs
  /\ apps \in [Player -> [status : {"playing", "paused", "stopped"}, track : MprisTracks]]
  /\ recency \in Seq(Player) /\ \A i, j \in DOMAIN recency : recency[i] = recency[j] => i = j
  /\ player \in Nat /\ lastActive \in Nat /\ mprisNews \in Nat
  /\ mprisAlive \in BOOLEAN /\ mprisDp \in BOOLEAN /\ mprisDropped \in BOOLEAN
  /\ mprisLost \in BOOLEAN /\ mprisTouched \in BOOLEAN
  /\ "visible" \in DOMAIN mprisShown /\ mprisShown.visible \in BOOLEAN

\* The objects of one name: the present one, the one shown before, and those that were lost.
ObjectsHear ==
  /\ mprisHandlers \in SUBSET (Nat \ {0}) /\ IsFiniteSet(mprisHandlers) /\ Cardinality(mprisHandlers) <= mprisNews + 1
  /\ mprisAlive =>
       /\ {player, lastActive} \subseteq mprisHandlers \cup {0}
       /\ ~NamedPlayer => player # 0 /\ lastActive = 0
       /\ NamedPlayer /\ mprisConfig.player \in ToSet(recency) => player # 0
  /\ ~mprisLost => mprisHandlers \subseteq IF mprisAlive THEN {player, lastActive} ELSE {}
  /\ mprisTouched => mprisLost

\* What the last update saw is still so, unless another one is due.
InfoShown ==
  /\ NamedPlayer /\ mprisShown.visible => mprisShown.who = mprisConfig.player
  /\ mprisAlive /\ ~mprisDp /\ ~mprisDropped =>
       /\ PlayerInfo = NobodyPlays => ~mprisShown.visible
       /\ PlayerInfo # NobodyPlays /\ PlayerInfo.status # "stopped" =>
            /\ mprisShown.visible /\ mprisShown.who = PlayerInfo.who
            /\ mprisShown.status = PlayerInfo.status /\ mprisShown.track = PlayerInfo.track

MprisInv == MprisTypes /\ ObjectsHear /\ InfoShown

\* FirstActive(): nobody if all are ignored, one that plays if one does.
LEMMA ActiveIsFirst ==
  ASSUME NEW r \in Seq(Player), NEW a
  PROVE  LET i == FirstActive(r, a) IN
         /\ ToSet(r) \subseteq mprisConfig.ignored => i = NobodyPlays
         /\ i = NobodyPlays \/ \E p \in ToSet(r) : i = [who |-> p, status |-> a[p].status, track |-> a[p].track]
         /\ \A p \in ToSet(r) \ mprisConfig.ignored : a[p].status = "playing" =>
              \E q \in ToSet(r) \ mprisConfig.ignored :
                i = [who |-> q, status |-> a[q].status, track |-> a[q].track] /\ a[q].status = "playing"
<1> DEFINE L == {k \in 1..Len(r) : r[k] \notin mprisConfig.ignored}
           P == {k \in 1..Len(r) : r[k] \notin mprisConfig.ignored /\ a[r[k]].status = "playing"}
           of(p) == [who |-> p, status |-> a[p].status, track |-> a[p].track]
<1>1. FirstActive(r, a) =
        IF (IF L # {} THEN Min(L) ELSE 0) = 0 THEN NobodyPlays
        ELSE of(r[IF (IF P # {} THEN Min(P) ELSE 0) # 0 THEN (IF P # {} THEN Min(P) ELSE 0) ELSE (IF L # {} THEN Min(L) ELSE 0)])
  BY DEF FirstActive, SelectInSeq
<1>2. L # {} => Min(L) \in L
  <2>1. L \subseteq Nat
    OBVIOUS
  <2> HIDE DEF L
  <2> QED  BY <2>1, LeastPosition
<1>3. P # {} => Min(P) \in P
  <2>1. P \subseteq Nat
    OBVIOUS
  <2> HIDE DEF P
  <2> QED  BY <2>1, LeastPosition
<1>4. DOMAIN r = 1..Len(r)
  OBVIOUS
<1> DEFINE l == Min(L)
           m == Min(P)
<1> HIDE DEF l, m, of
<1>5. L = {} => FirstActive(r, a) = NobodyPlays
  BY <1>1
<1>6. L # {} /\ P = {} => l \in L /\ FirstActive(r, a) = of(r[l])
  BY <1>1, <1>2 DEF l
<1>7. P # {} => m \in P /\ FirstActive(r, a) = of(r[m])
  <2>1. P # {} => L # {} /\ Min(L) # 0 /\ Min(P) # 0
    BY <1>2, <1>3
  <2> QED  BY <2>1, <1>1, <1>3 DEF m
<1>8. ToSet(r) \subseteq mprisConfig.ignored => L = {}
  BY <1>4 DEF ToSet
<1>9. \A p \in ToSet(r) \ mprisConfig.ignored : a[p].status = "playing" => P # {}
  BY <1>4 DEF ToSet
<1>10. \A k \in L : r[k] \in ToSet(r) \ mprisConfig.ignored
  BY <1>4 DEF ToSet
<1>11. \A k \in P : r[k] \in ToSet(r) \ mprisConfig.ignored /\ a[r[k]].status = "playing" /\ k \in L
  BY <1>4 DEF ToSet
<1> HIDE DEF L, P
<1>12. FirstActive(r, a) = NobodyPlays \/ \E p \in ToSet(r) : FirstActive(r, a) = of(p)
  BY <1>5, <1>6, <1>7, <1>10, <1>11
<1>13. \A p \in ToSet(r) \ mprisConfig.ignored : a[p].status = "playing" =>
         \E q \in ToSet(r) \ mprisConfig.ignored : FirstActive(r, a) = of(q) /\ a[q].status = "playing"
  BY <1>7, <1>9, <1>11
<1> QED  BY <1>5, <1>8, <1>12, <1>13 DEF of

\* getPlayerInfo() tells of one player as it is.
LEMMA InfoIsTrue ==
  ASSUME MprisTypes
  PROVE  /\ PlayerInfo # NobodyPlays =>
              /\ PlayerInfo.who \in ToSet(recency) /\ PlayerInfo.who \in Player /\ PlayerInfo.who # Proxy
              /\ PlayerInfo.status = apps[PlayerInfo.who].status /\ PlayerInfo.track = apps[PlayerInfo.who].track
              /\ PlayerInfo.track.ok
              /\ ~NamedPlayer => PlayerInfo = FirstActive(recency, apps)
              /\ NamedPlayer => PlayerInfo.who = mprisConfig.player
         /\ (IF NamedPlayer THEN {mprisConfig.player} \cap ToSet(recency) ELSE ToSet(recency)) \subseteq mprisConfig.ignored
              => PlayerInfo = NobodyPlays
         /\ ~NamedPlayer /\ FirstActive(recency, apps) # NobodyPlays /\ FirstActive(recency, apps).track.ok
              => PlayerInfo = FirstActive(recency, apps)
<1>1. ToSet(recency) \subseteq Player
  BY DEF MprisTypes, ToSet
<1>2. mprisConfig \in MprisConfigs /\ recency \in Seq(Player)
  BY DEF MprisTypes
<1> DEFINE f == FirstActive(recency, apps)
           c == mprisConfig.player
           of(p) == [who |-> p, status |-> apps[p].status, track |-> apps[p].track]
<1>3. /\ ToSet(recency) \subseteq mprisConfig.ignored => f = NobodyPlays
      /\ f = NobodyPlays \/ \E p \in ToSet(recency) : f = of(p)
  BY <1>2, ActiveIsFirst
<1>4. \A p \in Player : of(p).who = p /\ of(p).status = apps[p].status /\ of(p).track = apps[p].track /\ of(p) # NobodyPlays
  BY MprisAssumption DEF NobodyPlays
<1> HIDE DEF f
<1> DEFINE i == IF ~NamedPlayer THEN f
                ELSE IF player = 0 \/ c \in mprisConfig.ignored \/ c \notin ToSet(recency) THEN NobodyPlays
                ELSE of(c)
<1>5. PlayerInfo = IF i # NobodyPlays /\ ~i.track.ok THEN NobodyPlays ELSE i
  BY DEF PlayerInfo, f
<1>6. i = NobodyPlays \/ \E p \in ToSet(recency) : i = of(p)
  BY <1>3
<1>7. NamedPlayer => i = NobodyPlays \/ i = of(c)
  OBVIOUS
<1>8. \A p \in Player : apps[p].track.ok \in BOOLEAN
  BY MprisAssumption DEF MprisTypes
<1>9. NamedPlayer /\ {c} \cap ToSet(recency) \subseteq mprisConfig.ignored => i = NobodyPlays
  OBVIOUS
<1>10. ~NamedPlayer => i = f
  OBVIOUS
<1>11. c \in ToSet(recency) \/ ~NamedPlayer \/ i = NobodyPlays
  OBVIOUS
<1> HIDE DEF i, of
<1>12. PlayerInfo # NobodyPlays => PlayerInfo = i /\ i # NobodyPlays /\ i.track.ok
  BY <1>5, <1>6, <1>4, <1>8, <1>1
<1>13. i # NobodyPlays => /\ i.who \in ToSet(recency) /\ i.who \in Player /\ i.status = apps[i.who].status /\ i.track = apps[i.who].track
                          /\ NamedPlayer => i.who = c
  BY <1>6, <1>7, <1>11, <1>4, <1>1
<1>14. Proxy \notin Player
  BY MprisAssumption
<1> QED  BY <1>3, <1>5, <1>9, <1>10, <1>12, <1>13, <1>14 DEF f

LEMMA MprisInvAgrees ==
  ASSUME MprisInv
  PROVE  MprisAgrees
<1>1. MprisTypes /\ ObjectsHear /\ InfoShown
  BY DEF MprisInv
<1>2. mprisTouched => mprisLost
  BY <1>1 DEF ObjectsHear
<1> SUFFICES ASSUME mprisAlive, ~mprisDp, ~mprisDropped
             PROVE  LET playing == {p \in ToSet(recency) : apps[p].status = "playing"} \ mprisConfig.ignored
                        shows == mprisShown.visible
                        one == mprisConfig.player
                        candidates == IF NamedPlayer THEN {one} \cap ToSet(recency) ELSE ToSet(recency)
                    IN /\ candidates \subseteq mprisConfig.ignored => ~shows
                       /\ ~NamedPlayer /\ playing # {} /\ (\A p \in playing : apps[p].track.ok) =>
                             shows /\ mprisShown.who \in playing /\ mprisShown.status = "playing"
                       /\ shows /\ mprisShown.who \in ToSet(recency) /\ apps[mprisShown.who].status # "stopped" =>
                             LET who == mprisShown.who IN
                             \/ mprisShown.status = apps[who].status /\ mprisShown.track = apps[who].track
                             \/ ~NamedPlayer /\ FirstActive(recency, apps).status = "stopped"
  BY <1>2 DEF MprisAgrees
<1> DEFINE playing == {p \in ToSet(recency) : apps[p].status = "playing"} \ mprisConfig.ignored
           candidates == IF NamedPlayer THEN {mprisConfig.player} \cap ToSet(recency) ELSE ToSet(recency)
           i == PlayerInfo
           f == FirstActive(recency, apps)
<1>3. /\ i = NobodyPlays => ~mprisShown.visible
      /\ i # NobodyPlays /\ i.status # "stopped" =>
           /\ mprisShown.visible /\ mprisShown.who = i.who
           /\ mprisShown.status = i.status /\ mprisShown.track = i.track
      /\ NamedPlayer /\ mprisShown.visible => mprisShown.who = mprisConfig.player
  BY <1>1 DEF InfoShown
<1>4. /\ i # NobodyPlays =>
           /\ i.who \in ToSet(recency)
           /\ i.status = apps[i.who].status /\ i.track = apps[i.who].track
           /\ ~NamedPlayer => i = f
           /\ NamedPlayer => i.who = mprisConfig.player
      /\ candidates \subseteq mprisConfig.ignored => i = NobodyPlays
      /\ ~NamedPlayer /\ f # NobodyPlays /\ f.track.ok => i = f
  BY <1>1, InfoIsTrue
<1>5. candidates \subseteq mprisConfig.ignored => ~mprisShown.visible
  BY <1>3, <1>4
<1>6. ASSUME ~NamedPlayer, playing # {}, \A p \in playing : apps[p].track.ok
      PROVE  mprisShown.visible /\ mprisShown.who \in playing /\ mprisShown.status = "playing"
  <2>1. recency \in Seq(Player)
    BY <1>1 DEF MprisTypes
  <2>2. PICK p \in ToSet(recency) \ mprisConfig.ignored : apps[p].status = "playing"
    BY <1>6
  <2>3. PICK q \in ToSet(recency) \ mprisConfig.ignored :
               f = [who |-> q, status |-> apps[q].status, track |-> apps[q].track] /\ apps[q].status = "playing"
    BY <2>1, <2>2, ActiveIsFirst
  <2>4. q \in playing /\ q # Proxy /\ apps[q].track.ok
    BY <2>1, <2>3, <1>6, MprisAssumption DEF ToSet
  <2>5. f.who = q /\ f.status = "playing" /\ f.track = apps[q].track /\ f # NobodyPlays
    BY <2>3, <2>4 DEF NobodyPlays
  <2> HIDE DEF f
  <2>6. i = f
    BY <2>4, <2>5, <1>4, <1>6
  <2> QED  BY <2>4, <2>5, <2>6, <1>3
<1>7. ASSUME mprisShown.visible, mprisShown.who \in ToSet(recency), apps[mprisShown.who].status # "stopped"
      PROVE  \/ mprisShown.status = apps[mprisShown.who].status /\ mprisShown.track = apps[mprisShown.who].track
             \/ ~NamedPlayer /\ f.status = "stopped"
  <2> HIDE DEF f, i
  <2> QED  BY <1>3, <1>4, <1>7
<1> HIDE DEF f
<1> QED  BY <1>5, <1>6, <1>7 DEF f

LEMMA MprisInitInv ==
  ASSUME MprisInit
  PROVE  MprisInv
<1>1. PICK here \in SUBSET Player : recency \in SetToSeqs(here)
  BY DEF MprisInit
<1>2. IsFiniteSet(here) /\ Cardinality(here) \in Nat
  BY MprisAssumption, FS_Subset, FS_CardinalityType
<1>3. recency \in [1..Cardinality(here) -> here] /\ \A i, j \in 1..Cardinality(here) : i # j => recency[i] # recency[j]
  BY <1>1 DEF SetToSeqs
<1>4. recency \in Seq(Player) /\ DOMAIN recency = 1..Cardinality(here)
  BY <1>2, <1>3
<1>5. \A i, j \in DOMAIN recency : recency[i] = recency[j] => i = j
  BY <1>3, <1>4
<1>6. MprisTypes
  <2>1. apps \in [Player -> [status : {"playing", "paused", "stopped"}, track : MprisTracks]]
    BY DEF MprisInit
  <2>2. "visible" \in DOMAIN mprisShown /\ mprisShown.visible \in BOOLEAN
    BY DEF MprisInit
  <2>3. mprisConfig \in MprisConfigs /\ player \in Nat /\ lastActive \in Nat /\ mprisNews \in Nat
    BY DEF MprisInit
  <2>4. mprisAlive \in BOOLEAN /\ mprisDp \in BOOLEAN /\ mprisDropped \in BOOLEAN /\ mprisLost \in BOOLEAN /\ mprisTouched \in BOOLEAN
    BY DEF MprisInit
  <2> QED  BY <1>4, <1>5, <2>1, <2>2, <2>3, <2>4 DEF MprisTypes
<1>7. ObjectsHear
  <2>1. IsFiniteSet({1}) /\ Cardinality({1}) = 1 /\ IsFiniteSet({}) /\ Cardinality({}) = 0
    BY FS_Singleton, FS_EmptySet
  <2> QED  BY <2>1 DEF MprisInit, ObjectsHear, NamedPlayer
<1>8. InfoShown
  BY DEF MprisInit, InfoShown
<1> QED  BY <1>6, <1>7, <1>8 DEF MprisInv

\* A player comes first, and is there.
LEMMA ComesFirst ==
  ASSUME MprisTypes, NEW p \in Player
  PROVE  /\ First(p) \in Seq(Player)
         /\ \A i, j \in DOMAIN First(p) : First(p)[i] = First(p)[j] => i = j
         /\ ToSet(First(p)) = ToSet(recency) \cup {p}
<1> DEFINE t == RemoveFirst(recency, p)
<1>1. recency \in Seq(Player) /\ \A i, j \in DOMAIN recency : recency[i] = recency[j] => i = j
  BY DEF MprisTypes
<1>2. t \in Seq(Player) /\ (\A i, j \in DOMAIN t : t[i] = t[j] => i = j) /\ ToSet(t) = ToSet(recency) \ {p}
  BY <1>1, RemovedFirst
<1>3. First(p) = <<p>> \o t
  BY DEF First
<1> HIDE DEF t
<1>4. First(p) \in Seq(Player) /\ Len(First(p)) = Len(t) + 1 /\ First(p)[1] = p
      /\ \A i \in 1..Len(t) : First(p)[i + 1] = t[i]
  BY <1>2, <1>3
<1>5. DOMAIN t = 1..Len(t) /\ Len(t) \in Nat /\ DOMAIN First(p) = 1..(Len(t) + 1)
  BY <1>2, <1>4
<1>6. \A i \in DOMAIN First(p) : i = 1 \/ (i - 1 \in DOMAIN t /\ First(p)[i] = t[i - 1])
  <2> TAKE i \in DOMAIN First(p)
  <2>1. CASE i # 1
    <3>1. i - 1 \in 1..Len(t) /\ (i - 1) + 1 = i
      BY <2>1, <1>5
    <3> QED  BY <3>1, <1>4, <1>5
  <2> QED  BY <2>1
<1>7. \A i \in DOMAIN t : t[i] # p
  BY <1>2 DEF ToSet
<1>8. \A i, j \in DOMAIN First(p) : First(p)[i] = First(p)[j] => i = j
  <2> SUFFICES ASSUME NEW i \in DOMAIN First(p), NEW j \in DOMAIN First(p), First(p)[i] = First(p)[j]
               PROVE  i = j
    OBVIOUS
  <2>1. CASE i = 1
    BY <2>1, <1>4, <1>6, <1>7
  <2>2. CASE j = 1
    BY <2>2, <1>4, <1>6, <1>7
  <2>3. CASE i # 1 /\ j # 1
    <3>1. i - 1 = j - 1
      BY <2>3, <1>6, <1>2
    <3> QED  BY <3>1, <1>5
  <2> QED  BY <2>1, <2>2, <2>3
<1>9. ToSet(First(p)) = ToSet(t) \cup {p}
  <2>1. \A x \in ToSet(First(p)) : x \in ToSet(t) \cup {p}
    BY <1>4, <1>6 DEF ToSet
  <2>2. p \in ToSet(First(p))
    BY <1>4, <1>5 DEF ToSet
  <2>3. \A x \in ToSet(t) : x \in ToSet(First(p))
    <3> SUFFICES ASSUME NEW i \in DOMAIN t  PROVE t[i] \in ToSet(First(p))
      BY DEF ToSet
    <3>1. i + 1 \in DOMAIN First(p) /\ First(p)[i + 1] = t[i]
      BY <1>4, <1>5
    <3> QED  BY <3>1 DEF ToSet
  <2> QED  BY <2>1, <2>2, <2>3
<1> QED  BY <1>2, <1>4, <1>8, <1>9

\* What is told of a named player depends on that player alone.
LEMMA InfoStays ==
  ASSUME MprisTypes, NamedPlayer, UNCHANGED <<mprisConfig, player>>,
         mprisConfig.player \in ToSet(recency)' <=> mprisConfig.player \in ToSet(recency),
         apps'[mprisConfig.player] = apps[mprisConfig.player]
  PROVE  PlayerInfo' = PlayerInfo
BY DEF PlayerInfo, NamedPlayer, NobodyPlays

\* A number that no object of the name has.
LEMMA ObjectIsFree ==
  ASSUME MprisTypes, ObjectsHear, mprisAlive, mprisNews < MaxMprisNews
  PROVE  \E o \in 1..(MaxMprisNews + 1) : o \notin (mprisHandlers \ {player}) \cup {lastActive}
<1>1. MaxMprisNews \in Nat /\ mprisNews \in Nat
  BY MprisAssumption DEF MprisTypes
<1>2. SUFFICES ASSUME 1..(MaxMprisNews + 1) \subseteq (mprisHandlers \ {player}) \cup {lastActive}
               PROVE  FALSE
  OBVIOUS
<1>3. 1..(MaxMprisNews + 1) \subseteq mprisHandlers
  BY <1>1, <1>2 DEF ObjectsHear
<1>4. IsFiniteSet(mprisHandlers) /\ Cardinality(mprisHandlers) <= mprisNews + 1 /\ Cardinality(mprisHandlers) \in Nat
  BY FS_CardinalityType DEF ObjectsHear
<1>5. Cardinality(1..(MaxMprisNews + 1)) = MaxMprisNews + 1
  BY <1>1, FS_Interval
<1>6. Cardinality(1..(MaxMprisNews + 1)) <= Cardinality(mprisHandlers)
  BY <1>3, <1>4, FS_Subset
<1> QED  BY <1>1, <1>4, <1>5, <1>6

\* A signal of a player that is there is heard by the object that shows it.
LEMMA SignalIsHeard ==
  ASSUME MprisTypes, ObjectsHear, InfoShown, NEW p, Signalled(p), UNCHANGED <<mprisConfig, mprisAlive, mprisLost>>
  PROVE  /\ mprisDp' \in BOOLEAN /\ mprisTouched' \in BOOLEAN
         /\ mprisTouched' => mprisLost'
         /\ mprisDp => mprisAlive \/ mprisDp'
         /\ mprisAlive /\ ~mprisDp' => ~mprisDp /\ NamedPlayer /\ (p = mprisConfig.player => p \notin ToSet(recency))
<1> DEFINE hears == IF NamedPlayer THEN mprisConfig.player = p /\ mprisHandlers # {} ELSE mprisHandlers # {}
<1>1. mprisDp' = (mprisDp \/ (hears /\ mprisAlive)) /\ mprisTouched' = (mprisTouched \/ (hears /\ ~mprisAlive))
  BY DEF Signalled
<1>2. hears => mprisHandlers # {}
  OBVIOUS
<1>3. mprisAlive /\ ~NamedPlayer => hears
  BY DEF ObjectsHear
<1>4. mprisAlive /\ NamedPlayer /\ p = mprisConfig.player /\ p \in ToSet(recency) => hears
  BY DEF ObjectsHear
<1> HIDE DEF hears
<1>5. mprisDp \in BOOLEAN /\ mprisTouched \in BOOLEAN /\ mprisAlive \in BOOLEAN
  BY DEF MprisTypes
<1>6. mprisTouched => mprisLost
  BY DEF ObjectsHear
<1>7. ~mprisAlive /\ ~mprisLost => mprisHandlers = {}
  BY DEF ObjectsHear
<1> QED  BY <1>1, <1>2, <1>3, <1>4, <1>5, <1>6, <1>7

LEMMA AppAppearsKeeps ==
  ASSUME MprisInv, NEW p \in Player, NEW s \in {"playing", "paused", "stopped"}, NEW t \in MprisTracks, AppAppears(p, s, t)
  PROVE  MprisInv'
<1>1. MprisTypes /\ ObjectsHear /\ InfoShown
  BY DEF MprisInv
<1>2. /\ mprisNews < MaxMprisNews /\ mprisNews' = mprisNews + 1 /\ p \notin ToSet(recency)
      /\ apps' = [apps EXCEPT ![p] = [status |-> s, track |-> t]] /\ recency' = First(p)
      /\ UNCHANGED <<mprisConfig, mprisAlive, justUpdated, mprisShown, mprisDropped, mprisLost>>
  BY DEF AppAppears, News
<1>3. apps' \in [Player -> [status : {"playing", "paused", "stopped"}, track : MprisTracks]]
      /\ \A q \in Player : q # p => apps'[q] = apps[q]
  BY <1>1, <1>2 DEF MprisTypes
<1>4. recency' \in Seq(Player) /\ (\A i, j \in DOMAIN recency' : recency'[i] = recency'[j] => i = j)
      /\ ToSet(recency)' = ToSet(recency) \cup {p}
  BY <1>1, <1>2, ComesFirst
<1>5. mprisNews' \in Nat /\ mprisNews \in Nat
  BY <1>1, <1>2 DEF MprisTypes
<1>6. CASE NamedPlayer /\ p = mprisConfig.player /\ mprisAlive
  <2> DEFINE kept == mprisHandlers \ {player}
             new == CHOOSE o \in 1..(MaxMprisNews + 1) : o \notin kept \cup {lastActive}
  <2>1. /\ player' = new /\ mprisHandlers' = kept \cup {new}
        /\ lastActive' = IF lastActive = player THEN 0 ELSE lastActive
        /\ mprisDp' = TRUE /\ UNCHANGED mprisTouched
    BY <1>6 DEF AppAppears
  <2>2. new \in 1..(MaxMprisNews + 1)
    BY <1>1, <1>2, <1>6, ObjectIsFree
  <2> HIDE DEF new
  <2>3. new \in Nat /\ new # 0
    BY <2>2, MprisAssumption
  <2>4. MprisTypes'
    BY <1>1, <1>2, <1>3, <1>4, <1>5, <2>1, <2>3 DEF MprisTypes
  <2>5. ObjectsHear'
    <3>1. IsFiniteSet(mprisHandlers) /\ Cardinality(mprisHandlers) \in Nat /\ Cardinality(mprisHandlers) <= mprisNews + 1
      BY <1>1, FS_CardinalityType DEF ObjectsHear
    <3>2. IsFiniteSet(kept) /\ Cardinality(kept) <= Cardinality(mprisHandlers) /\ Cardinality(kept) \in Nat
      BY <3>1, FS_Subset, FS_CardinalityType
    <3> HIDE DEF kept
    <3>3. IsFiniteSet(kept \cup {new}) /\ Cardinality(kept \cup {new}) <= Cardinality(kept) + 1
          /\ Cardinality(kept \cup {new}) \in Nat
      <4>1. IsFiniteSet(kept \cup {new})
            /\ Cardinality(kept \cup {new}) = IF new \in kept THEN Cardinality(kept) ELSE Cardinality(kept) + 1
        BY <3>2, FS_AddElement
      <4> QED  BY <4>1, <3>2
    <3>4. Cardinality(mprisHandlers') <= mprisNews' + 1
      BY <3>1, <3>2, <3>3, <2>1, <1>2, <1>5
    <3>5. mprisHandlers' \in SUBSET (Nat \ {0}) /\ IsFiniteSet(mprisHandlers')
      BY <1>1, <2>1, <2>3, <3>3 DEF ObjectsHear, kept
    <3>6. {player', lastActive'} \subseteq mprisHandlers' \cup {0}
      BY <1>1, <1>6, <2>1 DEF ObjectsHear, kept
    <3>7. NamedPlayer' /\ player' # 0 /\ mprisAlive'
      BY <1>2, <1>6, <2>1, <2>3 DEF NamedPlayer
    <3>8. ~mprisLost' => mprisHandlers' \subseteq {player', lastActive'}
      BY <1>1, <1>2, <1>6, <2>1 DEF ObjectsHear, kept
    <3>9. mprisTouched' => mprisLost'
      BY <1>1, <1>2, <2>1 DEF ObjectsHear
    <3> QED  BY <3>4, <3>5, <3>6, <3>7, <3>8, <3>9 DEF ObjectsHear
  <2>6. InfoShown'
    BY <1>1, <1>2, <2>1 DEF InfoShown, NamedPlayer
  <2> QED  BY <2>4, <2>5, <2>6 DEF MprisInv
<1>7. CASE ~(NamedPlayer /\ p = mprisConfig.player /\ mprisAlive)
  <2>1. UNCHANGED mprisObjects /\ Signalled(p)
    BY <1>7 DEF AppAppears
  <2>2. UNCHANGED <<player, lastActive, mprisHandlers>>
    BY <2>1 DEF mprisObjects
  <2>3. /\ mprisDp' \in BOOLEAN /\ mprisTouched' \in BOOLEAN
        /\ mprisTouched' => mprisLost'
        /\ mprisAlive /\ ~mprisDp' => ~mprisDp /\ NamedPlayer
    BY <1>1, <1>2, <2>1, SignalIsHeard
  <2>4. MprisTypes'
    BY <1>1, <1>2, <1>3, <1>4, <1>5, <2>2, <2>3 DEF MprisTypes
  <2>5. ObjectsHear'
    <3>1. Cardinality(mprisHandlers') <= mprisNews' + 1
      BY <1>1, <1>2, <1>5, <2>2, FS_CardinalityType DEF ObjectsHear
    <3>2. NamedPlayer' = NamedPlayer
      BY <1>2 DEF NamedPlayer
    <3>3. mprisAlive /\ NamedPlayer /\ mprisConfig.player \in ToSet(recency)' => mprisConfig.player \in ToSet(recency)
      BY <1>4, <1>7
    <3> QED  BY <1>1, <1>2, <2>2, <2>3, <3>1, <3>2, <3>3 DEF ObjectsHear
  <2>6. InfoShown'
    <3>1. NamedPlayer' = NamedPlayer
      BY <1>2 DEF NamedPlayer
    <3>2. ASSUME mprisAlive, ~mprisDp', ~mprisDropped
          PROVE  PlayerInfo' = PlayerInfo /\ ~mprisDp
      <4>1. NamedPlayer /\ p # mprisConfig.player /\ ~mprisDp
        BY <1>7, <2>3, <3>2
      <4>2. mprisConfig.player \in Player
        BY <4>1, <1>1, MprisAssumption DEF NamedPlayer, MprisTypes
      <4>3. apps'[mprisConfig.player] = apps[mprisConfig.player]
        BY <4>1, <4>2, <1>3
      <4> QED  BY <4>1, <4>3, <1>1, <1>2, <1>4, <2>2, InfoStays
    <3>3. NobodyPlays' = NobodyPlays
      BY DEF NobodyPlays
    <3> QED  BY <1>1, <1>2, <3>1, <3>2, <3>3 DEF InfoShown
  <2> QED  BY <2>4, <2>5, <2>6 DEF MprisInv
<1> QED  BY <1>6, <1>7

\* .. and else on the players and their order.
LEMMA SameInfo ==
  ASSUME UNCHANGED <<mprisConfig, player, recency, apps>>
  PROVE  PlayerInfo' = PlayerInfo
<1>1. FirstActive(recency, apps)' = FirstActive(recency, apps)
  BY DEF FirstActive, SelectInSeq, NobodyPlays
<1> QED  BY <1>1 DEF PlayerInfo, NamedPlayer, NobodyPlays

LEMMA AppVanishesKeeps ==
  ASSUME MprisInv, NEW p \in Player, AppVanishes(p)
  PROVE  MprisInv'
<1>1. MprisTypes /\ ObjectsHear /\ InfoShown
  BY DEF MprisInv
<1>2. /\ mprisNews' = mprisNews + 1 /\ recency' = RemoveFirst(recency, p)
      /\ UNCHANGED <<mprisConfig, apps, mprisAlive, lastActive, mprisHandlers, mprisShown, mprisDropped, mprisTouched>>
  BY DEF AppVanishes, News
<1>3. recency' \in Seq(Player) /\ (\A i, j \in DOMAIN recency' : recency'[i] = recency'[j] => i = j)
      /\ ToSet(recency)' = ToSet(recency) \ {p}
  BY <1>1, <1>2, RemovedFirst DEF MprisTypes
<1>4. mprisNews' \in Nat /\ mprisNews \in Nat
  BY <1>1, <1>2 DEF MprisTypes
<1>5. NamedPlayer' = NamedPlayer /\ NobodyPlays' = NobodyPlays
  BY <1>2 DEF NamedPlayer, NobodyPlays
<1>6. Cardinality(mprisHandlers') <= mprisNews' + 1
  BY <1>1, <1>2, <1>4, FS_CardinalityType DEF ObjectsHear
<1>7. CASE mprisAlive /\ NamedPlayer /\ p = mprisConfig.player
  <2>1. player' = 0 /\ mprisDp' = TRUE /\ mprisLost' = (mprisLost \/ (player # 0 /\ lastActive # player))
    BY <1>7 DEF AppVanishes
  <2>2. MprisTypes'
    BY <1>1, <1>2, <1>3, <1>4, <2>1 DEF MprisTypes
  <2>3. ObjectsHear'
    <3>1. ~mprisLost' => ~mprisLost /\ (player = 0 \/ lastActive = player)
      BY <2>1, <1>1 DEF MprisTypes
    <3>2. ~mprisLost' => mprisHandlers \subseteq {player', lastActive'}
      BY <1>1, <1>2, <1>7, <2>1, <3>1 DEF ObjectsHear
    <3>3. mprisTouched' => mprisLost'
      BY <1>1, <1>2, <2>1 DEF ObjectsHear
    <3>4. mprisConfig.player \notin ToSet(recency)'
      BY <1>3, <1>7
    <3> QED  BY <1>1, <1>2, <1>5, <1>6, <1>7, <2>1, <3>2, <3>3, <3>4 DEF ObjectsHear
  <2>4. InfoShown'
    BY <1>1, <1>2, <1>5, <2>1 DEF InfoShown
  <2> QED  BY <2>2, <2>3, <2>4 DEF MprisInv
<1>8. CASE ~(mprisAlive /\ NamedPlayer /\ p = mprisConfig.player)
  <2>1. mprisDp' = (mprisDp \/ (mprisAlive /\ ~NamedPlayer)) /\ UNCHANGED <<player, mprisLost>>
    BY <1>8 DEF AppVanishes
  <2>2. MprisTypes'
    <3>1. mprisDp' \in BOOLEAN
      BY <2>1, <1>1 DEF MprisTypes
    <3> QED  BY <1>1, <1>2, <1>3, <1>4, <2>1, <3>1 DEF MprisTypes
  <2>3. ObjectsHear'
    BY <1>1, <1>2, <1>3, <1>5, <1>6, <2>1 DEF ObjectsHear
  <2>4. InfoShown'
    <3>1. ASSUME mprisAlive, ~mprisDp'
          PROVE  PlayerInfo' = PlayerInfo /\ ~mprisDp
      <4>1. NamedPlayer /\ p # mprisConfig.player /\ ~mprisDp
        BY <1>8, <2>1, <3>1, <1>1 DEF MprisTypes
      <4> QED  BY <4>1, <1>1, <1>2, <1>3, <2>1, InfoStays
    <3> QED  BY <1>1, <1>2, <1>5, <3>1 DEF InfoShown
  <2> QED  BY <2>2, <2>3, <2>4 DEF MprisInv
<1> QED  BY <1>7, <1>8

LEMMA PlayerChangesKeeps ==
  ASSUME MprisInv, NEW p \in Player, NEW s \in {"playing", "paused", "stopped"}, NEW t \in MprisTracks, PlayerChanges(p, s, t)
  PROVE  MprisInv'
<1>1. MprisTypes /\ ObjectsHear /\ InfoShown
  BY DEF MprisInv
<1>2. /\ mprisNews' = mprisNews + 1 /\ p \in ToSet(recency)
      /\ apps' = [apps EXCEPT ![p] = [status |-> s, track |-> t]] /\ recency' = First(p)
      /\ Signalled(p)
      /\ UNCHANGED <<mprisConfig, mprisAlive, mprisShown, mprisDropped, mprisLost>>
      /\ UNCHANGED <<player, lastActive, mprisHandlers>>
  BY DEF PlayerChanges, AppChanges, News, mprisObjects
<1>3. apps' \in [Player -> [status : {"playing", "paused", "stopped"}, track : MprisTracks]]
      /\ \A q \in Player : q # p => apps'[q] = apps[q]
  BY <1>1, <1>2 DEF MprisTypes
<1>4. recency' \in Seq(Player) /\ (\A i, j \in DOMAIN recency' : recency'[i] = recency'[j] => i = j)
      /\ ToSet(recency)' = ToSet(recency)
  <2>1. recency' \in Seq(Player) /\ (\A i, j \in DOMAIN recency' : recency'[i] = recency'[j] => i = j)
        /\ ToSet(recency)' = ToSet(recency) \cup {p}
    BY <1>1, <1>2, ComesFirst
  <2>2. ToSet(recency) \cup {p} = ToSet(recency)
    BY <1>2
  <2> QED  BY <2>1, <2>2
<1>5. mprisNews' \in Nat /\ mprisNews \in Nat
  BY <1>1, <1>2 DEF MprisTypes
<1>6. /\ mprisDp' \in BOOLEAN /\ mprisTouched' \in BOOLEAN
      /\ mprisTouched' => mprisLost'
      /\ mprisAlive /\ ~mprisDp' => ~mprisDp /\ NamedPlayer /\ p # mprisConfig.player
  BY <1>1, <1>2, SignalIsHeard
<1>7. NamedPlayer' = NamedPlayer /\ NobodyPlays' = NobodyPlays
  BY <1>2 DEF NamedPlayer, NobodyPlays
<1>8. MprisTypes'
  BY <1>1, <1>2, <1>3, <1>4, <1>5, <1>6 DEF MprisTypes
<1>9. ObjectsHear'
  <2>1. Cardinality(mprisHandlers') <= mprisNews' + 1
    BY <1>1, <1>2, <1>5, FS_CardinalityType DEF ObjectsHear
  <2> QED  BY <1>1, <1>2, <1>4, <1>6, <1>7, <2>1 DEF ObjectsHear
<1>10. InfoShown'
  <2>1. ASSUME mprisAlive, ~mprisDp'
        PROVE  PlayerInfo' = PlayerInfo /\ ~mprisDp
    <3>1. NamedPlayer /\ p # mprisConfig.player /\ ~mprisDp
      BY <1>6, <2>1
    <3>2. mprisConfig.player \in Player
      BY <3>1, <1>1, MprisAssumption DEF NamedPlayer, MprisTypes
    <3>3. apps'[mprisConfig.player] = apps[mprisConfig.player]
      BY <3>1, <3>2, <1>3
    <3> QED  BY <3>1, <3>3, <1>1, <1>2, <1>4, InfoStays
  <2> QED  BY <1>1, <1>2, <1>7, <2>1 DEF InfoShown
<1> QED  BY <1>8, <1>9, <1>10 DEF MprisInv

\* Releasing the player shown before leaves the present one, and loses none.
LEMMA ReleaseKeeps ==
  ASSUME MprisTypes, ObjectsHear, GetPlayerInfo, UNCHANGED <<mprisConfig, mprisAlive, mprisLost, mprisTouched>>,
         mprisAlive, ToSet(recency)' = ToSet(recency), mprisNews' \in {mprisNews, mprisNews + 1}
  PROVE  /\ ObjectsHear' /\ UNCHANGED player /\ lastActive' \in Nat
<1>1. UNCHANGED player
  BY DEF GetPlayerInfo, mprisObjects
<1>2. lastActive' \in {lastActive, player, 0} /\ mprisHandlers' \subseteq mprisHandlers
  BY DEF GetPlayerInfo, mprisObjects
<1>3. IsFiniteSet(mprisHandlers') /\ Cardinality(mprisHandlers') <= mprisNews' + 1
  <2>1. IsFiniteSet(mprisHandlers) /\ Cardinality(mprisHandlers) \in Nat /\ Cardinality(mprisHandlers) <= mprisNews + 1
    BY FS_CardinalityType DEF ObjectsHear
  <2>2. IsFiniteSet(mprisHandlers') /\ Cardinality(mprisHandlers') <= Cardinality(mprisHandlers) /\ Cardinality(mprisHandlers') \in Nat
    BY <2>1, <1>2, FS_Subset, FS_CardinalityType
  <2>3. mprisNews \in Nat
    BY DEF MprisTypes
  <2> QED  BY <2>1, <2>2, <2>3
<1>4. NamedPlayer' = NamedPlayer
  BY DEF NamedPlayer
<1>5. {player', lastActive'} \subseteq mprisHandlers' \cup {0}
  BY DEF GetPlayerInfo, mprisObjects, ObjectsHear
<1>6. ~NamedPlayer => player' # 0 /\ lastActive' = 0
  BY DEF GetPlayerInfo, mprisObjects, ObjectsHear
<1>7. ~mprisLost => mprisHandlers' \subseteq {player', lastActive'}
  <2>1. ~mprisLost => mprisHandlers \subseteq {player, lastActive}
    BY DEF ObjectsHear
  <2>2. CASE player = 0 \/ ~NamedPlayer
    BY <2>1, <2>2 DEF GetPlayerInfo, mprisObjects
  <2>3. CASE ~(player = 0 \/ ~NamedPlayer)
    <3>1. mprisHandlers' = mprisHandlers \ ({lastActive} \ {player})
      BY <2>3 DEF GetPlayerInfo
    <3> QED  BY <1>1, <2>1, <3>1
  <2> QED  BY <2>2, <2>3
<1>8. ObjectsHear'
  BY <1>1, <1>2, <1>3, <1>4, <1>5, <1>6, <1>7 DEF ObjectsHear
<1> QED  BY <1>1, <1>2, <1>8 DEF MprisTypes

LEMMA MprisClickedKeeps ==
  ASSUME MprisInv, MprisClicked
  PROVE  MprisInv'
<1>1. MprisTypes /\ ObjectsHear /\ InfoShown
  BY DEF MprisInv
<1>2. PICK p : p = PlayerInfo.who
  OBVIOUS
<1>3. p \in Player /\ p \in ToSet(recency)
  BY <1>1, <1>2, InfoIsTrue DEF MprisClicked
<1>4. /\ mprisAlive /\ GetPlayerInfo /\ mprisNews' = mprisNews + 1
      /\ apps' = [apps EXCEPT ![p].status = IF @ = "playing" THEN "paused" ELSE "playing"]
      /\ recency' = First(p) /\ mprisDp' = TRUE
      /\ UNCHANGED <<mprisConfig, mprisAlive, mprisShown, mprisDropped, mprisLost, mprisTouched>>
  BY <1>2 DEF MprisClicked, News
<1>5. apps' \in [Player -> [status : {"playing", "paused", "stopped"}, track : MprisTracks]]
  BY <1>1, <1>3, <1>4 DEF MprisTypes
<1>6. recency' \in Seq(Player) /\ (\A i, j \in DOMAIN recency' : recency'[i] = recency'[j] => i = j)
      /\ ToSet(recency)' = ToSet(recency)
  <2>1. recency' \in Seq(Player) /\ (\A i, j \in DOMAIN recency' : recency'[i] = recency'[j] => i = j)
        /\ ToSet(recency)' = ToSet(recency) \cup {p}
    BY <1>1, <1>3, <1>4, ComesFirst
  <2>2. ToSet(recency) \cup {p} = ToSet(recency)
    BY <1>3
  <2> QED  BY <2>1, <2>2
<1>7. ObjectsHear' /\ UNCHANGED player /\ lastActive' \in Nat
  BY <1>1, <1>4, <1>6, ReleaseKeeps
<1>8. MprisTypes'
  BY <1>1, <1>4, <1>5, <1>6, <1>7 DEF MprisTypes
<1>9. InfoShown'
  BY <1>1, <1>4 DEF InfoShown, NamedPlayer
<1> QED  BY <1>7, <1>8, <1>9 DEF MprisInv

LEMMA MprisUpdateKeeps ==
  ASSUME MprisInv, MprisUpdate
  PROVE  MprisInv'
<1>1. MprisTypes /\ ObjectsHear /\ InfoShown
  BY DEF MprisInv
<1>2. /\ mprisAlive /\ mprisDp' = FALSE
      /\ UNCHANGED <<mprisConfig, apps, recency, mprisAlive, mprisNews, mprisLost, mprisTouched>>
  BY DEF MprisUpdate
<1>3. NamedPlayer' = NamedPlayer /\ NobodyPlays' = NobodyPlays
  BY <1>2 DEF NamedPlayer, NobodyPlays
<1>4. ToSet(recency)' = ToSet(recency)
  BY <1>2
<1>5. CASE justUpdated
  <2>1. mprisDropped' = TRUE /\ UNCHANGED <<player, lastActive, mprisHandlers, mprisShown>>
    BY <1>5 DEF MprisUpdate, mprisObjects
  <2>2. MprisTypes' /\ InfoShown'
    BY <1>1, <1>2, <1>3, <2>1 DEF MprisTypes, InfoShown
  <2>3. ObjectsHear'
    BY <1>1, <1>2, <1>3, <1>4, <2>1 DEF ObjectsHear
  <2> QED  BY <2>2, <2>3 DEF MprisInv
<1>6. CASE ~justUpdated
  <2> DEFINE i == PlayerInfo
  <2>1. /\ mprisDropped' = FALSE /\ GetPlayerInfo
        /\ i = NobodyPlays => mprisShown' = [mprisShown EXCEPT !.visible = FALSE]
        /\ i # NobodyPlays /\ i.status = "stopped" => mprisShown' = mprisShown
        /\ i # NobodyPlays /\ i.status # "stopped" =>
             mprisShown' = [visible |-> TRUE, who |-> i.who, status |-> i.status, track |-> i.track,
                            text |-> GetDynamicStr(mprisConfig, i.track)]
    BY <1>6 DEF MprisUpdate
  <2>2. ObjectsHear' /\ UNCHANGED player /\ lastActive' \in Nat
    BY <1>1, <1>2, <1>4, <2>1, ReleaseKeeps
  <2>3. PlayerInfo' = PlayerInfo
    BY <1>2, <2>2, SameInfo
  <2>4. NamedPlayer /\ i # NobodyPlays => i.who = mprisConfig.player
    BY <1>1, InfoIsTrue
  <2> HIDE DEF i
  <2>5. mprisShown' \in {[mprisShown EXCEPT !.visible = FALSE], mprisShown} \/ (i # NobodyPlays /\ i.status # "stopped")
    BY <2>1
  <2>6. "visible" \in DOMAIN mprisShown' /\ mprisShown'.visible \in BOOLEAN
    <3>1. "visible" \in DOMAIN mprisShown /\ mprisShown.visible \in BOOLEAN
      BY <1>1 DEF MprisTypes
    <3>2. CASE mprisShown' = [mprisShown EXCEPT !.visible = FALSE]
      BY <3>1, <3>2
    <3>3. CASE mprisShown' = mprisShown
      BY <3>1, <3>3
    <3>4. CASE i # NobodyPlays /\ i.status # "stopped"
      <4>1. PICK w, x, y, z : mprisShown' = [visible |-> TRUE, who |-> w, status |-> x, track |-> y, text |-> z]
        BY <2>1, <3>4
      <4> QED  BY <4>1
    <3> QED  BY <2>5, <3>2, <3>3, <3>4
  <2>7. i = NobodyPlays => ~mprisShown'.visible
    <3>1. "visible" \in DOMAIN mprisShown
      BY <1>1 DEF MprisTypes
    <3> QED  BY <2>1, <3>1
  <2>8. i # NobodyPlays /\ i.status # "stopped" =>
          mprisShown'.visible /\ mprisShown'.who = i.who /\ mprisShown'.status = i.status /\ mprisShown'.track = i.track
    BY <2>1
  <2>9. NamedPlayer /\ mprisShown'.visible => mprisShown'.who = mprisConfig.player
    BY <1>1, <2>1, <2>4, <2>7, <2>8 DEF InfoShown
  <2>10. MprisTypes'
    BY <1>1, <1>2, <2>1, <2>2, <2>6 DEF MprisTypes
  <2>11. InfoShown'
    BY <1>2, <1>3, <2>3, <2>7, <2>8, <2>9 DEF InfoShown, i
  <2> QED  BY <2>2, <2>10, <2>11 DEF MprisInv
<1> QED  BY <1>5, <1>6

LEMMA MprisDestroyedKeeps ==
  ASSUME MprisInv, MprisDestroyed
  PROVE  MprisInv'
<1>1. MprisTypes /\ ObjectsHear /\ InfoShown
  BY DEF MprisInv
<1>2. /\ mprisAlive /\ mprisAlive' = FALSE /\ mprisDp' = FALSE
      /\ mprisHandlers' = mprisHandlers \ {player, lastActive} /\ player' = 0 /\ lastActive' = 0
      /\ UNCHANGED <<mprisConfig, apps, recency, mprisShown, mprisNews, mprisDropped, mprisLost, mprisTouched>>
  BY DEF MprisDestroyed
<1>3. MprisTypes'
  BY <1>1, <1>2 DEF MprisTypes
<1>4. ObjectsHear'
  <2>1. IsFiniteSet(mprisHandlers) /\ Cardinality(mprisHandlers) \in Nat /\ Cardinality(mprisHandlers) <= mprisNews + 1
    BY <1>1, FS_CardinalityType DEF ObjectsHear
  <2>2. IsFiniteSet(mprisHandlers') /\ Cardinality(mprisHandlers') <= Cardinality(mprisHandlers) /\ Cardinality(mprisHandlers') \in Nat
    BY <2>1, <1>2, FS_Subset, FS_CardinalityType
  <2>3. mprisNews \in Nat
    BY <1>1 DEF MprisTypes
  <2>4. Cardinality(mprisHandlers') <= mprisNews' + 1
    BY <2>1, <2>2, <2>3, <1>2
  <2> QED  BY <1>1, <1>2, <2>2, <2>4 DEF ObjectsHear
<1>5. InfoShown'
  BY <1>1, <1>2 DEF InfoShown, NamedPlayer
<1> QED  BY <1>3, <1>4, <1>5 DEF MprisInv

LEMMA MprisNextKeeps ==
  ASSUME MprisInv, [MprisNext]_mprisVars
  PROVE  MprisInv'
<1>1. CASE \E p \in Player, t \in MprisTracks, s \in {"playing", "paused", "stopped"} : AppAppears(p, s, t)
  BY <1>1, AppAppearsKeeps
<1>2. CASE \E p \in Player : AppVanishes(p)
  BY <1>2, AppVanishesKeeps
<1>3. CASE \E p \in Player, t \in MprisTracks, s \in {"playing", "paused", "stopped"} : PlayerChanges(p, s, t)
  BY <1>3, PlayerChangesKeeps
<1>4. CASE MprisClicked
  BY <1>4, MprisClickedKeeps
<1>5. CASE MprisUpdate
  BY <1>5, MprisUpdateKeeps
<1>6. CASE IntervalPasses
  <2>1. /\ mprisDp' = TRUE
        /\ UNCHANGED <<mprisConfig, apps, recency, mprisAlive, player, lastActive, mprisHandlers, mprisShown, mprisNews,
                       mprisDropped, mprisLost, mprisTouched>>
    BY <1>6 DEF IntervalPasses, mprisObjects
  <2> QED  BY <2>1 DEF MprisInv, MprisTypes, ObjectsHear, InfoShown, NamedPlayer
<1>7. CASE MprisDestroyed
  BY <1>7, MprisDestroyedKeeps
<1>8. CASE UNCHANGED mprisVars
  <2>1. UNCHANGED <<mprisConfig, apps, recency, mprisAlive, player, lastActive, mprisHandlers, mprisDp, mprisShown, mprisNews,
                    mprisDropped, mprisLost, mprisTouched>>
    BY <1>8 DEF mprisVars, mprisObjects
  <2>2. PlayerInfo' = PlayerInfo
    BY <2>1, SameInfo
  <2>3. MprisTypes' /\ ObjectsHear'
    BY <2>1 DEF MprisInv, MprisTypes, ObjectsHear, NamedPlayer
  <2>4. InfoShown'
    BY <2>1, <2>2 DEF MprisInv, InfoShown, NamedPlayer, NobodyPlays
  <2> QED  BY <2>3, <2>4 DEF MprisInv
<1> QED  BY <1>1, <1>2, <1>3, <1>4, <1>5, <1>6, <1>7, <1>8 DEF MprisNext

LEMMA MprisInvariant == MprisSpec => []MprisInv
<1>1. MprisInit => MprisInv
  BY MprisInitInv
<1>2. MprisInv /\ [MprisNext]_mprisVars => MprisInv'
  BY MprisNextKeeps
<1> QED  BY <1>1, <1>2, PTL DEF MprisSpec

\* A player's signal reaches no module that is gone unless its object was lost, and once no
\* update is due the module shows the player it is to show, for any players, tracks and
\* configurations and any number of changes (mpris.cpp:372-449, 451-622, 673-785).
THEOREM PlayersAreShown == MprisSpec => []MprisAgrees
<1>1. MprisInv => MprisAgrees
  BY MprisInvAgrees
<1> QED  BY <1>1, MprisInvariant, PTL

-----------------------------------------------------------------------------
(* bluetooth.cpp.  The list is that of the present controller, kept by what   *)
(* is told; the label is of the list, unless an update is due.                *)

BtTypes ==
  /\ btConfig \in BtConfigs /\ btNews \in Nat
  /\ adapters \subseteq Controller /\ powered \subseteq adapters
  /\ linked \subseteq devices /\ devices \subseteq BtDevice
  /\ \A d \in devices : ControllerOf[d] \in adapters
  /\ DOMAIN battery1 = BtDevice /\ battery1 = [d \in BtDevice |-> battery1[d]]
  /\ blocked \in BOOLEAN /\ btDp \in BOOLEAN /\ rfkillState = blocked
  /\ btMissed \subseteq BtDevice
  /\ btConnected \in Seq(ToSet(btConnected))
  /\ \A i \in DOMAIN btConnected : {"path", "battery"} \subseteq DOMAIN btConnected[i] /\ btConnected[i].path \in BtDevice

\* The controller is a suitable one as it is, or none when none suits.
ControllerFits ==
  \/ btController = NoController /\ \A a \in adapters : ~Suits(a)
  \/ \E a \in adapters : Suits(a) /\ btController = ControllerInfo(a, powered)

\* The devices that the list is right about: those of the controller, and when there is none
\* those of any that might come.
InView(d) == (btController = NoController /\ Suits(ControllerOf[d])) \/ ControllerOf[d] = btController.path

ListKept ==
  /\ \A i, j \in DOMAIN btConnected : btConnected[i].path = btConnected[j].path => i = j
  /\ \A i \in DOMAIN btConnected : btConnected[i].path \in devices \cup btMissed
  /\ \A d \in BtDevice \ btMissed : InView(d) =>
       /\ Listed(btConnected, d) <=> d \in linked
       /\ \A i \in DOMAIN btConnected : btConnected[i].path = d /\ battery1[d] # NoLevel => btConnected[i].battery = battery1[d]

\* Unless another one is due, an update has shown what there is.
ListShown ==
  ~btDp =>
    /\ blocked = (btShown.state = "disabled")
    /\ ~blocked => (btShown.state = "off") = (btController # NoController /\ ~btController.powered)
    /\ btShown.devices = {btConnected[i].path : i \in DOMAIN btConnected}
    /\ btConnected # <<>> =>
         \E i \in DOMAIN btConnected :
           /\ btShown.device = btConnected[i]
           /\ ToSet(btConfig.preferred) \cap btShown.devices # {} => btConnected[i].path \in ToSet(btConfig.preferred)

BtInv == BtTypes /\ ControllerFits /\ ListKept /\ ListShown

LEMMA SeqOfItsOwn ==
  ASSUME NEW S, NEW s \in Seq(S)
  PROVE  s \in Seq(ToSet(s))
<1>1. s \in [1..Len(s) -> ToSet(s)] /\ Len(s) \in Nat
  BY DEF ToSet
<1> QED  BY <1>1

\* getDeviceProperties() believes Battery1 if there is one.
LEMMA InfoOfDevice ==
  ASSUME NEW d, NEW level, NEW readable
  PROVE  LET i == DeviceInfo(d, level, readable) IN
         /\ {"path", "battery"} \subseteq DOMAIN i /\ i.path = d
         /\ level # NoLevel => i.battery = level
<1>1. PICK b, q : DeviceInfo(d, level, readable) = [path |-> d, battery |-> IF level # NoLevel THEN level ELSE b, peripheral |-> q]
  BY DEF DeviceInfo
<1> QED  BY <1>1

\* A list of devices as the module keeps it: whatever else it says, each device once.
ListOf(list) ==
  /\ list \in Seq(ToSet(list))
  /\ \A i \in DOMAIN list : {"path", "battery"} \subseteq DOMAIN list[i]
  /\ \A i, j \in DOMAIN list : list[i].path = list[j].path => i = j

\* findConnectedDevices() lists them all, in some order.
LEMMA ListingIsAll ==
  ASSUME BtTypes, NEW ds \in SUBSET BtDevice, NEW list \in Listing(ds)
  PROVE  /\ ListOf(list)
         /\ \A i \in DOMAIN list : list[i].path \in ds
         /\ \A d \in ds : Listed(list, d)
         /\ \A i \in DOMAIN list : battery1[list[i].path] # NoLevel => list[i].battery = battery1[list[i].path]
<1>1. PICK q \in SetToSeqs(ds) : list = [i \in DOMAIN q |-> DeviceInfo(q[i], battery1[q[i]], DOMAIN GattChars[q[i]])]
  BY DEF Listing
<1> DEFINE n == Cardinality(ds)
<1>2. IsFiniteSet(ds) /\ n \in Nat
  BY BtAssumption, FS_Subset, FS_CardinalityType
<1>3. q \in [1..n -> ds] /\ \A i, j \in 1..n : i # j => q[i] # q[j]
  BY <1>1 DEF SetToSeqs
<1>4. \A d \in ds : \E i \in 1..n : q[i] = d
  <2>1. q \in Injection(1..n, ds)
    BY <1>3 DEF Injection, IsInjective
  <2>2. Cardinality(1..n) = n
    <3> HIDE DEF n
    <3> QED  BY <1>2, FS_Interval
  <2>3. q \in Surjection(1..n, ds)
    BY <1>2, <2>1, <2>2, FS_Injection
  <2> QED  BY <2>3 DEF Surjection
<1> HIDE DEF n
<1>5. DOMAIN list = 1..n /\ DOMAIN q = 1..n
  BY <1>1, <1>3
<1>6. \A i \in 1..n : /\ {"path", "battery"} \subseteq DOMAIN list[i] /\ list[i].path = q[i]
                      /\ battery1[q[i]] # NoLevel => list[i].battery = battery1[q[i]]
  BY <1>1, <1>5, InfoOfDevice
<1>7. list \in Seq(ToSet(list))
  <2>1. list \in [1..n -> ToSet(list)]
    BY <1>1, <1>5 DEF ToSet
  <2> QED  BY <2>1, <1>2
<1>8. \A i, j \in DOMAIN list : list[i].path = list[j].path => i = j
  BY <1>3, <1>5, <1>6
<1>9. \A i \in DOMAIN list : list[i].path \in ds
  BY <1>3, <1>5, <1>6
<1>10. \A d \in ds : Listed(list, d)
  BY <1>4, <1>5, <1>6 DEF Listed
<1>11. \A i \in DOMAIN list : battery1[list[i].path] # NoLevel => list[i].battery = battery1[list[i].path]
  BY <1>5, <1>6
<1>12. \A i \in DOMAIN list : {"path", "battery"} \subseteq DOMAIN list[i]
  BY <1>5, <1>6
<1> QED  BY <1>7, <1>8, <1>9, <1>10, <1>11, <1>12 DEF ListOf

LEMMA IndexIsOf ==
  ASSUME NEW list, NEW d, Listed(list, d)
  PROVE  IndexOf(list, d) \in DOMAIN list /\ list[IndexOf(list, d)].path = d
BY DEF Listed, IndexOf

\* A list in which only the entry of one device may differ.
OnlyOf(d, new, old) ==
  /\ \A i \in DOMAIN new : new[i].path = d \/ \E j \in DOMAIN old : new[i] = old[j]
  /\ \A j \in DOMAIN old : old[j].path = d \/ \E i \in DOMAIN new : new[i] = old[j]

LEMMA Appended ==
  ASSUME NEW list, ListOf(list), NEW e, {"path", "battery"} \subseteq DOMAIN e, ~Listed(list, e.path)
  PROVE  LET new == Append(list, e) IN
         ListOf(new) /\ OnlyOf(e.path, new, list) /\ \E i \in DOMAIN new : new[i] = e
<1> DEFINE new == Append(list, e)
           T == ToSet(list)
<1>1. list \in Seq(T) /\ T \subseteq T \cup {e}
  BY DEF ListOf
<1> HIDE DEF T
<1>2. list \in Seq(T \cup {e}) /\ e \in T \cup {e}
  BY <1>1
<1>3. /\ new \in Seq(T \cup {e}) /\ Len(new) = Len(list) + 1 /\ Len(list) \in Nat
      /\ \A i \in 1..Len(list) : new[i] = list[i]
      /\ new[Len(list) + 1] = e
  BY <1>2
<1>4. DOMAIN list = 1..Len(list) /\ DOMAIN new = 1..(Len(list) + 1)
  BY <1>2, <1>3
<1> HIDE DEF new
<1>5. \A i \in DOMAIN new : (i \in DOMAIN list /\ new[i] = list[i]) \/ (i = Len(list) + 1 /\ new[i] = e)
  BY <1>3, <1>4
<1>6. new \in Seq(ToSet(new))
  BY <1>3, SeqOfItsOwn
<1>7. \A j \in DOMAIN list : list[j].path # e.path
  BY DEF Listed
<1>8. \A i, j \in DOMAIN new : new[i].path = new[j].path => i = j
  BY <1>5, <1>7 DEF ListOf
<1>9. \A i \in DOMAIN new : {"path", "battery"} \subseteq DOMAIN new[i]
  BY <1>5 DEF ListOf
<1>10. OnlyOf(e.path, new, list)
  BY <1>3, <1>4, <1>5 DEF OnlyOf
<1>11. \E i \in DOMAIN new : new[i] = e
  BY <1>3, <1>4
<1> QED  BY <1>6, <1>8, <1>9, <1>10, <1>11 DEF ListOf, new

LEMMA TakenOut ==
  ASSUME NEW list, ListOf(list), NEW k \in DOMAIN list
  PROVE  LET new == RemoveAt(list, k) IN
         ListOf(new) /\ OnlyOf(list[k].path, new, list) /\ ~Listed(new, list[k].path)
<1> DEFINE new == RemoveAt(list, k)
<1>1. list \in Seq(ToSet(list)) /\ \A i, j \in DOMAIN list : list[i] = list[j] => i = j
  BY DEF ListOf
<1>2. /\ new \in Seq(ToSet(list))
      /\ \A i, j \in DOMAIN new : new[i] = new[j] => i = j
      /\ \A i \in DOMAIN new : \E j \in DOMAIN list : j # k /\ new[i] = list[j]
      /\ \A j \in DOMAIN list : j # k => \E i \in DOMAIN new : new[i] = list[j]
  BY <1>1, ElementRemoved
<1> HIDE DEF new
<1>3. new \in Seq(ToSet(new))
  BY <1>2, SeqOfItsOwn
<1>4. \A i, j \in DOMAIN new : new[i].path = new[j].path => i = j
  <2> SUFFICES ASSUME NEW i \in DOMAIN new, NEW j \in DOMAIN new, new[i].path = new[j].path
               PROVE  new[i] = new[j]
    BY <1>2
  <2>1. PICK g \in DOMAIN list : new[i] = list[g]
    BY <1>2
  <2>2. PICK h \in DOMAIN list : new[j] = list[h]
    BY <1>2
  <2> QED  BY <2>1, <2>2 DEF ListOf
<1>5. \A i \in DOMAIN new : {"path", "battery"} \subseteq DOMAIN new[i]
  BY <1>2 DEF ListOf
<1>6. OnlyOf(list[k].path, new, list)
  BY <1>2 DEF OnlyOf
<1>7. ~Listed(new, list[k].path)
  BY <1>2 DEF Listed, ListOf
<1> QED  BY <1>3, <1>4, <1>5, <1>6, <1>7 DEF ListOf, new

LEMMA Replaced ==
  ASSUME NEW list, ListOf(list), NEW k \in DOMAIN list, NEW e, {"path", "battery"} \subseteq DOMAIN e, e.path = list[k].path,
         NEW new, new = [list EXCEPT ![k] = e]
  PROVE  ListOf(new) /\ OnlyOf(e.path, new, list) /\ \E i \in DOMAIN new : new[i] = e
<1>1. DOMAIN new = DOMAIN list /\ new[k] = e /\ \A i \in DOMAIN list : i # k => new[i] = list[i]
  BY DEF ListOf
<1>2. new \in Seq(ToSet(list) \cup {e})
  BY DEF ListOf
<1>3. new \in Seq(ToSet(new))
  BY <1>2, SeqOfItsOwn
<1>4. \A i \in DOMAIN new : new[i].path = list[i].path
  BY <1>1
<1>5. \A i, j \in DOMAIN new : new[i].path = new[j].path => i = j
  BY <1>1, <1>4 DEF ListOf
<1>6. \A i \in DOMAIN new : {"path", "battery"} \subseteq DOMAIN new[i]
  BY <1>1 DEF ListOf
<1>7. OnlyOf(e.path, new, list)
  BY <1>1 DEF OnlyOf
<1> QED  BY <1>1, <1>3, <1>5, <1>6, <1>7 DEF ListOf

LEMMA BtInvAgrees ==
  ASSUME BtInv
  PROVE  BtAgrees
<1>1. BtTypes /\ ControllerFits /\ ListKept /\ ListShown
  BY DEF BtInv
<1> SUFFICES ASSUME ~btDp  PROVE BtAgrees
  BY DEF BtAgrees
<1>2. /\ blocked = (btShown.state = "disabled")
      /\ ~blocked => (btShown.state = "off") = (btController # NoController /\ ~btController.powered)
      /\ btShown.devices = {btConnected[i].path : i \in DOMAIN btConnected}
  BY <1>1 DEF ListShown
<1>3. \A a \in adapters : ControllerInfo(a, powered).path = a /\ ControllerInfo(a, powered).powered = (a \in powered)
                          /\ ControllerInfo(a, powered) # NoController
  BY <1>1, BtAssumption DEF ControllerInfo, NoController, BtTypes
<1>4. (btController = NoController) = (\A a \in adapters : ~Suits(a))
  BY <1>1, <1>3 DEF ControllerFits
<1>5. ASSUME btController # NoController
      PROVE  /\ btController.path \in adapters /\ Suits(btController.path)
             /\ ~blocked => (btShown.state = "off") = (btController.path \notin powered)
             /\ \A d \in BtDevice \ btMissed : ControllerOf[d] = btController.path =>
                  /\ (d \in btShown.devices) = (d \in linked)
                  /\ d \in linked /\ btShown.device.path = d /\ battery1[d] # NoLevel => btShown.device.battery = battery1[d]
  <2>1. btController.path \in adapters /\ Suits(btController.path) /\ btController.powered = (btController.path \in powered)
    BY <1>1, <1>3, <1>5 DEF ControllerFits
  <2>2. ASSUME NEW d \in BtDevice \ btMissed, ControllerOf[d] = btController.path
        PROVE  /\ (d \in btShown.devices) = (d \in linked)
               /\ d \in linked /\ btShown.device.path = d /\ battery1[d] # NoLevel => btShown.device.battery = battery1[d]
    <3>1. /\ Listed(btConnected, d) <=> d \in linked
          /\ \A i \in DOMAIN btConnected : btConnected[i].path = d /\ battery1[d] # NoLevel => btConnected[i].battery = battery1[d]
      BY <1>1, <2>2 DEF ListKept, InView
    <3>2. d \in btShown.devices <=> Listed(btConnected, d)
      BY <1>2 DEF Listed
    <3>3. d \in linked => \E i \in DOMAIN btConnected : btShown.device = btConnected[i]
      <4>1. d \in linked => btConnected # <<>>
        BY <3>1 DEF Listed
      <4> QED  BY <4>1, <1>1 DEF ListShown
    <3> QED  BY <3>1, <3>2, <3>3
  <2> QED  BY <1>2, <1>5, <2>1, <2>2
<1>6. \A d \in BtDevice : Cardinality({i \in DOMAIN btConnected : btConnected[i].path = d}) <= 1
  <2> TAKE d \in BtDevice
  <2> DEFINE I == {i \in DOMAIN btConnected : btConnected[i].path = d}
  <2>1. I = {} \/ \E i : I = {i}
    <3>1. \A i, j \in I : i = j
      BY <1>1 DEF ListKept
    <3> HIDE DEF I
    <3> QED  BY <3>1
  <2> HIDE DEF I
  <2>2. Cardinality(I) = 0 \/ Cardinality(I) = 1
    BY <2>1, FS_EmptySet, FS_Singleton
  <2>3. Cardinality(I) <= 1
    BY <2>2
  <2> QED  BY <2>3 DEF I
<1>7. btShown.devices # {} =>
         /\ btShown.device.path \in btShown.devices
         /\ ToSet(btConfig.preferred) \cap btShown.devices # {} => btShown.device.path \in ToSet(btConfig.preferred)
  <2>1. btShown.devices # {} => btConnected # <<>>
    BY <1>2
  <2> QED  BY <1>1, <1>2, <2>1 DEF ListShown
<1> QED  BY <1>2, <1>4, <1>5, <1>6, <1>7 DEF BtAgrees

\* findCurController() finds one that suits, if one does.
LEMMA ControllerFound ==
  ASSUME NEW there \in SUBSET Controller, NEW on, NEW c \in FindCurController(there, on)
  PROVE  \/ c = NoController /\ \A a \in there : ~Suits(a)
         \/ \E a \in there : Suits(a) /\ c = ControllerInfo(a, on) /\ c.path = a /\ c # NoController
<1>1. \A a \in there : ControllerInfo(a, on).path = a /\ ControllerInfo(a, on) # NoController
  BY BtAssumption DEF ControllerInfo, NoController
<1> QED  BY <1>1 DEF FindCurController

LEMMA BtInitInv ==
  ASSUME BtInit
  PROVE  BtInv
<1>1. /\ btConfig \in BtConfigs /\ adapters \in SUBSET Controller /\ powered = adapters
      /\ devices \in SUBSET BtDevice /\ (\A d \in devices : ControllerOf[d] \in adapters) /\ linked \in SUBSET devices
      /\ battery1 = [d \in BtDevice |-> NoLevel] /\ blocked \in BOOLEAN /\ rfkillState = blocked
      /\ btController \in FindCurController(adapters, powered)
      /\ btConnected \in (IF btController = NoController THEN {<<>>} ELSE FindConnectedDevices(btController.path))
      /\ btDp = TRUE /\ btNews = 0
      /\ btMissed = IF btController = NoController THEN {} ELSE {d \in linked : ControllerOf[d] # btController.path}
  BY DEF BtInit
<1>2. \/ btController = NoController /\ \A a \in adapters : ~Suits(a)
      \/ \E a \in adapters : Suits(a) /\ btController = ControllerInfo(a, powered) /\ btController.path = a /\ btController # NoController
  BY <1>1, ControllerFound
<1>3. ControllerFits
  BY <1>2 DEF ControllerFits
<1>4. ListShown
  BY <1>1 DEF ListShown
<1>5. CASE btController = NoController
  <2>1. btConnected = <<>> /\ DOMAIN btConnected = {} /\ btMissed = {}
    BY <1>1, <1>5
  <2>2. btConnected \in Seq(ToSet(btConnected))
    BY <2>1
  <2>3. BtTypes
    BY <1>1, <2>1, <2>2 DEF BtTypes
  <2>4. \A d \in BtDevice : InView(d) => d \notin linked
    <3> SUFFICES ASSUME NEW d \in BtDevice, InView(d), d \in linked  PROVE FALSE
      OBVIOUS
    <3>1. ControllerOf[d] \in adapters /\ ControllerOf[d] # NoAdapter
      BY <1>1, BtAssumption
    <3>2. Suits(ControllerOf[d])
      BY <3>1, <1>5 DEF InView, NoController
    <3> QED  BY <3>1, <3>2, <1>2, <1>5
  <2>5. ListKept
    BY <2>1, <2>4 DEF ListKept, Listed
  <2> QED  BY <1>3, <1>4, <2>3, <2>5 DEF BtInv
<1>6. CASE btController # NoController
  <2> DEFINE ds == {d \in devices \cap linked : ControllerOf[d] = btController.path}
  <2>1. btConnected \in Listing(ds) /\ ds \in SUBSET BtDevice
    BY <1>1, <1>6 DEF FindConnectedDevices
  <2>2. PICK q \in SetToSeqs(ds) : btConnected = [i \in DOMAIN q |-> DeviceInfo(q[i], battery1[q[i]], DOMAIN GattChars[q[i]])]
    BY <2>1 DEF Listing
  <2>3. IsFiniteSet(ds) /\ Cardinality(ds) \in Nat
    BY <2>1, BtAssumption, FS_Subset, FS_CardinalityType
  <2> HIDE DEF ds
  <2>4. q \in [1..Cardinality(ds) -> ds]
    BY <2>2 DEF SetToSeqs
  <2>5. DOMAIN btConnected = 1..Cardinality(ds)
    BY <2>2, <2>4
  <2>6. btConnected \in Seq(ToSet(btConnected))
    <3>1. btConnected \in [1..Cardinality(ds) -> ToSet(btConnected)]
      BY <2>2, <2>5 DEF ToSet
    <3> QED  BY <3>1, <2>3
  <2>7. \A i \in DOMAIN btConnected : {"path", "battery"} \subseteq DOMAIN btConnected[i] /\ btConnected[i].path \in BtDevice
    BY <2>1, <2>2, <2>4, <2>5, InfoOfDevice
  <2>8. btMissed \subseteq BtDevice
    BY <1>1
  <2>9. BtTypes
    BY <1>1, <2>6, <2>7, <2>8 DEF BtTypes
  <2>10. /\ ListOf(btConnected)
         /\ \A i \in DOMAIN btConnected : btConnected[i].path \in ds
         /\ \A d \in ds : Listed(btConnected, d)
    BY <2>1, <2>9, ListingIsAll
  <2>11. \A i, j \in DOMAIN btConnected : btConnected[i].path = btConnected[j].path => i = j
    BY <2>10 DEF ListOf
  <2>12. \A i \in DOMAIN btConnected : btConnected[i].path \in devices
    BY <2>10 DEF ds
  <2>13. \A d \in BtDevice : InView(d) => (Listed(btConnected, d) <=> d \in linked) /\ battery1[d] = NoLevel
    <3> SUFFICES ASSUME NEW d \in BtDevice, InView(d)
                 PROVE  (Listed(btConnected, d) <=> d \in linked) /\ battery1[d] = NoLevel
      OBVIOUS
    <3>1. ControllerOf[d] = btController.path /\ battery1[d] = NoLevel
      BY <1>1, <1>6 DEF InView
    <3>2. d \in ds <=> d \in linked
      BY <3>1, <1>1 DEF ds
    <3> QED  BY <3>1, <3>2, <2>10 DEF Listed
  <2>14. ListKept
    BY <2>11, <2>12, <2>13 DEF ListKept
  <2> QED  BY <1>3, <1>4, <2>9, <2>14 DEF BtInv
<1> QED  BY <1>5, <1>6

LEMMA ListIsList ==
  ASSUME BtTypes, ListKept
  PROVE  ListOf(btConnected)
BY DEF BtTypes, ListKept, ListOf

LEMMA AdapterAddedKeeps ==
  ASSUME BtInv, NEW a \in Controller, AdapterAdded(a)
  PROVE  BtInv'
<1>1. BtTypes /\ ControllerFits /\ ListKept /\ ListShown
  BY DEF BtInv
<1> DEFINE takes == btController = NoController /\ Suits(a)
<1>2. /\ a \notin adapters /\ adapters' = adapters \cup {a} /\ btNews' = btNews + 1
      /\ btController' = IF takes THEN ControllerInfo(a, powered) ELSE btController
      /\ btDp' = (btDp \/ takes)
      /\ UNCHANGED <<btConfig, btShown, powered, devices, linked, battery1, blocked, btConnected, btFocussed, rfkillState,
                     btMissed, btForeign>>
  BY DEF AdapterAdded, BluezChange, btPast
<1>3. \A b : Suits(b)' = Suits(b)
  BY <1>2 DEF Suits
<1>4. NoController' = NoController
  BY DEF NoController
<1>5. BtTypes'
  <2>1. btDp' \in BOOLEAN /\ btNews' \in Nat /\ adapters' \subseteq Controller
    BY <1>1, <1>2 DEF BtTypes
  <2> QED  BY <1>1, <1>2, <2>1 DEF BtTypes
<1>6. ControllerInfo(a, powered).path = a /\ ControllerInfo(a, powered) # NoController
  BY BtAssumption DEF ControllerInfo, NoController
<1>7. ControllerFits'
  BY <1>1, <1>2, <1>3, <1>4, <1>6 DEF ControllerFits, ControllerInfo
<1>8. ListKept'
  <2>1. \A d \in BtDevice : InView(d)' => InView(d)
    BY <1>2, <1>3, <1>4, <1>6 DEF InView
  <2> QED  BY <1>1, <1>2, <2>1 DEF ListKept, Listed
<1>9. ListShown'
  <2>1. ~btDp' => ~btDp /\ btController' = btController
    BY <1>2, <1>1 DEF BtTypes
  <2> QED  BY <1>1, <1>2, <1>4, <2>1 DEF ListShown
<1> QED  BY <1>5, <1>7, <1>8, <1>9 DEF BtInv

LEMMA DeviceAddedKeeps ==
  ASSUME BtInv, NEW d \in BtDevice, NEW connected \in BOOLEAN, DeviceAdded(d, connected)
  PROVE  BtInv'
<1>1. BtTypes /\ ControllerFits /\ ListKept /\ ListShown
  BY DEF BtInv
<1>2. /\ d \notin devices /\ ControllerOf[d] \in adapters /\ btNews' = btNews + 1
      /\ devices' = devices \cup {d}
      /\ linked' = IF connected THEN linked \cup {d} ELSE linked
      /\ btMissed' = IF connected THEN btMissed \cup {d} ELSE btMissed
      /\ UNCHANGED <<btConfig, btShown, adapters, powered, battery1, blocked, btController, btConnected, btDp, rfkillState>>
  BY DEF DeviceAdded, BluezChange, btModel
<1>3. BtTypes'
  BY <1>1, <1>2 DEF BtTypes
<1>4. ControllerFits' /\ ListShown'
  BY <1>1, <1>2 DEF ControllerFits, ListShown, Suits, ControllerInfo, NoController
<1>5. ListKept'
  <2>1. \A e \in BtDevice : InView(e)' = InView(e)
    BY <1>2 DEF InView, Suits, NoController
  <2>2. \A e \in BtDevice \ btMissed' : e \notin btMissed /\ (e \in linked' <=> e \in linked)
    BY <1>2
  <2>3. devices \cup btMissed \subseteq devices' \cup btMissed'
    BY <1>2
  <2> QED  BY <1>1, <1>2, <2>1, <2>2, <2>3 DEF ListKept, Listed
<1> QED  BY <1>3, <1>4, <1>5 DEF BtInv

LEMMA DeviceRemovedKeeps ==
  ASSUME BtInv, NEW d \in BtDevice, DeviceRemoved(d)
  PROVE  BtInv'
<1>1. BtTypes /\ ControllerFits /\ ListKept /\ ListShown
  BY DEF BtInv
<1>2. /\ d \in devices /\ btNews' = btNews + 1
      /\ devices' = devices \ {d} /\ linked' = linked \ {d} /\ battery1' = [battery1 EXCEPT ![d] = NoLevel]
      /\ btMissed' = IF d \in linked \/ Listed(btConnected, d) THEN btMissed \cup {d} ELSE btMissed
      /\ UNCHANGED <<btConfig, btShown, adapters, powered, blocked, btController, btConnected, btDp, rfkillState>>
  BY DEF DeviceRemoved, BluezChange, btModel
<1>3. DOMAIN battery1' = BtDevice /\ battery1' = [e \in BtDevice |-> battery1'[e]] /\ \A e \in BtDevice : e # d => battery1'[e] = battery1[e]
  BY <1>1, <1>2 DEF BtTypes
<1>4. BtTypes'
  BY <1>1, <1>2, <1>3 DEF BtTypes
<1>5. ControllerFits' /\ ListShown'
  BY <1>1, <1>2 DEF ControllerFits, ListShown, Suits, ControllerInfo, NoController
<1>6. ListKept'
  <2>1. \A e \in BtDevice : InView(e)' = InView(e)
    BY <1>2 DEF InView, Suits, NoController
  <2>2. ASSUME NEW i \in DOMAIN btConnected
        PROVE  btConnected[i].path \in devices' \cup btMissed'
    <3>1. btConnected[i].path \in devices \cup btMissed
      BY <1>1 DEF ListKept
    <3>2. btConnected[i].path = d => Listed(btConnected, d)
      BY DEF Listed
    <3> QED  BY <1>2, <3>1, <3>2
  <2>3. ASSUME NEW e \in BtDevice \ btMissed', InView(e)
        PROVE  /\ Listed(btConnected, e) <=> e \in linked'
               /\ \A i \in DOMAIN btConnected : btConnected[i].path = e /\ battery1'[e] # NoLevel => btConnected[i].battery = battery1'[e]
    <3>1. e \notin btMissed
      BY <1>2
    <3>2. CASE e = d
      <4>1. d \notin linked /\ ~Listed(btConnected, d)
        BY <1>2, <3>2
      <4> QED  BY <4>1, <3>2, <1>2 DEF Listed
    <3>3. CASE e # d
      BY <1>1, <1>2, <1>3, <2>3, <3>1, <3>3 DEF ListKept
    <3> QED  BY <3>2, <3>3
  <2>4. \A e : Listed(btConnected, e)' = Listed(btConnected, e)
    BY <1>2 DEF Listed
  <2>5. \A i, j \in DOMAIN btConnected' : btConnected'[i].path = btConnected'[j].path => i = j
    BY <1>1, <1>2 DEF ListKept
  <2> QED  BY <1>2, <2>1, <2>2, <2>3, <2>4, <2>5 DEF ListKept
<1> QED  BY <1>4, <1>5, <1>6 DEF BtInv

LEMMA ControllerChangesKeeps ==
  ASSUME BtInv, NEW a \in Controller, ControllerChanges(a)
  PROVE  BtInv'
<1>1. BtTypes /\ ControllerFits /\ ListKept /\ ListShown
  BY DEF BtInv
<1> DEFINE ours == btController.path = a
<1>2. /\ a \in adapters /\ powered' = (powered \cup {a}) \ (powered \cap {a}) /\ btNews' = btNews + 1
      /\ btController' = IF ours THEN ControllerInfo(a, powered') ELSE btController
      /\ btDp' = (btDp \/ ours)
      /\ UNCHANGED <<btConfig, btShown, adapters, devices, linked, battery1, blocked, btConnected, rfkillState, btMissed>>
  BY DEF ControllerChanges, BluezChange, btPast
<1>3. NoController' = NoController /\ NoController.path = NoAdapter /\ \A b : Suits(b)' = Suits(b)
  BY <1>2 DEF NoController, Suits
<1>4. \A b, on : ControllerInfo(b, on).path = b
  BY DEF ControllerInfo
<1>5. a # NoAdapter
  BY BtAssumption
<1>6. BtTypes'
  <2>1. btDp' \in BOOLEAN /\ btNews' \in Nat /\ powered' \subseteq adapters
    BY <1>1, <1>2 DEF BtTypes
  <2> QED  BY <1>1, <1>2, <2>1 DEF BtTypes
<1>7. CASE ours
  <2>1. Suits(a) /\ btController # NoController
    BY <1>1, <1>3, <1>4, <1>5, <1>7 DEF ControllerFits
  <2>2. btController' = ControllerInfo(a, powered') /\ btController'.path = a /\ btController' # NoController
    BY <1>2, <1>3, <1>4, <1>5, <1>7
  <2>3. ControllerFits'
    <3>1. ControllerInfo(a, powered)' = ControllerInfo(a, powered')
      BY DEF ControllerInfo
    <3> QED  BY <1>2, <1>3, <2>1, <2>2, <3>1 DEF ControllerFits
  <2>4. \A d \in BtDevice : InView(d)' = InView(d)
    BY <1>3, <1>7, <2>1, <2>2 DEF InView
  <2>5. ListKept'
    BY <1>1, <1>2, <2>4 DEF ListKept, Listed
  <2>6. ListShown'
    BY <1>2, <1>7 DEF ListShown
  <2> QED  BY <1>6, <2>3, <2>5, <2>6 DEF BtInv
<1>8. CASE ~ours
  <2>1. btController' = btController /\ btDp' = btDp
    BY <1>1, <1>2, <1>8 DEF BtTypes
  <2>2. ControllerFits'
    <3>1. CASE btController = NoController /\ \A b \in adapters : ~Suits(b)
      BY <3>1, <1>2, <1>3, <2>1 DEF ControllerFits
    <3>2. ASSUME NEW b \in adapters, Suits(b), btController = ControllerInfo(b, powered)
          PROVE  ControllerFits'
      <4>1. b # a
        BY <3>2, <1>4, <1>8
      <4>2. ControllerInfo(b, powered)' = ControllerInfo(b, powered)
        BY <4>1, <1>2 DEF ControllerInfo
      <4> QED  BY <3>2, <4>2, <1>2, <1>3, <2>1 DEF ControllerFits
    <3> QED  BY <1>1, <3>1, <3>2 DEF ControllerFits
  <2>3. \A d \in BtDevice : InView(d)' = InView(d)
    BY <1>3, <2>1 DEF InView
  <2>4. ListKept'
    BY <1>1, <1>2, <2>3 DEF ListKept, Listed
  <2>5. ListShown'
    BY <1>1, <1>2, <1>3, <2>1 DEF ListShown
  <2> QED  BY <1>6, <2>2, <2>4, <2>5 DEF BtInv
<1> QED  BY <1>7, <1>8

LEMMA AdapterRemovedKeeps ==
  ASSUME BtInv, NEW a \in Controller, AdapterRemoved(a)
  PROVE  BtInv'
<1>1. BtTypes /\ ControllerFits /\ ListKept /\ ListShown
  BY DEF BtInv
<1>2. /\ a \in adapters /\ (\A d \in devices : ControllerOf[d] # a) /\ btNews' = btNews + 1
      /\ adapters' = adapters \ {a} /\ powered' = powered \ {a}
      /\ UNCHANGED <<btConfig, btShown, devices, linked, battery1, blocked, btMissed>>
  BY DEF AdapterRemoved, BluezChange, btPast
<1>3. NoController' = NoController /\ NoController.path = NoAdapter /\ \A b : Suits(b)' = Suits(b)
  BY <1>2 DEF NoController, Suits
<1>4. \A b, on : ControllerInfo(b, on).path = b
  BY DEF ControllerInfo
<1>5. /\ btNews' \in Nat /\ adapters' \subseteq Controller /\ powered' \subseteq adapters'
      /\ \A d \in devices : ControllerOf[d] \in adapters'
  BY <1>1, <1>2 DEF BtTypes
<1>6. CASE btController.path # a
  <2>1. UNCHANGED <<btController, btConnected, btDp, rfkillState>>
    BY <1>6 DEF AdapterRemoved, btModel
  <2>2. BtTypes'
    BY <1>1, <1>2, <1>5, <2>1 DEF BtTypes
  <2>3. ControllerFits'
    <3>1. CASE btController = NoController /\ \A b \in adapters : ~Suits(b)
      BY <3>1, <1>2, <1>3, <2>1 DEF ControllerFits
    <3>2. ASSUME NEW b \in adapters, Suits(b), btController = ControllerInfo(b, powered)
          PROVE  ControllerFits'
      <4>1. b # a
        BY <3>2, <1>4, <1>6
      <4>2. ControllerInfo(b, powered)' = ControllerInfo(b, powered) /\ b \in adapters'
        BY <4>1, <1>2 DEF ControllerInfo
      <4> QED  BY <3>2, <4>2, <1>3, <2>1 DEF ControllerFits
    <3> QED  BY <1>1, <3>1, <3>2 DEF ControllerFits
  <2>4. \A d \in BtDevice : InView(d)' = InView(d)
    BY <1>3, <2>1 DEF InView
  <2>5. ListKept'
    BY <1>1, <1>2, <2>1, <2>4 DEF ListKept, Listed
  <2>6. ListShown'
    BY <1>1, <1>2, <1>3, <2>1 DEF ListShown
  <2> QED  BY <2>2, <2>3, <2>5, <2>6 DEF BtInv
<1>7. CASE btController.path = a
  <2>1. /\ btController' \in FindCurController(adapters', powered')
        /\ btConnected' \in (IF btController' = NoController THEN {btConnected} ELSE FindConnectedDevices(btController'.path))
        /\ btDp' = TRUE /\ UNCHANGED rfkillState
    BY <1>7 DEF AdapterRemoved
  <2>2. \/ btController' = NoController /\ \A b \in adapters' : ~Suits(b)
        \/ \E b \in adapters' : Suits(b) /\ btController' = ControllerInfo(b, powered') /\ btController'.path = b /\ btController' # NoController
    BY <1>5, <2>1, ControllerFound
  <2>3. ControllerFits'
    <3>1. \A b : ControllerInfo(b, powered)' = ControllerInfo(b, powered')
      BY DEF ControllerInfo
    <3> QED  BY <2>2, <1>3, <3>1 DEF ControllerFits
  <2>4. ListShown'
    BY <2>1 DEF ListShown
  <2>5. CASE btController' = NoController
    <3>1. btConnected' = btConnected
      BY <2>1, <2>5
    <3>2. BtTypes'
      BY <1>1, <1>2, <1>5, <2>1, <3>1 DEF BtTypes
    <3>3. \A d \in BtDevice : InView(d)' => d \notin devices
      <4> SUFFICES ASSUME NEW d \in BtDevice, InView(d)', d \in devices  PROVE FALSE
        OBVIOUS
      <4>1. ControllerOf[d] # NoAdapter
        BY BtAssumption
      <4>2. Suits(ControllerOf[d])
        BY <4>1, <1>3, <2>5 DEF InView
      <4> QED  BY <4>2, <1>3, <1>5, <2>2, <2>5
    <3>4. \A d \in BtDevice \ btMissed : d \notin devices => ~Listed(btConnected, d) /\ d \notin linked
      BY <1>1 DEF ListKept, Listed, BtTypes
    <3>5. \A d : Listed(btConnected, d)' = Listed(btConnected, d)
      BY <3>1 DEF Listed
    <3>6. \A d \in BtDevice \ btMissed : InView(d)' => ~Listed(btConnected, d) /\ d \notin linked
      BY <3>3, <3>4
    <3>7. \A d \in BtDevice \ btMissed : InView(d)' => \A i \in DOMAIN btConnected : btConnected[i].path # d
      BY <3>6 DEF Listed
    <3>8. /\ \A i, j \in DOMAIN btConnected' : btConnected'[i].path = btConnected'[j].path => i = j
          /\ \A i \in DOMAIN btConnected' : btConnected'[i].path \in devices' \cup btMissed'
      BY <1>1, <1>2, <3>1 DEF ListKept
    <3>9. ListKept'
      BY <1>2, <3>1, <3>5, <3>6, <3>7, <3>8 DEF ListKept
    <3> QED  BY <2>3, <2>4, <3>2, <3>9 DEF BtInv
  <2>6. CASE btController' # NoController
    <3> DEFINE ds == {d \in devices \cap linked : ControllerOf[d] = btController'.path}
    <3>1. PICK list : list = btConnected'
      OBVIOUS
    <3>2. list \in Listing(ds) /\ ds \in SUBSET BtDevice
      BY <1>1, <2>1, <2>6, <3>1 DEF FindConnectedDevices, BtTypes
    <3> HIDE DEF ds
    <3>3. /\ ListOf(list)
          /\ \A i \in DOMAIN list : list[i].path \in ds
          /\ \A d \in ds : Listed(list, d)
          /\ \A i \in DOMAIN list : battery1[list[i].path] # NoLevel => list[i].battery = battery1[list[i].path]
      BY <1>1, <3>2, ListingIsAll
    <3>4. \A i \in DOMAIN list : list[i].path \in BtDevice
      BY <3>2, <3>3
    <3>5. BtTypes'
      BY <1>1, <1>2, <1>5, <2>1, <3>1, <3>3, <3>4 DEF BtTypes, ListOf
    <3>6. \A d \in BtDevice : InView(d)' => (d \in ds <=> d \in linked)
      BY <1>1, <1>3, <2>6 DEF InView, ds, BtTypes
    <3>7. \A d : Listed(btConnected, d)' = Listed(list, d)
      BY <3>1 DEF Listed
    <3>8. \A d \in BtDevice : InView(d)' => (Listed(btConnected, d)' <=> d \in linked)
      BY <3>3, <3>6, <3>7 DEF Listed
    <3>9. \A i \in DOMAIN list : list[i].path \in devices
      BY <3>3 DEF ds
    <3>10. ListKept'
      BY <1>2, <3>1, <3>3, <3>8, <3>9 DEF ListKept, ListOf
    <3> QED  BY <2>3, <2>4, <3>5, <3>10 DEF BtInv
  <2> QED  BY <2>5, <2>6
<1> QED  BY <1>6, <1>7

\* What is told of a device is in the list, and the rest of the list is as it was.
LEMMA ToldIsListed ==
  ASSUME BtTypes, ListKept, NEW d \in BtDevice, NEW connected \in BOOLEAN, NEW level, DeviceTold(d, connected, level),
         btController # NoController
  PROVE  /\ ListOf(btConnected') /\ OnlyOf(d, btConnected', btConnected)
         /\ Listed(btConnected, d)' <=> connected
         /\ \A i \in DOMAIN btConnected' : btConnected'[i].path = d /\ level # NoLevel => btConnected'[i].battery = level
         /\ ~Listed(btConnected, d) /\ ~connected => btConnected' = btConnected
<1> DEFINE listed == Listed(btConnected, d)
           k == IndexOf(btConnected, d)
<1>1. ListOf(btConnected)
  BY ListIsList
<1>2. PICK e : /\ {"path", "battery"} \subseteq DOMAIN e /\ e.path = d /\ (level # NoLevel => e.battery = level)
               /\ btConnected' = IF ~listed THEN IF connected THEN Append(btConnected, e) ELSE btConnected
                                 ELSE IF ~connected THEN RemoveAt(btConnected, k)
                                 ELSE [btConnected EXCEPT ![k] = e]
  <2>1. PICK readable \in Readable(d) :
          btConnected' = CASE btController = NoController -> btConnected
                           [] btController # NoController /\ ~listed ->
                                IF connected THEN Append(btConnected, DeviceInfo(d, level, readable)) ELSE btConnected
                           [] btController # NoController /\ listed /\ ~connected -> RemoveAt(btConnected, k)
                           [] OTHER -> [btConnected EXCEPT ![k] = DeviceInfo(d, level, readable)]
    BY DEF DeviceTold
  <2>2. PICK e : e = DeviceInfo(d, level, readable)
    OBVIOUS
  <2>3. {"path", "battery"} \subseteq DOMAIN e /\ e.path = d /\ (level # NoLevel => e.battery = level)
    BY <2>2, InfoOfDevice
  <2> HIDE DEF listed, k
  <2>4. btConnected' = IF ~listed THEN IF connected THEN Append(btConnected, e) ELSE btConnected
                       ELSE IF ~connected THEN RemoveAt(btConnected, k)
                       ELSE [btConnected EXCEPT ![k] = e]
    BY <2>1, <2>2
  <2> QED  BY <2>3, <2>4
<1>3. listed => k \in DOMAIN btConnected /\ btConnected[k].path = d
  BY IndexIsOf
<1>4. PICK new : new = btConnected'
  OBVIOUS
<1>5. Listed(btConnected, d)' <=> Listed(new, d)
  BY <1>4 DEF Listed
<1> HIDE DEF k
<1> SUFFICES /\ ListOf(new) /\ OnlyOf(d, new, btConnected)
             /\ Listed(new, d) <=> connected
             /\ \A i \in DOMAIN new : new[i].path = d /\ level # NoLevel => new[i].battery = level
             /\ ~listed /\ ~connected => new = btConnected
  BY <1>4, <1>5
<1>6. CASE ~listed /\ connected
  <2>1. new = Append(btConnected, e)
    BY <1>2, <1>4, <1>6
  <2>2. ListOf(new) /\ OnlyOf(d, new, btConnected) /\ \E i \in DOMAIN new : new[i] = e
    BY <1>1, <1>2, <1>6, <2>1, Appended
  <2>3. \A i \in DOMAIN new : new[i].path = d => new[i] = e
    BY <1>2, <2>2 DEF ListOf
  <2> QED  BY <1>2, <1>6, <2>2, <2>3 DEF Listed
<1>7. CASE ~listed /\ ~connected
  <2>1. new = btConnected
    BY <1>2, <1>4, <1>7
  <2> QED  BY <1>1, <1>7, <2>1 DEF OnlyOf, Listed
<1>8. CASE listed /\ ~connected
  <2>1. new = RemoveAt(btConnected, k)
    BY <1>2, <1>4, <1>8
  <2>2. ListOf(new) /\ OnlyOf(d, new, btConnected) /\ ~Listed(new, d)
    BY <1>1, <1>3, <1>8, <2>1, TakenOut
  <2> QED  BY <1>8, <2>2 DEF Listed
<1>9. CASE listed /\ connected
  <2>1. new = [btConnected EXCEPT ![k] = e]
    BY <1>2, <1>4, <1>9
  <2>2. ListOf(new) /\ OnlyOf(d, new, btConnected) /\ \E i \in DOMAIN new : new[i] = e
    BY <1>1, <1>2, <1>3, <1>9, <2>1, Replaced
  <2>3. \A i \in DOMAIN new : new[i].path = d => new[i] = e
    BY <1>2, <2>2 DEF ListOf
  <2> QED  BY <1>2, <1>9, <2>2, <2>3 DEF Listed
<1> QED  BY <1>6, <1>7, <1>8, <1>9

\* A list in which at most the entry of one device differs is right about the others.
LEMMA OthersKept ==
  ASSUME BtTypes, ListKept, NEW d \in BtDevice, d \in devices, ListOf(btConnected'), OnlyOf(d, btConnected', btConnected),
         UNCHANGED <<btController, btConfig, devices>>, btMissed \ {d} \subseteq btMissed', btMissed' \subseteq btMissed \cup {d},
         linked' \ {d} = linked \ {d}, \A e \in BtDevice : e # d => battery1'[e] = battery1[e],
         d \notin btMissed' /\ InView(d) =>
            /\ Listed(btConnected, d)' <=> d \in linked'
            /\ \A i \in DOMAIN btConnected' : btConnected'[i].path = d /\ battery1'[d] # NoLevel => btConnected'[i].battery = battery1'[d]
  PROVE  ListKept' /\ \A i \in DOMAIN btConnected' : btConnected'[i].path \in BtDevice
<1>1. PICK new : new = btConnected'
  OBVIOUS
<1>2. \A e : Listed(btConnected, e)' <=> Listed(new, e)
  BY <1>1 DEF Listed
<1>3. \A e \in BtDevice : InView(e)' = InView(e)
  BY DEF InView, Suits, NoController
<1>4. \A i \in DOMAIN new : new[i].path \in BtDevice /\ new[i].path \in devices' \cup btMissed'
  <2> TAKE i \in DOMAIN new
  <2>1. CASE new[i].path = d
    BY <2>1
  <2>2. CASE new[i].path # d
    <3>1. PICK j \in DOMAIN btConnected : new[i] = btConnected[j]
      BY <1>1, <2>2 DEF OnlyOf
    <3> QED  BY <2>2, <3>1 DEF BtTypes, ListKept
  <2> QED  BY <2>1, <2>2
<1>5. \A i, j \in DOMAIN new : new[i].path = new[j].path => i = j
  BY <1>1 DEF ListOf
<1>6. ASSUME NEW e \in BtDevice \ btMissed', InView(e)
      PROVE  /\ Listed(new, e) <=> e \in linked'
             /\ \A i \in DOMAIN new : new[i].path = e /\ battery1'[e] # NoLevel => new[i].battery = battery1'[e]
  <2>1. CASE e = d
    BY <1>1, <1>2, <1>6, <2>1
  <2>2. CASE e # d
    <3>1. e \notin btMissed /\ (e \in linked' <=> e \in linked) /\ battery1'[e] = battery1[e]
      BY <1>6, <2>2
    <3>2. /\ Listed(btConnected, e) <=> e \in linked
          /\ \A i \in DOMAIN btConnected : btConnected[i].path = e /\ battery1[e] # NoLevel => btConnected[i].battery = battery1[e]
      BY <1>6, <3>1 DEF ListKept
    <3>3. Listed(new, e) <=> Listed(btConnected, e)
      BY <1>1, <2>2 DEF Listed, OnlyOf
    <3>4. \A i \in DOMAIN new : new[i].path = e => \E j \in DOMAIN btConnected : new[i] = btConnected[j]
      BY <1>1, <2>2 DEF OnlyOf
    <3> QED  BY <3>1, <3>2, <3>3, <3>4
  <2> QED  BY <2>1, <2>2
<1> QED  BY <1>1, <1>2, <1>3, <1>4, <1>5, <1>6 DEF ListKept

LEMMA ToldKeeps ==
  ASSUME BtInv, NEW d \in BtDevice, d \in devices, NEW level, DeviceTold(d, d \in linked', level), btNews' = btNews + 1,
         UNCHANGED <<btConfig, btShown, adapters, powered, devices, blocked>>,
         linked' \subseteq devices, linked' \ {d} = linked \ {d}, battery1' = [battery1 EXCEPT ![d] = level]
  PROVE  BtInv'
<1>1. BtTypes /\ ControllerFits /\ ListKept /\ ListShown
  BY DEF BtInv
<1> DEFINE heard == btController # NoController
           listed == Listed(btConnected, d)
           connected == d \in linked'
<1>2. /\ btDp' = (btDp \/ (heard /\ (listed \/ connected)))
      /\ btMissed' = IF heard THEN btMissed \ {d} ELSE btMissed \cup {d}
      /\ UNCHANGED <<btController, rfkillState>>
  BY DEF DeviceTold
<1>3. DOMAIN battery1' = BtDevice /\ battery1' = [e \in BtDevice |-> battery1'[e]] /\ battery1'[d] = level
      /\ \A e \in BtDevice : e # d => battery1'[e] = battery1[e]
  BY <1>1 DEF BtTypes
<1>4. PICK c \in BOOLEAN : c = connected
  <2>1. CASE connected
    <3>1. TRUE = connected
      BY <2>1
    <3> QED  BY <3>1, Zenon
  <2>2. CASE ~connected
    <3>1. FALSE = connected
      BY <2>2
    <3> QED  BY <3>1, Zenon
  <2> QED  BY <2>1, <2>2
<1>5. ListOf(btConnected)
  BY <1>1, ListIsList
<1>6. /\ ListOf(btConnected') /\ OnlyOf(d, btConnected', btConnected)
      /\ heard => Listed(btConnected, d)' <=> connected
      /\ heard => \A i \in DOMAIN btConnected' : btConnected'[i].path = d /\ level # NoLevel => btConnected'[i].battery = level
      /\ ~(heard /\ (listed \/ connected)) => btConnected' = btConnected
  <2>1. CASE heard
    <3>1. DeviceTold(d, c, level)
      BY <1>4
    <3>2. /\ ListOf(btConnected') /\ OnlyOf(d, btConnected', btConnected)
          /\ Listed(btConnected, d)' <=> c
          /\ \A i \in DOMAIN btConnected' : btConnected'[i].path = d /\ level # NoLevel => btConnected'[i].battery = level
          /\ ~Listed(btConnected, d) /\ ~c => btConnected' = btConnected
      BY <1>1, <2>1, <3>1, ToldIsListed
    <3> QED  BY <1>4, <2>1, <3>2
  <2>2. CASE ~heard
    <3>1. btConnected' = btConnected
      BY <2>2 DEF DeviceTold
    <3> QED  BY <1>5, <2>2, <3>1 DEF OnlyOf
  <2> QED  BY <2>1, <2>2
<1>7. ListKept' /\ \A i \in DOMAIN btConnected' : btConnected'[i].path \in BtDevice
  <2>1. btMissed \ {d} \subseteq btMissed' /\ btMissed' \subseteq btMissed \cup {d} /\ (d \notin btMissed' => heard)
    BY <1>2
  <2> HIDE DEF heard
  <2> QED  BY <1>1, <1>2, <1>3, <1>6, <2>1, OthersKept
<1>8. BtTypes'
  <2>1. btDp' \in BOOLEAN /\ btNews' \in Nat /\ btMissed' \subseteq BtDevice
    BY <1>1, <1>2 DEF BtTypes
  <2>2. btConnected' \in Seq(ToSet(btConnected')) /\ \A i \in DOMAIN btConnected' : {"path", "battery"} \subseteq DOMAIN btConnected'[i]
    BY <1>6 DEF ListOf
  <2>3. ToSet(btConnected)' = ToSet(btConnected')
    BY DEF ToSet
  <2> QED  BY <1>1, <1>2, <1>3, <1>7, <2>1, <2>2, <2>3 DEF BtTypes
<1>9. ControllerFits'
  BY <1>1, <1>2 DEF ControllerFits, Suits, ControllerInfo, NoController
<1>10. ListShown'
  <2>1. ~btDp' => ~btDp /\ btConnected' = btConnected
    BY <1>1, <1>2, <1>6 DEF BtTypes
  <2> QED  BY <1>1, <1>2, <2>1 DEF ListShown, NoController
<1> QED  BY <1>7, <1>8, <1>9, <1>10 DEF BtInv

LEMMA DeviceChangesKeeps ==
  ASSUME BtInv, NEW d \in BtDevice, DeviceChanges(d)
  PROVE  BtInv'
<1>1. /\ d \in devices /\ btNews' = btNews + 1 /\ linked' = (linked \cup {d}) \ (linked \cap {d})
      /\ DeviceTold(d, d \in linked', battery1[d])
      /\ UNCHANGED <<btConfig, btShown, adapters, powered, devices, battery1, blocked>>
  BY DEF DeviceChanges, BluezChange
<1>2. linked' \subseteq devices /\ linked' \ {d} = linked \ {d}
  BY <1>1 DEF BtInv, BtTypes
<1>3. battery1' = [battery1 EXCEPT ![d] = battery1[d]]
  BY <1>1 DEF BtInv, BtTypes
<1> QED  BY <1>1, <1>2, <1>3, ToldKeeps

LEMMA BatteryChangesKeeps ==
  ASSUME BtInv, NEW d \in BtDevice, NEW level, BatteryChanges(d, level)
  PROVE  BtInv'
<1>1. /\ d \in devices /\ btNews' = btNews + 1 /\ battery1' = [battery1 EXCEPT ![d] = level]
      /\ DeviceTold(d, d \in linked', level)
      /\ UNCHANGED <<btConfig, btShown, adapters, powered, devices, linked, blocked>>
  BY DEF BatteryChanges, BluezChange
<1>2. linked' \subseteq devices /\ linked' \ {d} = linked \ {d}
  BY <1>1 DEF BtInv, BtTypes
<1> QED  BY <1>1, <1>2, ToldKeeps

LEMMA BatteryComesOrGoesKeeps ==
  ASSUME BtInv, NEW d \in BtDevice, NEW level, BatteryComesOrGoes(d, level)
  PROVE  BtInv'
<1>1. BtTypes /\ ControllerFits /\ ListKept /\ ListShown
  BY DEF BtInv
<1> DEFINE listed == Listed(btConnected, d)
           told == btController # NoController /\ listed
           k == IndexOf(btConnected, d)
<1>2. /\ d \in devices /\ btNews' = btNews + 1 /\ battery1' = [battery1 EXCEPT ![d] = level]
      /\ btConnected' = IF told THEN [btConnected EXCEPT ![k].battery = level] ELSE btConnected
      /\ btDp' = (btDp \/ told)
      /\ btMissed' = IF btController = NoController /\ listed THEN btMissed \cup {d} ELSE btMissed
      /\ UNCHANGED <<btConfig, btShown, adapters, powered, devices, linked, blocked, btController, rfkillState>>
  BY DEF BatteryComesOrGoes, BluezChange
<1>3. DOMAIN battery1' = BtDevice /\ battery1' = [e \in BtDevice |-> battery1'[e]] /\ battery1'[d] = level
      /\ \A e \in BtDevice : e # d => battery1'[e] = battery1[e]
  BY <1>1, <1>2 DEF BtTypes
<1>4. ListOf(btConnected)
  BY <1>1, ListIsList
<1>5. /\ ListOf(btConnected') /\ OnlyOf(d, btConnected', btConnected)
      /\ Listed(btConnected, d)' <=> listed
      /\ told => \A i \in DOMAIN btConnected' : btConnected'[i].path = d => btConnected'[i].battery = level
      /\ ~told => btConnected' = btConnected
  <2>1. CASE told
    <3>1. k \in DOMAIN btConnected /\ btConnected[k].path = d
      BY <2>1, IndexIsOf
    <3>2. PICK e : e = [btConnected[k] EXCEPT !.battery = level]
      OBVIOUS
    <3>3. PICK new : new = btConnected'
      OBVIOUS
    <3> HIDE DEF k
    <3>4. {"path", "battery"} \subseteq DOMAIN btConnected[k]
      BY <1>4, <3>1 DEF ListOf
    <3>5. {"path", "battery"} \subseteq DOMAIN e /\ e.path = d /\ e.battery = level
      BY <3>1, <3>2, <3>4
    <3>6. new = [btConnected EXCEPT ![k] = e]
      BY <1>2, <2>1, <3>2, <3>3
    <3>7. ListOf(new) /\ OnlyOf(d, new, btConnected) /\ \E i \in DOMAIN new : new[i] = e
      <4>1. e.path = btConnected[k].path
        BY <3>1, <3>5
      <4>2. ListOf(new) /\ OnlyOf(e.path, new, btConnected) /\ \E i \in DOMAIN new : new[i] = e
        BY <1>4, <3>1, <3>5, <3>6, <4>1, Replaced
      <4> QED  BY <3>5, <4>2
    <3>8. \A i \in DOMAIN new : new[i].path = d => new[i] = e
      BY <3>5, <3>7 DEF ListOf
    <3>9. Listed(btConnected, d)' <=> Listed(new, d)
      BY <3>3 DEF Listed
    <3>10. Listed(new, d)
      BY <3>5, <3>7 DEF Listed
    <3> QED  BY <2>1, <3>3, <3>5, <3>7, <3>8, <3>9, <3>10
  <2>2. CASE ~told
    <3>1. btConnected' = btConnected
      BY <1>2, <2>2
    <3> QED  BY <1>4, <2>2, <3>1 DEF OnlyOf, Listed
  <2> QED  BY <2>1, <2>2
<1>6. ListKept' /\ \A i \in DOMAIN btConnected' : btConnected'[i].path \in BtDevice
  <2>1. btMissed \ {d} \subseteq btMissed' /\ btMissed' \subseteq btMissed \cup {d} /\ (d \notin btMissed' => d \notin btMissed)
    BY <1>2
  <2>2. d \notin btMissed' => told \/ ~listed
    BY <1>2
  <2>3. ASSUME d \notin btMissed', InView(d)
        PROVE  /\ Listed(btConnected, d)' <=> d \in linked'
               /\ \A i \in DOMAIN btConnected' : btConnected'[i].path = d /\ battery1'[d] # NoLevel => btConnected'[i].battery = battery1'[d]
    <3>1. listed <=> d \in linked'
      BY <1>1, <1>2, <2>1, <2>3 DEF ListKept
    <3>2. CASE told
      BY <1>3, <1>5, <3>1, <3>2
    <3>3. CASE ~listed
      <4>1. \A i \in DOMAIN btConnected' : btConnected'[i].path # d
        BY <1>5, <3>3 DEF Listed
      <4> QED  BY <1>5, <3>1, <4>1
    <3> QED  BY <2>2, <2>3, <3>2, <3>3
  <2> HIDE DEF listed, told
  <2>4. linked' \ {d} = linked \ {d}
    BY <1>2
  <2> QED  BY <1>1, <1>2, <1>3, <1>5, <2>1, <2>3, <2>4, OthersKept
<1>7. BtTypes'
  <2>1. btDp' \in BOOLEAN /\ btNews' \in Nat /\ btMissed' \subseteq BtDevice
    BY <1>1, <1>2 DEF BtTypes
  <2>2. btConnected' \in Seq(ToSet(btConnected')) /\ \A i \in DOMAIN btConnected' : {"path", "battery"} \subseteq DOMAIN btConnected'[i]
    BY <1>5 DEF ListOf
  <2>3. ToSet(btConnected)' = ToSet(btConnected')
    BY DEF ToSet
  <2> QED  BY <1>1, <1>2, <1>3, <1>6, <2>1, <2>2, <2>3 DEF BtTypes
<1>8. ControllerFits'
  BY <1>1, <1>2 DEF ControllerFits, Suits, ControllerInfo, NoController
<1>9. ListShown'
  <2>1. ~btDp' => ~btDp /\ btConnected' = btConnected
    BY <1>1, <1>2, <1>5 DEF BtTypes
  <2> QED  BY <1>1, <1>2, <2>1 DEF ListShown, NoController
<1> QED  BY <1>6, <1>7, <1>8, <1>9 DEF BtInv

\* update() shows the list, and of it a preferred device if there is one.
LEMMA UpdateShowsList ==
  ASSUME BtTypes, ListKept, NEW rf \in BOOLEAN, UpdateBy(rf), UNCHANGED btConfig, blocked' = rf
  PROVE  /\ UNCHANGED <<btController, btConnected>>
         /\ ListShown'
<1> DEFINE P == {i \in 1..Len(btConfig.preferred) : Listed(btConnected, btConfig.preferred[i])}
           m == Min(P)
           focussed == CASE btConnected = <<>> -> btFocussed
                         [] btConnected # <<>> /\ (IF P # {} THEN m ELSE 0) # 0 ->
                              btConnected[IndexOf(btConnected, btConfig.preferred[IF P # {} THEN m ELSE 0])]
                         [] OTHER -> Last(btConnected)
           state == CASE rf -> "disabled"
                      [] ~rf /\ btController = NoController -> "no-controller"
                      [] ~rf /\ btController # NoController /\ ~btController.powered -> "off"
                      [] OTHER -> IF btConnected # <<>> THEN "connected" ELSE "on"
<1>1. /\ btShown' = [state |-> state, controller |-> btController.path, count |-> Len(btConnected),
                     devices |-> {btConnected[i].path : i \in DOMAIN btConnected}, device |-> focussed]
      /\ UNCHANGED <<btController, btConnected>>
  BY DEF UpdateBy, SelectInSeq
<1>2. btConfig.preferred \in Seq(BtDevice)
  BY BtAssumption DEF BtTypes
<1>3. P # {} => m \in P /\ m # 0
  <2>1. P \subseteq Nat \ {0}
    BY <1>2
  <2> HIDE DEF P
  <2> QED  BY <2>1, LeastPosition
<1>4. \A i \in P : btConfig.preferred[i] \in ToSet(btConfig.preferred) /\ Listed(btConnected, btConfig.preferred[i])
  BY <1>2 DEF ToSet
<1>5. \A d \in ToSet(btConfig.preferred) : Listed(btConnected, d) => P # {}
  BY <1>2 DEF ToSet
<1> HIDE DEF P, m
<1>6. btConnected # <<>> =>
        \E i \in DOMAIN btConnected :
          /\ focussed = btConnected[i]
          /\ (\E d \in ToSet(btConfig.preferred) : Listed(btConnected, d)) => btConnected[i].path \in ToSet(btConfig.preferred)
  <2> SUFFICES ASSUME btConnected # <<>>
               PROVE  \E i \in DOMAIN btConnected :
                        /\ focussed = btConnected[i]
                        /\ (\E d \in ToSet(btConfig.preferred) : Listed(btConnected, d)) => btConnected[i].path \in ToSet(btConfig.preferred)
    OBVIOUS
  <2>1. CASE P # {}
    <3>1. PICK d : d = btConfig.preferred[m]
      OBVIOUS
    <3>2. d \in ToSet(btConfig.preferred) /\ Listed(btConnected, d)
      BY <1>3, <1>4, <2>1, <3>1
    <3>3. IndexOf(btConnected, d) \in DOMAIN btConnected /\ btConnected[IndexOf(btConnected, d)].path = d
      BY <3>2, IndexIsOf
    <3>4. focussed = btConnected[IndexOf(btConnected, d)]
      BY <1>3, <2>1, <3>1
    <3> QED  BY <3>2, <3>3, <3>4
  <2>2. CASE P = {}
    <3>1. focussed = btConnected[Len(btConnected)]
      BY <2>2 DEF Last
    <3>2. Len(btConnected) \in DOMAIN btConnected
      BY DEF BtTypes
    <3> QED  BY <1>5, <2>2, <3>1, <3>2
  <2> QED  BY <2>1, <2>2
<1>7. rf = (state = "disabled") /\ (~rf => (state = "off") = (btController # NoController /\ ~btController.powered))
  OBVIOUS
<1> HIDE DEF focussed, state
<1>8. btShown'.state = state /\ btShown'.device = focussed
      /\ btShown'.devices = {btConnected[i].path : i \in DOMAIN btConnected}
  BY <1>1
<1>9. ToSet(btConfig.preferred) \cap btShown'.devices # {} => \E d \in ToSet(btConfig.preferred) : Listed(btConnected, d)
  BY <1>8 DEF Listed
<1>10. NoController' = NoController /\ ToSet(btConfig.preferred)' = ToSet(btConfig.preferred)
  BY DEF NoController, ToSet
<1>11. blocked' = (btShown'.state = "disabled")
  BY <1>7, <1>8
<1>12. ~blocked' => (btShown'.state = "off") = (btController' # NoController' /\ ~btController'.powered)
  BY <1>1, <1>7, <1>8, <1>10
<1>13. ListShown'
  BY <1>1, <1>6, <1>8, <1>9, <1>10, <1>11, <1>12 DEF ListShown
<1> QED  BY <1>1, <1>13

LEMMA BtNextKeeps ==
  ASSUME BtInv, [BtNext]_btVars
  PROVE  BtInv'
<1>1. CASE \E a \in Controller : AdapterAdded(a)
  BY <1>1, AdapterAddedKeeps
<1>2. CASE \E a \in Controller : AdapterRemoved(a)
  BY <1>2, AdapterRemovedKeeps
<1>3. CASE \E a \in Controller : ControllerChanges(a)
  BY <1>3, ControllerChangesKeeps
<1>4. CASE \E d \in BtDevice, connected \in BOOLEAN : DeviceAdded(d, connected)
  BY <1>4, DeviceAddedKeeps
<1>5. CASE \E d \in BtDevice : DeviceRemoved(d)
  BY <1>5, DeviceRemovedKeeps
<1>6. CASE \E d \in BtDevice : DeviceChanges(d)
  BY <1>6, DeviceChangesKeeps
<1>7. CASE \E d \in BtDevice, n \in Levels : BatteryChanges(d, n)
  BY <1>7, BatteryChangesKeeps
<1>8. CASE \E d \in BtDevice, n \in Levels \cup {NoLevel} : BatteryComesOrGoes(d, n)
  BY <1>8, BatteryComesOrGoesKeeps
<1>9. CASE BtUpdate \/ BtRfkillEvent
  <2>1. PICK rf \in BOOLEAN : UpdateBy(rf) /\ blocked' = rf /\ rfkillState' = rf
    <3>1. CASE BtUpdate
      <4>1. UpdateBy(rfkillState) /\ blocked' = blocked /\ rfkillState' = rfkillState
        BY <3>1 DEF BtUpdate, bluez
      <4>2. rfkillState \in BOOLEAN /\ rfkillState = blocked
        BY DEF BtInv, BtTypes
      <4> QED  BY <4>1, <4>2
    <3>2. CASE BtRfkillEvent
      <4>1. UpdateBy(rfkillState') /\ blocked' = ~blocked /\ rfkillState' = blocked'
        BY <3>2 DEF BtRfkillEvent
      <4>2. rfkillState' \in BOOLEAN
        BY <4>1
      <4> QED  BY <4>1, <4>2
    <3> QED  BY <1>9, <3>1, <3>2
  <2>2. /\ UNCHANGED <<btConfig, adapters, powered, devices, linked, battery1, btMissed>>
        /\ btNews' \in {btNews, btNews + 1} /\ (btDp' = btDp \/ btDp' = FALSE)
    BY <1>9 DEF BtUpdate, BtRfkillEvent, bluez, btPast
  <2>3. UNCHANGED <<btController, btConnected>> /\ ListShown'
    BY <2>1, <2>2, UpdateShowsList DEF BtInv
  <2>4. BtTypes'
    <3>1. btNews' \in Nat /\ btDp' \in BOOLEAN
      <4>1. btNews \in Nat /\ btDp \in BOOLEAN
        BY DEF BtInv, BtTypes
      <4>2. btNews' \in Nat
        BY <2>2, <4>1
      <4>3. btDp' \in BOOLEAN
        <5>1. CASE btDp' = btDp
          BY <4>1, <5>1
        <5>2. CASE btDp' = FALSE
          BY <5>2
        <5> QED  BY <2>2, <5>1, <5>2
      <4> QED  BY <4>2, <4>3
    <3>2. ToSet(btConnected)' = ToSet(btConnected)
      BY <2>3 DEF ToSet
    <3> QED  BY <2>1, <2>2, <2>3, <3>1, <3>2 DEF BtInv, BtTypes
  <2>5. ControllerFits'
    BY <2>2, <2>3 DEF BtInv, ControllerFits, Suits, ControllerInfo, NoController
  <2>6. ListKept'
    BY <2>2, <2>3 DEF BtInv, ListKept, Listed, InView, Suits, NoController
  <2> QED  BY <2>3, <2>4, <2>5, <2>6 DEF BtInv
<1>10. CASE UNCHANGED btVars
  <2>1. UNCHANGED <<btConfig, adapters, powered, devices, linked, battery1, blocked, btController, btConnected, btDp, rfkillState,
                    btShown, btNews, btMissed>>
    BY <1>10 DEF btVars, bluez, btModel, btPast
  <2>2. BtTypes'
    BY <2>1 DEF BtInv, BtTypes, ToSet
  <2>3. ControllerFits'
    BY <2>1 DEF BtInv, ControllerFits, Suits, ControllerInfo, NoController
  <2>4. ListKept'
    BY <2>1 DEF BtInv, ListKept, Listed, InView, Suits, NoController
  <2>5. ListShown'
    BY <2>1 DEF BtInv, ListShown, NoController, ToSet
  <2> QED  BY <2>2, <2>3, <2>4, <2>5 DEF BtInv
<1> QED  BY <1>1, <1>2, <1>3, <1>4, <1>5, <1>6, <1>7, <1>8, <1>9, <1>10 DEF BtNext

LEMMA BtInvariant == BtSpec => []BtInv
<1>1. BtInit => BtInv
  BY BtInitInv
<1>2. BtInv /\ [BtNext]_btVars => BtInv'
  BY BtNextKeeps
<1> QED  BY <1>1, <1>2, PTL DEF BtSpec

\* The controller shown is there and suits; its devices are listed once, exactly while they are
\* connected, unless a change was not told; and the device shown is a listed one: for any
\* controllers, devices and batteries in any order of changes (bluetooth.cpp:218-484, 642-681).
THEOREM DevicesAreShown == BtSpec => []BtAgrees
<1>1. BtInv => BtAgrees
  BY BtInvAgrees
<1> QED  BY <1>1, BtInvariant, PTL

LEMMA StepsOfPlayers ==
  ASSUME Next
  PROVE  [MprisNext]_mprisVars /\ [BtNext]_btVars
<1>1. CASE InNetworkStep
  <2>1. UNCHANGED <<mprisVars, btVars>>
    BY <1>1 DEF InNetworkStep, InNetwork
  <2> QED  BY <2>1
<1>2. CASE InWireplumberStep
  <2>1. UNCHANGED <<mprisVars, btVars>>
    BY <1>2 DEF InWireplumberStep, InWireplumber
  <2> QED  BY <2>1
<1>3. CASE InAudioStep
  <2>1. UNCHANGED <<mprisVars, btVars>>
    BY <1>3 DEF InAudioStep, InAudio
  <2> QED  BY <2>1
<1>4. CASE InMprisStep
  <2>1. UNCHANGED btVars
    BY <1>4 DEF InMprisStep, InMpris
  <2>2. MprisNext
    BY <1>4 DEF InMprisStep, InMpris, MprisNext
  <2> QED  BY <2>1, <2>2
<1>5. CASE InBluetoothStep
  <2>1. UNCHANGED mprisVars
    BY <1>5 DEF InBluetoothStep, InBluetooth
  <2>2. BtNext
    BY <1>5 DEF InBluetoothStep, InBluetooth, BtNext
  <2> QED  BY <2>1, <2>2
<1> QED  BY <1>1, <1>2, <1>3, <1>4, <1>5 DEF Next

\* The player and the device that are shown, among the other modules (mpris.cpp, bluetooth.cpp).
THEOREM PlayersAlwaysAgree == Spec => []PlayersAgree
<1>1. Init => MprisInit /\ BtInit
  BY DEF Init
<1>2. [Next]_<<part, netVars, wpVars, paVars, mprisVars, btVars>> => [MprisNext]_mprisVars /\ [BtNext]_btVars
  <2>1. Next => [MprisNext]_mprisVars /\ [BtNext]_btVars
    BY StepsOfPlayers
  <2>2. UNCHANGED <<part, netVars, wpVars, paVars, mprisVars, btVars>> => UNCHANGED mprisVars /\ UNCHANGED btVars
    OBVIOUS
  <2> QED  BY <2>1, <2>2
<1>3. Spec => MprisSpec /\ BtSpec
  BY <1>1, <1>2, PTL DEF Spec, MprisSpec, BtSpec
<1>4. MprisAgrees /\ BtAgrees => PlayersAgree
  BY DEF PlayersAgree
<1> QED  BY <1>3, <1>4, PlayersAreShown, DevicesAreShown, PTL
-----------------------------------------------------------------------------
(* network.cpp.  What the kernel sends is true when it is sent, and what has  *)
(* become untrue is followed by what says so; what the module has is so, or    *)
(* the message that corrects it is on the wire, or has been asked for.       *)

LinkStates == {"gone", "down", "up", "carrier"}
NetKinds == {"route", "link", "addr"}
NetMessages ==
  {[kind |-> "done"]} \cup {LinkMsg(l, s) : l \in Link, s \in LinkStates}
  \cup {AddrMsg(l, a, add) : l \in Link, a \in Addr, add \in BOOLEAN}
  \cup {RouteMsg(l, p, add) : l \in Link, p \in Metric, add \in BOOLEAN}

\* What the kernel may say when it is asked, being what it is.
NetTruths == {[kind |-> "done"]} \cup Dumped("link") \cup Dumped("addr") \cup Dumped("route")

Coming(m) == m \in ToSet(netWire)
NoCarrierComing(l) == \E s \in LinkStates \ {"carrier"} : Coming(LinkMsg(l, s))
RouteEndComing(l, p) == Coming(RouteMsg(l, p, FALSE)) \/ \E s \in {"gone", "down"} : Coming(LinkMsg(l, s))
AskedFor(kind) == netOverrun \/ kind \in netWants

\* Each message of before is followed by one of after.
Follows(wire, before, after) ==
  \A i \in 1..Len(wire) : wire[i] \in before => \E j \in 1..Len(wire) : j > i /\ wire[j] \in after
Says(l, states) == {LinkMsg(l, s) : s \in states}
RouteEnds(l, p) == {RouteMsg(l, p, FALSE)} \cup Says(l, {"gone", "down"})

NetTypes ==
  /\ linkState \in [Link -> LinkStates] /\ linkAddrs \in [Link -> SUBSET Addr]
  /\ linkRoutes \in [Link -> SUBSET Metric]
  /\ rfkillOn \in BOOLEAN /\ netNews \in 0..MaxNetNews /\ netDrops \in 0..MaxNetDrops
  /\ netWire \in Seq(NetMessages)
  /\ netIf \in [link : Link \cup {NoLink}, addr : Addr \cup {NoAddr}, carrier : BOOLEAN, essid : BOOLEAN, metric : Nat]
  /\ netIf.link = NoLink => netIf.addr = NoAddr /\ ~netIf.carrier /\ ~netIf.essid
  /\ netIf.essid => netIf.link \in Wireless
  /\ ~netByRoute /\ netIf.link # NoLink => netIf.link \in MatchingLinks
  /\ netWants \subseteq NetKinds /\ (~netDump => netWants = {})
  /\ ~netByRoute => /\ "route" \notin netWants
                    /\ \A l \in Link, p \in Metric, add \in BOOLEAN : ~Coming(RouteMsg(l, p, add))
  /\ netOverrun \in BOOLEAN /\ netByRoute \in BOOLEAN /\ netDump \in BOOLEAN /\ netWake \in BOOLEAN
  /\ netDp \in BOOLEAN /\ netDue \in BOOLEAN /\ netLostRemoval \in BOOLEAN
  /\ netForgot \subseteq {"address", "link", "unasked"}

WireTells ==
  \A l \in Link :
    /\ \A a \in Addr \ linkAddrs[l] : Follows(netWire, {AddrMsg(l, a, TRUE)}, {AddrMsg(l, a, FALSE)})
    /\ \A p \in Metric \ linkRoutes[l] : Follows(netWire, {RouteMsg(l, p, TRUE)}, RouteEnds(l, p))
    /\ linkState[l] = "gone" => Follows(netWire, Says(l, LinkStates \ {"gone"}), Says(l, {"gone"}))
    /\ linkState[l] # "carrier" => Follows(netWire, Says(l, {"carrier"}), Says(l, LinkStates \ {"carrier"}))
    /\ linkState[l] = "carrier" =>
         AskedFor("link") \/ Follows(netWire, Says(l, LinkStates \ {"carrier"}), Says(l, {"carrier"}))

\* What the module has of its interface.
IfaceKnown ==
  netIf.link # NoLink =>
    LET l == netIf.link IN
    /\ netIf.addr # NoAddr => netIf.addr \in linkAddrs[l] \/ Coming(AddrMsg(l, netIf.addr, FALSE))
    /\ netIf.addr = NoAddr /\ netForgot = {} =>
         \A a \in linkAddrs[l] : AskedFor("addr") \/ Coming(AddrMsg(l, a, TRUE))
    /\ netIf.carrier /\ linkState[l] # "carrier" => NoCarrierComing(l)
    /\ ~netIf.carrier /\ linkState[l] = "carrier" => AskedFor("link") \/ Coming(LinkMsg(l, "carrier"))
    /\ netIf.carrier /\ l \in Wireless => netIf.essid \/ netWake \/ NoCarrierComing(l)

\* The interface is the one to show.
IfaceChosen ==
  /\ ~netByRoute /\ netIf.link # NoLink =>
       linkState[netIf.link] # "gone" \/ Coming(LinkMsg(netIf.link, "gone"))
  /\ ~netByRoute /\ netIf.link = NoLink /\ netForgot = {} =>
       \A l \in MatchingLinks : linkState[l] # "gone" =>
         AskedFor("link") \/ \E s \in LinkStates \ {"gone"} : Coming(LinkMsg(l, s))
  /\ netByRoute /\ netIf.link # NoLink =>
       netIf.metric \in linkRoutes[netIf.link] \/ RouteEndComing(netIf.link, netIf.metric)
  /\ netByRoute =>
       \A l \in Link : \A p \in linkRoutes[l] :
         \/ netIf.link # NoLink /\ netIf.metric <= p
         \/ AskedFor("route") \/ Coming(RouteMsg(l, p, TRUE))

IfaceLabelled ==
  ~netDp /\ ~netWake /\ ~netDue =>
    netLabel = [state |-> GetNetworkState(netIf, netIf.link \in Wireless), addr |-> netIf.addr]

NetInv == NetTypes /\ IfaceLabelled /\ (~netLostRemoval => WireTells /\ IfaceKnown /\ IfaceChosen)

\* Messages differ in what they are about.
LEMMA MessagesApart ==
  /\ \A l, s, k, t : LinkMsg(l, s) = LinkMsg(k, t) <=> l = k /\ s = t
  /\ \A l, a, x, k, b, y : AddrMsg(l, a, x) = AddrMsg(k, b, y) <=> l = k /\ a = b /\ x = y
  /\ \A l, p, x, k, q, y : RouteMsg(l, p, x) = RouteMsg(k, q, y) <=> l = k /\ p = q /\ x = y
  /\ \A l, s, k, a, x : LinkMsg(l, s) # AddrMsg(k, a, x) /\ LinkMsg(l, s) # RouteMsg(k, a, x)
  /\ \A l, a, x, k, p, y : AddrMsg(l, a, x) # RouteMsg(k, p, y)
  /\ \A l, s, x : /\ LinkMsg(l, s) # [kind |-> "done"] /\ AddrMsg(l, s, x) # [kind |-> "done"]
                  /\ RouteMsg(l, s, x) # [kind |-> "done"]
<1>1. /\ \A l, s : LinkMsg(l, s).kind = "link" /\ LinkMsg(l, s).link = l /\ LinkMsg(l, s).state = s
      /\ \A l, a, x : /\ AddrMsg(l, a, x).kind = "addr" /\ AddrMsg(l, a, x).link = l
                      /\ AddrMsg(l, a, x).addr = a /\ AddrMsg(l, a, x).add = x
      /\ \A l, p, x : /\ RouteMsg(l, p, x).kind = "route" /\ RouteMsg(l, p, x).link = l
                      /\ RouteMsg(l, p, x).metric = p /\ RouteMsg(l, p, x).add = x
      /\ [kind |-> "done"].kind = "done"
  BY DEF LinkMsg, AddrMsg, RouteMsg
<1>2. \A l, s, k, t : LinkMsg(l, s) = LinkMsg(k, t) <=> l = k /\ s = t
  BY <1>1
<1>3. \A l, a, x, k, b, y : AddrMsg(l, a, x) = AddrMsg(k, b, y) <=> l = k /\ a = b /\ x = y
  BY <1>1
<1>4. \A l, p, x, k, q, y : RouteMsg(l, p, x) = RouteMsg(k, q, y) <=> l = k /\ p = q /\ x = y
  BY <1>1
<1>5. \A l, s, k, a, x : LinkMsg(l, s) # AddrMsg(k, a, x) /\ LinkMsg(l, s) # RouteMsg(k, a, x)
  BY <1>1
<1>6. \A l, a, x, k, p, y : AddrMsg(l, a, x) # RouteMsg(k, p, y)
  BY <1>1
<1>7. \A l, s, x : /\ LinkMsg(l, s) # [kind |-> "done"] /\ AddrMsg(l, s, x) # [kind |-> "done"]
                   /\ RouteMsg(l, s, x) # [kind |-> "done"]
  BY <1>1
<1> QED  BY <1>2, <1>3, <1>4, <1>5, <1>6, <1>7

\* What a message says by its kind.
LEMMA MessageOfKind ==
  ASSUME NEW m \in NetMessages
  PROVE  /\ m.kind = "link" => \E l \in Link, s \in LinkStates : m = LinkMsg(l, s) /\ m.link = l /\ m.state = s
         /\ m.kind = "addr" => \E l \in Link, a \in Addr, x \in BOOLEAN :
                                 m = AddrMsg(l, a, x) /\ m.link = l /\ m.addr = a /\ m.add = x
         /\ m.kind = "route" => \E l \in Link, p \in Metric, x \in BOOLEAN :
                                  m = RouteMsg(l, p, x) /\ m.link = l /\ m.metric = p /\ m.add = x
         /\ m.kind = "done" => m = [kind |-> "done"]
<1>1. CASE m = [kind |-> "done"]
  BY <1>1
<1>2. CASE \E l \in Link, s \in LinkStates : m = LinkMsg(l, s)
  BY <1>2 DEF LinkMsg
<1>3. CASE \E l \in Link, a \in Addr, x \in BOOLEAN : m = AddrMsg(l, a, x)
  BY <1>3 DEF AddrMsg
<1>4. CASE \E l \in Link, p \in Metric, x \in BOOLEAN : m = RouteMsg(l, p, x)
  BY <1>4 DEF RouteMsg
<1> QED  BY <1>1, <1>2, <1>3, <1>4 DEF NetMessages

\* The messages there may be are finitely many.
LEMMA MessagesFinite == IsFiniteSet(NetMessages)
<1>1. IsFiniteSet(LinkStates) /\ IsFiniteSet(BOOLEAN)
  <2>1. IsFiniteSet({"gone"} \cup {"down"} \cup {"up"} \cup {"carrier"}) /\ IsFiniteSet({TRUE} \cup {FALSE})
    BY FS_Singleton, FS_Union
  <2>2. LinkStates = {"gone"} \cup {"down"} \cup {"up"} \cup {"carrier"} /\ BOOLEAN = {TRUE} \cup {FALSE}
    BY DEF LinkStates
  <2> QED  BY <2>1, <2>2
<1>2. IsFiniteSet({LinkMsg(l, s) : l \in Link, s \in LinkStates})
  <2> DEFINE S == Link \X LinkStates
             T == {LinkMsg(l, s) : l \in Link, s \in LinkStates}
             f == [x \in S |-> LinkMsg(x[1], x[2])]
  <2>1. IsFiniteSet(S)
    BY <1>1, NetAssumption, FS_Product DEF NetAssumption
  <2>2. f \in Surjection(S, T)
    <3>1. \A m \in T : \E x \in S : m = LinkMsg(x[1], x[2])
      <4> SUFFICES ASSUME NEW l \in Link, NEW s \in LinkStates PROVE \E x \in S : LinkMsg(l, s) = LinkMsg(x[1], x[2])
        OBVIOUS
      <4>1. <<l, s>> \in S /\ <<l, s>>[1] = l /\ <<l, s>>[2] = s
        OBVIOUS
      <4> HIDE DEF S
      <4> QED  BY <4>1
    <3>2. \A x \in S : LinkMsg(x[1], x[2]) \in T
      OBVIOUS
    <3> HIDE DEF S, T
    <3> QED  BY <3>1, <3>2 DEF Surjection
  <2> HIDE DEF f
  <2> QED  BY <2>1, <2>2, FS_Surjection
<1>3. IsFiniteSet({AddrMsg(l, a, x) : l \in Link, a \in Addr, x \in BOOLEAN})
  <2> DEFINE S == Link \X (Addr \X BOOLEAN)
             T == {AddrMsg(l, a, x) : l \in Link, a \in Addr, x \in BOOLEAN}
             f == [y \in S |-> AddrMsg(y[1], y[2][1], y[2][2])]
  <2>1. IsFiniteSet(S)
    BY <1>1, NetAssumption, FS_Product DEF NetAssumption
  <2>2. f \in Surjection(S, T)
    <3>1. \A m \in T : \E y \in S : m = AddrMsg(y[1], y[2][1], y[2][2])
      <4> SUFFICES ASSUME NEW l \in Link, NEW a \in Addr, NEW x \in BOOLEAN
                   PROVE \E y \in S : AddrMsg(l, a, x) = AddrMsg(y[1], y[2][1], y[2][2])
        OBVIOUS
      <4>1. /\ <<l, <<a, x>>>> \in S /\ <<l, <<a, x>>>>[1] = l
            /\ <<l, <<a, x>>>>[2][1] = a /\ <<l, <<a, x>>>>[2][2] = x
        OBVIOUS
      <4> HIDE DEF S
      <4> QED  BY <4>1
    <3>2. \A y \in S : AddrMsg(y[1], y[2][1], y[2][2]) \in T
      OBVIOUS
    <3> HIDE DEF S, T
    <3> QED  BY <3>1, <3>2 DEF Surjection
  <2> HIDE DEF f
  <2> QED  BY <2>1, <2>2, FS_Surjection
<1>4. IsFiniteSet({RouteMsg(l, p, x) : l \in Link, p \in Metric, x \in BOOLEAN})
  <2> DEFINE S == Link \X (Metric \X BOOLEAN)
             T == {RouteMsg(l, p, x) : l \in Link, p \in Metric, x \in BOOLEAN}
             f == [y \in S |-> RouteMsg(y[1], y[2][1], y[2][2])]
  <2>1. IsFiniteSet(S)
    BY <1>1, NetAssumption, FS_Product DEF NetAssumption
  <2>2. f \in Surjection(S, T)
    <3>1. \A m \in T : \E y \in S : m = RouteMsg(y[1], y[2][1], y[2][2])
      <4> SUFFICES ASSUME NEW l \in Link, NEW p \in Metric, NEW x \in BOOLEAN
                   PROVE \E y \in S : RouteMsg(l, p, x) = RouteMsg(y[1], y[2][1], y[2][2])
        OBVIOUS
      <4>1. /\ <<l, <<p, x>>>> \in S /\ <<l, <<p, x>>>>[1] = l
            /\ <<l, <<p, x>>>>[2][1] = p /\ <<l, <<p, x>>>>[2][2] = x
        OBVIOUS
      <4> HIDE DEF S
      <4> QED  BY <4>1
    <3>2. \A y \in S : RouteMsg(y[1], y[2][1], y[2][2]) \in T
      OBVIOUS
    <3> HIDE DEF S, T
    <3> QED  BY <3>1, <3>2 DEF Surjection
  <2> HIDE DEF f
  <2> QED  BY <2>1, <2>2, FS_Surjection
<1> DEFINE A == {LinkMsg(l, s) : l \in Link, s \in LinkStates}
           B == {AddrMsg(l, a, x) : l \in Link, a \in Addr, x \in BOOLEAN}
           C == {RouteMsg(l, p, x) : l \in Link, p \in Metric, x \in BOOLEAN}
           D == {[kind |-> "done"]}
<1>5. IsFiniteSet(D)
  BY FS_Singleton
<1>6. NetMessages = D \cup A \cup B \cup C
  BY DEF NetMessages
<1> HIDE DEF A, B, C, D
<1>7. IsFiniteSet(A) /\ IsFiniteSet(B) /\ IsFiniteSet(C)
  BY <1>2, <1>3, <1>4 DEF A, B, C
<1>8. IsFiniteSet(D \cup A)
  BY <1>5, <1>7, FS_Union
<1>9. IsFiniteSet(D \cup A \cup B)
  BY <1>7, <1>8, FS_Union
<1>10. IsFiniteSet(D \cup A \cup B \cup C)
  BY <1>7, <1>9, FS_Union
<1> QED  BY <1>6, <1>10

\* A message that is followed by others stays so when the first is read, and what follows it is
\* still to come when it is the first itself.
LEMMA FollowsTail ==
  ASSUME NEW S, NEW q \in Seq(S), q # <<>>, NEW before, NEW after, Follows(q, before, after)
  PROVE  /\ Follows(Tail(q), before, after)
         /\ Head(q) \in before => \E m \in ToSet(Tail(q)) : m \in after
<1> DEFINE t == Tail(q)
<1>1. /\ Len(q) \in Nat \ {0} /\ Len(t) = Len(q) - 1 /\ Head(q) = q[1] /\ DOMAIN t = 1..Len(t)
      /\ \A i \in 1..Len(t) : t[i] = q[i + 1]
  OBVIOUS
<1> HIDE DEF t
<1>2. \A i \in 1..Len(q), j \in 1..Len(q) : j > i => j - 1 \in 1..Len(t) /\ t[j - 1] = q[j]
  BY <1>1
<1>3. ASSUME NEW i \in 1..Len(t), t[i] \in before PROVE \E j \in 1..Len(t) : j > i /\ t[j] \in after
  <2>1. i + 1 \in 1..Len(q) /\ q[i + 1] \in before
    BY <1>1, <1>3
  <2>2. PICK j \in 1..Len(q) : j > i + 1 /\ q[j] \in after
    BY <2>1 DEF Follows
  <2>3. j - 1 \in 1..Len(t) /\ j - 1 > i /\ t[j - 1] \in after
    BY <1>2, <2>1, <2>2
  <2> QED  BY <2>3
<1>4. ASSUME Head(q) \in before PROVE \E m \in ToSet(t) : m \in after
  <2>1. PICK j \in 1..Len(q) : j > 1 /\ q[j] \in after
    BY <1>1, <1>4 DEF Follows
  <2>2. j - 1 \in 1..Len(t) /\ t[j - 1] = q[j] /\ t[j - 1] \in ToSet(t)
    BY <1>1, <1>2, <2>1 DEF ToSet
  <2> QED  BY <2>1, <2>2
<1> QED  BY <1>3, <1>4 DEF Follows, t

LEMMA FollowsConcat ==
  ASSUME NEW S, NEW q \in Seq(S), NEW p \in Seq(S), NEW before, NEW after,
         \A m \in ToSet(p) : m \notin before,
         Follows(q, before, after) \/ \E m \in ToSet(p) : m \in after
  PROVE  Follows(q \o p, before, after)
<1> DEFINE c == q \o p
<1>1. /\ Len(q) \in Nat /\ Len(p) \in Nat /\ Len(c) = Len(q) + Len(p) /\ DOMAIN p = 1..Len(p)
      /\ \A i \in 1..Len(q) : c[i] = q[i]
      /\ \A i \in 1..Len(p) : c[Len(q) + i] = p[i]
  OBVIOUS
<1> HIDE DEF c
<1>2. \A i \in 1..Len(p) : p[i] \notin before
  BY <1>1 DEF ToSet
<1>3. SUFFICES ASSUME NEW i \in 1..Len(c), c[i] \in before PROVE \E j \in 1..Len(c) : j > i /\ c[j] \in after
  BY DEF Follows, c
<1>4. i \in 1..Len(q) /\ q[i] \in before
  <2>1. CASE i > Len(q)
    <3>1. i - Len(q) \in 1..Len(p) /\ i = Len(q) + (i - Len(q))
      BY <1>1, <2>1
    <3> QED  BY <1>1, <1>2, <1>3, <3>1
  <2> QED  BY <1>1, <1>3, <2>1
<1>5. CASE Follows(q, before, after)
  <2>1. PICK j \in 1..Len(q) : j > i /\ q[j] \in after
    BY <1>4, <1>5 DEF Follows
  <2> QED  BY <1>1, <2>1
<1>6. CASE \E m \in ToSet(p) : m \in after
  <2>1. PICK j \in 1..Len(p) : p[j] \in after
    BY <1>1, <1>6 DEF ToSet
  <2>2. Len(q) + j \in 1..Len(c) /\ Len(q) + j > i /\ c[Len(q) + j] \in after
    BY <1>1, <1>4, <2>1
  <2> QED  BY <2>2
<1> QED  BY <1>5, <1>6

\* Every message of a link, an address or a route may be.
LEMMA MessagesThere ==
  /\ \A l \in Link, s \in LinkStates : LinkMsg(l, s) \in NetMessages
  /\ \A l \in Link, a \in Addr, x \in BOOLEAN : AddrMsg(l, a, x) \in NetMessages
  /\ \A l \in Link, p \in Metric, x \in BOOLEAN : RouteMsg(l, p, x) \in NetMessages
<1> DEFINE A == {LinkMsg(l, s) : l \in Link, s \in LinkStates}
           B == {AddrMsg(l, a, x) : l \in Link, a \in Addr, x \in BOOLEAN}
           C == {RouteMsg(l, p, x) : l \in Link, p \in Metric, x \in BOOLEAN}
           D == {[kind |-> "done"]}
<1>1. NetMessages = D \cup A \cup B \cup C
  BY DEF NetMessages
<1>2. \A l \in Link, s \in LinkStates : LinkMsg(l, s) \in A
  OBVIOUS
<1>3. \A l \in Link, a \in Addr, x \in BOOLEAN : AddrMsg(l, a, x) \in B
  OBVIOUS
<1>4. \A l \in Link, p \in Metric, x \in BOOLEAN : RouteMsg(l, p, x) \in C
  OBVIOUS
<1> HIDE DEF A, B, C, D
<1> QED  BY <1>1, <1>2, <1>3, <1>4

\* What the kernel may say of itself.
KernelTypes ==
  /\ linkState \in [Link -> LinkStates] /\ linkAddrs \in [Link -> SUBSET Addr]
  /\ linkRoutes \in [Link -> SUBSET Metric]

LEMMA TruthsOfKernel ==
  ASSUME KernelTypes
  PROVE  /\ \A l \in Link, s \in LinkStates : LinkMsg(l, s) \in NetTruths <=> s = linkState[l] /\ s # "gone"
         /\ \A l \in Link, a \in Addr, x \in BOOLEAN : AddrMsg(l, a, x) \in NetTruths <=> x /\ a \in linkAddrs[l]
         /\ \A l \in Link, p \in Metric, x \in BOOLEAN : RouteMsg(l, p, x) \in NetTruths <=> x /\ p \in linkRoutes[l]
         /\ NetTruths \subseteq NetMessages /\ [kind |-> "done"] \in NetTruths
         /\ \A k \in NetKinds : Dumped(k) \subseteq NetTruths
         /\ \A l \in Link : linkState[l] # "gone" => LinkMsg(l, linkState[l]) \in Dumped("link")
         /\ \A l \in Link : \A a \in linkAddrs[l] : AddrMsg(l, a, TRUE) \in Dumped("addr")
         /\ \A l \in Link : \A p \in linkRoutes[l] : RouteMsg(l, p, TRUE) \in Dumped("route")
         /\ \A l \in Link, p \in Metric, x \in BOOLEAN :
              RouteMsg(l, p, x) \notin Dumped("link") /\ RouteMsg(l, p, x) \notin Dumped("addr")
<1>1. linkState \in [Link -> LinkStates] /\ linkAddrs \in [Link -> SUBSET Addr] /\ linkRoutes \in [Link -> SUBSET Metric]
  BY DEF KernelTypes
<1>2. Dumped("link") = {LinkMsg(l, linkState[l]) : l \in {k \in Link : linkState[k] # "gone"}}
  BY DEF Dumped
<1>3. Dumped("addr") = {m \in {AddrMsg(l, a, TRUE) : l \in Link, a \in Addr} : m.addr \in linkAddrs[m.link]}
  BY DEF Dumped
<1>4. Dumped("route") = {m \in {RouteMsg(l, p, TRUE) : l \in Link, p \in Metric} : m.metric \in linkRoutes[m.link]}
  BY DEF Dumped
<1>5. \A m : m \in Dumped("link") <=> \E l \in Link : m = LinkMsg(l, linkState[l]) /\ linkState[l] # "gone"
  BY <1>2
<1>6. \A m : m \in Dumped("addr") <=> \E l \in Link, a \in Addr : m = AddrMsg(l, a, TRUE) /\ a \in linkAddrs[l]
  BY <1>3 DEF AddrMsg
<1>7. \A m : m \in Dumped("route") <=> \E l \in Link, p \in Metric : m = RouteMsg(l, p, TRUE) /\ p \in linkRoutes[l]
  BY <1>4 DEF RouteMsg
<1>8. \A l \in Link : linkState[l] # "gone" => LinkMsg(l, linkState[l]) \in Dumped("link")
  BY <1>5
<1>9. \A l \in Link : \A a \in linkAddrs[l] : AddrMsg(l, a, TRUE) \in Dumped("addr")
  BY <1>1, <1>6
<1>10. \A l \in Link : \A p \in linkRoutes[l] : RouteMsg(l, p, TRUE) \in Dumped("route")
  BY <1>1, <1>7
<1>11. NetTruths = {[kind |-> "done"]} \cup Dumped("link") \cup Dumped("addr") \cup Dumped("route")
  BY DEF NetTruths
<1> HIDE DEF NetTruths
<1>12. ASSUME NEW l \in Link, NEW s \in LinkStates
       PROVE  LinkMsg(l, s) \in NetTruths <=> s = linkState[l] /\ s # "gone"
  <2>1. LinkMsg(l, s) \in NetTruths <=> LinkMsg(l, s) \in Dumped("link")
    BY <1>6, <1>7, <1>11 DEF LinkMsg, AddrMsg, RouteMsg
  <2> QED  BY <2>1, <1>5, MessagesApart
<1>13. ASSUME NEW l \in Link, NEW a \in Addr, NEW x \in BOOLEAN
       PROVE  AddrMsg(l, a, x) \in NetTruths <=> x /\ a \in linkAddrs[l]
  <2>1. AddrMsg(l, a, x) \in NetTruths <=> AddrMsg(l, a, x) \in Dumped("addr")
    BY <1>5, <1>7, <1>11 DEF LinkMsg, AddrMsg, RouteMsg
  <2>2. AddrMsg(l, a, x) \in Dumped("addr") <=> x = TRUE /\ a \in linkAddrs[l]
    BY <1>6 DEF AddrMsg
  <2> QED  BY <2>1, <2>2
<1>14. ASSUME NEW l \in Link, NEW p \in Metric, NEW x \in BOOLEAN
       PROVE  RouteMsg(l, p, x) \in NetTruths <=> x /\ p \in linkRoutes[l]
  <2>1. RouteMsg(l, p, x) \in NetTruths <=> RouteMsg(l, p, x) \in Dumped("route")
    BY <1>5, <1>6, <1>11 DEF LinkMsg, AddrMsg, RouteMsg
  <2>2. RouteMsg(l, p, x) \in Dumped("route") <=> x = TRUE /\ p \in linkRoutes[l]
    BY <1>7 DEF RouteMsg
  <2> QED  BY <2>1, <2>2
<1>15. NetTruths \subseteq NetMessages
  <2>1. Dumped("link") \subseteq NetMessages
    BY <1>1, <1>5, MessagesThere
  <2>2. ASSUME NEW m \in Dumped("addr") PROVE m \in NetMessages
    <3>1. PICK l \in Link, a \in Addr : m = AddrMsg(l, a, TRUE)
      BY <1>6, <2>2
    <3> QED  BY <3>1, MessagesThere
  <2>3. ASSUME NEW m \in Dumped("route") PROVE m \in NetMessages
    <3>1. PICK l \in Link, p \in Metric : m = RouteMsg(l, p, TRUE)
      BY <1>7, <2>3
    <3> QED  BY <3>1, MessagesThere
  <2> QED  BY <1>11, <2>1, <2>2, <2>3 DEF NetMessages
<1>16. \A k \in NetKinds : Dumped(k) \subseteq NetTruths
  BY <1>11 DEF NetKinds
<1>17. ASSUME NEW l \in Link, NEW p \in Metric, NEW x \in BOOLEAN
       PROVE  RouteMsg(l, p, x) \notin Dumped("link") /\ RouteMsg(l, p, x) \notin Dumped("addr")
  BY <1>5, <1>6 DEF LinkMsg, AddrMsg, RouteMsg
<1> QED  BY <1>8, <1>9, <1>10, <1>11, <1>12, <1>13, <1>14, <1>15, <1>16, <1>17

\* A dump tells what the kernel has of a kind, and that it ends.
LEMMA DumpOfKernel ==
  ASSUME KernelTypes, NEW k \in NetKinds
  PROVE  DumpOf(k) \in Seq(NetMessages) /\ ToSet(DumpOf(k)) = Dumped(k) \cup {[kind |-> "done"]}
<1> DEFINE d == SetToSeq(Dumped(k))
           e == <<[kind |-> "done"]>>
<1>1. Dumped(k) \subseteq NetMessages /\ [kind |-> "done"] \in NetMessages
  BY TruthsOfKernel
<1>2. IsFiniteSet(Dumped(k))
  BY <1>1, MessagesFinite, FS_Subset
<1>3. d \in Seq(Dumped(k)) /\ ToSet(d) = Dumped(k)
  BY <1>2, SetToSeqElements
<1>4. e \in Seq(NetMessages) /\ ToSet(e) = {[kind |-> "done"]}
  BY <1>1 DEF ToSet
<1>5. d \in Seq(NetMessages)
  BY <1>1, <1>3
<1> HIDE DEF d, e
<1>6. d \o e \in Seq(NetMessages) /\ ToSet(d \o e) = ToSet(d) \cup ToSet(e)
  BY <1>4, <1>5, ToSetOfConcat
<1>7. DumpOf(k) = d \o e
  BY DEF DumpOf, d, e
<1> QED  BY <1>3, <1>4, <1>6, <1>7

LEMMA TruthsAre ==
  ASSUME NetTypes
  PROVE  /\ \A l \in Link, s \in LinkStates : LinkMsg(l, s) \in NetTruths <=> s = linkState[l] /\ s # "gone"
         /\ \A l \in Link, a \in Addr, x \in BOOLEAN : AddrMsg(l, a, x) \in NetTruths <=> x /\ a \in linkAddrs[l]
         /\ \A l \in Link, p \in Metric, x \in BOOLEAN : RouteMsg(l, p, x) \in NetTruths <=> x /\ p \in linkRoutes[l]
         /\ NetTruths \subseteq NetMessages /\ [kind |-> "done"] \in NetTruths
         /\ \A k \in NetKinds : Dumped(k) \subseteq NetTruths
         /\ \A l \in Link : linkState[l] # "gone" => LinkMsg(l, linkState[l]) \in Dumped("link")
         /\ \A l \in Link : \A a \in linkAddrs[l] : AddrMsg(l, a, TRUE) \in Dumped("addr")
         /\ \A l \in Link : \A p \in linkRoutes[l] : RouteMsg(l, p, TRUE) \in Dumped("route")
         /\ \A l \in Link, p \in Metric, x \in BOOLEAN :
              RouteMsg(l, p, x) \notin Dumped("link") /\ RouteMsg(l, p, x) \notin Dumped("addr")
<1>1. KernelTypes
  BY DEF NetTypes, KernelTypes
<1> QED  BY <1>1, TruthsOfKernel

LEMMA DumpTells ==
  ASSUME NetTypes, NEW k \in NetKinds
  PROVE  DumpOf(k) \in Seq(NetMessages) /\ ToSet(DumpOf(k)) = Dumped(k) \cup {[kind |-> "done"]}
<1>1. KernelTypes
  BY DEF NetTypes, KernelTypes
<1> QED  BY <1>1, DumpOfKernel

\* Of what is wanted, one kind is asked for, unless a dump is on its way.
LEMMA Asks ==
  ASSUME NetTypes, NEW wants \in SUBSET NetKinds, NEW busy \in BOOLEAN, NEW wire \in Seq(NetMessages),
         AskForStateDump(wants, busy, wire)
  PROVE  /\ netWants' \subseteq wants /\ netDump' \in BOOLEAN /\ (~netDump' => netWants' = {})
         /\ \E x \in Seq(NetMessages) :
              /\ netWire' = wire \o x /\ ToSet(x) \subseteq NetTruths
              /\ \A k \in wants : k \in netWants' \/ Dumped(k) \subseteq ToSet(x)
              /\ "route" \notin wants =>
                   \A l \in Link, p \in Metric, add \in BOOLEAN : RouteMsg(l, p, add) \notin ToSet(x)
<1> DEFINE next == CHOOSE k \in wants : \/ k = "route"
                                        \/ k = "link" /\ "route" \notin wants
                                        \/ wants = {"addr"}
<1>1. CASE busy \/ wants = {}
  <2>1. netWants' = wants /\ netDump' = busy /\ netWire' = wire
    BY <1>1 DEF AskForStateDump
  <2>2. wire = wire \o <<>> /\ <<>> \in Seq(NetMessages) /\ ToSet(<<>>) = {}
    BY DEF ToSet
  <2>3. \A k \in wants : k \in netWants'
    BY <2>1
  <2>4. /\ <<>> \in Seq(NetMessages) /\ netWire' = wire \o <<>> /\ ToSet(<<>>) \subseteq NetTruths
        /\ \A l \in Link, p \in Metric, add \in BOOLEAN : RouteMsg(l, p, add) \notin ToSet(<<>>)
    BY <2>1, <2>2
  <2> QED  BY <1>1, <2>1, <2>3, <2>4
<1>2. CASE ~busy /\ wants # {}
  <2>1. netWants' = wants \ {next} /\ netDump' = TRUE /\ netWire' = wire \o DumpOf(next)
    BY <1>2 DEF AskForStateDump
  <2>2. \E k \in wants : k = "route" \/ (k = "link" /\ "route" \notin wants) \/ wants = {"addr"}
    <3>1. "route" \in wants \/ "link" \in wants \/ wants = {"addr"}
      BY <1>2 DEF NetKinds
    <3> QED  BY <3>1
  <2>3. next \in wants
    <3>1. \E k \in wants : \/ k = "route"
                           \/ k = "link" /\ "route" \notin wants
                           \/ wants = {"addr"}
      BY <2>2
    <3> QED  BY <3>1
  <2> HIDE DEF next
  <2>4. next \in NetKinds /\ ("route" \notin wants => next \in {"link", "addr"})
    BY <2>3 DEF NetKinds
  <2> DEFINE x == DumpOf(next)
  <2>5. x \in Seq(NetMessages) /\ ToSet(x) = Dumped(next) \cup {[kind |-> "done"]}
    BY <2>4, DumpTells
  <2>6. netWire' = wire \o x
    BY <2>1
  <2> HIDE DEF x
  <2>7. Dumped(next) \subseteq NetTruths /\ [kind |-> "done"] \in NetTruths
    BY <2>4, TruthsAre
  <2>8. \A k \in wants : k \in netWants' \/ Dumped(k) \subseteq ToSet(x)
    BY <2>1, <2>5
  <2>9. ASSUME "route" \notin wants, NEW l \in Link, NEW p \in Metric, NEW add \in BOOLEAN
        PROVE  RouteMsg(l, p, add) \notin ToSet(x)
    <3>1. RouteMsg(l, p, add) \notin Dumped("link") /\ RouteMsg(l, p, add) \notin Dumped("addr")
      BY TruthsAre
    <3>2. RouteMsg(l, p, add) # [kind |-> "done"]
      BY MessagesApart
    <3> QED  BY <2>4, <2>5, <2>9, <3>1, <3>2
  <2> QED  BY <2>1, <2>5, <2>6, <2>7, <2>8, <2>9
<1> QED  BY <1>1, <1>2

\* A step of the module reads the first message or none; what is asked for stays so, or the
\* answer is on the wire, and is the truth.
Unread(read) == IF read THEN Tail(netWire) ELSE netWire
WireStep(read, x) ==
  /\ read \in BOOLEAN /\ (read => netWire # <<>>)
  /\ x \in Seq(NetMessages) /\ netWire' = Unread(read) \o x /\ ToSet(x) \subseteq NetTruths
  /\ UNCHANGED <<netKernel, netByRoute, netLostRemoval>>
  /\ \A k \in AllDumps : AskedFor(k) => AskedFor(k)' \/ Dumped(k) \subseteq ToSet(x)

LEMMA StepOfWire ==
  ASSUME NetTypes, NEW read, NEW x, WireStep(read, x)
  PROVE  /\ netWire' \in Seq(NetMessages)
         /\ \A m : Coming(m) => Coming(m)' \/ (read /\ m = Head(netWire))
         /\ \A m : Coming(m)' => Coming(m) \/ m \in ToSet(x)
         /\ \A m \in ToSet(x) : Coming(m)'
         /\ \A k \in AllDumps : AskedFor(k) => AskedFor(k)' \/ \A m \in Dumped(k) : Coming(m)'
<1> DEFINE w == Unread(read)
<1>1. netWire \in Seq(NetMessages) /\ x \in Seq(NetMessages)
  BY DEF NetTypes, WireStep
<1>2. w \in Seq(NetMessages) /\ \A m \in ToSet(netWire) : m \in ToSet(w) \/ (read /\ m = Head(netWire))
  <2>1. CASE read
    <3>1. netWire # <<>> /\ w = Tail(netWire)
      BY <2>1 DEF WireStep, Unread
    <3> QED  BY <1>1, <2>1, <3>1, ToSetOfTail
  <2>2. CASE ~read
    BY <1>1, <2>2 DEF Unread
  <2> QED  BY <2>1, <2>2
<1>3. \A m \in ToSet(w) : m \in ToSet(netWire)
  <2>1. CASE read
    <3>1. netWire # <<>> /\ w = Tail(netWire)
      BY <2>1 DEF WireStep, Unread
    <3> QED  BY <1>1, <2>1, <3>1, ToSetOfTail
  <2>2. CASE ~read
    BY <1>1, <2>2 DEF Unread
  <2> QED  BY <2>1, <2>2
<1> HIDE DEF w
<1>4. netWire' = w \o x
  BY DEF WireStep, w
<1>5. netWire' \in Seq(NetMessages) /\ ToSet(netWire') = ToSet(w) \cup ToSet(x)
  BY <1>1, <1>2, <1>4, ToSetOfConcat
<1>6. \A m : (Coming(m) <=> m \in ToSet(netWire)) /\ (Coming(m)' <=> m \in ToSet(netWire'))
  BY DEF Coming
<1>7. \A k \in AllDumps : AskedFor(k) => AskedFor(k)' \/ Dumped(k) \subseteq ToSet(x)
  BY DEF WireStep
<1> QED  BY <1>2, <1>3, <1>5, <1>6, <1>7

\* What is no longer so stays followed by what says so.
LEMMA StepFollows ==
  ASSUME NetTypes, NEW read, NEW x, WireStep(read, x), NEW before, NEW after,
         \A m \in NetTruths : m \notin before,
         Follows(netWire, before, after) \/ \E m \in ToSet(x) : m \in after
  PROVE  /\ Follows(netWire', before, after)
         /\ read /\ Head(netWire) \in before => \E m \in after : Coming(m)'
<1> DEFINE w == Unread(read)
<1>1. netWire \in Seq(NetMessages) /\ x \in Seq(NetMessages) /\ read \in BOOLEAN /\ (read => netWire # <<>>)
  BY DEF NetTypes, WireStep
<1>2. read => w = Tail(netWire)
  BY DEF Unread
<1>3. ~read => w = netWire
  BY DEF Unread
<1> HIDE DEF w
<1>4. w \in Seq(NetMessages)
  <2>1. CASE read
    BY <1>1, <1>2, <2>1, ToSetOfTail
  <2>2. CASE ~read
    BY <1>1, <1>3, <2>2
  <2> QED  BY <1>1, <2>1, <2>2
<1>5. netWire' = w \o x /\ \A m \in ToSet(x) : m \notin before
  BY DEF WireStep, w
<1>6. netWire' \in Seq(NetMessages) /\ ToSet(netWire') = ToSet(w) \cup ToSet(x)
  BY <1>1, <1>4, <1>5, ToSetOfConcat
<1>7. CASE \E m \in ToSet(x) : m \in after
  BY <1>1, <1>4, <1>5, <1>6, <1>7, FollowsConcat DEF Coming
<1>8. CASE Follows(netWire, before, after)
  <2>1. Follows(w, before, after) /\ (read /\ Head(netWire) \in before => \E m \in ToSet(w) : m \in after)
    BY <1>1, <1>2, <1>3, <1>8, FollowsTail
  <2>2. Follows(netWire', before, after)
    BY <1>1, <1>4, <1>5, <2>1, FollowsConcat
  <2> QED  BY <1>6, <2>1, <2>2 DEF Coming
<1> QED  BY <1>7, <1>8

\* A step of the module leaves what the kernel has said true, and the message it reads is true or
\* followed by what says that it is not.
LEMMA StepTells ==
  ASSUME NetTypes, WireTells, NEW read, NEW x, WireStep(read, x)
  PROVE  /\ WireTells'
         /\ read => \A l \in Link :
              /\ \A a \in Addr : Head(netWire) = AddrMsg(l, a, TRUE) /\ a \notin linkAddrs[l] =>
                                   Coming(AddrMsg(l, a, FALSE))'
              /\ \A p \in Metric : Head(netWire) = RouteMsg(l, p, TRUE) /\ p \notin linkRoutes[l] =>
                                     RouteEndComing(l, p)'
              /\ \A s \in LinkStates : Head(netWire) = LinkMsg(l, s) =>
                   /\ s # "gone" /\ linkState[l] = "gone" => Coming(LinkMsg(l, "gone"))'
                   /\ s = "carrier" /\ linkState[l] # "carrier" => NoCarrierComing(l)'
                   /\ s # "carrier" /\ linkState[l] = "carrier" =>
                        AskedFor("link")' \/ Coming(LinkMsg(l, "carrier"))'
<1>1. UNCHANGED <<linkState, linkAddrs, linkRoutes>>
  BY DEF WireStep, netKernel
<1>2. ASSUME NEW l \in Link, NEW a \in Addr \ linkAddrs[l]
      PROVE  /\ Follows(netWire', {AddrMsg(l, a, TRUE)}, {AddrMsg(l, a, FALSE)})
             /\ read /\ Head(netWire) = AddrMsg(l, a, TRUE) => Coming(AddrMsg(l, a, FALSE))'
  <2> DEFINE came == {AddrMsg(l, a, TRUE)}
             went == {AddrMsg(l, a, FALSE)}
  <2>1. Follows(netWire, came, went)
    BY DEF WireTells
  <2>2. \A m \in NetTruths : m \notin came
    BY <1>2, TruthsAre
  <2>3. AddrMsg(l, a, TRUE) \in came /\ \A m \in went : m = AddrMsg(l, a, FALSE)
    OBVIOUS
  <2> HIDE DEF came, went
  <2>4. Follows(netWire', came, went) /\ (read /\ Head(netWire) \in came => \E m \in went : Coming(m)')
    BY <2>1, <2>2, StepFollows
  <2>5. read /\ Head(netWire) = AddrMsg(l, a, TRUE) => Coming(AddrMsg(l, a, FALSE))'
    BY <2>3, <2>4
  <2> QED  BY <2>4, <2>5 DEF came, went
<1>3. ASSUME NEW l \in Link, NEW p \in Metric \ linkRoutes[l]
      PROVE  /\ Follows(netWire', {RouteMsg(l, p, TRUE)}, RouteEnds(l, p))
             /\ read /\ Head(netWire) = RouteMsg(l, p, TRUE) => RouteEndComing(l, p)'
  <2>1. Follows(netWire, {RouteMsg(l, p, TRUE)}, RouteEnds(l, p))
    BY DEF WireTells
  <2>2. \A m \in NetTruths : m \notin {RouteMsg(l, p, TRUE)}
    BY <1>3, TruthsAre
  <2>3. /\ Follows(netWire', {RouteMsg(l, p, TRUE)}, RouteEnds(l, p))
        /\ read /\ Head(netWire) \in {RouteMsg(l, p, TRUE)} => \E m \in RouteEnds(l, p) : Coming(m)'
    BY <2>1, <2>2, StepFollows
  <2> QED  BY <2>3 DEF RouteEnds, Says, RouteEndComing, Coming
<1>4. \A l \in Link : \A s \in LinkStates \ {linkState[l]} : \A m \in NetTruths : m # LinkMsg(l, s)
  BY TruthsAre
<1>5. \A l \in Link : linkState[l] \in LinkStates
  BY DEF NetTypes
<1>6. ASSUME NEW l \in Link, linkState[l] = "gone"
      PROVE  /\ Follows(netWire', Says(l, LinkStates \ {"gone"}), Says(l, {"gone"}))
             /\ \A s \in LinkStates \ {"gone"} : read /\ Head(netWire) = LinkMsg(l, s) => Coming(LinkMsg(l, "gone"))'
  <2>1. Follows(netWire, Says(l, LinkStates \ {"gone"}), Says(l, {"gone"}))
    BY <1>6 DEF WireTells
  <2>2. \A m \in NetTruths : m \notin Says(l, LinkStates \ {"gone"})
    BY <1>4, <1>6 DEF Says
  <2>3. /\ Follows(netWire', Says(l, LinkStates \ {"gone"}), Says(l, {"gone"}))
        /\ read /\ Head(netWire) \in Says(l, LinkStates \ {"gone"}) => \E m \in Says(l, {"gone"}) : Coming(m)'
    BY <2>1, <2>2, StepFollows
  <2> QED  BY <2>3 DEF Says, Coming
<1>7. ASSUME NEW l \in Link, linkState[l] # "carrier"
      PROVE  /\ Follows(netWire', Says(l, {"carrier"}), Says(l, LinkStates \ {"carrier"}))
             /\ read /\ Head(netWire) = LinkMsg(l, "carrier") => NoCarrierComing(l)'
  <2>1. Follows(netWire, Says(l, {"carrier"}), Says(l, LinkStates \ {"carrier"}))
    BY <1>7 DEF WireTells
  <2>2. \A m \in NetTruths : m \notin Says(l, {"carrier"})
    BY <1>4, <1>7 DEF Says, LinkStates
  <2>3. /\ Follows(netWire', Says(l, {"carrier"}), Says(l, LinkStates \ {"carrier"}))
        /\ read /\ Head(netWire) \in Says(l, {"carrier"}) => \E m \in Says(l, LinkStates \ {"carrier"}) : Coming(m)'
    BY <2>1, <2>2, StepFollows
  <2> QED  BY <2>3 DEF Says, Coming, NoCarrierComing
<1>8. ASSUME NEW l \in Link, linkState[l] = "carrier", ~AskedFor("link")'
      PROVE  /\ Follows(netWire', Says(l, LinkStates \ {"carrier"}), Says(l, {"carrier"}))
             /\ \A s \in LinkStates \ {"carrier"} :
                  read /\ Head(netWire) = LinkMsg(l, s) => Coming(LinkMsg(l, "carrier"))'
  <2>1. Follows(netWire, Says(l, LinkStates \ {"carrier"}), Says(l, {"carrier"}))
         \/ \E m \in ToSet(x) : m \in Says(l, {"carrier"})
    <3>1. CASE AskedFor("link")
      <4>1. Dumped("link") \subseteq ToSet(x)
        BY <1>8, <3>1 DEF WireStep, AllDumps
      <4>2. LinkMsg(l, linkState[l]) \in Dumped("link")
        BY <1>8, TruthsAre
      <4> QED  BY <1>8, <4>1, <4>2 DEF Says
    <3>2. CASE ~AskedFor("link")
      BY <1>8, <3>2 DEF WireTells
    <3> QED  BY <3>1, <3>2
  <2>2. \A m \in NetTruths : m \notin Says(l, LinkStates \ {"carrier"})
    BY <1>4, <1>8 DEF Says
  <2>3. /\ Follows(netWire', Says(l, LinkStates \ {"carrier"}), Says(l, {"carrier"}))
        /\ read /\ Head(netWire) \in Says(l, LinkStates \ {"carrier"}) => \E m \in Says(l, {"carrier"}) : Coming(m)'
    BY <2>1, <2>2, StepFollows
  <2> QED  BY <2>3 DEF Says, Coming
<1>9. WireTells'
  BY <1>1, <1>2, <1>3, <1>6, <1>7, <1>8 DEF WireTells
<1> QED  BY <1>1, <1>2, <1>3, <1>6, <1>7, <1>8, <1>9

-----------------------------------------------------------------------------
\* What the kernel says is added to the wire, or dropped, which the next read will notice.
NewsDropped(removes) == netWire' = netWire /\ netOverrun' = TRUE /\ (removes => netLostRemoval')

LEMMA NewsTold ==
  ASSUME NetTypes, NEW msgs \in Seq(NetMessages), NEW removes \in BOOLEAN, NetNews(msgs, removes)
  PROVE  /\ netWire' \in Seq(NetMessages)
         /\ \A m : Coming(m) => Coming(m)'
         /\ \A m : Coming(m)' => Coming(m) \/ m \in ToSet(msgs)
         /\ NewsDropped(removes) \/ (netWire' = netWire \o msgs /\ \A m \in ToSet(msgs) : Coming(m)')
         /\ \A k : AskedFor(k) => AskedFor(k)'
         /\ netLostRemoval => netLostRemoval'
         /\ netNews' \in 0..MaxNetNews /\ netDrops' \in 0..MaxNetDrops
         /\ netOverrun' \in BOOLEAN /\ netLostRemoval' \in BOOLEAN
         /\ UNCHANGED <<netByRoute, netModel, netLabel, netForgot>>
<1>1. /\ netWire \in Seq(NetMessages) /\ netNews \in 0..MaxNetNews /\ netDrops \in 0..MaxNetDrops
      /\ MaxNetNews \in Nat /\ MaxNetDrops \in Nat
  BY NetAssumption DEF NetTypes, NetAssumption
<1>2. netNews < MaxNetNews /\ netNews' = netNews + 1 /\ UNCHANGED <<netByRoute, netModel, netLabel, netForgot>>
  BY DEF NetNews
<1>3. netNews' \in 0..MaxNetNews
  BY <1>1, <1>2
<1>4. netWants' = netWants
  BY <1>2 DEF netModel
<1>5. CASE netWire' = netWire \o msgs /\ UNCHANGED <<netDrops, netOverrun, netLostRemoval>>
  <2>1. netWire' \in Seq(NetMessages) /\ ToSet(netWire') = ToSet(netWire) \cup ToSet(msgs)
    BY <1>1, <1>5, ToSetOfConcat
  <2>2. netDrops' \in 0..MaxNetDrops /\ netOverrun' \in BOOLEAN /\ netLostRemoval' \in BOOLEAN
    BY <1>5 DEF NetTypes
  <2>3. netLostRemoval' = netLostRemoval /\ \A k : AskedFor(k) => AskedFor(k)'
    BY <1>4, <1>5 DEF AskedFor
  <2>4. \A m : (Coming(m) <=> m \in ToSet(netWire)) /\ (Coming(m)' <=> m \in ToSet(netWire'))
    BY DEF Coming
  <2> QED  BY <1>2, <1>3, <1>5, <2>1, <2>2, <2>3, <2>4
<1>6. CASE /\ netDrops < MaxNetDrops /\ netDrops' = netDrops + 1
           /\ netOverrun' = TRUE
           /\ netLostRemoval' = (netLostRemoval \/ removes)
           /\ UNCHANGED netWire
  <2>1. netDrops' \in 0..MaxNetDrops
    BY <1>1, <1>6
  <2>2. \A m : Coming(m)' <=> Coming(m)
    BY <1>6 DEF Coming
  <2>3. NewsDropped(removes) /\ netLostRemoval' \in BOOLEAN /\ (netLostRemoval => netLostRemoval')
    BY <1>6 DEF NewsDropped, NetTypes
  <2>4. \A k : AskedFor(k)'
    BY <1>6 DEF AskedFor
  <2> QED  BY <1>1, <1>2, <1>3, <1>6, <2>1, <2>2, <2>3, <2>4
<1> QED  BY <1>5, <1>6 DEF NetNews

LEMMA NewsFollow ==
  ASSUME NetTypes, NEW msgs \in Seq(NetMessages), NEW removes \in BOOLEAN, NetNews(msgs, removes),
         NEW before, NEW after, \A m \in ToSet(msgs) : m \notin before,
         \/ Follows(netWire, before, after)
         \/ ~NewsDropped(removes) /\ \E m \in ToSet(msgs) : m \in after
  PROVE  Follows(netWire', before, after)
<1>1. netWire \in Seq(NetMessages)
  BY DEF NetTypes
<1>2. CASE netWire' = netWire \o msgs
  BY <1>1, <1>2, FollowsConcat
<1>3. CASE netWire' # netWire \o msgs
  <2>1. NewsDropped(removes)
    BY <1>3, NewsTold
  <2> QED  BY <2>1 DEF NewsDropped
<1> QED  BY <1>2, <1>3

\* The type invariant, but for what the kernel changes.
LEMMA NewsTypes ==
  ASSUME NetTypes, NEW msgs \in Seq(NetMessages), NEW removes \in BOOLEAN, NetNews(msgs, removes), rfkillOn' \in BOOLEAN,
         linkState' \in [Link -> LinkStates], linkAddrs' \in [Link -> SUBSET Addr], linkRoutes' \in [Link -> SUBSET Metric],
         ~netByRoute => \A l \in Link, p \in Metric, add \in BOOLEAN : RouteMsg(l, p, add) \notin ToSet(msgs)
  PROVE  NetTypes'
<1>1. /\ netWire' \in Seq(NetMessages) /\ netNews' \in 0..MaxNetNews /\ netDrops' \in 0..MaxNetDrops
      /\ netOverrun' \in BOOLEAN /\ netLostRemoval' \in BOOLEAN
      /\ UNCHANGED <<netByRoute, netIf, netWants, netDump, netWake, netDp, netDue, netLabel, netForgot>>
      /\ \A m : Coming(m)' => Coming(m) \/ m \in ToSet(msgs)
  BY NewsTold DEF netModel
<1>2. ~netByRoute' => /\ "route" \notin netWants'
                      /\ \A l \in Link, p \in Metric, add \in BOOLEAN : ~Coming(RouteMsg(l, p, add))'
  BY <1>1 DEF NetTypes
<1> QED  BY <1>1, <1>2 DEF NetTypes

\* The label says what the module knows, as long as that does not change.
LEMMA NewsLabelled ==
  ASSUME IfaceLabelled, UNCHANGED <<netIf, netDp, netWake, netDue, netLabel, rfkillOn>>
  PROVE  IfaceLabelled'
BY DEF IfaceLabelled, GetNetworkState

\* What is to be shown of an interface k with the address a, and which one is, after a step.
LEMMA KnownNext ==
  ASSUME NEW k, NEW a, netIf'.link = k, netIf'.addr = a,
         a # NoAddr => a \in linkAddrs'[k] \/ Coming(AddrMsg(k, a, FALSE))',
         a = NoAddr /\ netForgot' = {} => \A b \in linkAddrs'[k] : AskedFor("addr")' \/ Coming(AddrMsg(k, b, TRUE))',
         netIf'.carrier /\ linkState'[k] # "carrier" => NoCarrierComing(k)',
         ~netIf'.carrier /\ linkState'[k] = "carrier" => AskedFor("link")' \/ Coming(LinkMsg(k, "carrier"))',
         netIf'.carrier /\ k \in Wireless => netIf'.essid \/ netWake' \/ NoCarrierComing(k)'
  PROVE  IfaceKnown'
<1>1. /\ \A m : Coming(m)' <=> m \in ToSet(netWire')
      /\ NoCarrierComing(k)' <=> \E s \in LinkStates \ {"carrier"} : Coming(LinkMsg(k, s))'
  BY DEF Coming, NoCarrierComing
<1> QED  BY <1>1 DEF IfaceKnown, Coming, NoCarrierComing

LEMMA ChosenNext ==
  ASSUME NEW k, NEW p, netIf'.link = k, netIf'.metric = p,
         ~netByRoute' /\ k # NoLink => linkState'[k] # "gone" \/ Coming(LinkMsg(k, "gone"))',
         ~netByRoute' /\ k = NoLink /\ netForgot' = {} =>
           \A l \in MatchingLinks : linkState'[l] # "gone" =>
             AskedFor("link")' \/ \E s \in LinkStates \ {"gone"} : Coming(LinkMsg(l, s))',
         netByRoute' /\ k # NoLink => p \in linkRoutes'[k] \/ RouteEndComing(k, p)',
         netByRoute' =>
           \A l \in Link : \A q \in linkRoutes'[l] :
             (k # NoLink /\ p <= q) \/ AskedFor("route")' \/ Coming(RouteMsg(l, q, TRUE))'
  PROVE  IfaceChosen'
BY DEF IfaceChosen, Coming, RouteEndComing

\* A link that changes says so last, after the addresses that go with it.
LEMMA LinkChangesKeeps ==
  ASSUME NetInv, NEW l \in Link, NEW s \in LinkStates, LinkChanges(l, s)
  PROVE  NetInv'
<1> DEFINE gone == {AddrMsg(l, a, FALSE) : a \in linkAddrs[l]}
           msgs == (IF s = "gone" THEN SetToSeq(gone) ELSE <<>>) \o <<LinkMsg(l, s)>>
           removes == s # "carrier"
<1>0. NetTypes /\ IfaceLabelled /\ (~netLostRemoval => WireTells /\ IfaceKnown /\ IfaceChosen)
  BY DEF NetInv
<1>1. /\ linkState \in [Link -> LinkStates] /\ linkAddrs \in [Link -> SUBSET Addr]
      /\ linkRoutes \in [Link -> SUBSET Metric] /\ rfkillOn \in BOOLEAN
  BY <1>0 DEF NetTypes
<1>2. /\ s # linkState[l] /\ linkState' = [linkState EXCEPT ![l] = s]
      /\ linkRoutes' = IF s \in {"gone", "down"} THEN [linkRoutes EXCEPT ![l] = {}] ELSE linkRoutes
      /\ linkAddrs' = IF s = "gone" THEN [linkAddrs EXCEPT ![l] = {}] ELSE linkAddrs
      /\ NetNews(msgs, removes) /\ rfkillOn' = rfkillOn
  BY DEF LinkChanges
<1>3. \A m : m \in gone <=> \E a \in linkAddrs[l] : m = AddrMsg(l, a, FALSE)
  OBVIOUS
<1>4. gone \subseteq NetMessages
  <2>1. \A a \in linkAddrs[l] : AddrMsg(l, a, FALSE) \in NetMessages
    BY <1>1, MessagesThere
  <2> HIDE DEF gone
  <2> QED  BY <1>3, <2>1
<1> HIDE DEF gone
<1>5. IsFiniteSet(gone)
  BY <1>4, MessagesFinite, FS_Subset
<1>6. SetToSeq(gone) \in Seq(NetMessages) /\ ToSet(SetToSeq(gone)) = gone
  BY <1>4, <1>5, SetToSeqElements
<1>7. msgs \in Seq(NetMessages) /\ \A m : m \in ToSet(msgs) <=> m = LinkMsg(l, s) \/ (s = "gone" /\ m \in gone)
  <2> DEFINE before == IF s = "gone" THEN SetToSeq(gone) ELSE <<>>
             last == <<LinkMsg(l, s)>>
  <2>1. before \in Seq(NetMessages) /\ \A m : m \in ToSet(before) <=> s = "gone" /\ m \in gone
    <3>1. CASE s = "gone"
      BY <1>6, <3>1
    <3>2. CASE s # "gone"
      BY <3>2 DEF ToSet
    <3> QED  BY <3>1, <3>2
  <2>2. last \in Seq(NetMessages) /\ ToSet(last) = {LinkMsg(l, s)}
    BY MessagesThere DEF ToSet
  <2> HIDE DEF before, last
  <2>3. before \o last \in Seq(NetMessages) /\ ToSet(before \o last) = ToSet(before) \cup ToSet(last)
    BY <2>1, <2>2, ToSetOfConcat
  <2> QED  BY <2>1, <2>2, <2>3 DEF before, last
<1> HIDE DEF msgs
<1>8. removes \in BOOLEAN
  OBVIOUS
<1> HIDE DEF removes
<1>9. /\ netWire' \in Seq(NetMessages)
      /\ \A m : Coming(m) => Coming(m)'
      /\ NewsDropped(removes) \/ \A m \in ToSet(msgs) : Coming(m)'
      /\ \A k : AskedFor(k) => AskedFor(k)'
      /\ netLostRemoval => netLostRemoval'
      /\ UNCHANGED <<netByRoute, netIf, netWants, netDump, netWake, netDp, netDue, netLabel, netForgot>>
  BY <1>0, <1>2, <1>7, <1>8, NewsTold DEF netModel
<1>10. /\ linkState' \in [Link -> LinkStates] /\ linkAddrs' \in [Link -> SUBSET Addr]
       /\ linkRoutes' \in [Link -> SUBSET Metric]
  BY <1>1, <1>2
<1>11. /\ linkState'[l] = s /\ \A k \in Link \ {l} : linkState'[k] = linkState[k]
       /\ \A k \in Link : linkAddrs'[k] \subseteq linkAddrs[k] /\ linkRoutes'[k] \subseteq linkRoutes[k]
       /\ \A k \in Link : linkAddrs'[k] # linkAddrs[k] => k = l /\ s = "gone"
       /\ \A k \in Link : linkRoutes'[k] # linkRoutes[k] => k = l /\ s \in {"gone", "down"}
  BY <1>1, <1>2
<1>12. ASSUME NEW k \in Link, NEW a \in Addr PROVE AddrMsg(k, a, TRUE) \notin ToSet(msgs)
  BY <1>3, <1>7 DEF AddrMsg, LinkMsg
<1>13. ASSUME NEW k \in Link, NEW p \in Metric, NEW add \in BOOLEAN PROVE RouteMsg(k, p, add) \notin ToSet(msgs)
  BY <1>3, <1>7 DEF AddrMsg, LinkMsg, RouteMsg
<1>14. ASSUME NEW k \in Link, NEW t \in LinkStates PROVE LinkMsg(k, t) \in ToSet(msgs) <=> k = l /\ t = s
  BY <1>3, <1>7 DEF AddrMsg, LinkMsg
<1>15. NetTypes'
  BY <1>0, <1>1, <1>2, <1>7, <1>8, <1>10, <1>13, NewsTypes
<1>16. IfaceLabelled'
  BY <1>0, <1>2, <1>9, NewsLabelled
<1>17. SUFFICES ASSUME ~netLostRemoval' PROVE WireTells' /\ IfaceKnown' /\ IfaceChosen'
  BY <1>15, <1>16 DEF NetInv
<1>18. WireTells /\ IfaceKnown /\ IfaceChosen
  BY <1>0, <1>9, <1>17
<1>19. NewsDropped(removes) => s = "carrier" /\ \A k : AskedFor(k)'
  BY <1>17 DEF NewsDropped, removes, AskedFor
<1>20. s # "carrier" => ~NewsDropped(removes)
  BY <1>19
<1>21. WireTells'
  <2>1. ASSUME NEW k \in Link, NEW a \in Addr \ linkAddrs'[k]
        PROVE  Follows(netWire', {AddrMsg(k, a, TRUE)}, {AddrMsg(k, a, FALSE)})
    <3>1. CASE a \notin linkAddrs[k]
      <4>1. Follows(netWire, {AddrMsg(k, a, TRUE)}, {AddrMsg(k, a, FALSE)})
        BY <1>18, <3>1 DEF WireTells
      <4>2. \A m \in ToSet(msgs) : m \notin {AddrMsg(k, a, TRUE)}
        BY <1>12
      <4> QED  BY <1>0, <1>2, <1>7, <1>8, <4>1, <4>2, NewsFollow
    <3>2. CASE a \in linkAddrs[k]
      <4>1. k = l /\ s = "gone"
        BY <1>11, <2>1, <3>2
      <4>2. AddrMsg(k, a, FALSE) \in ToSet(msgs)
        BY <1>3, <1>7, <3>2, <4>1
      <4>3. \A m \in ToSet(msgs) : m \notin {AddrMsg(k, a, TRUE)}
        BY <1>12
      <4>4. ~NewsDropped(removes)
        BY <1>20, <4>1
      <4> QED  BY <1>0, <1>2, <1>7, <1>8, <4>2, <4>3, <4>4, NewsFollow
    <3> QED  BY <3>1, <3>2
  <2>2. ASSUME NEW k \in Link, NEW p \in Metric \ linkRoutes'[k]
        PROVE  Follows(netWire', {RouteMsg(k, p, TRUE)}, RouteEnds(k, p))
    <3>1. \A m \in ToSet(msgs) : m \notin {RouteMsg(k, p, TRUE)}
      BY <1>13
    <3>2. CASE p \notin linkRoutes[k]
      <4>1. Follows(netWire, {RouteMsg(k, p, TRUE)}, RouteEnds(k, p))
        BY <1>18, <3>2 DEF WireTells
      <4> QED  BY <1>0, <1>2, <1>7, <1>8, <3>1, <4>1, NewsFollow
    <3>3. CASE p \in linkRoutes[k]
      <4>1. k = l /\ s \in {"gone", "down"}
        BY <1>11, <2>2, <3>3
      <4>2. LinkMsg(l, s) \in ToSet(msgs) /\ LinkMsg(l, s) \in RouteEnds(k, p)
        BY <1>7, <4>1 DEF RouteEnds, Says
      <4>3. ~NewsDropped(removes)
        BY <1>20, <4>1
      <4> QED  BY <1>0, <1>2, <1>7, <1>8, <3>1, <4>2, <4>3, NewsFollow
    <3> QED  BY <3>2, <3>3
  <2>3. ASSUME NEW k \in Link, NEW S \in SUBSET LinkStates,
               linkState'[k] \notin S,
               \/ k # l /\ Follows(netWire, Says(k, S), Says(k, LinkStates \ S))
               \/ k = l /\ ~NewsDropped(removes)
               \/ Follows(netWire, Says(k, S), Says(k, LinkStates \ S))
        PROVE  Follows(netWire', Says(k, S), Says(k, LinkStates \ S))
    <3>1. \A m \in ToSet(msgs) : m \notin Says(k, S)
      BY <1>11, <1>14, <2>3 DEF Says
    <3>2. CASE Follows(netWire, Says(k, S), Says(k, LinkStates \ S))
      BY <1>0, <1>2, <1>7, <1>8, <3>1, <3>2, NewsFollow
    <3>3. CASE k = l /\ ~NewsDropped(removes)
      <4>1. LinkMsg(l, s) \in ToSet(msgs) /\ LinkMsg(l, s) \in Says(k, LinkStates \ S)
        BY <1>7, <1>11, <2>3, <3>3 DEF Says
      <4> QED  BY <1>0, <1>2, <1>7, <1>8, <3>1, <3>3, <4>1, NewsFollow
    <3> QED  BY <2>3, <3>2, <3>3
  <2>4. /\ LinkStates \ (LinkStates \ {"gone"}) = {"gone"}
        /\ LinkStates \ (LinkStates \ {"carrier"}) = {"carrier"}
    BY DEF LinkStates
  <2>5. ASSUME NEW k \in Link, linkState'[k] = "gone"
        PROVE  Follows(netWire', Says(k, LinkStates \ {"gone"}), Says(k, {"gone"}))
    <3>1. CASE k = l
      BY <1>11, <1>20, <2>3, <2>4, <2>5, <3>1
    <3>2. CASE k # l
      <4>1. Follows(netWire, Says(k, LinkStates \ {"gone"}), Says(k, {"gone"}))
        BY <1>11, <1>18, <2>5, <3>2 DEF WireTells
      <4> QED  BY <2>3, <2>4, <2>5, <3>2, <4>1
    <3> QED  BY <3>1, <3>2
  <2>6. ASSUME NEW k \in Link, linkState'[k] # "carrier"
        PROVE  Follows(netWire', Says(k, {"carrier"}), Says(k, LinkStates \ {"carrier"}))
    <3>0. {"carrier"} \in SUBSET LinkStates
      BY DEF LinkStates
    <3>1. CASE k = l
      BY <1>11, <1>20, <2>3, <2>6, <3>0, <3>1
    <3>2. CASE k # l
      <4>1. Follows(netWire, Says(k, {"carrier"}), Says(k, LinkStates \ {"carrier"}))
        BY <1>11, <1>18, <2>6, <3>2 DEF WireTells
      <4> QED  BY <2>3, <2>6, <3>0, <3>2, <4>1
    <3> QED  BY <3>1, <3>2
  <2>7. ASSUME NEW k \in Link, linkState'[k] = "carrier", ~AskedFor("link")'
        PROVE  Follows(netWire', Says(k, LinkStates \ {"carrier"}), Says(k, {"carrier"}))
    <3>1. ~NewsDropped(removes)
      BY <1>19, <2>7
    <3>2. CASE k = l
      BY <2>3, <2>4, <2>7, <3>1, <3>2
    <3>3. CASE k # l
      <4>1. Follows(netWire, Says(k, LinkStates \ {"carrier"}), Says(k, {"carrier"}))
        BY <1>9, <1>11, <1>18, <2>7, <3>3 DEF WireTells
      <4> QED  BY <2>3, <2>4, <2>7, <3>3, <4>1
    <3> QED  BY <3>2, <3>3
  <2> QED  BY <2>1, <2>2, <2>5, <2>6, <2>7 DEF WireTells
<1>22. NewsDropped(removes) \/ Coming(LinkMsg(l, s))'
  BY <1>7, <1>9
<1> PICK i : i = netIf
  OBVIOUS
<1>23. /\ netIf = i /\ netIf' = i /\ i.link \in Link \cup {NoLink} /\ i.addr \in Addr \cup {NoAddr}
       /\ UNCHANGED <<netByRoute, netForgot, netWake>>
  BY <1>0, <1>9 DEF NetTypes
<1>24. \A k \in Link : NoCarrierComing(k) => NoCarrierComing(k)'
  BY <1>9 DEF NoCarrierComing
<1>25. CASE i.link = NoLink
  <2>1. IfaceKnown'
    BY <1>23, <1>25 DEF IfaceKnown
  <2>2. ASSUME ~netByRoute, netForgot = {}, NEW k \in MatchingLinks, linkState'[k] # "gone"
        PROVE  AskedFor("link")' \/ \E t \in LinkStates \ {"gone"} : Coming(LinkMsg(k, t))'
    <3>1. k \in Link
      BY NetAssumption DEF NetAssumption
    <3>2. CASE k = l
      BY <1>11, <1>19, <1>22, <2>2, <3>2
    <3>3. CASE k # l
      <4>1. AskedFor("link") \/ \E t \in LinkStates \ {"gone"} : Coming(LinkMsg(k, t))
        BY <1>11, <1>18, <1>23, <1>25, <2>2, <3>1, <3>3 DEF IfaceChosen
      <4> QED  BY <1>9, <4>1
    <3> QED  BY <3>2, <3>3
  <2>3. ASSUME netByRoute, NEW k \in Link, NEW p \in linkRoutes'[k]
        PROVE  AskedFor("route")' \/ Coming(RouteMsg(k, p, TRUE))'
    BY <1>9, <1>11, <1>18, <1>23, <1>25, <2>3 DEF IfaceChosen
  <2>4. IfaceChosen'
    BY <1>23, <1>25, <2>2, <2>3, ChosenNext
  <2> QED  BY <1>21, <2>1, <2>4
<1>26. CASE i.link # NoLink
  <2> PICK k : k = i.link
    OBVIOUS
  <2>1. k \in Link /\ k = netIf.link /\ k # NoLink
    BY <1>23, <1>26
  <2>2. /\ i.addr # NoAddr => i.addr \in linkAddrs[k] \/ Coming(AddrMsg(k, i.addr, FALSE))
        /\ i.addr = NoAddr /\ netForgot = {} =>
             \A a \in linkAddrs[k] : AskedFor("addr") \/ Coming(AddrMsg(k, a, TRUE))
        /\ i.carrier /\ linkState[k] # "carrier" => NoCarrierComing(k)
        /\ ~i.carrier /\ linkState[k] = "carrier" => AskedFor("link") \/ Coming(LinkMsg(k, "carrier"))
        /\ i.carrier /\ k \in Wireless => i.essid \/ netWake \/ NoCarrierComing(k)
    BY <1>18, <1>23, <2>1 DEF IfaceKnown
  <2>3. i.addr # NoAddr => i.addr \in linkAddrs'[k] \/ Coming(AddrMsg(k, i.addr, FALSE))'
    <3> SUFFICES ASSUME i.addr # NoAddr, i.addr \in linkAddrs[k], i.addr \notin linkAddrs'[k]
                 PROVE Coming(AddrMsg(k, i.addr, FALSE))'
      BY <1>9, <2>2
    <3>1. k = l /\ s = "gone"
      BY <1>11, <2>1
    <3>2. AddrMsg(k, i.addr, FALSE) \in ToSet(msgs)
      BY <1>3, <1>7, <3>1
    <3> QED  BY <1>9, <1>20, <3>1, <3>2
  <2>4. i.addr = NoAddr /\ netForgot = {} =>
          \A a \in linkAddrs'[k] : AskedFor("addr")' \/ Coming(AddrMsg(k, a, TRUE))'
    BY <1>9, <1>11, <2>1, <2>2
  <2>5. i.carrier /\ linkState'[k] # "carrier" => NoCarrierComing(k)'
    <3>1. CASE k = l
      BY <1>11, <1>20, <1>22, <3>1 DEF NoCarrierComing
    <3>2. CASE k # l
      BY <1>11, <1>24, <2>1, <2>2, <3>2
    <3> QED  BY <3>1, <3>2
  <2>6. ~i.carrier /\ linkState'[k] = "carrier" => AskedFor("link")' \/ Coming(LinkMsg(k, "carrier"))'
    <3>1. CASE k = l
      BY <1>11, <1>19, <1>22, <3>1
    <3>2. CASE k # l
      BY <1>9, <1>11, <2>1, <2>2, <3>2
    <3> QED  BY <3>1, <3>2
  <2>7. i.carrier /\ k \in Wireless => i.essid \/ netWake' \/ NoCarrierComing(k)'
    BY <1>23, <1>24, <2>1, <2>2
  <2>8. IfaceKnown'
    BY <1>23, <2>1, <2>3, <2>4, <2>5, <2>6, <2>7, KnownNext
  <2>9. ~netByRoute => linkState'[k] # "gone" \/ Coming(LinkMsg(k, "gone"))'
    <3> SUFFICES ASSUME ~netByRoute, linkState'[k] = "gone" PROVE Coming(LinkMsg(k, "gone"))'
      OBVIOUS
    <3>1. CASE k = l
      BY <1>11, <1>20, <1>22, <3>1
    <3>2. CASE k # l
      BY <1>9, <1>11, <1>18, <2>1, <3>2 DEF IfaceChosen
    <3> QED  BY <3>1, <3>2
  <2>10. netByRoute => i.metric \in linkRoutes'[k] \/ RouteEndComing(k, i.metric)'
    <3> SUFFICES ASSUME netByRoute, i.metric \notin linkRoutes'[k] PROVE RouteEndComing(k, i.metric)'
      OBVIOUS
    <3>1. CASE i.metric \in linkRoutes[k]
      <4>1. k = l /\ s \in {"gone", "down"}
        BY <1>11, <2>1, <3>1
      <4> QED  BY <1>20, <1>22, <4>1 DEF RouteEndComing
    <3>2. CASE i.metric \notin linkRoutes[k]
      <4>1. RouteEndComing(k, i.metric)
        BY <1>18, <1>23, <2>1, <3>2 DEF IfaceChosen
      <4> QED  BY <1>9, <4>1 DEF RouteEndComing
    <3> QED  BY <3>1, <3>2
  <2>11. ASSUME netByRoute, NEW j \in Link, NEW p \in linkRoutes'[j]
         PROVE  i.metric <= p \/ AskedFor("route")' \/ Coming(RouteMsg(j, p, TRUE))'
    <3>1. p \in linkRoutes[j]
      BY <1>11, <2>11
    <3>2. i.metric <= p \/ AskedFor("route") \/ Coming(RouteMsg(j, p, TRUE))
      BY <1>18, <1>23, <2>11, <3>1 DEF IfaceChosen
    <3> QED  BY <1>9, <3>2
  <2>12. IfaceChosen'
    BY <1>23, <2>1, <2>9, <2>10, <2>11, ChosenNext
  <2> QED  BY <1>21, <2>8, <2>12
<1> QED  BY <1>25, <1>26

\* What one message, m, tells of the addresses and the default routes of a step: of those that
\* come (add) or of those that go.
TellsAll(m, add) ==
  \A l \in Link :
    /\ \A a \in Addr \ linkAddrs'[l] :
         /\ m # AddrMsg(l, a, TRUE)
         /\ a \in linkAddrs[l] => ~add /\ m = AddrMsg(l, a, FALSE)
    /\ \A p \in Metric \ linkRoutes'[l] :
         /\ m # RouteMsg(l, p, TRUE)
         /\ p \in linkRoutes[l] => ~add /\ m = RouteMsg(l, p, FALSE)
    /\ \A a \in linkAddrs'[l] \ linkAddrs[l] : m = AddrMsg(l, a, TRUE)
    /\ \A p \in linkRoutes'[l] \ linkRoutes[l] : m = RouteMsg(l, p, TRUE)

\* An address or a default route that comes or goes is told by one message, m.
LEMMA OneNews ==
  ASSUME NetInv, NEW m \in NetMessages, NEW add \in BOOLEAN, NetNews(<<m>>, ~add),
         \A k \in Link, t \in LinkStates : m # LinkMsg(k, t),
         UNCHANGED <<linkState, rfkillOn>>,
         ~netByRoute => \A l \in Link, p \in Metric, x \in BOOLEAN : m # RouteMsg(l, p, x),
         linkAddrs' \in [Link -> SUBSET Addr], linkRoutes' \in [Link -> SUBSET Metric],
         ~netLostRemoval' => TellsAll(m, add)
  PROVE  NetInv'
<1> PICK msgs : msgs = <<m>>
  OBVIOUS
<1>0. NetTypes /\ IfaceLabelled /\ (~netLostRemoval => WireTells /\ IfaceKnown /\ IfaceChosen)
  BY DEF NetInv
<1>1. /\ linkState \in [Link -> LinkStates] /\ linkAddrs \in [Link -> SUBSET Addr]
      /\ linkRoutes \in [Link -> SUBSET Metric] /\ rfkillOn \in BOOLEAN
  BY <1>0 DEF NetTypes
<1>2. msgs \in Seq(NetMessages) /\ ToSet(msgs) = {m}
  BY DEF ToSet
<1> PICK removes : removes = ~add
  OBVIOUS
<1>3. NetNews(msgs, removes) /\ removes \in BOOLEAN
  OBVIOUS
<1>4. /\ netWire' \in Seq(NetMessages)
      /\ \A n : Coming(n) => Coming(n)'
      /\ NewsDropped(removes) \/ Coming(m)'
      /\ \A k : AskedFor(k) => AskedFor(k)'
      /\ netLostRemoval => netLostRemoval'
      /\ UNCHANGED <<netByRoute, netIf, netWants, netDump, netWake, netDp, netDue, netLabel, netForgot>>
  BY <1>0, <1>2, <1>3, NewsTold DEF netModel
<1>5. NetTypes'
  BY <1>0, <1>1, <1>2, <1>3, NewsTypes
<1>6. IfaceLabelled'
  BY <1>0, <1>4, NewsLabelled
<1>7. SUFFICES ASSUME ~netLostRemoval',
                    \A l \in Link :
                      /\ \A a \in Addr \ linkAddrs'[l] :
                           /\ m # AddrMsg(l, a, TRUE)
                           /\ a \in linkAddrs[l] => ~add /\ m = AddrMsg(l, a, FALSE)
                      /\ \A p \in Metric \ linkRoutes'[l] :
                           /\ m # RouteMsg(l, p, TRUE)
                           /\ p \in linkRoutes[l] => ~add /\ m = RouteMsg(l, p, FALSE)
                      /\ \A a \in linkAddrs'[l] \ linkAddrs[l] : m = AddrMsg(l, a, TRUE)
                      /\ \A p \in linkRoutes'[l] \ linkRoutes[l] : m = RouteMsg(l, p, TRUE)
                  
                  \* An address or a default route that comes or goes is told by one message, m.
           PROVE  WireTells' /\ IfaceKnown' /\ IfaceChosen'
  BY <1>5, <1>6 DEF NetInv, TellsAll
<1>8. WireTells /\ IfaceKnown /\ IfaceChosen
  BY <1>0, <1>4, <1>7
<1>9. NewsDropped(removes) => add /\ \A k : AskedFor(k)'
  BY <1>7 DEF NewsDropped, AskedFor
<1>10. ~add => Coming(m)'
  BY <1>4, <1>9
<1>11. WireTells'
  <2>1. ASSUME NEW k \in Link, NEW a \in Addr \ linkAddrs'[k]
        PROVE  Follows(netWire', {AddrMsg(k, a, TRUE)}, {AddrMsg(k, a, FALSE)})
    <3>1. m # AddrMsg(k, a, TRUE) /\ (a \in linkAddrs[k] => ~add /\ m = AddrMsg(k, a, FALSE))
      BY <1>7, <2>1
    <3> DEFINE came == {AddrMsg(k, a, TRUE)}
               went == {AddrMsg(k, a, FALSE)}
    <3>2. \A n \in ToSet(msgs) : n \notin came
      BY <1>2, <3>1
    <3>3. Follows(netWire, came, went) \/ (~NewsDropped(removes) /\ \E n \in ToSet(msgs) : n \in went)
      <4>1. CASE a \in linkAddrs[k]
        BY <1>2, <1>9, <3>1, <4>1
      <4>2. CASE a \notin linkAddrs[k]
        BY <1>8, <4>2 DEF WireTells
      <4> QED  BY <4>1, <4>2
    <3> HIDE DEF came, went
    <3>4. Follows(netWire', came, went)
      BY <1>0, <1>2, <1>3, <3>2, <3>3, NewsFollow
    <3> QED  BY <3>4 DEF came, went
  <2>2. ASSUME NEW k \in Link, NEW p \in Metric \ linkRoutes'[k]
        PROVE  Follows(netWire', {RouteMsg(k, p, TRUE)}, RouteEnds(k, p))
    <3>1. m # RouteMsg(k, p, TRUE) /\ (p \in linkRoutes[k] => ~add /\ m = RouteMsg(k, p, FALSE))
      BY <1>7, <2>2
    <3> DEFINE came == {RouteMsg(k, p, TRUE)}
    <3>2. \A n \in ToSet(msgs) : n \notin came
      BY <1>2, <3>1
    <3>3. Follows(netWire, came, RouteEnds(k, p)) \/ (~NewsDropped(removes) /\ \E n \in ToSet(msgs) : n \in RouteEnds(k, p))
      <4>1. CASE p \in linkRoutes[k]
        BY <1>2, <1>9, <3>1, <4>1 DEF RouteEnds
      <4>2. CASE p \notin linkRoutes[k]
        BY <1>8, <4>2 DEF WireTells
      <4> QED  BY <4>1, <4>2
    <3> HIDE DEF came
    <3>4. Follows(netWire', came, RouteEnds(k, p))
      BY <1>0, <1>2, <1>3, <3>2, <3>3, NewsFollow
    <3> QED  BY <3>4 DEF came
  <2>3. ASSUME NEW k \in Link, NEW S \in SUBSET LinkStates, NEW T, Follows(netWire, Says(k, S), Says(k, T))
        PROVE  Follows(netWire', Says(k, S), Says(k, T))
    <3>1. \A n \in ToSet(msgs) : n \notin Says(k, S)
      BY <1>2 DEF Says
    <3> QED  BY <1>0, <1>2, <1>3, <2>3, <3>1, NewsFollow
  <2>4. LinkStates \ {"gone"} \in SUBSET LinkStates /\ LinkStates \ {"carrier"} \in SUBSET LinkStates
        /\ {"carrier"} \in SUBSET LinkStates
    BY DEF LinkStates
  <2>5. \A k \in Link : linkState[k] = "gone" =>
          Follows(netWire', Says(k, LinkStates \ {"gone"}), Says(k, {"gone"}))
    BY <1>8, <2>3, <2>4 DEF WireTells
  <2>6. \A k \in Link : linkState[k] # "carrier" =>
          Follows(netWire', Says(k, {"carrier"}), Says(k, LinkStates \ {"carrier"}))
    BY <1>8, <2>3, <2>4 DEF WireTells
  <2>7. \A k \in Link : linkState[k] = "carrier" =>
          AskedFor("link")' \/ Follows(netWire', Says(k, LinkStates \ {"carrier"}), Says(k, {"carrier"}))
    BY <1>4, <1>8, <2>3, <2>4 DEF WireTells
  <2> QED  BY <2>1, <2>2, <2>5, <2>6, <2>7 DEF WireTells
<1> PICK i : i = netIf
  OBVIOUS
<1>12. /\ netIf = i /\ netIf' = i /\ i.link \in Link \cup {NoLink} /\ i.addr \in Addr \cup {NoAddr}
       /\ UNCHANGED <<netByRoute, netForgot, netWake>>
  BY <1>0, <1>4 DEF NetTypes
<1>13. \A k \in Link : NoCarrierComing(k) => NoCarrierComing(k)'
  BY <1>4 DEF NoCarrierComing
<1>14. ASSUME NEW k \in Link, NEW p \in linkRoutes'[k], NEW T \in BOOLEAN, netByRoute,
              p \in linkRoutes[k] => T \/ AskedFor("route") \/ Coming(RouteMsg(k, p, TRUE))
       PROVE  T \/ AskedFor("route")' \/ Coming(RouteMsg(k, p, TRUE))'
  <2>1. CASE p \in linkRoutes[k]
    BY <1>4, <1>14, <2>1
  <2>2. CASE p \notin linkRoutes[k]
    BY <1>4, <1>7, <1>9, <1>14, <2>2
  <2> QED  BY <2>1, <2>2
<1>15. CASE i.link = NoLink
  <2>1. IfaceKnown'
    BY <1>12, <1>15 DEF IfaceKnown
  <2>2. ASSUME ~netByRoute, netForgot = {}, NEW k \in MatchingLinks, linkState[k] # "gone"
        PROVE  AskedFor("link")' \/ \E t \in LinkStates \ {"gone"} : Coming(LinkMsg(k, t))'
    <3>1. AskedFor("link") \/ \E t \in LinkStates \ {"gone"} : Coming(LinkMsg(k, t))
      BY <1>8, <1>12, <1>15, <2>2 DEF IfaceChosen
    <3> QED  BY <1>4, <3>1
  <2>3. ASSUME netByRoute, NEW k \in Link, NEW p \in linkRoutes'[k]
        PROVE  AskedFor("route")' \/ Coming(RouteMsg(k, p, TRUE))'
    <3>1. p \in linkRoutes[k] => FALSE \/ AskedFor("route") \/ Coming(RouteMsg(k, p, TRUE))
      BY <1>8, <1>12, <1>15, <2>3 DEF IfaceChosen
    <3> QED  BY <1>14, <2>3, <3>1
  <2>4. IfaceChosen'
    BY <1>12, <1>15, <2>2, <2>3, ChosenNext
  <2> QED  BY <1>11, <2>1, <2>4
<1>16. CASE i.link # NoLink
  <2> PICK k : k = i.link
    OBVIOUS
  <2>1. k \in Link /\ k = netIf.link /\ k # NoLink
    BY <1>12, <1>16
  <2>2. /\ i.addr # NoAddr => i.addr \in linkAddrs[k] \/ Coming(AddrMsg(k, i.addr, FALSE))
        /\ i.addr = NoAddr /\ netForgot = {} =>
             \A a \in linkAddrs[k] : AskedFor("addr") \/ Coming(AddrMsg(k, a, TRUE))
        /\ i.carrier /\ linkState[k] # "carrier" => NoCarrierComing(k)
        /\ ~i.carrier /\ linkState[k] = "carrier" => AskedFor("link") \/ Coming(LinkMsg(k, "carrier"))
        /\ i.carrier /\ k \in Wireless => i.essid \/ netWake \/ NoCarrierComing(k)
    BY <1>8, <1>12, <2>1 DEF IfaceKnown
  <2>3. i.addr # NoAddr => i.addr \in linkAddrs'[k] \/ Coming(AddrMsg(k, i.addr, FALSE))'
    <3> SUFFICES ASSUME i.addr # NoAddr, i.addr \in linkAddrs[k], i.addr \notin linkAddrs'[k]
                 PROVE Coming(AddrMsg(k, i.addr, FALSE))'
      BY <1>4, <2>2
    <3>1. i.addr \in Addr \ linkAddrs'[k]
      BY <1>12
    <3>2. ~add /\ m = AddrMsg(k, i.addr, FALSE)
      BY <1>7, <2>1, <3>1
    <3> QED  BY <1>10, <3>2
  <2>4. ASSUME i.addr = NoAddr, netForgot = {}, NEW a \in linkAddrs'[k]
        PROVE  AskedFor("addr")' \/ Coming(AddrMsg(k, a, TRUE))'
    <3>1. CASE a \in linkAddrs[k]
      BY <1>4, <2>2, <2>4, <3>1
    <3>2. CASE a \notin linkAddrs[k]
      BY <1>4, <1>7, <1>9, <2>1, <2>4, <3>2
    <3> QED  BY <3>1, <3>2
  <2>5. ~i.carrier /\ linkState[k] = "carrier" => AskedFor("link")' \/ Coming(LinkMsg(k, "carrier"))'
    BY <1>4, <2>2
  <2>6. /\ i.carrier /\ linkState[k] # "carrier" => NoCarrierComing(k)'
        /\ i.carrier /\ k \in Wireless => i.essid \/ netWake' \/ NoCarrierComing(k)'
    BY <1>12, <1>13, <2>1, <2>2
  <2>7. IfaceKnown'
    BY <1>12, <2>1, <2>3, <2>4, <2>5, <2>6, KnownNext
  <2>8. ~netByRoute => linkState'[k] # "gone" \/ Coming(LinkMsg(k, "gone"))'
    BY <1>4, <1>8, <2>1 DEF IfaceChosen
  <2>9. netByRoute => i.metric \in linkRoutes'[k] \/ RouteEndComing(k, i.metric)'
    <3> SUFFICES ASSUME netByRoute, i.metric \notin linkRoutes'[k] PROVE RouteEndComing(k, i.metric)'
      OBVIOUS
    <3>1. CASE i.metric \in linkRoutes[k]
      <4>1. i.metric \in Metric \ linkRoutes'[k]
        BY <1>1, <2>1, <3>1
      <4>2. ~add /\ m = RouteMsg(k, i.metric, FALSE)
        BY <1>7, <2>1, <3>1, <4>1
      <4>3. Coming(m)'
        BY <1>10, <4>2
      <4>4. Coming(RouteMsg(k, i.metric, FALSE))'
        BY <4>2, <4>3, Zenon
      <4> QED  BY <4>4 DEF RouteEndComing
    <3>2. CASE i.metric \notin linkRoutes[k]
      <4>1. RouteEndComing(k, i.metric)
        BY <1>8, <1>12, <2>1, <3>2 DEF IfaceChosen
      <4> QED  BY <1>4, <4>1 DEF RouteEndComing
    <3> QED  BY <3>1, <3>2
  <2>10. ASSUME netByRoute, NEW j \in Link, NEW p \in linkRoutes'[j]
         PROVE  i.metric <= p \/ AskedFor("route")' \/ Coming(RouteMsg(j, p, TRUE))'
    <3>1. p \in linkRoutes[j] => i.metric <= p \/ AskedFor("route") \/ Coming(RouteMsg(j, p, TRUE))
      BY <1>8, <1>12, <2>10 DEF IfaceChosen
    <3> QED  BY <1>14, <2>10, <3>1
  <2>11. IfaceChosen'
    <3> PICK p : p = i.metric
      OBVIOUS
    <3>1. netIf'.link = k /\ netIf'.metric = p /\ (netByRoute' <=> netByRoute)
      BY <1>12, <2>1
    <3>2. netByRoute' => p \in linkRoutes'[k] \/ RouteEndComing(k, p)'
      BY <2>9, <3>1
    <3>3. netByRoute' =>
            \A l \in Link : \A q \in linkRoutes'[l] :
              (k # NoLink /\ p <= q) \/ AskedFor("route")' \/ Coming(RouteMsg(l, q, TRUE))'
      BY <2>1, <2>10, <3>1
    <3>4. ~netByRoute' => linkState'[k] # "gone" \/ Coming(LinkMsg(k, "gone"))'
      BY <2>8, <3>1
    <3> QED  BY <2>1, <3>1, <3>2, <3>3, <3>4, ChosenNext
  <2> QED  BY <1>11, <2>7, <2>11
<1> QED  BY <1>15, <1>16

LEMMA AddrChangesKeeps ==
  ASSUME NetInv, NEW l \in Link, NEW a \in Addr, AddrChanges(l, a)
  PROVE  NetInv'
<1> PICK add \in BOOLEAN : add = (a \notin linkAddrs[l])
  <2>1. CASE a \in linkAddrs[l]
    BY <2>1
  <2>2. CASE a \notin linkAddrs[l]
    BY <2>2
  <2> QED  BY <2>1, <2>2
<1> DEFINE m == AddrMsg(l, a, add)
<1>1. /\ linkAddrs \in [Link -> SUBSET Addr] /\ linkRoutes \in [Link -> SUBSET Metric]
  BY DEF NetInv, NetTypes
<1>2. /\ linkAddrs' = [linkAddrs EXCEPT ![l] = IF add THEN @ \cup {a} ELSE @ \ {a}]
      /\ NetNews(<<m>>, ~add)
      /\ UNCHANGED <<linkState, linkRoutes, rfkillOn>>
  <2>1. CASE add
    <3>1. (a \notin linkAddrs[l]) = TRUE /\ add = TRUE
      BY <2>1
    <3> QED  BY <3>1 DEF AddrChanges
  <2>2. CASE ~add
    <3>1. (a \notin linkAddrs[l]) = FALSE /\ add = FALSE
      BY <2>2
    <3> QED  BY <3>1 DEF AddrChanges
  <2> QED  BY <2>1, <2>2
<1>3. m \in NetMessages
  BY MessagesThere
<1>4. /\ \A k \in Link, t \in LinkStates : m # LinkMsg(k, t)
      /\ \A k \in Link, p \in Metric, x \in BOOLEAN : m # RouteMsg(k, p, x)
      /\ m # AddrMsg(l, a, ~add)
      /\ \A k \in Link, b \in Addr, x \in BOOLEAN : m = AddrMsg(k, b, x) => k = l /\ b = a
  BY DEF AddrMsg, LinkMsg, RouteMsg
<1>5. linkAddrs' \in [Link -> SUBSET Addr] /\ linkRoutes' \in [Link -> SUBSET Metric] /\ linkRoutes' = linkRoutes
  BY <1>1, <1>2
<1>6. ASSUME NEW k \in Link
      PROVE  /\ \A b \in Addr \ linkAddrs'[k] :
                  /\ m # AddrMsg(k, b, TRUE)
                  /\ b \in linkAddrs[k] => ~add /\ m = AddrMsg(k, b, FALSE)
             /\ \A b \in linkAddrs'[k] \ linkAddrs[k] : m = AddrMsg(k, b, TRUE)
  <2>1. CASE add
    <3>1. add = TRUE
      BY <2>1
    <3>2. linkAddrs' = [linkAddrs EXCEPT ![l] = @ \cup {a}]
      BY <1>2, <2>1
    <3> QED  BY <1>1, <1>4, <3>1, <3>2
  <2>2. CASE ~add
    <3>1. add = FALSE
      BY <2>2
    <3>2. linkAddrs' = [linkAddrs EXCEPT ![l] = @ \ {a}]
      BY <1>2, <2>2
    <3>3. \A b : m # AddrMsg(k, b, TRUE)
      BY <3>1 DEF AddrMsg
    <3> QED  BY <1>1, <1>4, <3>1, <3>2, <3>3
  <2> QED  BY <2>1, <2>2
<1>7. \A k \in Link :
        /\ \A p \in Metric \ linkRoutes'[k] :
             /\ m # RouteMsg(k, p, TRUE)
             /\ p \in linkRoutes[k] => ~add /\ m = RouteMsg(k, p, FALSE)
        /\ \A p \in linkRoutes'[k] \ linkRoutes[k] : m = RouteMsg(k, p, TRUE)
  BY <1>4, <1>5
<1> HIDE DEF m
<1>8. TellsAll(m, add)
  BY <1>6, <1>7, Zenon DEF TellsAll
<1>9. UNCHANGED <<linkState, rfkillOn>>
  BY <1>2
<1>10. ~netByRoute => \A k \in Link, q \in Metric, x \in BOOLEAN : m # RouteMsg(k, q, x)
  BY <1>2, <1>4
<1> QED  BY <1>2, <1>3, <1>4, <1>5, <1>8, <1>9, <1>10, OneNews, Zenon

LEMMA RouteChangesKeeps ==
  ASSUME NetInv, NEW l \in Link, NEW p \in Metric, RouteChanges(l, p)
  PROVE  NetInv'
<1> PICK add \in BOOLEAN : add = (p \notin linkRoutes[l])
  <2>1. CASE p \in linkRoutes[l]
    BY <2>1
  <2>2. CASE p \notin linkRoutes[l]
    BY <2>2
  <2> QED  BY <2>1, <2>2
<1> DEFINE m == RouteMsg(l, p, add)
<1>1. /\ linkAddrs \in [Link -> SUBSET Addr] /\ linkRoutes \in [Link -> SUBSET Metric]
  BY DEF NetInv, NetTypes
<1>2. /\ linkRoutes' = [linkRoutes EXCEPT ![l] = IF add THEN @ \cup {p} ELSE @ \ {p}]
      /\ NetNews(<<m>>, ~add) /\ netByRoute
      /\ UNCHANGED <<linkState, linkAddrs, rfkillOn>>
  <2>1. CASE add
    <3>1. (p \notin linkRoutes[l]) = TRUE /\ add = TRUE
      BY <2>1
    <3> QED  BY <3>1 DEF RouteChanges
  <2>2. CASE ~add
    <3>1. (p \notin linkRoutes[l]) = FALSE /\ add = FALSE
      BY <2>2
    <3> QED  BY <3>1 DEF RouteChanges
  <2> QED  BY <2>1, <2>2
<1>3. m \in NetMessages
  BY MessagesThere
<1>4. /\ \A k \in Link, t \in LinkStates : m # LinkMsg(k, t)
      /\ \A k \in Link, a \in Addr, x \in BOOLEAN : m # AddrMsg(k, a, x)
      /\ \A k \in Link, q \in Metric, x \in BOOLEAN : m = RouteMsg(k, q, x) => k = l /\ q = p
  BY DEF AddrMsg, LinkMsg, RouteMsg
<1>5. linkRoutes' \in [Link -> SUBSET Metric] /\ linkAddrs' \in [Link -> SUBSET Addr] /\ linkAddrs' = linkAddrs
  BY <1>1, <1>2
<1>6. ASSUME NEW k \in Link
      PROVE  /\ \A q \in Metric \ linkRoutes'[k] :
                  /\ m # RouteMsg(k, q, TRUE)
                  /\ q \in linkRoutes[k] => ~add /\ m = RouteMsg(k, q, FALSE)
             /\ \A q \in linkRoutes'[k] \ linkRoutes[k] : m = RouteMsg(k, q, TRUE)
  <2>1. CASE add
    <3>1. add = TRUE
      BY <2>1
    <3>2. linkRoutes' = [linkRoutes EXCEPT ![l] = @ \cup {p}]
      BY <1>2, <2>1
    <3> QED  BY <1>1, <1>4, <3>1, <3>2
  <2>2. CASE ~add
    <3>1. add = FALSE
      BY <2>2
    <3>2. linkRoutes' = [linkRoutes EXCEPT ![l] = @ \ {p}]
      BY <1>2, <2>2
    <3>3. \A q : m # RouteMsg(k, q, TRUE)
      BY <3>1 DEF RouteMsg
    <3> QED  BY <1>1, <1>4, <3>1, <3>2, <3>3
  <2> QED  BY <2>1, <2>2
<1>7. \A k \in Link :
        /\ \A a \in Addr \ linkAddrs'[k] :
             /\ m # AddrMsg(k, a, TRUE)
             /\ a \in linkAddrs[k] => ~add /\ m = AddrMsg(k, a, FALSE)
        /\ \A a \in linkAddrs'[k] \ linkAddrs[k] : m = AddrMsg(k, a, TRUE)
  BY <1>4, <1>5
<1> HIDE DEF m
<1>8. TellsAll(m, add)
  BY <1>6, <1>7, Zenon DEF TellsAll
<1>9. UNCHANGED <<linkState, rfkillOn>>
  BY <1>2
<1>10. ~netByRoute => \A k \in Link, q \in Metric, x \in BOOLEAN : m # RouteMsg(k, q, x)
  BY <1>2, <1>4
<1> QED  BY <1>2, <1>3, <1>4, <1>5, <1>8, <1>9, <1>10, OneNews, Zenon

\* The radio's switch wakes the timer thread, which has an update made.
LEMMA RfkillChangesKeeps ==
  ASSUME NetInv, RfkillChanges
  PROVE  NetInv'
<1>0. NetTypes /\ IfaceLabelled /\ (~netLostRemoval => WireTells /\ IfaceKnown /\ IfaceChosen)
  BY DEF NetInv
<1>1. /\ netNews < MaxNetNews /\ netNews' = netNews + 1 /\ rfkillOn' = ~rfkillOn /\ netWake' = TRUE
      /\ linkState' = linkState /\ linkAddrs' = linkAddrs /\ linkRoutes' = linkRoutes /\ netDrops' = netDrops
      /\ netWire' = netWire /\ netOverrun' = netOverrun /\ netByRoute' = netByRoute /\ netIf' = netIf
      /\ netWants' = netWants /\ netDump' = netDump /\ netDp' = netDp /\ netDue' = netDue
      /\ netLabel' = netLabel /\ netLostRemoval' = netLostRemoval /\ netForgot' = netForgot
  BY DEF RfkillChanges
<1>2. netNews' \in 0..MaxNetNews /\ rfkillOn' \in BOOLEAN
  <2>1. netNews \in 0..MaxNetNews /\ MaxNetNews \in Nat
    BY <1>0, NetAssumption DEF NetTypes, NetAssumption
  <2> QED  BY <1>1, <2>1
<1>3. NetTypes'
  BY <1>0, <1>1, <1>2 DEF NetTypes, Coming
<1>4. IfaceLabelled'
  BY <1>1 DEF IfaceLabelled
<1>5. WireTells => WireTells'
  BY <1>1 DEF WireTells, AskedFor
<1>6. IfaceKnown => IfaceKnown'
  BY <1>1 DEF IfaceKnown, Coming, NoCarrierComing, AskedFor
<1>7. IfaceChosen => IfaceChosen'
  BY <1>1 DEF IfaceChosen, Coming, RouteEndComing, AskedFor
<1> QED  BY <1>0, <1>1, <1>3, <1>4, <1>5, <1>6, <1>7 DEF NetInv

-----------------------------------------------------------------------------
\* The module's steps.  A message is read and nothing asked for; or something is, and y was
\* said before.
LEMMA PlainRead ==
  ASSUME NetTypes, NEW kind, ReadsNet(kind), netWire' = Tail(netWire), netWants' = netWants
  PROVE  WireStep(TRUE, <<>>)
<1>1. netWire \in Seq(NetMessages) /\ netWire # <<>>
  BY DEF NetTypes, ReadsNet
<1>2. Tail(netWire) \in Seq(NetMessages)
  BY <1>1
<1>3. netWire' = Unread(TRUE) \o <<>>
  BY <1>2 DEF Unread
<1>4. <<>> \in Seq(NetMessages) /\ ToSet(<<>>) = {}
  BY DEF ToSet
<1>5. UNCHANGED <<netKernel, netByRoute, netLostRemoval, netOverrun>>
  BY DEF ReadsNet
<1> QED  BY <1>1, <1>3, <1>4, <1>5 DEF WireStep, AskedFor

\* A dump was asked for each of wants: it is pending, or what it says is on the wire.
Served(wants, read, x) ==
  /\ WireStep(read, x)
  /\ \A k \in wants : k \in netWants' \/ \A m \in Dumped(k) : Coming(m)'
  /\ netWants' \subseteq wants /\ netDump' \in BOOLEAN /\ (~netDump' => netWants' = {})
  /\ ~netByRoute => \A l \in Link, p \in Metric, add \in BOOLEAN : RouteMsg(l, p, add) \notin ToSet(x)

LEMMA AskingStep ==
  ASSUME NetTypes, NEW read \in BOOLEAN, read => netWire # <<>>,
         NEW wants \in SUBSET NetKinds, netWants \subseteq wants, "route" \in wants => netByRoute,
         NEW busy \in BOOLEAN, NEW y \in Seq(NetMessages), ToSet(y) \subseteq NetTruths,
         \A l \in Link, p \in Metric, add \in BOOLEAN : RouteMsg(l, p, add) \notin ToSet(y),
         AskForStateDump(wants, busy, Unread(read) \o y),
         UNCHANGED <<netKernel, netByRoute, netLostRemoval>>,
         netOverrun' = netOverrun \/ AllDumps \subseteq wants
  PROVE  \E x : Served(wants, read, x) /\ \A m \in ToSet(y) : Coming(m)'
<1> DEFINE u == Unread(read)
<1>1. netWire \in Seq(NetMessages)
  BY DEF NetTypes
<1>2. u \in Seq(NetMessages)
  <2>1. CASE read
    BY <1>1, <2>1 DEF Unread
  <2>2. CASE ~read
    BY <1>1, <2>2 DEF Unread
  <2> QED  BY <2>1, <2>2
<1> HIDE DEF u
<1>3. u \o y \in Seq(NetMessages) /\ AskForStateDump(wants, busy, u \o y)
  BY <1>2, ToSetOfConcat DEF u
<1> PICK w \in Seq(NetMessages) : w = u \o y
  BY <1>3
<1>14. AskForStateDump(wants, busy, w)
  BY <1>3
<1>4. /\ netWants' \subseteq wants /\ netDump' \in BOOLEAN /\ (~netDump' => netWants' = {})
      /\ \E x \in Seq(NetMessages) :
              /\ netWire' = w \o x /\ ToSet(x) \subseteq NetTruths
              /\ \A k \in wants : k \in netWants' \/ Dumped(k) \subseteq ToSet(x)
              /\ "route" \notin wants =>
                   \A l \in Link, p \in Metric, add \in BOOLEAN : RouteMsg(l, p, add) \notin ToSet(x)
  BY <1>14, Asks DEF AskForStateDump
<1>5. PICK x \in Seq(NetMessages) :
              /\ netWire' = w \o x /\ ToSet(x) \subseteq NetTruths
              /\ \A k \in wants : k \in netWants' \/ Dumped(k) \subseteq ToSet(x)
              /\ "route" \notin wants =>
                   \A l \in Link, p \in Metric, add \in BOOLEAN : RouteMsg(l, p, add) \notin ToSet(x)
  BY <1>4
<1>6. PICK z : z = y \o x
  OBVIOUS
<1>7. z \in Seq(NetMessages) /\ ToSet(z) = ToSet(y) \cup ToSet(x)
  BY <1>6, ToSetOfConcat
<1>8. netWire' = u \o z
  BY <1>2, <1>5, <1>6
<1>9. \A k \in AllDumps : AskedFor(k) => AskedFor(k)' \/ Dumped(k) \subseteq ToSet(z)
  BY <1>5, <1>7 DEF AskedFor
<1>10. WireStep(read, z)
  BY <1>5, <1>7, <1>8, <1>9 DEF WireStep, u
<1>11. \A m \in ToSet(z) : Coming(m)'
  BY <1>10, StepOfWire
<1>12. ~netByRoute => \A l \in Link, p \in Metric, add \in BOOLEAN : RouteMsg(l, p, add) \notin ToSet(z)
  BY <1>5, <1>7
<1>13. Served(wants, read, z)
  BY <1>4, <1>5, <1>7, <1>10, <1>11, <1>12 DEF Served
<1>15. \A m \in ToSet(y) : Coming(m)'
  BY <1>7, <1>11
<1> QED  BY <1>13, <1>15

IfaceFits(i) ==
  /\ i \in [link : Link \cup {NoLink}, addr : Addr \cup {NoAddr}, carrier : BOOLEAN, essid : BOOLEAN, metric : Nat]
  /\ i.link = NoLink => i.addr = NoAddr /\ ~i.carrier /\ ~i.essid
  /\ i.essid => i.link \in Wireless
  /\ ~netByRoute /\ i.link # NoLink => i.link \in MatchingLinks

LEMMA StepTypes ==
  ASSUME NetTypes, NEW read, NEW x, WireStep(read, x), NEW i, IfaceFits(i), netIf' = i,
         netWants' \subseteq NetKinds, netDump' \in BOOLEAN, ~netDump' => netWants' = {},
         ~netByRoute => /\ "route" \notin netWants'
                        /\ \A l \in Link, p \in Metric, add \in BOOLEAN : RouteMsg(l, p, add) \notin ToSet(x),
         netOverrun' \in BOOLEAN, netWake' \in BOOLEAN, netDp' \in BOOLEAN, netDue' \in BOOLEAN,
         netForgot' \subseteq {"address", "link", "unasked"}
  PROVE  NetTypes'
<1>1. /\ netWire' \in Seq(NetMessages)
      /\ \A m : Coming(m)' => Coming(m) \/ m \in ToSet(x)
  BY StepOfWire
<1>2. /\ linkState' = linkState /\ linkAddrs' = linkAddrs /\ linkRoutes' = linkRoutes /\ rfkillOn' = rfkillOn
      /\ netNews' = netNews /\ netDrops' = netDrops /\ netByRoute' = netByRoute /\ netLostRemoval' = netLostRemoval
  BY DEF WireStep, netKernel
<1>3. ~netByRoute' => /\ "route" \notin netWants'
                      /\ \A l \in Link, p \in Metric, add \in BOOLEAN : ~Coming(RouteMsg(l, p, add))'
  BY <1>1, <1>2 DEF NetTypes
<1> QED  BY <1>1, <1>2, <1>3 DEF NetTypes, IfaceFits

\* What is known of an interface stays so when the message read is not about it.
AddrSays(l) == {m \in NetMessages : m.kind = "addr" /\ m.link = l}
AddrKnown(k, a) ==
  /\ a # NoAddr => a \in linkAddrs[k] \/ Coming(AddrMsg(k, a, FALSE))
  /\ a = NoAddr /\ netForgot = {} => \A b \in linkAddrs[k] : AskedFor("addr") \/ Coming(AddrMsg(k, b, TRUE))

LEMMA AddrKept ==
  ASSUME NetTypes, NEW read, NEW x, WireStep(read, x), IfaceKnown,
         NEW k \in Link, NEW a \in Addr \cup {NoAddr}, netIf.link = k, netIf.addr = a, netForgot \subseteq netForgot',
         read => Head(netWire) \notin AddrSays(k)
  PROVE  AddrKnown(k, a)'
<1>1. k # NoLink /\ linkAddrs' = linkAddrs /\ linkAddrs[k] \subseteq Addr
  BY NetAssumption DEF NetAssumption, NetTypes, WireStep, netKernel
<1>2. /\ a # NoAddr => a \in linkAddrs[k] \/ Coming(AddrMsg(k, a, FALSE))
      /\ a = NoAddr /\ netForgot = {} => \A b \in linkAddrs[k] : AskedFor("addr") \/ Coming(AddrMsg(k, b, TRUE))
  BY <1>1 DEF IfaceKnown
<1>6. \A m : Coming(m) => Coming(m)' \/ (read /\ m = Head(netWire))
  BY StepOfWire
<1>3. \A b \in Addr : /\ Coming(AddrMsg(k, b, TRUE)) => Coming(AddrMsg(k, b, TRUE))'
                      /\ Coming(AddrMsg(k, b, FALSE)) => Coming(AddrMsg(k, b, FALSE))'
  <2> TAKE b \in Addr
  <2>1. read => Head(netWire) # AddrMsg(k, b, TRUE) /\ Head(netWire) # AddrMsg(k, b, FALSE)
    <3>1. AddrMsg(k, b, TRUE) \in NetMessages /\ AddrMsg(k, b, FALSE) \in NetMessages
      BY MessagesThere, Zenon
    <3>2. AddrMsg(k, b, TRUE) \in AddrSays(k) /\ AddrMsg(k, b, FALSE) \in AddrSays(k)
      BY <3>1 DEF AddrSays, AddrMsg
    <3> QED  BY <3>2, Zenon
  <2> QED  BY <1>6, <2>1
<1>4. AskedFor("addr") => AskedFor("addr")' \/ \A m \in Dumped("addr") : Coming(m)'
  BY StepOfWire DEF AllDumps
<1>5. \A b \in linkAddrs[k] : AddrMsg(k, b, TRUE) \in Dumped("addr")
  BY TruthsAre
<1>7. ASSUME a # NoAddr PROVE a \in linkAddrs'[k] \/ Coming(AddrMsg(k, a, FALSE))'
  <2>1. a \in Addr
    BY <1>7
  <2>2. Coming(AddrMsg(k, a, FALSE)) => Coming(AddrMsg(k, a, FALSE))'
    BY <1>3, <2>1, Zenon
  <2> QED  BY <1>1, <1>2, <1>7, <2>2
<1>8. ASSUME a = NoAddr, netForgot' = {}, NEW b \in linkAddrs'[k]
      PROVE  AskedFor("addr")' \/ Coming(AddrMsg(k, b, TRUE))'
  <2>1. b \in linkAddrs[k] /\ b \in Addr /\ netForgot = {}
    BY <1>1, <1>8
  <2>2. AskedFor("addr") \/ Coming(AddrMsg(k, b, TRUE))
    BY <1>2, <1>8, <2>1
  <2>3. Coming(AddrMsg(k, b, TRUE)) => Coming(AddrMsg(k, b, TRUE))'
    BY <1>3, <2>1, Zenon
  <2>4. AskedFor("addr") => AskedFor("addr")' \/ Coming(AddrMsg(k, b, TRUE))'
    BY <1>4, <1>5, <2>1
  <2> QED  BY <2>2, <2>3, <2>4
<1> QED  BY <1>7, <1>8, Zenon DEF AddrKnown

LEMMA KnownAfter ==
  ASSUME NEW k, NEW a, netIf'.link = k, netIf'.addr = a, AddrKnown(k, a)',
         netIf'.carrier /\ linkState'[k] # "carrier" => NoCarrierComing(k)',
         ~netIf'.carrier /\ linkState'[k] = "carrier" => AskedFor("link")' \/ Coming(LinkMsg(k, "carrier"))',
         netIf'.carrier /\ k \in Wireless => netIf'.essid \/ netWake' \/ NoCarrierComing(k)'
  PROVE  IfaceKnown'
<1>1. /\ a # NoAddr => a \in linkAddrs'[k] \/ Coming(AddrMsg(k, a, FALSE))'
      /\ a = NoAddr /\ netForgot' = {} => \A b \in linkAddrs'[k] : AskedFor("addr")' \/ Coming(AddrMsg(k, b, TRUE))'
  BY Zenon DEF AddrKnown
<1>2. \A m : Coming(m)' <=> m \in ToSet(netWire')
  BY DEF Coming
<1> QED  BY <1>1, <1>2 DEF IfaceKnown, Coming, NoCarrierComing

LEMMA CarrierKept ==
  ASSUME NetTypes, NEW read, NEW x, WireStep(read, x), IfaceKnown, NEW k \in Link, netIf.link = k,
         read => \A s \in LinkStates : Head(netWire) # LinkMsg(k, s)
  PROVE  /\ netIf.carrier /\ linkState'[k] # "carrier" => NoCarrierComing(k)'
         /\ ~netIf.carrier /\ linkState'[k] = "carrier" => AskedFor("link")' \/ Coming(LinkMsg(k, "carrier"))'
         /\ netIf.carrier /\ k \in Wireless => netIf.essid \/ netWake \/ NoCarrierComing(k)'
<1>1. k # NoLink /\ linkState' = linkState
  BY NetAssumption DEF NetAssumption, WireStep, netKernel
<1>2. /\ netIf.carrier /\ linkState[k] # "carrier" => NoCarrierComing(k)
      /\ ~netIf.carrier /\ linkState[k] = "carrier" => AskedFor("link") \/ Coming(LinkMsg(k, "carrier"))
      /\ netIf.carrier /\ k \in Wireless => netIf.essid \/ netWake \/ NoCarrierComing(k)
  BY <1>1 DEF IfaceKnown
<1>3. \A s \in LinkStates : Coming(LinkMsg(k, s)) => Coming(LinkMsg(k, s))'
  BY StepOfWire
<1>4. NoCarrierComing(k) => NoCarrierComing(k)'
  BY <1>3 DEF NoCarrierComing
<1>5. AskedFor("link") => AskedFor("link")' \/ \A m \in Dumped("link") : Coming(m)'
  BY StepOfWire DEF AllDumps
<1>6. linkState[k] = "carrier" => LinkMsg(k, "carrier") \in Dumped("link")
  BY TruthsAre
<1>7. "carrier" \in LinkStates
  BY DEF LinkStates
<1> QED  BY <1>1, <1>2, <1>3, <1>4, <1>5, <1>6, <1>7

\* The interface stays chosen when the message read is about another.
LEMMA ChosenKept ==
  ASSUME NetTypes, NEW read, NEW x, WireStep(read, x), IfaceChosen, NEW k, NEW p, netIf.link = k, netIf.metric = p,
         netIf'.link = k, netIf'.metric = p, netForgot \subseteq netForgot',
         read /\ ~netByRoute /\ k # NoLink => Head(netWire) # LinkMsg(k, "gone"),
         read /\ ~netByRoute /\ k = NoLink =>
           \A l \in MatchingLinks, s \in LinkStates \ {"gone"} : Head(netWire) # LinkMsg(l, s),
         read /\ netByRoute /\ k # NoLink => Head(netWire) \notin RouteEnds(k, p),
         read /\ netByRoute =>
           \A l \in Link, q \in Metric : Head(netWire) = RouteMsg(l, q, TRUE) => k # NoLink /\ p <= q
  PROVE  IfaceChosen'
<1>1. /\ linkState' = linkState /\ linkRoutes' = linkRoutes /\ netByRoute' = netByRoute
      /\ linkRoutes \in [Link -> SUBSET Metric] /\ (k # NoLink => k \in Link)
  BY DEF WireStep, netKernel, NetTypes
<1>2. \A m : Coming(m) => Coming(m)' \/ (read /\ m = Head(netWire))
  BY StepOfWire
<1>3. ~netByRoute' /\ k # NoLink => linkState'[k] # "gone" \/ Coming(LinkMsg(k, "gone"))'
  BY <1>1, <1>2 DEF IfaceChosen
<1>4. ASSUME ~netByRoute', k = NoLink, netForgot' = {}, NEW l \in MatchingLinks, linkState'[l] # "gone"
      PROVE  AskedFor("link")' \/ \E s \in LinkStates \ {"gone"} : Coming(LinkMsg(l, s))'
  <2>1. l \in Link /\ netForgot = {}
    BY <1>4, NetAssumption DEF NetAssumption
  <2>2. AskedFor("link") \/ \E s \in LinkStates \ {"gone"} : Coming(LinkMsg(l, s))
    BY <1>1, <1>4, <2>1 DEF IfaceChosen
  <2>3. AskedFor("link") => AskedFor("link")' \/ \A m \in Dumped("link") : Coming(m)'
    BY StepOfWire DEF AllDumps
  <2>4. LinkMsg(l, linkState[l]) \in Dumped("link") /\ linkState[l] \in LinkStates \ {"gone"}
    BY <1>1, <1>4, <2>1, TruthsAre DEF NetTypes
  <2>5. CASE AskedFor("link")
    BY <2>3, <2>4, <2>5
  <2>6. CASE \E s \in LinkStates \ {"gone"} : Coming(LinkMsg(l, s))
    BY <1>1, <1>2, <1>4, <2>6
  <2> QED  BY <2>2, <2>5, <2>6
<1>5. ASSUME netByRoute', k # NoLink PROVE p \in linkRoutes'[k] \/ RouteEndComing(k, p)'
  <2>1. p \in linkRoutes[k] \/ RouteEndComing(k, p)
    BY <1>1, <1>5 DEF IfaceChosen
  <2>2. (Head(netWire) # RouteMsg(k, p, FALSE) /\ \A s \in {"gone", "down"} : Head(netWire) # LinkMsg(k, s)) \/ ~read
    BY <1>1, <1>5 DEF RouteEnds, Says
  <2>3. RouteEndComing(k, p) => RouteEndComing(k, p)'
    BY <1>2, <2>2 DEF RouteEndComing
  <2> QED  BY <1>1, <2>1, <2>3
<1>6. ASSUME netByRoute', NEW l \in Link, NEW q \in linkRoutes'[l]
      PROVE  (k # NoLink /\ p <= q) \/ AskedFor("route")' \/ Coming(RouteMsg(l, q, TRUE))'
  <2>1. q \in linkRoutes[l] /\ q \in Metric /\ netByRoute
    BY <1>1, <1>6
  <2>2. (k # NoLink /\ p <= q) \/ AskedFor("route") \/ Coming(RouteMsg(l, q, TRUE))
    BY <2>1 DEF IfaceChosen
  <2>3. AskedFor("route") => AskedFor("route")' \/ \A m \in Dumped("route") : Coming(m)'
    BY <2>1, StepOfWire DEF AllDumps
  <2>4. RouteMsg(l, q, TRUE) \in Dumped("route")
    BY <2>1, TruthsAre
  <2>5. CASE Coming(RouteMsg(l, q, TRUE))
    <3>1. Coming(RouteMsg(l, q, TRUE))' \/ (read /\ RouteMsg(l, q, TRUE) = Head(netWire))
      BY <1>2, <2>5
    <3>2. read /\ Head(netWire) = RouteMsg(l, q, TRUE) => k # NoLink /\ p <= q
      BY <2>1
    <3> QED  BY <3>1, <3>2
  <2>6. CASE AskedFor("route")
    BY <2>3, <2>4, <2>6
  <2> QED  BY <2>2, <2>5, <2>6
<1> QED  BY <1>3, <1>4, <1>5, <1>6, ChosenNext

LEMMA AskingAlone ==
  ASSUME NetTypes, NEW read \in BOOLEAN, read => netWire # <<>>,
         NEW wants \in SUBSET NetKinds, netWants \subseteq wants, "route" \in wants => netByRoute,
         NEW busy \in BOOLEAN, NEW wire, wire = Unread(read), AskForStateDump(wants, busy, wire),
         UNCHANGED <<netKernel, netByRoute, netLostRemoval>>,
         netOverrun' = netOverrun \/ AllDumps \subseteq wants
  PROVE  \E x : Served(wants, read, x)
<1>1. netWire \in Seq(NetMessages)
  BY DEF NetTypes
<1>2. wire \in Seq(NetMessages)
  <2>1. CASE read
    BY <1>1, <2>1 DEF Unread
  <2>2. CASE ~read
    BY <1>1, <2>2 DEF Unread
  <2> QED  BY <2>1, <2>2
<1>3. Unread(read) \o <<>> = wire
  BY <1>2
<1>4. <<>> \in Seq(NetMessages) /\ ToSet(<<>>) = {}
  BY DEF ToSet
<1>5. AskForStateDump(wants, busy, Unread(read) \o <<>>)
  BY <1>3 DEF AskForStateDump
<1>6. /\ ToSet(<<>>) \subseteq NetTruths
      /\ \A l \in Link, p \in Metric, add \in BOOLEAN : RouteMsg(l, p, add) \notin ToSet(<<>>)
  BY <1>4
<1> QED  BY <1>4, <1>5, <1>6, AskingStep DEF AskForStateDump

\* What is first on the wire.
LEMMA HeadOfKind ==
  ASSUME NetTypes, NEW kind, ReadsNet(kind)
  PROVE  /\ Head(netWire) \in NetMessages /\ Head(netWire).kind = kind
         /\ kind # "link" => \A l, s : Head(netWire) # LinkMsg(l, s)
         /\ kind # "addr" => \A l, a, y : Head(netWire) # AddrMsg(l, a, y)
         /\ kind # "route" => \A l, p, y : Head(netWire) # RouteMsg(l, p, y)
<1>1. netWire \in Seq(NetMessages) /\ netWire # <<>>
  BY DEF NetTypes, ReadsNet
<1>2. Head(netWire) \in NetMessages
  BY <1>1
<1>3. Head(netWire).kind = kind
  BY DEF ReadsNet
<1>4. /\ kind # "link" => \A l, s : Head(netWire) # LinkMsg(l, s)
      /\ kind # "addr" => \A l, a, y : Head(netWire) # AddrMsg(l, a, y)
      /\ kind # "route" => \A l, p, y : Head(netWire) # RouteMsg(l, p, y)
  BY <1>3 DEF LinkMsg, AddrMsg, RouteMsg
<1> QED  BY <1>2, <1>3, <1>4

\* A step that does not change the interface, and reads nothing about it.
LEMMA IfaceKept ==
  ASSUME NetTypes, NEW read, NEW x, WireStep(read, x), IfaceKnown, IfaceChosen, netIf' = netIf,
         netForgot \subseteq netForgot', netWake => netWake',
         read /\ netIf.link # NoLink =>
           /\ Head(netWire) \notin AddrSays(netIf.link)
           /\ \A s \in LinkStates : Head(netWire) # LinkMsg(netIf.link, s),
         read /\ ~netByRoute /\ netIf.link = NoLink =>
           \A l \in MatchingLinks, s \in LinkStates \ {"gone"} : Head(netWire) # LinkMsg(l, s),
         read /\ netByRoute /\ netIf.link # NoLink => Head(netWire) # RouteMsg(netIf.link, netIf.metric, FALSE),
         read /\ netByRoute =>
           \A l \in Link, q \in Metric :
             Head(netWire) = RouteMsg(l, q, TRUE) => netIf.link # NoLink /\ netIf.metric <= q
  PROVE  IfaceKnown' /\ IfaceChosen'
<1> PICK k : k = netIf.link
  OBVIOUS
<1> PICK a : a = netIf.addr
  OBVIOUS
<1> PICK p : p = netIf.metric
  OBVIOUS
<1>1. netIf'.link = k /\ netIf'.addr = a /\ netIf'.metric = p
  OBVIOUS
<1>2. (k # NoLink => k \in Link) /\ a \in Addr \cup {NoAddr}
  BY DEF NetTypes
<1>3. IfaceKnown'
  <2>1. CASE k = NoLink
    BY <1>1, <2>1 DEF IfaceKnown
  <2>2. CASE k # NoLink
    <3>1. k \in Link
      BY <1>2, <2>2
    <3>2. AddrKnown(k, a)'
      <4>1. read => Head(netWire) \notin AddrSays(k)
        BY <2>2
      <4> QED  BY <1>2, <3>1, <4>1, AddrKept
    <3>3. /\ netIf.carrier /\ linkState'[k] # "carrier" => NoCarrierComing(k)'
          /\ ~netIf.carrier /\ linkState'[k] = "carrier" => AskedFor("link")' \/ Coming(LinkMsg(k, "carrier"))'
          /\ netIf.carrier /\ k \in Wireless => netIf.essid \/ netWake \/ NoCarrierComing(k)'
      <4>1. read => \A s \in LinkStates : Head(netWire) # LinkMsg(k, s)
        BY <2>2
      <4> QED  BY <3>1, <4>1, CarrierKept
    <3>4. /\ netIf'.carrier /\ linkState'[k] # "carrier" => NoCarrierComing(k)'
          /\ ~netIf'.carrier /\ linkState'[k] = "carrier" => AskedFor("link")' \/ Coming(LinkMsg(k, "carrier"))'
          /\ netIf'.carrier /\ k \in Wireless => netIf'.essid \/ netWake' \/ NoCarrierComing(k)'
      BY <3>3
    <3> QED  BY <1>1, <3>2, <3>4, KnownAfter
  <2> QED  BY <2>1, <2>2
<1>4. IfaceChosen'
  <2>1. read /\ ~netByRoute /\ k # NoLink => Head(netWire) # LinkMsg(k, "gone")
    BY DEF LinkStates
  <2>2. read /\ netByRoute /\ k # NoLink => Head(netWire) \notin RouteEnds(k, p)
    BY DEF RouteEnds, Says, LinkStates
  <2>3. read /\ netByRoute =>
           \A l \in Link, q \in Metric : Head(netWire) = RouteMsg(l, q, TRUE) => k # NoLink /\ p <= q
    OBVIOUS
  <2>4. read /\ ~netByRoute /\ k = NoLink =>
           \A l \in MatchingLinks, s \in LinkStates \ {"gone"} : Head(netWire) # LinkMsg(l, s)
    OBVIOUS
  <2> QED  BY <1>1, <2>1, <2>2, <2>3, <2>4, ChosenKept
<1> QED  BY <1>3, <1>4

\* The parts of NetInv after a step of the module.
LEMMA NetInvNext ==
  ASSUME NetInv, NEW read, NEW x, WireStep(read, x), NetTypes', IfaceLabelled',
         ~netLostRemoval /\ WireTells /\ IfaceKnown /\ IfaceChosen => IfaceKnown' /\ IfaceChosen'
  PROVE  NetInv'
<1>1. netLostRemoval' = netLostRemoval
  BY DEF WireStep
<1>2. ~netLostRemoval => WireTells'
  BY StepTells DEF NetInv
<1> QED  BY <1>1, <1>2 DEF NetInv

LEMMA IfaceFitsNow ==
  ASSUME NetTypes
  PROVE  IfaceFits(netIf)
BY DEF NetTypes, IfaceFits

LEMMA ResyncKeeps ==
  ASSUME NetInv, Resync
  PROVE  NetInv'
<1>1. NetTypes /\ IfaceLabelled
  BY DEF NetInv
<1>2. PICK wants : wants = netWants \cup AllDumps
  OBVIOUS
<1>3. /\ wants \in SUBSET NetKinds /\ netWants \subseteq wants /\ ("route" \in wants => netByRoute)
      /\ AllDumps \subseteq wants
  BY <1>1, <1>2 DEF NetTypes, AllDumps, NetKinds
<1>4. PICK busy \in BOOLEAN : busy = netDump
  BY <1>1 DEF NetTypes
<1>5. PICK wire : wire = Unread(FALSE) /\ wire = netWire
  BY DEF Unread
<1>6. AskForStateDump(wants, busy, wire)
  BY <1>2, <1>4, <1>5 DEF Resync
<1>7. UNCHANGED <<netKernel, netByRoute, netLostRemoval>>
  BY DEF Resync
<1>8. PICK x : /\ WireStep(FALSE, x)
               /\ \A k \in wants : k \in netWants' \/ \A m \in Dumped(k) : Coming(m)'
               /\ netWants' \subseteq wants /\ netDump' \in BOOLEAN /\ (~netDump' => netWants' = {})
               /\ ~netByRoute => \A l \in Link, p \in Metric, add \in BOOLEAN : RouteMsg(l, p, add) \notin ToSet(x)
  <2>1. PICK x : Served(wants, FALSE, x)
    BY <1>1, <1>3, <1>5, <1>6, <1>7, AskingAlone
  <2> QED  BY <2>1 DEF Served
<1>9. NetTypes'
  <2>1. /\ netIf' = netIf /\ netOverrun' \in BOOLEAN /\ netWake' \in BOOLEAN /\ netDp' \in BOOLEAN
        /\ netDue' \in BOOLEAN /\ netForgot' \subseteq {"address", "link", "unasked"}
    BY <1>1 DEF NetTypes, Resync
  <2>2. IfaceFits(netIf) /\ netWants' \subseteq NetKinds /\ (~netByRoute => "route" \notin netWants')
    BY <1>1, <1>3, <1>8, IfaceFitsNow
  <2> QED  BY <1>1, <1>8, <2>1, <2>2, StepTypes
<1>10. IfaceLabelled'
  BY <1>1, NewsLabelled DEF Resync, netKernel
<1>11. IfaceKnown /\ IfaceChosen => IfaceKnown' /\ IfaceChosen'
  <2>1. netIf' = netIf /\ netForgot \subseteq netForgot' /\ (netWake => netWake')
    BY DEF Resync
  <2> QED  BY <1>1, <1>8, <2>1, IfaceKept
<1> QED  BY <1>8, <1>9, <1>10, <1>11, NetInvNext

LEMMA HandleEventsDoneKeeps ==
  ASSUME NetInv, HandleEventsDone
  PROVE  NetInv'
<1>1. NetTypes /\ IfaceLabelled
  BY DEF NetInv
<1>2. ReadsNet("done") /\ netWire # <<>> /\ UNCHANGED <<netKernel, netByRoute, netLostRemoval, netOverrun>>
  BY DEF HandleEventsDone, ReadsNet
<1>3. PICK wants : wants = netWants
  OBVIOUS
<1>4. wants \in SUBSET NetKinds /\ netWants \subseteq wants /\ ("route" \in wants => netByRoute)
  BY <1>1, <1>3 DEF NetTypes
<1>5. PICK wire : wire = Unread(TRUE) /\ wire = Tail(netWire)
  BY DEF Unread
<1>6. AskForStateDump(wants, FALSE, wire)
  BY <1>3, <1>5 DEF HandleEventsDone
<1>7. PICK x : /\ WireStep(TRUE, x)
               /\ \A k \in wants : k \in netWants' \/ \A m \in Dumped(k) : Coming(m)'
               /\ netWants' \subseteq wants /\ netDump' \in BOOLEAN /\ (~netDump' => netWants' = {})
               /\ ~netByRoute => \A l \in Link, p \in Metric, add \in BOOLEAN : RouteMsg(l, p, add) \notin ToSet(x)
  <2>1. PICK x : Served(wants, TRUE, x)
    BY <1>1, <1>2, <1>4, <1>5, <1>6, AskingAlone
  <2> QED  BY <2>1 DEF Served
<1>8. NetTypes'
  <2>1. /\ netIf' = netIf /\ netOverrun' \in BOOLEAN /\ netWake' \in BOOLEAN /\ netDp' \in BOOLEAN
        /\ netDue' \in BOOLEAN /\ netForgot' \subseteq {"address", "link", "unasked"}
    BY <1>1, <1>2 DEF NetTypes, HandleEventsDone
  <2>2. IfaceFits(netIf) /\ netWants' \subseteq NetKinds /\ (~netByRoute => "route" \notin netWants')
    BY <1>1, <1>4, <1>7, IfaceFitsNow
  <2> QED  BY <1>1, <1>7, <2>1, <2>2, StepTypes
<1>9. IfaceLabelled'
  BY <1>1, NewsLabelled DEF HandleEventsDone, ReadsNet, netKernel
<1>10. IfaceKnown /\ IfaceChosen => IfaceKnown' /\ IfaceChosen'
  <2>1. netIf' = netIf /\ netForgot \subseteq netForgot' /\ (netWake => netWake')
    BY DEF HandleEventsDone
  <2>2. Head(netWire).kind = "done"
    BY <1>2 DEF ReadsNet
  <2>3. /\ \A l : Head(netWire) \notin AddrSays(l)
        /\ \A l, s : Head(netWire) # LinkMsg(l, s)
        /\ \A l, p, y : Head(netWire) # RouteMsg(l, p, y)
    BY <2>2 DEF AddrSays, LinkMsg, RouteMsg
  <2> QED  BY <1>1, <1>7, <2>1, <2>3, IfaceKept
<1> QED  BY <1>7, <1>8, <1>9, <1>10, NetInvNext

\* A message that is only read.
LEMMA PlainTypes ==
  ASSUME NetTypes, NEW kind, ReadsNet(kind), netWire' = Tail(netWire), netWants' = netWants, netDump' = netDump,
         NEW i, IfaceFits(i), netIf' = i, netWake' \in BOOLEAN, netDp' \in BOOLEAN, netDue' \in BOOLEAN,
         netForgot' \subseteq {"address", "link", "unasked"}
  PROVE  WireStep(TRUE, <<>>) /\ NetTypes'
<1>1. WireStep(TRUE, <<>>)
  BY PlainRead
<1>2. ToSet(<<>>) = {}
  BY DEF ToSet
<1>3. /\ netWants' \subseteq NetKinds /\ netDump' \in BOOLEAN /\ (~netDump' => netWants' = {})
      /\ netOverrun' \in BOOLEAN /\ (~netByRoute => "route" \notin netWants')
  BY DEF NetTypes, ReadsNet
<1>4. ~netByRoute => \A l \in Link, p \in Metric, add \in BOOLEAN : RouteMsg(l, p, add) \notin ToSet(<<>>)
  BY <1>2
<1>5. NetTypes'
  BY <1>1, <1>3, <1>4, StepTypes
<1> QED  BY <1>1, <1>5

LEMMA OtherLinkEventKeeps ==
  ASSUME NetInv, OtherLinkEvent
  PROVE  NetInv'
<1>1. NetTypes /\ IfaceLabelled
  BY DEF NetInv
<1>2. ReadsNet("link") /\ netWire' = Tail(netWire) /\ UNCHANGED <<netModel, netForgot>>
  BY DEF OtherLinkEvent
<1>3. /\ netIf' = netIf /\ netWants' = netWants /\ netDump' = netDump /\ netWake' = netWake /\ netDp' = netDp
      /\ netDue' = netDue /\ netForgot' = netForgot
  BY <1>2 DEF netModel
<1>4. WireStep(TRUE, <<>>) /\ NetTypes'
  <2>1. /\ netWake' \in BOOLEAN /\ netDp' \in BOOLEAN /\ netDue' \in BOOLEAN
        /\ netForgot' \subseteq {"address", "link", "unasked"}
    BY <1>1, <1>3 DEF NetTypes
  <2> QED  BY <1>1, <1>2, <1>3, <2>1, IfaceFitsNow, PlainTypes
<1>5. IfaceLabelled'
  BY <1>1, <1>2, <1>3, NewsLabelled DEF ReadsNet, netKernel
<1>6. IfaceKnown /\ IfaceChosen => IfaceKnown' /\ IfaceChosen'
  <2>1. Head(netWire).kind = "link"
    BY <1>2 DEF ReadsNet
  <2>2. /\ \A l : Head(netWire) \notin AddrSays(l)
        /\ \A l, p, y : Head(netWire) # RouteMsg(l, p, y)
    BY <2>1 DEF AddrSays, RouteMsg
  <2>3. /\ netIf.link # NoLink => \A s \in LinkStates : Head(netWire) # LinkMsg(netIf.link, s)
        /\ netIf.link = NoLink => \A l \in MatchingLinks, s \in LinkStates \ {"gone"} : Head(netWire) # LinkMsg(l, s)
    BY DEF OtherLinkEvent, LinkMsg
  <2> QED  BY <1>1, <1>3, <1>4, <2>2, <2>3, IfaceKept
<1> QED  BY <1>4, <1>5, <1>6, NetInvNext

LEMMA Cleared ==
  ASSUME NetTypes, NEW i, i = ClearIface(netIf)
  PROVE  /\ i.link = NoLink /\ i.metric = netIf.metric /\ IfaceFits(i)
BY DEF ClearIface, NetTypes, IfaceFits

\* The interface is lost, and routes are asked for.
LEMMA RouteLost ==
  ASSUME NetTypes, NEW read, NEW x, WireStep(read, x), netByRoute, netIf'.link = NoLink,
         "route" \in netWants' \/ \A m \in Dumped("route") : Coming(m)'
  PROVE  IfaceKnown' /\ IfaceChosen'
<1>1. IfaceKnown'
  BY DEF IfaceKnown
<1>2. PICK p : p = netIf'.metric
  OBVIOUS
<1>3. netByRoute' = netByRoute /\ linkRoutes' = linkRoutes /\ linkRoutes \in [Link -> SUBSET Metric]
  BY DEF WireStep, netKernel, NetTypes
<1>4. ASSUME NEW l \in Link, NEW q \in linkRoutes'[l]
      PROVE  AskedFor("route")' \/ Coming(RouteMsg(l, q, TRUE))'
  <2>1. q \in linkRoutes[l]
    BY <1>3, <1>4
  <2>2. RouteMsg(l, q, TRUE) \in Dumped("route")
    BY <2>1, TruthsAre
  <2>3. CASE "route" \in netWants'
    BY <2>3 DEF AskedFor
  <2>4. CASE \A m \in Dumped("route") : Coming(m)'
    BY <2>2, <2>4
  <2> QED  BY <2>3, <2>4
<1>5. /\ ~netByRoute' /\ NoLink # NoLink => linkState'[NoLink] # "gone" \/ Coming(LinkMsg(NoLink, "gone"))'
      /\ ~(~netByRoute' /\ NoLink = NoLink /\ netForgot' = {})
  BY <1>3
<1>6. IfaceChosen'
  BY <1>2, <1>3, <1>4 DEF IfaceChosen
<1> QED  BY <1>1, <1>6

LEMMA LinkDownEventKeeps ==
  ASSUME NetInv, LinkDownEvent
  PROVE  NetInv'
<1>1. NetTypes /\ IfaceLabelled
  BY DEF NetInv
<1>2. /\ ReadsNet("link") /\ netWire # <<>> /\ netByRoute
      /\ UNCHANGED <<netKernel, netByRoute, netLostRemoval, netOverrun>>
  BY DEF LinkDownEvent, ReadsNet, OurLinkDown
<1>3. PICK wants : wants = netWants \cup {"route"}
  OBVIOUS
<1>4. wants \in SUBSET NetKinds /\ netWants \subseteq wants /\ ("route" \in wants => netByRoute)
  BY <1>1, <1>2, <1>3 DEF NetTypes, NetKinds
<1>5. PICK wire : wire = Unread(TRUE) /\ wire = Tail(netWire)
  BY DEF Unread
<1>6. PICK busy \in BOOLEAN : busy = netDump
  BY <1>1 DEF NetTypes
<1>7. AskForStateDump(wants, busy, wire)
  BY <1>3, <1>5, <1>6 DEF LinkDownEvent
<1>8. PICK x : /\ WireStep(TRUE, x)
               /\ \A k \in wants : k \in netWants' \/ \A m \in Dumped(k) : Coming(m)'
               /\ netWants' \subseteq wants /\ netDump' \in BOOLEAN /\ (~netDump' => netWants' = {})
               /\ ~netByRoute => \A l \in Link, p \in Metric, add \in BOOLEAN : RouteMsg(l, p, add) \notin ToSet(x)
  <2>1. PICK x : Served(wants, TRUE, x)
    BY <1>1, <1>2, <1>4, <1>5, <1>7, AskingAlone
  <2> QED  BY <2>1 DEF Served
<1>9. PICK i : i = ClearIface(netIf) /\ netIf' = i
  BY DEF LinkDownEvent
<1>10. i.link = NoLink /\ IfaceFits(i)
  BY <1>1, <1>9, Cleared
<1>11. NetTypes'
  <2>1. /\ netOverrun' \in BOOLEAN /\ netWake' \in BOOLEAN /\ netDp' \in BOOLEAN
        /\ netDue' \in BOOLEAN /\ netForgot' \subseteq {"address", "link", "unasked"}
    BY <1>1, <1>2 DEF NetTypes, LinkDownEvent
  <2>2. netWants' \subseteq NetKinds /\ (~netByRoute => "route" \notin netWants')
    BY <1>2, <1>4, <1>8
  <2> QED  BY <1>1, <1>8, <1>9, <1>10, <2>1, <2>2, StepTypes
<1>12. IfaceLabelled'
  BY DEF LinkDownEvent, IfaceLabelled
<1>13. IfaceKnown' /\ IfaceChosen'
  <2>1. "route" \in netWants' \/ \A m \in Dumped("route") : Coming(m)'
    BY <1>3, <1>8
  <2> QED  BY <1>1, <1>2, <1>8, <1>9, <1>10, <2>1, RouteLost
<1> QED  BY <1>8, <1>11, <1>12, <1>13, NetInvNext

\* A step that reads nothing.
LEMMA IdleStep ==
  ASSUME NetTypes, UNCHANGED <<netKernel, netWire, netOverrun, netByRoute, netWants, netLostRemoval>>
  PROVE  WireStep(FALSE, <<>>)
<1>1. netWire \in Seq(NetMessages) /\ <<>> \in Seq(NetMessages) /\ ToSet(<<>>) = {}
  <2>1. ToSet(<<>>) = {}
    BY DEF ToSet
  <2> QED  BY <2>1 DEF NetTypes
<1>2. netWire' = Unread(FALSE) \o <<>>
  BY <1>1 DEF Unread
<1> QED  BY <1>1, <1>2 DEF WireStep, AskedFor

LEMMA IdleTypes ==
  ASSUME NetTypes, UNCHANGED <<netKernel, netWire, netOverrun, netByRoute, netWants, netDump, netLostRemoval>>,
         NEW i, IfaceFits(i), netIf' = i, netWake' \in BOOLEAN, netDp' \in BOOLEAN, netDue' \in BOOLEAN,
         netForgot' \subseteq {"address", "link", "unasked"}
  PROVE  WireStep(FALSE, <<>>) /\ NetTypes'
<1>1. WireStep(FALSE, <<>>)
  <2>1. UNCHANGED <<netKernel, netWire, netOverrun, netByRoute, netWants, netLostRemoval>>
    OBVIOUS
  <2> QED  BY <2>1, IdleStep
<1>2. ToSet(<<>>) = {}
  BY DEF ToSet
<1>3. /\ netWants' \subseteq NetKinds /\ netDump' \in BOOLEAN /\ (~netDump' => netWants' = {})
      /\ netOverrun' \in BOOLEAN /\ (~netByRoute => "route" \notin netWants')
  BY DEF NetTypes
<1>4. ~netByRoute => \A l \in Link, p \in Metric, add \in BOOLEAN : RouteMsg(l, p, add) \notin ToSet(<<>>)
  BY <1>2
<1>5. NetTypes'
  BY <1>1, <1>3, <1>4, StepTypes
<1> QED  BY <1>1, <1>5

LEMMA NetUpdateKeeps ==
  ASSUME NetInv, NetUpdate
  PROVE  NetInv'
<1>1. NetTypes
  BY DEF NetInv
<1>2. UNCHANGED <<netKernel, netWire, netOverrun, netByRoute, netWants, netDump, netLostRemoval>>
  BY DEF NetUpdate
<1>3. WireStep(FALSE, <<>>) /\ NetTypes'
  <2>1. /\ netIf' = netIf /\ netWake' \in BOOLEAN /\ netDp' \in BOOLEAN /\ netDue' \in BOOLEAN
        /\ netForgot' \subseteq {"address", "link", "unasked"}
    BY <1>1 DEF NetUpdate, NetTypes
  <2> QED  BY <1>1, <1>2, <2>1, IfaceFitsNow, IdleTypes
<1>4. IfaceLabelled'
  BY DEF NetUpdate, netKernel, IfaceLabelled, GetNetworkState
<1>5. IfaceKnown /\ IfaceChosen => IfaceKnown' /\ IfaceChosen'
  <2>1. netIf' = netIf /\ netForgot \subseteq netForgot' /\ (netWake => netWake')
    BY DEF NetUpdate
  <2> QED  BY <1>1, <1>3, <2>1, IfaceKept
<1> QED  BY <1>3, <1>4, <1>5, NetInvNext

LEMMA TimerRunsKeeps ==
  ASSUME NetInv, TimerRuns
  PROVE  NetInv'
<1>1. NetTypes
  BY DEF NetInv
<1>2. WireStep(FALSE, <<>>)
  BY <1>1, IdleStep DEF TimerRuns
<1>3. PICK i : i = GetInfo(netIf) /\ netIf' = i
  BY DEF TimerRuns
<1>4. /\ i.link = netIf.link /\ i.addr = netIf.addr /\ i.carrier = netIf.carrier /\ i.metric = netIf.metric
      /\ (netIf.essid => i.essid) /\ (i.link # NoLink /\ Associated(i.link) => i.essid)
  BY <1>1, <1>3 DEF GetInfo, NetTypes
<1>5. IfaceFits(i)
  BY <1>1, <1>3 DEF GetInfo, NetTypes, IfaceFits, Associated
<1>6. NetTypes'
  <2>1. UNCHANGED <<netKernel, netWire, netOverrun, netByRoute, netWants, netDump, netLostRemoval>>
    BY DEF TimerRuns
  <2>2. /\ netWake' \in BOOLEAN /\ netDp' \in BOOLEAN /\ netDue' \in BOOLEAN
        /\ netForgot' \subseteq {"address", "link", "unasked"}
    BY <1>1 DEF TimerRuns, NetTypes
  <2> QED  BY <1>1, <1>3, <1>5, <2>1, <2>2, IdleTypes
<1>7. IfaceLabelled'
  BY DEF TimerRuns, IfaceLabelled
<1>8. ASSUME IfaceKnown, IfaceChosen PROVE IfaceKnown' /\ IfaceChosen'
  <2> PICK k : k = netIf.link
    OBVIOUS
  <2> PICK a : a = netIf.addr
    OBVIOUS
  <2> PICK p : p = netIf.metric
    OBVIOUS
  <2>1. netIf'.link = k /\ netIf'.addr = a /\ netIf'.metric = p
    BY <1>3, <1>4
  <2>2. netForgot \subseteq netForgot' /\ linkState' = linkState /\ netWire' = netWire
    BY DEF TimerRuns, netKernel
  <2>3. IfaceChosen'
    BY <1>1, <1>2, <1>8, <2>1, <2>2, ChosenKept
  <2>4. CASE k = NoLink
    BY <2>1, <2>3, <2>4 DEF IfaceKnown
  <2>5. CASE k # NoLink
    <3>1. k \in Link /\ a \in Addr \cup {NoAddr}
      BY <1>1, <2>5 DEF NetTypes
    <3>2. AddrKnown(k, a)'
      BY <1>1, <1>2, <1>8, <2>2, <3>1, AddrKept
    <3>3. /\ netIf.carrier /\ linkState'[k] # "carrier" => NoCarrierComing(k)'
          /\ ~netIf.carrier /\ linkState'[k] = "carrier" => AskedFor("link")' \/ Coming(LinkMsg(k, "carrier"))'
      BY <1>1, <1>2, <1>8, <3>1, CarrierKept
    <3>4. /\ netIf'.carrier /\ linkState'[k] # "carrier" => NoCarrierComing(k)'
          /\ ~netIf'.carrier /\ linkState'[k] = "carrier" => AskedFor("link")' \/ Coming(LinkMsg(k, "carrier"))'
          /\ netIf'.carrier /\ k \in Wireless => netIf'.essid \/ netWake' \/ NoCarrierComing(k)'
      <4>1. netIf'.carrier = netIf.carrier
        BY <1>3, <1>4
      <4>2. k \in Wireless /\ linkState[k] = "carrier" => netIf'.essid
        BY <1>3, <1>4, <2>1, <2>5 DEF Associated
      <4> QED  BY <2>2, <3>3, <4>1, <4>2
    <3>5. IfaceKnown'
      BY <2>1, <3>2, <3>4, KnownAfter
    <3> QED  BY <2>3, <3>5
  <2> QED  BY <2>4, <2>5
<1> QED  BY <1>2, <1>6, <1>7, <1>8, NetInvNext

LEMMA LinkUpdateEventKeeps ==
  ASSUME NetInv, LinkUpdateEvent
  PROVE  NetInv'
<1>1. NetTypes /\ IfaceLabelled
  BY DEF NetInv
<1>2. ReadsNet("link") /\ netWire' = Tail(netWire)
  BY DEF LinkUpdateEvent
<1>3. PICK k \in Link, s \in LinkStates : Head(netWire) = LinkMsg(k, s)
                                          /\ Head(netWire).link = k /\ Head(netWire).state = s
  BY <1>1, <1>2, HeadOfKind, MessageOfKind
<1>4. PICK carrier \in BOOLEAN : carrier = (s = "carrier")
  OBVIOUS
<1>5. netIf.link = k /\ s # "gone" /\ ~(s = "down" /\ netByRoute)
  BY <1>3 DEF LinkUpdateEvent, OurLinkDown
<1>6. PICK i : i = [netIf EXCEPT !.carrier = carrier, !.essid = @ /\ (carrier \/ ~netIf.carrier)]
  OBVIOUS
<1>7. /\ netIf' = i /\ netWake' = (netWake \/ (carrier /\ ~netIf.carrier))
      /\ netDue' = (netDue \/ carrier # netIf.carrier)
      /\ netWants' = netWants /\ netDump' = netDump /\ netDp' = netDp /\ netForgot' = netForgot
  BY <1>3, <1>4, <1>6 DEF LinkUpdateEvent
<1>8. /\ i.link = k /\ i.addr = netIf.addr /\ i.metric = netIf.metric /\ i.carrier = carrier
      /\ i.essid = (netIf.essid /\ (carrier \/ ~netIf.carrier)) /\ i.essid \in BOOLEAN /\ netIf.carrier \in BOOLEAN
      /\ netIf.essid \in BOOLEAN
  BY <1>1, <1>5, <1>6 DEF NetTypes
<1>9. k # NoLink
  BY NetAssumption DEF NetAssumption
<1>10. IfaceFits(i)
  BY <1>1, <1>5, <1>6, <1>9 DEF NetTypes, IfaceFits
<1>11. WireStep(TRUE, <<>>) /\ NetTypes'
  <2>1. netWake' \in BOOLEAN /\ netDp' \in BOOLEAN /\ netDue' \in BOOLEAN
        /\ netForgot' \subseteq {"address", "link", "unasked"}
    BY <1>1, <1>7 DEF NetTypes
  <2> QED  BY <1>1, <1>2, <1>7, <1>10, <2>1, PlainTypes
<1>12. IfaceLabelled'
  <2>1. rfkillOn' = rfkillOn /\ netLabel' = netLabel
    BY <1>2 DEF ReadsNet, netKernel
  <2>2. CASE carrier = netIf.carrier
    <3>1. i.essid = netIf.essid /\ i.carrier = netIf.carrier /\ netDue' = netDue /\ netWake' = netWake
      BY <1>1, <1>7, <1>8, <2>2 DEF NetTypes
    <3>2. netIf'.link = netIf.link /\ netIf'.addr = netIf.addr /\ netIf'.carrier = netIf.carrier
          /\ netIf'.essid = netIf.essid
      BY <1>5, <1>7, <1>8, <3>1
    <3> QED  BY <1>1, <1>7, <2>1, <3>1, <3>2 DEF IfaceLabelled, GetNetworkState
  <2>3. CASE carrier # netIf.carrier
    BY <1>7, <2>3 DEF IfaceLabelled
  <2> QED  BY <2>2, <2>3
<1>13. ASSUME ~netLostRemoval, WireTells, IfaceKnown, IfaceChosen PROVE IfaceKnown' /\ IfaceChosen'
  <2> PICK a : a = netIf.addr
    OBVIOUS
  <2> PICK p : p = netIf.metric
    OBVIOUS
  <2>1. netIf'.link = k /\ netIf'.addr = a /\ netIf'.metric = p /\ netIf'.carrier = carrier
    BY <1>7, <1>8
  <2>2. linkState' = linkState /\ netForgot \subseteq netForgot' /\ a \in Addr \cup {NoAddr}
    BY <1>1, <1>2, <1>7 DEF ReadsNet, netKernel, NetTypes
  <2>3. AddrKnown(k, a)'
    <3>1. Head(netWire) \notin AddrSays(k)
      BY <1>3 DEF AddrSays, LinkMsg
    <3> QED  BY <1>1, <1>5, <1>11, <1>13, <2>2, <3>1, AddrKept
  <2>4. /\ s = "carrier" /\ linkState[k] # "carrier" => NoCarrierComing(k)'
        /\ s # "carrier" /\ linkState[k] = "carrier" => AskedFor("link")' \/ Coming(LinkMsg(k, "carrier"))'
    BY <1>1, <1>3, <1>11, <1>13, StepTells
  <2>5. netIf'.carrier /\ k \in Wireless => netIf'.essid \/ netWake' \/ NoCarrierComing(k)'
    <3>1. SUFFICES ASSUME carrier, k \in Wireless PROVE netIf'.essid \/ netWake' \/ NoCarrierComing(k)'
      BY <2>1
    <3>2. CASE ~netIf.carrier
      BY <1>7, <3>1, <3>2
    <3>3. CASE netIf.carrier
      <4>1. netIf.essid \/ netWake \/ NoCarrierComing(k)
        BY <1>5, <1>9, <1>13, <3>1, <3>3 DEF IfaceKnown
      <4>2. NoCarrierComing(k) => NoCarrierComing(k)'
        <5>1. \A m : Coming(m) => Coming(m)' \/ (TRUE /\ m = Head(netWire))
          BY <1>1, <1>11, StepOfWire, Zenon
        <5>3. s = "carrier"
          BY <1>4, <3>1
        <5>2. \A t \in LinkStates \ {"carrier"} : Head(netWire) # LinkMsg(k, t)
          BY <1>3, <5>3, MessagesApart
        <5> QED  BY <5>1, <5>2 DEF NoCarrierComing
      <4> QED  BY <1>7, <1>8, <3>1, <4>1, <4>2
    <3> QED  BY <3>2, <3>3
  <2>6. IfaceKnown'
    BY <1>4, <2>1, <2>2, <2>3, <2>4, <2>5, KnownAfter
  <2>7. IfaceChosen'
    <3>1. Head(netWire) # LinkMsg(k, "gone") /\ (netByRoute => Head(netWire) \notin RouteEnds(k, p))
      BY <1>3, <1>5 DEF RouteEnds, Says, LinkMsg, RouteMsg
    <3>2. \A l, q : Head(netWire) # RouteMsg(l, q, TRUE)
      BY <1>3 DEF LinkMsg, RouteMsg
    <3> QED  BY <1>1, <1>5, <1>9, <1>11, <1>13, <2>1, <2>2, <3>1, <3>2, ChosenKept
  <2> QED  BY <2>6, <2>7
<1> QED  BY <1>11, <1>12, <1>13, NetInvNext

\* The addresses of a link that are not yet heard of are to come.
LEMMA HeardAddr ==
  ASSUME NetTypes, NEW l \in Link, netForgot' = {} => ~UnheardAddr(l), netWire' = Tail(netWire),
         netWants' = netWants, netOverrun' = netOverrun, linkAddrs' = linkAddrs
  PROVE  AddrKnown(l, NoAddr)'
<1>1. ASSUME netForgot' = {}, NEW b \in linkAddrs'[l]
      PROVE  AskedFor("addr")' \/ Coming(AddrMsg(l, b, TRUE))'
  <2>1. Awaited({AddrMsg(l, b, TRUE)}, "addr")
    BY <1>1 DEF UnheardAddr
  <2>2. netOverrun \/ "addr" \in netWants \/ AddrMsg(l, b, TRUE) \in ToSet(Tail(netWire))
    BY <2>1 DEF Awaited
  <2> QED  BY <2>2 DEF AskedFor, Coming
<1> QED  BY <1>1 DEF AddrKnown

LEMMA LinkSelectEventKeeps ==
  ASSUME NetInv, LinkSelectEvent
  PROVE  NetInv'
<1>1. NetTypes /\ IfaceLabelled
  BY DEF NetInv
<1>2. /\ ReadsNet("link") /\ netWire' = Tail(netWire) /\ netIf.link = NoLink
      /\ netWants' = netWants /\ netDump' = netDump /\ netDp' = netDp /\ netDue' = netDue
      /\ UNCHANGED <<netKernel, netOverrun, netLabel, netByRoute>>
  BY DEF LinkSelectEvent, ReadsNet
<1>3. PICK k \in Link, s \in LinkStates : Head(netWire) = LinkMsg(k, s)
                                          /\ Head(netWire).link = k /\ Head(netWire).state = s
  BY <1>1, <1>2, HeadOfKind, MessageOfKind
<1>4. s # "gone" /\ netDp' \in BOOLEAN /\ netDue' \in BOOLEAN
  BY <1>1, <1>2, <1>3 DEF LinkSelectEvent, NetTypes
<1>5. CASE ~MatchInterface(k)
  <2>1. netIf' = netIf /\ netWake' = netWake /\ netForgot' = netForgot
    BY <1>3, <1>5 DEF LinkSelectEvent
  <2>2. WireStep(TRUE, <<>>) /\ NetTypes'
    <3>1. netWake' \in BOOLEAN /\ netForgot' \subseteq {"address", "link", "unasked"}
      BY <1>1, <2>1 DEF NetTypes
    <3> QED  BY <1>1, <1>2, <1>4, <2>1, <3>1, IfaceFitsNow, PlainTypes
  <2>3. IfaceLabelled'
    BY <1>1, <1>2, <2>1, NewsLabelled DEF netKernel
  <2>4. IfaceKnown /\ IfaceChosen => IfaceKnown' /\ IfaceChosen'
    <3>1. ~netByRoute => \A l \in MatchingLinks, t \in LinkStates \ {"gone"} : Head(netWire) # LinkMsg(l, t)
      BY <1>3, <1>5 DEF MatchInterface, LinkMsg
    <3>2. \A l, q : Head(netWire) # RouteMsg(l, q, TRUE)
      BY <1>3 DEF LinkMsg, RouteMsg
    <3> QED  BY <1>1, <1>2, <2>1, <2>2, <3>1, <3>2, IfaceKept
  <2> QED  BY <2>2, <2>3, <2>4, NetInvNext
<1>6. CASE MatchInterface(k)
  <2>1. PICK carrier \in BOOLEAN : carrier = (s = "carrier")
    OBVIOUS
  <2>2. PICK i : i = [netIf EXCEPT !.link = k, !.carrier = carrier]
    OBVIOUS
  <2>3. /\ netIf' = i /\ netWake' = TRUE
        /\ netForgot' = IF UnheardAddr(k) THEN netForgot \cup {"unasked"} ELSE netForgot
    BY <1>3, <1>6, <2>1, <2>2 DEF LinkSelectEvent
  <2>4. /\ ~netByRoute /\ k \in MatchingLinks /\ k # NoLink
    BY <1>6, NetAssumption DEF MatchInterface, NetAssumption
  <2>5. /\ IfaceFits(i) /\ i.link = k /\ i.addr = NoAddr /\ i.carrier = carrier
    BY <1>1, <1>2, <2>2, <2>4 DEF NetTypes, IfaceFits
  <2>6. WireStep(TRUE, <<>>) /\ NetTypes'
    <3>1. netWake' \in BOOLEAN /\ netForgot' \subseteq {"address", "link", "unasked"}
      BY <1>1, <2>3 DEF NetTypes
    <3> QED  BY <1>1, <1>2, <1>4, <2>3, <2>5, <3>1, PlainTypes
  <2>7. IfaceLabelled'
    BY <2>3 DEF IfaceLabelled
  <2>8. ASSUME WireTells PROVE IfaceKnown' /\ IfaceChosen'
    <3>1. /\ s = "carrier" /\ linkState[k] # "carrier" => NoCarrierComing(k)'
          /\ s # "carrier" /\ linkState[k] = "carrier" => AskedFor("link")' \/ Coming(LinkMsg(k, "carrier"))'
          /\ linkState[k] = "gone" => Coming(LinkMsg(k, "gone"))'
      BY <1>1, <1>3, <1>4, <2>6, <2>8, StepTells
    <3>2. linkState' = linkState /\ linkAddrs' = linkAddrs /\ netByRoute' = netByRoute /\ netOverrun' = netOverrun
      BY <1>2 DEF netKernel
    <3>3. netIf'.link = k /\ netIf'.addr = NoAddr /\ netIf'.carrier = carrier /\ netWake'
      BY <2>3, <2>5
    <3>4. AddrKnown(k, NoAddr)'
      <4>1. netForgot' = {} => ~UnheardAddr(k)
        BY <2>3
      <4> QED  BY <1>1, <1>2, <3>2, <4>1, HeardAddr
    <3>5. IfaceKnown'
      BY <2>1, <3>1, <3>2, <3>3, <3>4, KnownAfter
    <3>6. IfaceChosen'
      BY <2>4, <3>1, <3>2, <3>3 DEF IfaceChosen
    <3> QED  BY <3>5, <3>6
  <2> QED  BY <2>6, <2>7, <2>8, NetInvNext
<1> QED  BY <1>5, <1>6

LEMMA LinkDeletedEventKeeps ==
  ASSUME NetInv, LinkDeletedEvent
  PROVE  NetInv'
<1>1. NetTypes
  BY DEF NetInv
<1>2. PICK i : i = ClearIface(netIf)
  OBVIOUS
<1>3. /\ ReadsNet("link") /\ netWire' = Tail(netWire) /\ netIf' = i /\ ~netByRoute /\ netDp' = TRUE
      /\ netWants' = netWants /\ netDump' = netDump /\ netWake' = netWake /\ netDue' = netDue
      /\ netOverrun' = netOverrun /\ netByRoute' = netByRoute /\ linkState' = linkState
  BY <1>2 DEF LinkDeletedEvent, ReadsNet, netKernel
<1>4. i.link = NoLink /\ IfaceFits(i)
  BY <1>1, <1>2, Cleared
<1>5. WireStep(TRUE, <<>>) /\ NetTypes'
  <2>1. /\ netWake' \in BOOLEAN /\ netDp' \in BOOLEAN /\ netDue' \in BOOLEAN
        /\ netForgot' \subseteq {"address", "link", "unasked"}
    BY <1>1, <1>3 DEF NetTypes, LinkDeletedEvent
  <2> QED  BY <1>1, <1>3, <1>4, <2>1, PlainTypes
<1>6. IfaceLabelled'
  BY <1>3 DEF IfaceLabelled
<1>7. IfaceKnown'
  BY <1>3, <1>4 DEF IfaceKnown
<1>8. IfaceChosen'
  <2>1. ASSUME netForgot' = {}, NEW l \in MatchingLinks, linkState'[l] # "gone"
        PROVE  AskedFor("link")' \/ \E s \in LinkStates \ {"gone"} : Coming(LinkMsg(l, s))'
    <3>1. Awaited({LinkMsg(l, s) : s \in {"down", "up", "carrier"}}, "link")
      BY <1>3, <2>1 DEF LinkDeletedEvent
    <3>2. netOverrun \/ "link" \in netWants
          \/ \E s \in {"down", "up", "carrier"} : LinkMsg(l, s) \in ToSet(Tail(netWire))
      BY <3>1 DEF Awaited
    <3> QED  BY <1>3, <3>2 DEF AskedFor, Coming, LinkStates
  <2> QED  BY <1>3, <1>4, <2>1 DEF IfaceChosen
<1> QED  BY <1>5, <1>6, <1>7, <1>8, NetInvNext

LEMMA AddrEventKeeps ==
  ASSUME NetInv, AddrEvent
  PROVE  NetInv'
<1>1. NetTypes /\ IfaceLabelled
  BY DEF NetInv
<1>2. /\ ReadsNet("addr") /\ netWire' = Tail(netWire)
      /\ netWants' = netWants /\ netDump' = netDump /\ netWake' = netWake /\ netDue' = netDue
      /\ UNCHANGED <<netKernel, netOverrun, netLabel, netByRoute>>
  BY DEF AddrEvent, ReadsNet
<1>3. PICK k \in Link, b \in Addr, add \in BOOLEAN :
        Head(netWire) = AddrMsg(k, b, add)
        /\ Head(netWire).link = k /\ Head(netWire).addr = b /\ Head(netWire).add = add
  BY <1>1, <1>2, HeadOfKind, MessageOfKind
<1>4. netWake' \in BOOLEAN /\ netDue' \in BOOLEAN
  BY <1>1, <1>2 DEF NetTypes
<1>5. /\ \A l, s : Head(netWire) # LinkMsg(l, s)
      /\ \A l, p, y : Head(netWire) # RouteMsg(l, p, y)
  BY <1>3 DEF LinkMsg, AddrMsg, RouteMsg
<1>6. CASE k # netIf.link
  <2>1. netIf' = netIf /\ netDp' = netDp /\ netForgot' = netForgot
    BY <1>3, <1>6 DEF AddrEvent
  <2>2. WireStep(TRUE, <<>>) /\ NetTypes'
    <3>1. netDp' \in BOOLEAN /\ netForgot' \subseteq {"address", "link", "unasked"}
      BY <1>1, <2>1 DEF NetTypes
    <3> QED  BY <1>1, <1>2, <1>4, <2>1, <3>1, IfaceFitsNow, PlainTypes
  <2>3. IfaceLabelled'
    BY <1>1, <1>2, <2>1, NewsLabelled DEF netKernel
  <2>4. IfaceKnown /\ IfaceChosen => IfaceKnown' /\ IfaceChosen'
    <3>1. Head(netWire) \notin AddrSays(netIf.link)
      BY <1>3, <1>6 DEF AddrSays
    <3> QED  BY <1>1, <1>2, <1>5, <2>1, <2>2, <3>1, IfaceKept
  <2> QED  BY <2>2, <2>3, <2>4, NetInvNext
<1>7. CASE k = netIf.link
  <2> PICK a : a = netIf.addr
    OBVIOUS
  <2> PICK p : p = netIf.metric
    OBVIOUS
  <2>1. PICK c : c = IF ~add THEN NoAddr ELSE IF a = NoAddr THEN b ELSE a
    OBVIOUS
  <2>2. PICK i : i = [netIf EXCEPT !.addr = c]
    OBVIOUS
  <2>3. /\ netIf' = i /\ netDp' = TRUE
        /\ netForgot' = IF ~add /\ UnheardAddr(k) THEN netForgot \cup {"address"} ELSE netForgot
    BY <1>3, <1>7, <2>1, <2>2 DEF AddrEvent
  <2>4. k # NoLink /\ a \in Addr \cup {NoAddr} /\ c \in Addr \cup {NoAddr} /\ NoAddr \notin Addr
    BY <1>1, <2>1, NetAssumption DEF NetAssumption, NetTypes
  <2>5. /\ IfaceFits(i) /\ i.link = k /\ i.addr = c /\ i.carrier = netIf.carrier /\ i.essid = netIf.essid
        /\ i.metric = p
    BY <1>1, <1>7, <2>2, <2>4 DEF NetTypes, IfaceFits
  <2>6. WireStep(TRUE, <<>>) /\ NetTypes'
    <3>1. netDp' \in BOOLEAN /\ netForgot' \subseteq {"address", "link", "unasked"}
      BY <1>1, <2>3 DEF NetTypes
    <3> QED  BY <1>1, <1>2, <1>4, <2>3, <2>5, <3>1, PlainTypes
  <2>7. IfaceLabelled'
    BY <2>3 DEF IfaceLabelled
  <2>8. ASSUME WireTells, IfaceKnown, IfaceChosen PROVE IfaceKnown' /\ IfaceChosen'
    <3>1. linkState' = linkState /\ linkAddrs' = linkAddrs /\ netByRoute' = netByRoute /\ netOverrun' = netOverrun
      BY <1>2 DEF netKernel
    <3>2. netIf'.link = k /\ netIf'.addr = c /\ netIf'.carrier = netIf.carrier /\ netIf'.essid = netIf.essid
          /\ netIf'.metric = p
      BY <2>3, <2>5
    <3>3. AddrKnown(k, c)'
      <4>1. CASE ~add
        <5>1. c = NoAddr /\ (netForgot' = {} => ~UnheardAddr(k))
          BY <2>1, <2>3, <4>1
        <5>2. AddrKnown(k, NoAddr)'
          BY <1>1, <1>2, <3>1, <5>1, HeardAddr
        <5> QED  BY <5>1, <5>2
      <4>2. CASE add
        <5>1. add = TRUE /\ c \in Addr /\ c # NoAddr
          BY <2>1, <2>4, <4>2
        <5>2. c \in linkAddrs[k] \/ Coming(AddrMsg(k, c, FALSE))'
          <6>1. CASE a = NoAddr
            <7>1. c = b
              BY <2>1, <4>2, <6>1
            <7>2. Head(netWire) = AddrMsg(k, c, TRUE)
              BY <1>3, <5>1, <7>1
            <7> QED  BY <1>1, <2>6, <2>8, <5>1, <7>2, StepTells
          <6>2. CASE a # NoAddr
            <7>1. c = a
              BY <2>1, <4>2, <6>2
            <7>2. c \in linkAddrs[k] \/ Coming(AddrMsg(k, c, FALSE))
              BY <1>7, <2>4, <2>8, <6>2, <7>1 DEF IfaceKnown
            <7>3. \A m : Coming(m) => Coming(m)' \/ (TRUE /\ m = Head(netWire))
              BY <1>1, <2>6, StepOfWire, Zenon
            <7>4. Head(netWire) # AddrMsg(k, c, FALSE)
              <8>1. Head(netWire).add = TRUE
                BY <1>3, <5>1
              <8>2. AddrMsg(k, c, FALSE).add = FALSE
                BY DEF AddrMsg
              <8> QED  BY <8>1, <8>2
            <7> QED  BY <7>2, <7>3, <7>4
          <6> QED  BY <6>1, <6>2
        <5> QED  BY <3>1, <5>1, <5>2 DEF AddrKnown
      <4> QED  BY <4>1, <4>2
    <3>4. /\ netIf.carrier /\ linkState'[k] # "carrier" => NoCarrierComing(k)'
          /\ ~netIf.carrier /\ linkState'[k] = "carrier" => AskedFor("link")' \/ Coming(LinkMsg(k, "carrier"))'
          /\ netIf.carrier /\ k \in Wireless => netIf.essid \/ netWake \/ NoCarrierComing(k)'
      BY <1>1, <1>5, <1>7, <2>6, <2>8, CarrierKept
    <3>5. IfaceKnown'
      BY <1>2, <3>2, <3>3, <3>4, KnownAfter
    <3>6. IfaceChosen'
      <4>1. Head(netWire) \notin RouteEnds(k, p)
        BY <1>5 DEF RouteEnds, Says
      <4>2. netForgot \subseteq netForgot'
        BY <2>3
      <4> QED  BY <1>1, <1>5, <1>7, <2>4, <2>6, <2>8, <3>2, <4>1, <4>2, ChosenKept
    <3> QED  BY <3>5, <3>6
  <2> QED  BY <2>6, <2>7, <2>8, NetInvNext
<1> QED  BY <1>6, <1>7

LEMMA RouteEventKeeps ==
  ASSUME NetInv, RouteEvent
  PROVE  NetInv'
<1>1. NetTypes /\ IfaceLabelled
  BY DEF NetInv
<1>2. /\ RouteEventOf(TRUE) /\ ReadsNet("route") /\ netWire # <<>> /\ netDue' = netDue /\ netForgot' = netForgot
      /\ UNCHANGED <<netKernel, netOverrun, netLabel, netByRoute, netLostRemoval>>
  BY DEF RouteEvent, RouteEventOf, ReadsNet
<1>3. PICK k \in Link, p \in Metric, add \in BOOLEAN :
        Head(netWire) = RouteMsg(k, p, add)
        /\ Head(netWire).link = k /\ Head(netWire).metric = p /\ Head(netWire).add = add
  BY <1>1, <1>2, HeadOfKind, MessageOfKind
<1>4. netByRoute
  <2>1. netWire \in Seq(NetMessages)
    BY <1>1 DEF NetTypes
  <2>2. Head(netWire) \in ToSet(netWire)
    BY <1>2, <2>1 DEF ToSet
  <2> QED  BY <1>1, <1>3, <2>2 DEF NetTypes, Coming
<1>5. /\ netDue' \in BOOLEAN /\ netForgot' \subseteq {"address", "link", "unasked"} /\ netOverrun' \in BOOLEAN
      /\ netWake \in BOOLEAN /\ netDp \in BOOLEAN
  BY <1>1, <1>2 DEF NetTypes
<1> PICK r : r = netIf.link
  OBVIOUS
<1> PICK q : q = netIf.metric
  OBVIOUS
<1>6. PICK busy \in BOOLEAN : busy = netDump
  BY <1>1 DEF NetTypes
<1>7. p \in Nat /\ q \in Nat /\ k # NoLink /\ Metric \subseteq Nat
  BY <1>1, NetAssumption DEF NetTypes, NetAssumption
<1>8. /\ \A l, s : Head(netWire) # LinkMsg(l, s)
      /\ \A l : Head(netWire) \notin AddrSays(l)
  BY <1>3 DEF LinkMsg, RouteMsg, AddrSays
<1>9. netWire \in Seq(NetMessages) /\ Tail(netWire) \in Seq(NetMessages)
  BY <1>1, <1>2 DEF NetTypes
<1>10. CASE add /\ (r = NoLink \/ p < q)
  <2>1. PICK wants : wants = netWants \cup {"addr"}
    OBVIOUS
  <2>2. wants \in SUBSET NetKinds /\ netWants \subseteq wants /\ ("route" \in wants => netByRoute)
    BY <1>1, <1>4, <2>1 DEF NetTypes, NetKinds
  <2>3. PICK y : y = IF linkState[k] = "gone" THEN <<>> ELSE <<LinkMsg(k, linkState[k])>>
    OBVIOUS
  <2>4. y \in Seq(NetMessages) /\ ToSet(y) \subseteq NetTruths
        /\ (linkState[k] # "gone" => LinkMsg(k, linkState[k]) \in ToSet(y))
        /\ \A l \in Link, m \in Metric, x \in BOOLEAN : RouteMsg(l, m, x) \notin ToSet(y)
    <3>1. linkState[k] \in LinkStates
      BY <1>1 DEF NetTypes
    <3>2. CASE linkState[k] = "gone"
      <4>1. y \in Seq(NetMessages) /\ ToSet(y) = {}
        BY <2>3, <3>2 DEF ToSet
      <4> QED  BY <3>2, <4>1
    <3>3. CASE linkState[k] # "gone"
      <4>1. PICK m \in NetMessages : m = LinkMsg(k, linkState[k])
        BY <3>1, MessagesThere
      <4>2. y = <<m>>
        BY <2>3, <3>3, <4>1
      <4>3. y \in Seq(NetMessages) /\ ToSet(y) = {m}
        BY <4>2 DEF ToSet
      <4>4. m \in NetTruths
        BY <1>1, <3>1, <3>3, <4>1, TruthsAre
      <4>5. \A l \in Link, n \in Metric, x \in BOOLEAN : RouteMsg(l, n, x) # m
        BY <4>1 DEF LinkMsg, RouteMsg
      <4> QED  BY <4>1, <4>3, <4>4, <4>5
    <3> QED  BY <3>2, <3>3
  <2>5. PICK i : i = [ClearIface(netIf) EXCEPT !.link = k, !.metric = p]
    OBVIOUS
  <2>6. netIf' = i /\ netWake' = TRUE /\ netDp' = netDp /\ AskForStateDump(wants, busy, Tail(netWire) \o y)
    BY <1>2, <1>3, <1>6, <1>10, <2>1, <2>3, <2>5 DEF RouteEventOf
  <2>7. IfaceFits(i) /\ i.link = k /\ i.metric = p /\ i.addr = NoAddr /\ i.carrier = FALSE
    BY <1>1, <1>4, <1>7, <2>5 DEF NetTypes, IfaceFits, ClearIface
  <2>8. AskForStateDump(wants, busy, Unread(TRUE) \o y)
    BY <2>6 DEF Unread
  <2>9. PICK x : /\ WireStep(TRUE, x)
                 /\ \A f \in wants : f \in netWants' \/ \A m \in Dumped(f) : Coming(m)'
                 /\ \A m \in ToSet(y) : Coming(m)'
                 /\ netWants' \subseteq wants /\ netDump' \in BOOLEAN /\ (~netDump' => netWants' = {})
                 /\ ~netByRoute => \A l \in Link, m \in Metric, z \in BOOLEAN : RouteMsg(l, m, z) \notin ToSet(x)
    <3>1. PICK x : Served(wants, TRUE, x) /\ \A m \in ToSet(y) : Coming(m)'
      BY <1>1, <1>2, <2>2, <2>4, <2>8, AskingStep
    <3> QED  BY <3>1 DEF Served
  <2>10. NetTypes'
    <3>1. netWants' \subseteq NetKinds /\ netWake' \in BOOLEAN /\ netDp' \in BOOLEAN
      BY <1>5, <2>2, <2>6, <2>9
    <3> QED  BY <1>1, <1>4, <1>5, <2>6, <2>7, <2>9, <3>1, StepTypes
  <2>11. IfaceLabelled'
    BY <2>6 DEF IfaceLabelled
  <2>12. ASSUME WireTells, IfaceChosen PROVE IfaceKnown' /\ IfaceChosen'
    <3>1. netIf'.link = k /\ netIf'.metric = p /\ netIf'.addr = NoAddr /\ ~netIf'.carrier
      BY <2>6, <2>7
    <3>2. linkState' = linkState /\ linkAddrs' = linkAddrs /\ linkRoutes' = linkRoutes /\ netByRoute' = netByRoute
      BY <1>2 DEF netKernel
    <3>3. AddrKnown(k, NoAddr)'
      <4>1. ASSUME NEW b \in linkAddrs'[k] PROVE AskedFor("addr")' \/ Coming(AddrMsg(k, b, TRUE))'
        <5>1. AddrMsg(k, b, TRUE) \in Dumped("addr")
          BY <1>1, <3>2, <4>1, TruthsAre
        <5>2. "addr" \in netWants' \/ \A m \in Dumped("addr") : Coming(m)'
          BY <2>1, <2>9
        <5> QED  BY <5>1, <5>2 DEF AskedFor
      <4> QED  BY <4>1 DEF AddrKnown
    <3>4. linkState'[k] = "carrier" => Coming(LinkMsg(k, "carrier"))'
      BY <2>4, <2>9, <3>2
    <3>5. IfaceKnown'
      BY <3>1, <3>3, <3>4, KnownAfter
    <3>6. p \in linkRoutes'[k] \/ RouteEndComing(k, p)'
      <4>1. Head(netWire) = RouteMsg(k, p, TRUE)
        BY <1>3, <1>10
      <4> QED  BY <1>1, <2>9, <2>12, <3>2, <4>1, StepTells
    <3>7. ASSUME NEW l \in Link, NEW n \in linkRoutes'[l]
          PROVE  p <= n \/ AskedFor("route")' \/ Coming(RouteMsg(l, n, TRUE))'
      <4>1. n \in linkRoutes[l] /\ n \in Metric /\ n \in Nat
        BY <1>1, <1>7, <3>2, <3>7 DEF NetTypes
      <4>2. (r # NoLink /\ q <= n) \/ AskedFor("route") \/ Coming(RouteMsg(l, n, TRUE))
        BY <1>4, <2>12, <4>1 DEF IfaceChosen
      <4>3. CASE r # NoLink /\ q <= n
        <5>1. p < q
          BY <1>10, <4>3
        <5>2. p <= n
          BY <1>7, <4>1, <4>3, <5>1
        <5> QED  BY <5>2
      <4>4. CASE AskedFor("route")
        <5>1. AskedFor("route")' \/ \A m \in Dumped("route") : Coming(m)'
          BY <1>1, <1>4, <2>9, <4>4, StepOfWire DEF AllDumps
        <5>2. RouteMsg(l, n, TRUE) \in Dumped("route")
          BY <1>1, <4>1, TruthsAre
        <5> QED  BY <5>1, <5>2
      <4>5. CASE Coming(RouteMsg(l, n, TRUE))
        <5>3. \A m : Coming(m) => Coming(m)' \/ (TRUE /\ m = Head(netWire))
          BY <1>1, <2>9, StepOfWire, Zenon
        <5>1. Coming(RouteMsg(l, n, TRUE))' \/ RouteMsg(l, n, TRUE) = Head(netWire)
          BY <4>5, <5>3
        <5>2. CASE RouteMsg(l, n, TRUE) = Head(netWire)
          <6>1. n = p
            BY <1>3, <5>2 DEF RouteMsg
          <6>2. p <= n
            BY <1>7, <6>1
          <6> QED  BY <6>2
        <5> QED  BY <5>1, <5>2
      <4> QED  BY <4>2, <4>3, <4>4, <4>5
    <3>8. IfaceChosen'
      <4>1. netByRoute'
        BY <1>4, <3>2
      <4>2. \A l \in Link : \A n \in linkRoutes'[l] :
              (k # NoLink /\ p <= n) \/ AskedFor("route")' \/ Coming(RouteMsg(l, n, TRUE))'
        BY <1>7, <3>7
      <4> QED  BY <1>7, <3>1, <3>6, <4>1, <4>2 DEF IfaceChosen
    <3> QED  BY <3>5, <3>8
  <2> QED  BY <2>9, <2>10, <2>11, <2>12, NetInvNext
<1>11. CASE ~add /\ k = r /\ p = q
  <2>1. PICK wants : wants = netWants \cup {"route"}
    OBVIOUS
  <2>2. wants \in SUBSET NetKinds /\ netWants \subseteq wants /\ ("route" \in wants => netByRoute)
    BY <1>1, <1>4, <2>1 DEF NetTypes, NetKinds
  <2>3. PICK wire : wire = Unread(TRUE) /\ wire = Tail(netWire)
    BY DEF Unread
  <2>4. PICK i : i = ClearIface(netIf)
    OBVIOUS
  <2>5. AskForStateDump(wants, busy, wire) /\ netIf' = i /\ netWake' = netWake /\ netDp' = TRUE
    BY <1>2, <1>3, <1>6, <1>11, <2>1, <2>3, <2>4 DEF RouteEventOf
  <2>6. PICK x : /\ WireStep(TRUE, x)
                 /\ \A f \in wants : f \in netWants' \/ \A m \in Dumped(f) : Coming(m)'
                 /\ netWants' \subseteq wants /\ netDump' \in BOOLEAN /\ (~netDump' => netWants' = {})
                 /\ ~netByRoute => \A l \in Link, m \in Metric, z \in BOOLEAN : RouteMsg(l, m, z) \notin ToSet(x)
    <3>1. PICK x : Served(wants, TRUE, x)
      BY <1>1, <1>2, <2>2, <2>3, <2>5, AskingAlone
    <3> QED  BY <3>1 DEF Served
  <2>7. i.link = NoLink /\ IfaceFits(i)
    BY <1>1, <2>4, Cleared
  <2>8. NetTypes'
    <3>1. netWants' \subseteq NetKinds /\ netWake' \in BOOLEAN /\ netDp' \in BOOLEAN
      BY <1>5, <2>2, <2>5, <2>6
    <3> QED  BY <1>1, <1>4, <1>5, <2>5, <2>6, <2>7, <3>1, StepTypes
  <2>9. IfaceLabelled'
    BY <2>5 DEF IfaceLabelled
  <2>10. IfaceKnown' /\ IfaceChosen'
    <3>1. "route" \in netWants' \/ \A m \in Dumped("route") : Coming(m)'
      BY <2>1, <2>6
    <3> QED  BY <1>1, <1>4, <2>5, <2>6, <2>7, <3>1, RouteLost
  <2> QED  BY <2>6, <2>8, <2>9, <2>10, NetInvNext
<1>12. CASE ~(add /\ (r = NoLink \/ p < q)) /\ ~(~add /\ k = r /\ p = q)
  <2>1. netIf' = netIf /\ netWire' = Tail(netWire) /\ netWants' = netWants /\ netDump' = netDump
        /\ netWake' = netWake /\ netDp' = netDp
    BY <1>2, <1>3, <1>12 DEF RouteEventOf
  <2>2. WireStep(TRUE, <<>>) /\ NetTypes'
    BY <1>1, <1>2, <1>5, <2>1, IfaceFitsNow, PlainTypes
  <2>3. IfaceLabelled'
    BY <1>1, <1>2, <2>1, NewsLabelled DEF netKernel
  <2>4. IfaceKnown /\ IfaceChosen => IfaceKnown' /\ IfaceChosen'
    <3>1. Head(netWire) # RouteMsg(r, q, FALSE)
      BY <1>3, <1>12 DEF RouteMsg
    <3>2. \A l \in Link, n \in Metric : Head(netWire) = RouteMsg(l, n, TRUE) => r # NoLink /\ q <= n
      <4> SUFFICES ASSUME NEW l \in Link, NEW n \in Metric, Head(netWire) = RouteMsg(l, n, TRUE)
                   PROVE  r # NoLink /\ q <= n
        OBVIOUS
      <4>1. n = p /\ add
        BY <1>3 DEF RouteMsg
      <4> QED  BY <1>7, <1>12, <4>1
    <3> QED  BY <1>1, <1>2, <1>4, <1>8, <2>1, <2>2, <3>1, <3>2, IfaceKept
  <2> QED  BY <2>2, <2>3, <2>4, NetInvNext
<1> QED  BY <1>10, <1>11, <1>12

-----------------------------------------------------------------------------
\* What was asked for first is the truth.
LEMMA NetInitInv == NetInit => NetInv
<1> SUFFICES ASSUME NetInit PROVE NetInv
  OBVIOUS
<1>1. KernelTypes
  <2>1. (CHOOSE a \in Addr : TRUE) \in Addr
    BY NetAssumption DEF NetAssumption
  <2> QED  BY <2>1 DEF NetInit, KernelTypes, LinkStates
<1>2. PICK kind \in NetKinds : kind = IF netByRoute THEN "route" ELSE "link"
  BY DEF NetKinds
<1>3. netWire = DumpOf(kind) /\ netByRoute \in BOOLEAN
  BY <1>2 DEF NetInit
<1>4. netWire \in Seq(NetMessages) /\ \A m : Coming(m) <=> m \in Dumped(kind) \cup {[kind |-> "done"]}
  <2>1. DumpOf(kind) \in Seq(NetMessages) /\ ToSet(DumpOf(kind)) = Dumped(kind) \cup {[kind |-> "done"]}
    BY <1>1, DumpOfKernel
  <2> QED  BY <1>3, <2>1 DEF Coming
<1>5. ~netByRoute => \A l \in Link, p \in Metric, add \in BOOLEAN : ~Coming(RouteMsg(l, p, add))
  <2> SUFFICES ASSUME ~netByRoute, NEW l \in Link, NEW p \in Metric, NEW add \in BOOLEAN
               PROVE  ~Coming(RouteMsg(l, p, add))
    OBVIOUS
  <2>1. RouteMsg(l, p, add) \notin Dumped("link")
    BY <1>1, TruthsOfKernel
  <2>2. RouteMsg(l, p, add) # [kind |-> "done"]
    BY DEF RouteMsg
  <2> QED  BY <1>2, <1>4, <2>1, <2>2
<1>6. netIf = [link |-> NoLink, addr |-> NoAddr, carrier |-> FALSE, essid |-> FALSE, metric |-> 0]
  BY DEF NetInit
<1>7. NetTypes
  <2>1. /\ rfkillOn \in BOOLEAN /\ netNews \in 0..MaxNetNews /\ netDrops \in 0..MaxNetDrops
        /\ netOverrun \in BOOLEAN /\ netDump \in BOOLEAN /\ netWake \in BOOLEAN /\ netDp \in BOOLEAN
        /\ netDue \in BOOLEAN /\ netLostRemoval \in BOOLEAN /\ netForgot \subseteq {"address", "link", "unasked"}
    <3>1. /\ rfkillOn = FALSE /\ netNews = 0 /\ netDrops = 0 /\ netOverrun = FALSE /\ netDump = TRUE
          /\ netWake = TRUE /\ netDp = FALSE /\ netDue = FALSE /\ netLostRemoval = FALSE /\ netForgot = {}
      BY DEF NetInit
    <3>2. MaxNetNews \in Nat /\ MaxNetDrops \in Nat
      BY NetAssumption DEF NetAssumption
    <3>3. 0 \in 0..MaxNetNews /\ 0 \in 0..MaxNetDrops
      BY <3>2
    <3>4. netForgot \subseteq {"address", "link", "unasked"}
      BY <3>1
    <3> QED  BY <3>1, <3>3, <3>4, Zenon
  <2>2. /\ netWants \subseteq NetKinds /\ (~netDump => netWants = {}) /\ (~netByRoute => "route" \notin netWants)
    BY DEF NetInit, NetKinds
  <2>3. /\ netIf \in [link : Link \cup {NoLink}, addr : Addr \cup {NoAddr}, carrier : BOOLEAN, essid : BOOLEAN,
                      metric : Nat]
        /\ (netIf.link = NoLink => netIf.addr = NoAddr /\ ~netIf.carrier /\ ~netIf.essid)
        /\ ~netIf.essid /\ netIf.link = NoLink
    BY <1>6
  <2> QED  BY <1>1, <1>3, <1>4, <1>5, <2>1, <2>2, <2>3 DEF NetTypes, KernelTypes
<1>8. IfaceLabelled
  BY DEF NetInit, IfaceLabelled
<1>9. WireTells
  <2>1. \A m \in ToSet(netWire) : m \in NetTruths
    <3>1. Dumped(kind) \subseteq NetTruths /\ [kind |-> "done"] \in NetTruths
      BY <1>7, TruthsAre
    <3> QED  BY <1>4, <3>1 DEF Coming
  <2>2. ASSUME NEW before, NEW after, \A m \in NetTruths : m \notin before PROVE Follows(netWire, before, after)
    BY <1>4, <2>1, <2>2 DEF Follows, ToSet
  <2> SUFFICES ASSUME NEW l \in Link
               PROVE  /\ \A a \in Addr \ linkAddrs[l] : Follows(netWire, {AddrMsg(l, a, TRUE)}, {AddrMsg(l, a, FALSE)})
                      /\ \A p \in Metric \ linkRoutes[l] : Follows(netWire, {RouteMsg(l, p, TRUE)}, RouteEnds(l, p))
                      /\ linkState[l] = "gone" => Follows(netWire, Says(l, LinkStates \ {"gone"}), Says(l, {"gone"}))
                      /\ linkState[l] # "carrier" =>
                           Follows(netWire, Says(l, {"carrier"}), Says(l, LinkStates \ {"carrier"}))
                      /\ linkState[l] = "carrier" =>
                           AskedFor("link") \/ Follows(netWire, Says(l, LinkStates \ {"carrier"}), Says(l, {"carrier"}))
    BY DEF WireTells
  <2>3. \A a \in Addr \ linkAddrs[l] : AddrMsg(l, a, TRUE) \notin NetTruths
    BY <1>7, TruthsAre
  <2>4. \A p \in Metric \ linkRoutes[l] : RouteMsg(l, p, TRUE) \notin NetTruths
    BY <1>7, TruthsAre
  <2>5. \A s \in LinkStates : LinkMsg(l, s) \in NetTruths => s = linkState[l] /\ s # "gone"
    BY <1>7, TruthsAre
  <2>6. /\ linkState[l] = "gone" => \A m \in NetTruths : m \notin Says(l, LinkStates \ {"gone"})
        /\ linkState[l] # "carrier" => \A m \in NetTruths : m \notin Says(l, {"carrier"})
        /\ linkState[l] = "carrier" => \A m \in NetTruths : m \notin Says(l, LinkStates \ {"carrier"})
    BY <2>5 DEF Says, LinkStates
  <2>7. \A a \in Addr \ linkAddrs[l] : Follows(netWire, {AddrMsg(l, a, TRUE)}, {AddrMsg(l, a, FALSE)})
    BY <2>2, <2>3
  <2>8. \A p \in Metric \ linkRoutes[l] : Follows(netWire, {RouteMsg(l, p, TRUE)}, RouteEnds(l, p))
    BY <2>2, <2>4
  <2>9. linkState[l] = "gone" => Follows(netWire, Says(l, LinkStates \ {"gone"}), Says(l, {"gone"}))
    BY <2>2, <2>6
  <2>10. linkState[l] # "carrier" => Follows(netWire, Says(l, {"carrier"}), Says(l, LinkStates \ {"carrier"}))
    BY <2>2, <2>6
  <2>11. linkState[l] = "carrier" => Follows(netWire, Says(l, LinkStates \ {"carrier"}), Says(l, {"carrier"}))
    BY <2>2, <2>6
  <2> QED  BY <2>7, <2>8, <2>9, <2>10, <2>11
<1>10. IfaceKnown
  BY <1>6 DEF IfaceKnown
<1>11. IfaceChosen
  <2>1. ASSUME ~netByRoute, NEW l \in MatchingLinks, linkState[l] # "gone"
        PROVE  \E s \in LinkStates \ {"gone"} : Coming(LinkMsg(l, s))
    <3>1. l \in Link
      BY NetAssumption DEF NetAssumption
    <3>2. LinkMsg(l, linkState[l]) \in Dumped("link") /\ linkState[l] \in LinkStates
      BY <1>1, <2>1, <3>1, TruthsOfKernel DEF KernelTypes
    <3> QED  BY <1>2, <1>4, <2>1, <3>2
  <2>2. ASSUME netByRoute, NEW l \in Link, NEW p \in linkRoutes[l] PROVE Coming(RouteMsg(l, p, TRUE))
    <3>1. RouteMsg(l, p, TRUE) \in Dumped("route")
      BY <1>1, <2>2, TruthsOfKernel
    <3> QED  BY <1>2, <1>4, <2>2, <3>1
  <2> QED  BY <1>6, <2>1, <2>2 DEF IfaceChosen
<1> QED  BY <1>7, <1>8, <1>9, <1>10, <1>11 DEF NetInv

LEMMA NetStays == NetInv /\ [NetNext]_netVars => NetInv'
<1> SUFFICES ASSUME NetInv, [NetNext]_netVars PROVE NetInv'
  OBVIOUS
<1>1. ASSUME NEW l \in Link, NEW s \in {"gone", "down", "up", "carrier"}, LinkChanges(l, s) PROVE NetInv'
  BY <1>1, LinkChangesKeeps DEF LinkStates
<1>2. ASSUME NEW l \in Link, NEW a \in Addr, AddrChanges(l, a) PROVE NetInv'
  BY <1>2, AddrChangesKeeps
<1>3. ASSUME NEW l \in Link, NEW p \in Metric, RouteChanges(l, p) PROVE NetInv'
  BY <1>3, RouteChangesKeeps
<1>4. CASE RfkillChanges
  BY <1>4, RfkillChangesKeeps
<1>5. CASE Resync \/ HandleEventsDone
  BY <1>5, ResyncKeeps, HandleEventsDoneKeeps
<1>6. CASE LinkDownEvent \/ LinkUpdateEvent \/ LinkSelectEvent \/ LinkDeletedEvent \/ OtherLinkEvent
  BY <1>6, LinkDownEventKeeps, LinkUpdateEventKeeps, LinkSelectEventKeeps, LinkDeletedEventKeeps, OtherLinkEventKeeps
<1>7. CASE AddrEvent \/ RouteEvent
  BY <1>7, AddrEventKeeps, RouteEventKeeps
<1>8. CASE TimerRuns \/ NetUpdate
  BY <1>8, TimerRunsKeeps, NetUpdateKeeps
<1>9. CASE UNCHANGED netVars
  <2>1. NetTypes /\ IfaceLabelled
    BY DEF NetInv
  <2>2. WireStep(FALSE, <<>>)
    BY <1>9, <2>1, IdleStep DEF netVars, netModel
  <2>3. NetTypes'
    BY <1>9, <2>1 DEF netVars, netKernel, netModel, NetTypes, Coming
  <2>4. IfaceLabelled'
    BY <1>9, <2>1, NewsLabelled DEF netVars, netKernel, netModel
  <2>5. IfaceKnown /\ IfaceChosen => IfaceKnown' /\ IfaceChosen'
    <3>1. netIf' = netIf /\ netForgot \subseteq netForgot' /\ (netWake => netWake')
      BY <1>9 DEF netVars, netModel
    <3> QED  BY <2>1, <2>2, <3>1, IfaceKept
  <2> QED  BY <2>2, <2>3, <2>4, <2>5, NetInvNext
<1> QED  BY <1>1, <1>2, <1>3, <1>4, <1>5, <1>6, <1>7, <1>8, <1>9 DEF NetNext

LEMMA NetInvAgrees == NetInv => NetAgrees
<1> SUFFICES ASSUME NetInv, NetQuiet, ~netLostRemoval, netForgot = {} PROVE NetFaithful
  BY DEF NetAgrees
<1>1. NetTypes /\ IfaceLabelled /\ IfaceKnown /\ IfaceChosen
  BY DEF NetInv
<1>2. (\A m : ~Coming(m)) /\ \A k : ~AskedFor(k)
  <2>1. netWants = {} /\ ~netOverrun /\ netWire = <<>>
    BY <1>1 DEF NetQuiet, NetTypes
  <2> QED  BY <2>1 DEF Coming, AskedFor, ToSet
<1>3. ~NoCarrierComing(netIf.link) /\ ~RouteEndComing(netIf.link, netIf.metric)
  BY <1>2 DEF NoCarrierComing, RouteEndComing
<1>4. netLabel = [state |-> GetNetworkState(netIf, netIf.link \in Wireless), addr |-> netIf.addr]
  BY <1>1 DEF IfaceLabelled, NetQuiet
<1>5. netLabel.addr = netIf.addr /\ netLabel.state = GetNetworkState(netIf, netIf.link \in Wireless)
  BY <1>4
<1>6. CASE netIf.link = NoLink
  <2>1. netLabel.addr = NoAddr
    BY <1>1, <1>5, <1>6 DEF NetTypes
  <2>2. ASSUME NEW l \in Link, netByRoute PROVE linkRoutes[l] = {}
    BY <1>1, <1>2, <1>6, <2>2 DEF IfaceChosen
  <2>3. ASSUME NEW l \in Link, ~netByRoute PROVE l \notin MatchingLinks \/ linkState[l] = "gone"
    BY <1>1, <1>2, <1>6, <2>3 DEF IfaceChosen
  <2> QED  BY <1>6, <2>1, <2>2, <2>3 DEF NetFaithful
<1>7. CASE netIf.link # NoLink
  <2> PICK k \in Link : k = netIf.link
    BY <1>1, <1>7 DEF NetTypes
  <2>1. netByRoute => BestRoute(k)
    BY <1>1, <1>2, <1>3, <1>7 DEF IfaceChosen, BestRoute
  <2>2. ~netByRoute => linkState[k] # "gone"
    BY <1>1, <1>2, <1>7 DEF IfaceChosen
  <2>3. /\ netIf.addr # NoAddr => netIf.addr \in linkAddrs[k]
        /\ netIf.addr = NoAddr => linkAddrs[k] = {}
        /\ netIf.carrier => linkState[k] = "carrier"
        /\ linkState[k] = "carrier" => netIf.carrier
        /\ netIf.carrier /\ k \in Wireless => netIf.essid
    BY <1>1, <1>2, <1>3, <1>7 DEF IfaceKnown, NetQuiet
  <2>4. netIf.essid => k \in Wireless
    BY <1>1 DEF NetTypes
  <2>5. netLabel = NetShown(k)
    <3>1. PICK i : i = [link |-> k, carrier |-> linkState[k] = "carrier", addr |-> netLabel.addr, essid |-> Associated(k)]
      OBVIOUS
    <3>2. i.link = k /\ (i.carrier <=> netIf.carrier) /\ i.addr = netIf.addr /\ (netIf.carrier => (i.essid <=> netIf.essid))
      BY <1>5, <2>3, <2>4, <3>1 DEF Associated
    <3>3. GetNetworkState(i, k \in Wireless) = GetNetworkState(netIf, netIf.link \in Wireless)
      BY <3>2 DEF GetNetworkState
    <3> QED  BY <1>4, <1>5, <3>1, <3>3 DEF NetShown
  <2>6. IF linkAddrs[k] = {} THEN netLabel.addr = NoAddr ELSE netLabel.addr \in linkAddrs[k]
    BY <1>5, <2>3
  <2> QED  BY <1>7, <2>1, <2>2, <2>5, <2>6 DEF NetFaithful
<1> QED  BY <1>6, <1>7

LEMMA NetInvariant == NetSpec => []NetInv
<1>1. NetInit => NetInv
  BY NetInitInv
<1>2. NetInv /\ [NetNext]_netVars => NetInv'
  BY NetStays
<1> QED  BY <1>1, <1>2, PTL DEF NetSpec

\* However messages, dumps, overruns that lost no removal and the timer are ordered, at rest the label
\* shows the interface of the best default route, or one that matches, with an address it has and its
\* state, but for what the module does not ask for (network.cpp:246-318, 587-963).
THEOREM NetIsShown == NetSpec => []NetAgrees
<1>1. NetInv => NetAgrees
  BY NetInvAgrees
<1> QED  BY <1>1, NetInvariant, PTL

\* Each step of all is a step of the interface's module or leaves it alone.
LEMMA StepsOfNetwork == Next => [NetNext]_netVars
<1> SUFFICES ASSUME Next PROVE NetNext \/ UNCHANGED netVars
  OBVIOUS
<1>1. CASE InNetworkStep
  BY <1>1 DEF InNetworkStep, InNetwork, NetNext
<1>2. CASE InWireplumberStep
  BY <1>2 DEF InWireplumberStep, InWireplumber
<1>3. CASE InAudioStep
  BY <1>3 DEF InAudioStep, InAudio
<1>4. CASE InMprisStep
  BY <1>4 DEF InMprisStep, InMpris
<1>5. CASE InBluetoothStep
  BY <1>5 DEF InBluetoothStep, InBluetooth
<1> QED  BY <1>1, <1>2, <1>3, <1>4, <1>5 DEF Next

\* The interface that is shown, among the other modules (network.cpp).
THEOREM NetAlwaysAgrees == Spec => []NetAgrees
<1>1. Init => NetInit
  BY DEF Init
<1>2. [Next]_<<part, netVars, wpVars, paVars, mprisVars, btVars>> => [NetNext]_netVars
  <2>1. Next => [NetNext]_netVars
    BY StepsOfNetwork
  <2>2. UNCHANGED <<part, netVars, wpVars, paVars, mprisVars, btVars>> => UNCHANGED netVars
    OBVIOUS
  <2> QED  BY <2>1, <2>2
<1>3. Spec => NetSpec
  BY <1>1, <1>2, PTL DEF Spec, NetSpec
<1> QED  BY <1>3, NetIsShown, PTL

-----------------------------------------------------------------------------
(* The types of all of them.                                                  *)

LEMMA WpTyped == WpSpec => []WpTypeOK
<1> DEFINE Budget == wpGen \in 1..MaxWpGen /\ wpNews \in 0..MaxWpNews /\ wpTouched \in BOOLEAN
<1> USE WpAssumption DEF WpAssumption
<1>1. WpInit => Budget
  <2>1. WpInit => wpGen = 1 /\ wpNews = 0
    BY DEF WpInit
  <2>2. WpInit => wpTouched \in BOOLEAN
    BY Zenon DEF WpInit
  <2> QED  BY <2>1, <2>2
<1>2. Budget /\ [WpNext]_wpVars => Budget'
  <2> SUFFICES ASSUME Budget, [WpNext]_wpVars PROVE Budget'
    OBVIOUS
  <2>1. CASE UNCHANGED wpVars
    BY <2>1 DEF wpVars, wpLife
  <2>2. ASSUME NEW p, PipewireChange(p) PROVE Budget'
    BY <2>2 DEF PipewireChange, wpLife
  <2>3. ASSUME NEW n, NEW v, VolumeOf(n, v) PROVE Budget'
    BY <2>2, <2>3 DEF VolumeOf
  <2>4. ASSUME NEW n \in WpNodes, NEW v \in 1..2, OnMixerChanged(n, v) PROVE Budget'
    BY <2>3, <2>4 DEF OnMixerChanged
  <2>5. ASSUME NEW v \in 1..2, WpHandleScroll(v) PROVE Budget'
    BY <2>3, <2>5 DEF WpHandleScroll
  <2>6. ASSUME NEW n \in WpNodes, NodeComesOrGoes(n) PROVE Budget'
    BY <2>2, <2>6 DEF NodeComesOrGoes
  <2>7. ASSUME NEW r \in Roles, NEW n \in NodesOf(r) \cup {NoNode}, OnDefaultNodesApiChanged(r, n) PROVE Budget'
    BY <2>2, <2>7 DEF OnDefaultNodesApiChanged
  <2>8. CASE PipewireStops \/ PipewireStarts \/ WpDestroyed
    BY <2>8 DEF PipewireStops, PipewireStarts, WpDestroyed, wpLife
  <2>9. CASE OnReconnectTimeout
    BY <2>9 DEF OnReconnectTimeout
  <2>10. ASSUME NEW call \in wpCalls, NEW ok \in BOOLEAN, CallComes(call, ok) PROVE Budget'
    <3>1. UNCHANGED <<wpGen, wpNews>>
      BY <2>10 DEF CallComes
    <3>2. wpTouched' \in BOOLEAN
      BY <2>10, Zenon DEF CallComes
    <3> QED  BY <3>1, <3>2
  <2>11. ASSUME NEW configured \in BOOLEAN, OnObjectManagerInstalled(configured) PROVE Budget'
    BY <2>11 DEF OnObjectManagerInstalled
  <2>12. CASE WpUpdate
    BY <2>12 DEF WpUpdate, wpLife
  <2> QED  BY <2>1, <2>4, <2>5, <2>6, <2>7, <2>8, <2>9, <2>10, <2>11, <2>12 DEF WpNext
<1>3. WpInv /\ Budget => WpTypeOK
  <2> SUFFICES ASSUME WpInv, Budget PROVE WpTypeOK
    OBVIOUS
  <2>1. {wpAlive, wpTimer, wpDp, wpFailed, wpTouched} \subseteq BOOLEAN
    BY DEF WpInv, WpModuleTypes
  <2> QED  BY <2>1 DEF WpInv, WpPipewireTypes, WpModuleTypes, WpCallTypes, WpTypeOK
<1>4. WpSpec => []Budget
  <2> HIDE DEF Budget
  <2> QED  BY <1>1, <1>2, PTL DEF WpSpec
<1> QED  BY <1>3, <1>4, WpInvariant, PTL

LEMMA PaTyped == PaSpec => []PaTypeOK
<1> DEFINE Budget == paNews \in 0..MaxPaNews /\ paSets \in 0..MaxPaSets
<1> USE PaAssumption DEF PaAssumption
<1>1. PaInit => Budget
  BY DEF PaInit
<1>2. Budget /\ [PaNext]_paVars => Budget'
  <2> SUFFICES ASSUME Budget, [PaNext]_paVars PROVE Budget'
    OBVIOUS
  <2>1. CASE UNCHANGED paVars
    BY <2>1 DEF paVars, paPast
  <2>2. ASSUME NEW p, NEW of, PulseChange(p, of) PROVE Budget'
    BY <2>2 DEF PulseChange
  <2>3. CASE \E s \in PaSink, v \in 0..MaxVolume : VolumeChanges(s, v)
    BY <2>2, <2>3 DEF VolumeChanges, SinkChanges
  <2>4. CASE \E s \in PaSink : MuteChanges(s) \/ RunningChanges(s)
    BY <2>2, <2>4 DEF MuteChanges, RunningChanges, SinkChanges
  <2>5. CASE \E m \in PaSource, v \in 0..MaxVolume : SourceChanges(m, v)
    BY <2>2, <2>5 DEF SourceChanges
  <2>6. CASE \E s \in PaSink, m \in PaSource : DefaultsChange(s, m)
    BY <2>2, <2>6 DEF DefaultsChange
  <2>7. CASE PulseAnswers \/ CallbackRuns \/ UpdateReads
    BY <2>7 DEF PulseAnswers, CallbackRuns, UpdateReads, paPast
  <2>8. CASE ContextReady \/ \E again \in BOOLEAN : ContextFails(again)
    BY <2>8 DEF ContextReady, ContextFails
  <2>9. ASSUME NEW to, NEW muted, OnValueChanged(to, muted) PROVE paSets' \in 0..MaxPaSets
    BY <2>9 DEF OnValueChanged
  <2>10. CASE UpdateShows
    BY <2>9, <2>10 DEF UpdateShows
  <2>11. CASE \E v \in 0..MaxVolume : UserMovesSlider(v)
    BY <2>9, <2>11 DEF UserMovesSlider
  <2>12. CASE \E up \in BOOLEAN : PaHandleScroll(up)
    BY <2>12 DEF PaHandleScroll, ScrollBy
  <2> QED  BY <2>1, <2>3, <2>4, <2>5, <2>6, <2>7, <2>8, <2>10, <2>11, <2>12 DEF PaNext
<1>3. PaInv /\ Budget => PaTypeOK
  <2> SUFFICES ASSUME PaInv, Budget PROVE PaTypeOK
    OBVIOUS
  <2>1. {paSubscribed, paDp, paMissed} \subseteq BOOLEAN
    BY DEF PaInv, PaTypes, PaServerTypes, PaViewTypes
  <2>2. pulse.volume \in [PaNodes -> 0..MaxVolume] /\ pulse.muted \subseteq PaSink
    BY DEF PaInv, PaTypes, PaServerTypes, PulseStates
  <2>3. backend.volume \in 0..MaxVolume /\ backend.current \in PaSink
    BY DEF PaInv, PaTypes, PaBackendTypes
  <2> QED  BY <2>1, <2>2, <2>3 DEF PaInv, PaTypes, PaServerTypes, PaViewTypes, PaTypeOK
<1>4. PaSpec => []Budget
  <2> HIDE DEF Budget
  <2> QED  BY <1>1, <1>2, PTL DEF PaSpec
<1> QED  BY <1>3, <1>4, PaInvariant, PTL

LEMMA BtTyped == BtSpec => []BtTypeOK
<1> DEFINE Budget == btNews \in 0..MaxBtNews /\ btForeign \in BOOLEAN
<1> USE BtAssumption DEF BtAssumption
<1>1. BtInit => Budget
  <2>1. BtInit => btNews = 0
    BY DEF BtInit
  <2>2. BtInit => btForeign \in BOOLEAN
    BY Zenon DEF BtInit
  <2> QED  BY <2>1, <2>2
<1>2. Budget /\ [BtNext]_btVars => Budget'
  <2> SUFFICES ASSUME Budget, [BtNext]_btVars PROVE Budget'
    OBVIOUS
  <2>1. CASE UNCHANGED btVars
    BY <2>1 DEF btVars, btPast
  <2>2. CASE \E a \in Controller : AdapterAdded(a) \/ AdapterRemoved(a) \/ ControllerChanges(a)
    BY <2>2 DEF AdapterAdded, AdapterRemoved, ControllerChanges, BluezChange, btPast
  <2>3. CASE \E d \in BtDevice : DeviceRemoved(d) \/ \E connected \in BOOLEAN : DeviceAdded(d, connected)
    BY <2>3 DEF DeviceAdded, DeviceRemoved, BluezChange
  <2>4. ASSUME NEW d, NEW connected, NEW level, DeviceTold(d, connected, level) PROVE btForeign' \in BOOLEAN
    BY <2>4, Zenon DEF DeviceTold
  <2>5. CASE \E d \in BtDevice : DeviceChanges(d)
    BY <2>4, <2>5 DEF DeviceChanges, BluezChange
  <2>6. CASE \E d \in BtDevice, n \in Levels : BatteryChanges(d, n)
    BY <2>4, <2>6 DEF BatteryChanges, BluezChange
  <2>7. CASE \E d \in BtDevice, n \in Levels \cup {NoLevel} : BatteryComesOrGoes(d, n)
    BY <2>7 DEF BatteryComesOrGoes, BluezChange
  <2>8. CASE BtUpdate \/ BtRfkillEvent
    BY <2>8 DEF BtUpdate, BtRfkillEvent, btPast
  <2> QED  BY <2>1, <2>2, <2>3, <2>5, <2>6, <2>7, <2>8 DEF BtNext
<1>3. BtInv /\ Budget => BtTypeOK
  <2> SUFFICES ASSUME BtInv, Budget PROVE BtTypeOK
    OBVIOUS
  <2>1. {blocked, btDp, rfkillState, btForeign} \subseteq BOOLEAN
    BY DEF BtInv, BtTypes
  <2>2. btController.path \in Controller \cup {NoAdapter}
    BY DEF BtInv, BtTypes, ControllerFits, NoController, ControllerInfo
  <2> QED  BY <2>1, <2>2 DEF BtInv, BtTypes, BtTypeOK
<1>4. BtSpec => []Budget
  <2> HIDE DEF Budget
  <2> QED  BY <1>1, <1>2, PTL DEF BtSpec
<1> QED  BY <1>3, <1>4, BtInvariant, PTL

LEMMA NetTyped == NetSpec => []NetTypeOK
<1>1. NetInv => NetTypeOK
  <2> SUFFICES ASSUME NetInv PROVE NetTypeOK
    OBVIOUS
  <2>1. NetTypes
    BY DEF NetInv
  <2>2. {netOverrun, netByRoute, netDump, netWake, netDp, netDue, netLostRemoval} \subseteq BOOLEAN
    BY <2>1 DEF NetTypes
  <2>3. netIf.link \in Link \cup {NoLink} /\ netIf.addr \in Addr \cup {NoAddr}
    BY <2>1 DEF NetTypes
  <2> QED  BY <2>1, <2>2, <2>3 DEF NetTypes, NetKinds, NetTypeOK
<1> QED  BY <1>1, NetInvariant, PTL

LEMMA MprisTyped == MprisSpec => []MprisTypeOK
<1> DEFINE Objects == 0..(MaxMprisNews + 1)
           Bounded == /\ player \in Objects /\ lastActive \in Objects /\ mprisHandlers \subseteq Objects
                      /\ mprisNews \in 0..MaxMprisNews /\ justUpdated \in BOOLEAN
<1>0. MaxMprisNews \in Nat /\ 0 \in Objects /\ 1 \in Objects
  BY MprisAssumption
<1>1. MprisInit => Bounded
  <2> SUFFICES ASSUME MprisInit PROVE Bounded
    OBVIOUS
  <2>1. player \in {0, 1} /\ mprisHandlers \subseteq {0, 1}
    BY DEF MprisInit
  <2>2. lastActive = 0 /\ mprisNews = 0
    BY DEF MprisInit
  <2>3. justUpdated \in BOOLEAN
    BY Zenon DEF MprisInit
  <2> QED  BY <1>0, <2>1, <2>2, <2>3
<1>2. MprisInv /\ Bounded /\ [MprisNext]_mprisVars => Bounded'
  <2> SUFFICES ASSUME MprisInv, Bounded, [MprisNext]_mprisVars PROVE Bounded'
    OBVIOUS
  <2>1. CASE UNCHANGED mprisVars
    BY <2>1 DEF mprisVars, mprisObjects
  <2>2. ASSUME GetPlayerInfo \/ UNCHANGED mprisObjects
        PROVE  player' \in Objects /\ lastActive' \in Objects /\ mprisHandlers' \subseteq Objects
    BY <1>0, <2>2 DEF GetPlayerInfo, mprisObjects
  <2>3. ASSUME News PROVE mprisNews' \in 0..MaxMprisNews
    BY <1>0, <2>3 DEF News
  <2>4. ASSUME NEW p \in Player, NEW t \in MprisTracks, NEW s \in {"playing", "paused", "stopped"}, AppAppears(p, s, t)
        PROVE  Bounded'
    <3>1. mprisNews' \in 0..MaxMprisNews /\ justUpdated' \in BOOLEAN
      BY <2>3, <2>4 DEF AppAppears
    <3>2. CASE NamedPlayer /\ p = mprisConfig.player /\ mprisAlive
      <4> DEFINE kept == mprisHandlers \ {player}
                 new == CHOOSE o \in 1..(MaxMprisNews + 1) : o \notin kept \cup {lastActive}
      <4>1. /\ player' = new /\ mprisHandlers' = kept \cup {new}
            /\ lastActive' = IF lastActive = player THEN 0 ELSE lastActive
        BY <2>4, <3>2 DEF AppAppears
      <4>2. new \in 1..(MaxMprisNews + 1)
        <5>1. \E o \in 1..(MaxMprisNews + 1) : o \notin kept \cup {lastActive}
          BY <2>4, <3>2, ObjectIsFree DEF MprisInv, AppAppears, News
        <5> QED  BY <5>1
      <4> HIDE DEF new
      <4>3. new \in Objects
        BY <1>0, <4>2
      <4> QED  BY <1>0, <3>1, <4>1, <4>3
    <3>3. CASE ~(NamedPlayer /\ p = mprisConfig.player /\ mprisAlive)
      BY <2>2, <2>4, <3>1, <3>3 DEF AppAppears
    <3> QED  BY <3>2, <3>3
  <2>5. CASE \E p \in Player : AppVanishes(p)
    <3>1. UNCHANGED <<lastActive, mprisHandlers, justUpdated>> /\ player' \in {player, 0} /\ mprisNews' \in 0..MaxMprisNews
      BY <2>3, <2>5 DEF AppVanishes
    <3> QED  BY <1>0, <3>1
  <2>6. CASE \E p \in Player, t \in MprisTracks, s \in {"playing", "paused", "stopped"} : PlayerChanges(p, s, t)
    BY <2>2, <2>3, <2>6 DEF PlayerChanges, AppChanges
  <2>7. CASE MprisClicked
    BY <2>2, <2>3, <2>7 DEF MprisClicked
  <2>8. CASE MprisUpdate
    <3>1. mprisConfig.interval \in BOOLEAN
      BY MprisAssumption DEF MprisInv, MprisTypes
    <3>2. justUpdated' \in BOOLEAN /\ (GetPlayerInfo \/ UNCHANGED mprisObjects) /\ UNCHANGED mprisNews
      BY <2>8, <3>1 DEF MprisUpdate
    <3> QED  BY <2>2, <3>2
  <2>9. CASE IntervalPasses
    BY <2>2, <2>9 DEF IntervalPasses
  <2>10. CASE MprisDestroyed
    BY <1>0, <2>10 DEF MprisDestroyed
  <2> QED  BY <2>1, <2>4, <2>5, <2>6, <2>7, <2>8, <2>9, <2>10 DEF MprisNext
<1>3. MprisInv /\ Bounded => MprisTypeOK
  <2> SUFFICES ASSUME MprisInv, Bounded PROVE MprisTypeOK
    OBVIOUS
  <2>1. {mprisAlive, mprisDp, justUpdated, mprisDropped, mprisLost, mprisTouched} \subseteq BOOLEAN
    BY DEF MprisInv, MprisTypes
  <2>2. ToSet(recency) \subseteq Player
    BY DEF MprisInv, MprisTypes, ToSet
  <2> QED  BY <2>1, <2>2 DEF MprisInv, MprisTypes, MprisTypeOK
<1>4. MprisSpec => []Bounded
  <2> HIDE DEF Bounded
  <2> QED  BY <1>1, <1>2, MprisInvariant, PTL DEF MprisSpec
<1> QED  BY <1>3, <1>4, MprisInvariant, PTL

\* The variables of the modules have the types of the classes they are members of, whatever runs;
\* all that BlueZ has connected or powered is there, and mpris makes no more objects than names
\* appear (network.cpp, wireplumber.cpp, audio_backend.cpp, mpris.cpp, bluetooth.cpp).
THEOREM ServicesTyped == Spec => []ServicesTypeOK
<1>1. Init => NetInit /\ WpInit /\ PaInit /\ MprisInit /\ BtInit /\ part \in Parts
  BY DEF Init
<1>2. [Next]_<<part, netVars, wpVars, paVars, mprisVars, btVars>> =>
        /\ [NetNext]_netVars /\ [WpNext]_wpVars /\ [PaNext]_paVars /\ [MprisNext]_mprisVars /\ [BtNext]_btVars
        /\ part' = part
  <2>1. UNCHANGED <<part, netVars, wpVars, paVars, mprisVars, btVars>> =>
          UNCHANGED <<netVars, wpVars, paVars, mprisVars, btVars>> /\ part' = part
    OBVIOUS
  <2>2. Next => part' = part
    BY DEF Next, InNetworkStep, InWireplumberStep, InAudioStep, InMprisStep, InBluetoothStep,
           InNetwork, InWireplumber, InAudio, InMpris, InBluetooth
  <2> QED  BY <2>1, <2>2, StepsOfAudio, StepsOfPlayers, StepsOfNetwork
<1>3. Spec => NetSpec /\ WpSpec /\ PaSpec /\ MprisSpec /\ BtSpec
  BY <1>1, <1>2, PTL DEF Spec, NetSpec, WpSpec, PaSpec, MprisSpec, BtSpec
<1>4. part \in Parts /\ part' = part => (part \in Parts)'
  OBVIOUS
<1>5. Spec => [](part \in Parts)
  BY <1>1, <1>2, <1>4, PTL DEF Spec
<1>6. part \in Parts /\ NetTypeOK /\ WpTypeOK /\ PaTypeOK /\ MprisTypeOK /\ BtTypeOK => ServicesTypeOK
  BY DEF ServicesTypeOK
<1> QED  BY <1>3, <1>5, <1>6, NetTyped, WpTyped, PaTyped, MprisTyped, BtTyped, PTL

=============================================================================
