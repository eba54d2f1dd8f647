----------------------------- MODULE MCServices -----------------------------
(***************************************************************************)
(* The modules that show what services and devices say, over small instances. *)
(* They share no state and never call each other, so that the states of all *)
(* of them are those of each: part says which one runs, and the others rest *)
(* in one of their initial states.                                          *)
(***************************************************************************)
EXTENDS Network, Wireplumber, AudioBackend, Mpris, Bluetooth

VARIABLE part   \* the component that runs

\* The default route of a wireless link is the best; the other's may be as good.
MetricsOf(l) == IF l \in Wireless THEN {1} ELSE {1, 2}
FirstMetric(l) == IF l \in Wireless THEN 1 ELSE 2

Parts == {"network", "wireplumber", "audio", "mpris", "bluetooth"}

\* Wireplumber: sink "a" is physical; "v" leads to it, or has no volume of its own.
WpCfgs ==
  {[physical |-> TRUE, devices |-> {"a", "m"}, leads |-> [a |-> "none", v |-> "a", m |-> "none"], deaf |-> {}],
   [physical |-> FALSE, devices |-> {"a", "m"}, leads |-> [a |-> "none", v |-> "none", m |-> "none"], deaf |-> {"v"}]}

PaCfgs ==
  {[slider |-> FALSE, zeroOnMute |-> FALSE, unmute |-> FALSE, ignored |-> {}, mapping |-> [b |-> "a"]],
   [slider |-> TRUE, zeroOnMute |-> TRUE, unmute |-> TRUE, ignored |-> {"b"}, mapping |-> [x \in {} |-> x]]}

Tags == <<"title", "artist", "album">>
MprisCfg(p, ignored, interval) ==
  [player |-> p, ignored |-> ignored, interval |-> interval, dynamicLen |-> 10, order |-> Tags,
   prio |-> Tags \o <<"position", "length">>]
MprisPlain == MprisCfg("a", {}, FALSE)
MprisCfgs ==
  {MprisPlain, MprisCfg("d", {"b"}, FALSE), MprisCfg("d", {}, FALSE), MprisCfg("a", {}, TRUE), MprisCfg("a", {"a"}, FALSE)}
\* A track whose title and artist fill the length between them, and one that cannot be read.
MprisTwoTracks ==
  {[ok |-> w > 0, artist |-> w, album |-> 0, title |-> w, length |-> 5, position |-> 5] : w \in {0, 5}}

\* Device "x" is another controller's; "k" has two GATT batteries.
BtControllers == [d \in BtDevice |-> IF d = "x" THEN "h2" ELSE "h1"]
BtGatt ==
  [d \in BtDevice |-> IF d = "k" THEN <<[described |-> FALSE, level |-> 1], [described |-> TRUE, level |-> 2]>> ELSE <<>>]
BtCfgs ==
  {[alias |-> "none", preferred |-> <<"k">>, peripheral |-> FALSE], [alias |-> "h1", preferred |-> <<>>, peripheral |-> TRUE]}

\* The initial state a component rests in while another one runs.
InNetworkRests == ~netByRoute /\ \A l \in Link : linkState[l] = "gone"
InWireplumberRests == wpConfig.physical /\ pipewire.default = [sink |-> NoNode, source |-> NoNode] /\ pipewire.known = WpNodes
InAudioRests == paConfig.slider /\ backend.idx = "a" /\ ~backend.muted
InMprisRests == mprisConfig = MprisPlain /\ recency = <<>> /\ \A p \in Player : apps[p].track.ok
InBluetoothRests == ~btConfig.peripheral /\ adapters = {} /\ devices = {} /\ ~blocked

Init ==
  /\ part \in Parts
  /\ NetInit /\ (\A l \in Link : linkRoutes[l] \subseteq {FirstMetric(l)}) /\ (part # "network" => InNetworkRests)
  /\ WpInit /\ (part # "wireplumber" => InWireplumberRests)
  /\ PaInit /\ (part # "audio" => InAudioRests)
  /\ MprisInit /\ (part # "mpris" => InMprisRests)
  /\ BtInit /\ (part # "bluetooth" => InBluetoothRests)

\* A step of one component.
InNetwork(A) == part = "network" /\ A /\ UNCHANGED <<part, wpVars, paVars, mprisVars, btVars>>
InWireplumber(A) == part = "wireplumber" /\ A /\ UNCHANGED <<part, netVars, paVars, mprisVars, btVars>>
InAudio(A) == part = "audio" /\ A /\ UNCHANGED <<part, netVars, wpVars, mprisVars, btVars>>
InMpris(A) == part = "mpris" /\ A /\ UNCHANGED <<part, netVars, wpVars, paVars, btVars>>
InBluetooth(A) == part = "bluetooth" /\ A /\ UNCHANGED <<part, netVars, wpVars, paVars, mprisVars>>

InNetworkStep ==
  \/ \E l \in Link, s \in {"gone", "down", "up", "carrier"} : InNetwork(LinkChanges(l, s))
  \/ \E l \in Link, a \in Addr : InNetwork(AddrChanges(l, a))
  \/ \E l \in Link, p \in Metric : p \in MetricsOf(l) /\ InNetwork(RouteChanges(l, p))
  \/ InNetwork(RfkillChanges)
  \/ InNetwork(Resync)
  \/ InNetwork(HandleEventsDone)
  \/ InNetwork(LinkDownEvent)
  \/ InNetwork(LinkUpdateEvent)
  \/ InNetwork(LinkSelectEvent)
  \/ InNetwork(LinkDeletedEvent)
  \/ InNetwork(OtherLinkEvent)
  \/ InNetwork(AddrEvent)
  \/ InNetwork(RouteEvent)
  \/ InNetwork(TimerRuns)
  \/ InNetwork(NetUpdate)

InWireplumberStep ==
  \/ \E n \in WpNodes, v \in 1..2 : InWireplumber(OnMixerChanged(n, v))
  \/ \E v \in 1..2 : InWireplumber(WpHandleScroll(v))
  \/ \E n \in WpNodes : InWireplumber(NodeComesOrGoes(n))
  \/ \E r \in Roles : \E n \in NodesOf(r) \cup {NoNode} : InWireplumber(OnDefaultNodesApiChanged(r, n))
  \/ InWireplumber(PipewireStops)
  \/ InWireplumber(PipewireStarts)
  \/ InWireplumber(OnReconnectTimeout)
  \/ InWireplumber(WpDestroyed)
  \/ \E call \in wpCalls, ok \in BOOLEAN : InWireplumber(CallComes(call, ok))
  \/ \E configured \in BOOLEAN : InWireplumber(OnObjectManagerInstalled(configured))
  \/ InWireplumber(WpUpdate)

InAudioStep ==
  \/ \E s \in PaSink, v \in 0..MaxVolume : InAudio(VolumeChanges(s, v))
  \/ \E s \in PaSink : InAudio(MuteChanges(s))
  \/ \E s \in PaSink : InAudio(RunningChanges(s))
  \/ \E m \in PaSource, v \in 0..MaxVolume : InAudio(SourceChanges(m, v))
  \/ \E s \in PaSink, m \in PaSource : InAudio(DefaultsChange(s, m))
  \/ InAudio(PulseAnswers)
  \/ \E again \in BOOLEAN : InAudio(ContextFails(again))
  \/ InAudio(ContextReady)
  \/ InAudio(CallbackRuns)
  \/ InAudio(UpdateReads)
  \/ InAudio(UpdateShows)
  \/ \E v \in 0..MaxVolume : InAudio(UserMovesSlider(v))
  \/ \E up \in BOOLEAN : InAudio(PaHandleScroll(up))

InMprisStep ==
  \/ \E p \in Player, t \in MprisTracks, s \in {"playing", "paused", "stopped"} : InMpris(AppAppears(p, s, t))
  \/ \E p \in Player : InMpris(AppVanishes(p))
  \/ \E p \in Player, t \in MprisTracks, s \in {"playing", "paused", "stopped"} : InMpris(PlayerChanges(p, s, t))
  \/ InMpris(MprisClicked)
  \/ InMpris(MprisUpdate)
  \/ InMpris(IntervalPasses)
  \/ InMpris(MprisDestroyed)

InBluetoothStep ==
  \/ \E a \in Controller : InBluetooth(AdapterAdded(a))
  \/ \E a \in Controller : InBluetooth(AdapterRemoved(a))
  \/ \E a \in Controller : InBluetooth(ControllerChanges(a))
  \/ \E d \in BtDevice, connected \in BOOLEAN : InBluetooth(DeviceAdded(d, connected))
  \/ \E d \in BtDevice : InBluetooth(DeviceRemoved(d))
  \/ \E d \in BtDevice : InBluetooth(DeviceChanges(d))
  \/ \E d \in BtDevice, n \in Levels : InBluetooth(BatteryChanges(d, n))
  \/ \E d \in BtDevice, n \in Levels \cup {NoLevel} : InBluetooth(BatteryComesOrGoes(d, n))
  \/ InBluetooth(BtUpdate)
  \/ InBluetooth(BtRfkillEvent)

Next == InNetworkStep \/ InWireplumberStep \/ InAudioStep \/ InMprisStep \/ InBluetoothStep

Spec == Init /\ [][Next]_<<part, netVars, wpVars, paVars, mprisVars, btVars>>

-----------------------------------------------------------------------------
\* The types of all of them.
ServicesTypeOK == part \in Parts /\ NetTypeOK /\ WpTypeOK /\ PaTypeOK /\ MprisTypeOK /\ BtTypeOK

\* The two audio modules: what is shown is the node of the configured kind that the sound
\* server has as its default, as it is (wireplumber.cpp, audio_backend.cpp).
AudioAgrees == WpAgrees /\ PaAgrees

\* The player and the device that are shown are the ones the configuration prefers among
\* those there are, as they are (mpris.cpp, bluetooth.cpp).
PlayersAgree == MprisAgrees /\ BtAgrees
=============================================================================
