--------------------------- MODULE KeyboardState ---------------------------
(***************************************************************************)
(* keyboard-state: the constructor scans /dev/input, then a thread that    *)
(* watches it keeps the keyboards there are, key releases are heard by one *)
(* that reads libinput, and the main thread reads the lock LEDs of the     *)
(* devices it has.  A "device-path" is one of /dev/input.                  *)
(***************************************************************************)
EXTENDS Naturals, Sequences, FiniteSets, SequencesExt

CONSTANTS Kbd,          \* paths of devices with lock LEDs
          NoKbd,        \* no "device-path", nothing waited for
          KbdTries,     \* how often a new device is tried, 10
          MaxKbdNews    \* bound on what happens to the devices

ASSUME KbdAssumption == NoKbd \notin Kbd /\ KbdTries \in Nat /\ MaxKbdNews \in Nat

VARIABLES kbdConfig,    \* "device-path"
          kbdNode,      \* /dev/input: "gone", "denied" (udev has not set its mode yet), "ready"
          kbdLit,       \* devices whose LED is on
          kbdWatch,     \* hotplug_thread_: "coming", "on" (its watch), "ended"
          kbdInotify,   \* IN_CREATE and IN_DELETE events, in order
          kbdWaits,     \* the device hotplug_thread_ waits for, and the tries left
          kbdTracked,   \* libinput_devices_
          kbdReleased,  \* a release of a binding key is to be read by libinput_thread_
          kbdDp, kbdReading,   \* update() has chosen the paths
          kbdShown,
          kbdNews,
          kbdDue,       \* history: an LED, the devices or those tracked changed since they were
                        \* read; hotplug_thread_ does not ask for an update
          kbdGivenUp,   \* history: devices that could not be opened in time, or not be added
          kbdUntold     \* history: devices that came or went while there was no watch, or
                        \* whose events were not read, until the thread is told of them again

kbdSystem == <<kbdConfig, kbdNode, kbdLit, kbdNews>>
kbdThreads == <<kbdWatch, kbdInotify, kbdWaits, kbdTracked, kbdGivenUp, kbdUntold>>
kbdView == <<kbdDp, kbdReading, kbdShown>>
kbdVars == <<kbdSystem, kbdThreads, kbdReleased, kbdView, kbdDue>>

NotWaiting == [dev |-> NoKbd, left |-> 0]
NotReading == {NoKbd}

-----------------------------------------------------------------------------
(* The devices.                                                            *)

KbdChange == kbdNews < MaxKbdNews /\ kbdNews' = kbdNews + 1 /\ kbdDue' = TRUE /\ UNCHANGED kbdConfig

\* inotify tells who watches.
KbdTold(k, created) ==
  /\ kbdInotify' = IF kbdWatch = "on" THEN Append(kbdInotify, [create |-> created, dev |-> k]) ELSE kbdInotify
  /\ kbdUntold' = IF kbdWatch = "on" THEN kbdUntold ELSE kbdUntold \cup {k}
  /\ UNCHANGED kbdWatch

KbdPlugged(k) ==
  /\ kbdNode[k] = "gone" /\ KbdChange
  /\ kbdNode' = [kbdNode EXCEPT ![k] = "denied"]
  /\ KbdTold(k, TRUE)
  /\ UNCHANGED <<kbdLit, kbdWaits, kbdTracked, kbdGivenUp, kbdReleased, kbdView>>

KbdReady(k) ==
  /\ kbdNode[k] = "denied"
  /\ kbdNode' = [kbdNode EXCEPT ![k] = "ready"] /\ kbdDue' = TRUE
  /\ UNCHANGED <<kbdConfig, kbdLit, kbdNews, kbdThreads, kbdReleased, kbdView>>

KbdUnplugged(k) ==
  /\ kbdNode[k] # "gone" /\ KbdChange
  /\ kbdNode' = [kbdNode EXCEPT ![k] = "gone"] /\ kbdLit' = kbdLit \ {k}
  /\ KbdTold(k, FALSE)
  /\ UNCHANGED <<kbdWaits, kbdTracked, kbdGivenUp, kbdReleased, kbdView>>

\* The compositor sets the LEDs, before or after the key is released.
LedsChange(k) ==
  /\ kbdNode[k] # "gone" /\ KbdChange
  /\ kbdLit' = (kbdLit \cup {k}) \ (kbdLit \cap {k})
  /\ UNCHANGED <<kbdNode, kbdThreads, kbdReleased, kbdView>>

\* libinput hears the devices it was given.
KeyReleased ==
  /\ ~kbdReleased /\ kbdReleased' = TRUE
  /\ \E k \in kbdTracked : kbdNode[k] = "ready"
  /\ UNCHANGED <<kbdSystem, kbdThreads, kbdView, kbdDue>>

-----------------------------------------------------------------------------
\* libinput_thread_
LibinputThread ==
  /\ kbdReleased /\ kbdReleased' = FALSE /\ kbdDp' = TRUE
  /\ UNCHANGED <<kbdSystem, kbdThreads, kbdReading, kbdShown, kbdDue>>

\* tryAddDevice(): a device that cannot be opened, or that libinput does not take, is let go.
TryAddDevice(k, opens) ==
  LET added == opens /\ kbdNode[k] = "ready"
  IN /\ kbdTracked' = IF added THEN kbdTracked \cup {k} ELSE kbdTracked
     /\ kbdGivenUp' = IF added \/ kbdNode[k] = "gone" THEN kbdGivenUp \ {k} ELSE kbdGivenUp \cup {k}
     /\ kbdUntold' = IF added THEN kbdUntold \ {k} ELSE kbdUntold

\* hotplug_thread_ adds its watch some time after the scan; ..
HotplugWatches ==
  /\ kbdWatch = "coming" /\ kbdWatch' = "on"
  /\ UNCHANGED <<kbdSystem, kbdInotify, kbdWaits, kbdTracked, kbdGivenUp, kbdUntold, kbdReleased, kbdView, kbdDue>>

\* .. it ends when inotify_init(), or a read(), fails, and hears nothing when there is no watch.
HotplugEnds ==
  /\ kbdWatch # "ended" /\ kbdWaits = NotWaiting /\ kbdWatch' = "ended" /\ kbdInotify' = <<>>
  /\ kbdUntold' = kbdUntold \cup {kbdInotify[i].dev : i \in DOMAIN kbdInotify}
  /\ UNCHANGED <<kbdSystem, kbdWaits, kbdTracked, kbdGivenUp, kbdReleased, kbdView, kbdDue>>

\* It reads an event.
HotplugCreated ==
  /\ kbdWaits = NotWaiting /\ kbdInotify # <<>> /\ Head(kbdInotify).create
  /\ kbdWaits' = [dev |-> Head(kbdInotify).dev, left |-> KbdTries]
  /\ kbdInotify' = Tail(kbdInotify)
  /\ UNCHANGED <<kbdSystem, kbdWatch, kbdTracked, kbdGivenUp, kbdUntold, kbdReleased, kbdView, kbdDue>>

Deleted(k) == kbdTracked' = kbdTracked \ {k}

HotplugDeleted ==
  /\ kbdWaits = NotWaiting /\ kbdInotify # <<>> /\ ~Head(kbdInotify).create
  /\ Deleted(Head(kbdInotify).dev)
  /\ kbdGivenUp' = kbdGivenUp \ {Head(kbdInotify).dev} /\ kbdUntold' = kbdUntold \ {Head(kbdInotify).dev}
  /\ kbdInotify' = Tail(kbdInotify) /\ kbdDue' = TRUE
  /\ UNCHANGED <<kbdSystem, kbdWatch, kbdWaits, kbdReleased, kbdView>>

\* .. waits a second and tries again while it may not open the device, ..
HotplugTriesAgain ==
  /\ kbdWaits.left > 0 /\ kbdNode[kbdWaits.dev] = "denied"
  /\ kbdWaits' = [kbdWaits EXCEPT !.left = @ - 1]
  /\ UNCHANGED <<kbdSystem, kbdWatch, kbdInotify, kbdTracked, kbdGivenUp, kbdUntold, kbdReleased, kbdView, kbdDue>>

\* .. and adds it, also after the last try; one that is gone is tried to the end without waiting.
HotplugAdds(opens) ==
  /\ kbdWaits # NotWaiting /\ (kbdWaits.left = 0 \/ kbdNode[kbdWaits.dev] # "denied")
  /\ TryAddDevice(kbdWaits.dev, opens) /\ kbdWaits' = NotWaiting /\ kbdDue' = TRUE
  /\ UNCHANGED <<kbdSystem, kbdWatch, kbdInotify, kbdReleased, kbdView>>

-----------------------------------------------------------------------------
(* update(): the paths are chosen under the mutex, the devices are read    *)
(* without it.                                                             *)

PathsToRead == IF kbdConfig \in kbdTracked THEN {kbdConfig} ELSE kbdTracked

KbdUpdateStarts ==
  /\ kbdDp /\ kbdReading = NotReading /\ kbdDp' = FALSE
  /\ kbdReading' = IF kbdTracked = {} THEN NotReading ELSE PathsToRead
  /\ UNCHANGED <<kbdSystem, kbdThreads, kbdReleased, kbdShown, kbdDue>>

\* A path that cannot be opened any more contributes nothing.
KbdUpdateShows ==
  /\ kbdReading # NotReading /\ kbdReading' = NotReading
  /\ kbdShown' = (\E k \in kbdReading : kbdNode[k] = "ready" /\ k \in kbdLit)
  /\ kbdDue' = (kbdReading # PathsToRead)
  /\ UNCHANGED <<kbdSystem, kbdThreads, kbdReleased, kbdDp>>

-----------------------------------------------------------------------------
\* The scan has just ended: it added some of the devices it could open, at least one, or the
\* module was not made; libinput_thread_ will emit once, and hotplug_thread_ has no watch yet.
KbdInit ==
  /\ kbdConfig \in Kbd \cup {NoKbd}
  /\ kbdNode \in [Kbd -> {"gone", "denied", "ready"}]
  /\ kbdTracked \in SUBSET {k \in Kbd : kbdNode[k] = "ready"} \ {{}}
  /\ kbdGivenUp = {k \in Kbd : kbdNode[k] # "gone"} \ kbdTracked
  /\ kbdWatch = "coming" /\ kbdUntold = {}
  /\ kbdLit \in SUBSET {k \in Kbd : kbdNode[k] # "gone"} /\ kbdInotify = <<>> /\ kbdWaits = NotWaiting /\ kbdReleased = FALSE
  /\ kbdDp = TRUE /\ kbdReading = NotReading /\ kbdShown = FALSE
  /\ kbdNews = 0 /\ kbdDue = TRUE

KbdNext ==
  \/ \E k \in Kbd : KbdPlugged(k)
  \/ \E k \in Kbd : KbdReady(k)
  \/ \E k \in Kbd : KbdUnplugged(k)
  \/ \E k \in Kbd : LedsChange(k)
  \/ KeyReleased
  \/ LibinputThread
  \/ HotplugWatches \/ HotplugEnds
  \/ HotplugCreated \/ HotplugDeleted \/ HotplugTriesAgain
  \/ \E opens \in BOOLEAN : HotplugAdds(opens)
  \/ KbdUpdateStarts \/ KbdUpdateShows

KbdSpec == KbdInit /\ [][KbdNext]_kbdVars

-----------------------------------------------------------------------------
KbdTypeOK ==
  /\ kbdConfig \in Kbd \cup {NoKbd} /\ kbdNode \in [Kbd -> {"gone", "denied", "ready"}]
  /\ kbdTracked \subseteq Kbd /\ kbdLit \subseteq Kbd /\ kbdGivenUp \subseteq Kbd /\ kbdUntold \subseteq Kbd
  /\ kbdWatch \in {"coming", "on", "ended"}
  /\ kbdWaits.left \in 0..KbdTries /\ kbdNews \in 0..MaxKbdNews
  /\ {kbdReleased, kbdDp, kbdShown, kbdDue} \subseteq BOOLEAN

\* Once the hotplug thread has read everything, the devices tracked are those that can be read,
\* except those that could not be when they were tried, and those that came or went between
\* the constructor's scan and the thread's watch, or after it ended; and what is shown is the
\* configured device's LED, or that any device's is on, unless something changed since an update
\* read all of them, or no device is left (keyboard_state.cpp:194-415).
KeyboardAgrees ==
  /\ kbdInotify = <<>> /\ kbdWaits = NotWaiting =>
       \A k \in Kbd \ kbdUntold : k \in kbdTracked <=> kbdNode[k] # "gone" /\ k \notin kbdGivenUp
  /\ ~kbdDue /\ kbdTracked # {} => kbdShown = \E k \in PathsToRead : kbdNode[k] = "ready" /\ k \in kbdLit
=============================================================================
