-------------------------------- MODULE Bluetooth --------------------------------
(***************************************************************************)
(* src/modules/bluetooth.cpp and src/util/rfkill.cpp: the controller shown,   *)
(* and the devices connected to it.                                         *)
(*                                                                         *)
(* BlueZ's objects are mirrored by a D-Bus object manager, whose callbacks    *)
(* run one at a time on the main thread and change the list of connected      *)
(* devices by what is told.                                                 *)
(***************************************************************************)
EXTENDS Naturals, Sequences, SequencesExt, FiniteSets

CONSTANTS Controller, BtDevice,
          ControllerOf,     \* the adapter a device belongs to
          NoAdapter, NoLevel,
          GattChars,     \* a device's battery characteristics, in order: [described, level]
          BtConfigs,     \* [alias: an adapter or NoAdapter, preferred: devices in order,
                         \* peripheral: whether a format has the peripheral's battery]
          MaxBtNews

ASSUME BtAssumption ==
  /\ NoAdapter \notin Controller /\ IsFiniteSet(BtDevice) /\ MaxBtNews \in Nat
  /\ ControllerOf \in [BtDevice -> Controller]
  /\ \A c \in BtConfigs : c.preferred \in Seq(BtDevice)

VARIABLES btConfig,
          adapters, powered,     \* BlueZ: adapter objects, and those with power
          devices, linked,       \* .. device objects, and those connected
          battery1,             \* .. a device's Battery1, or NoLevel
          blocked,               \* rfkill
          btController,          \* cur_controller_: [path, powered]
          btConnected,           \* connected_devices_
          btFocussed, btDp, rfkillState, btShown,
          btNews,
          btMissed,    \* history: devices that changed while the module was not told, or not listening
          btForeign    \* history: a device of another controller was listed

bluez == <<adapters, powered, devices, linked, battery1, blocked>>
btModel == <<btController, btConnected, btFocussed, btDp, rfkillState>>
btPast == <<btMissed, btForeign>>
btVars == <<btConfig, bluez, btModel, btShown, btNews, btPast>>

NoController == [path |-> NoAdapter, powered |-> FALSE]

-----------------------------------------------------------------------------
(* What is read of an object.                                                *)

\* getDeviceGattBatteryLevels(): the first undescribed characteristic that can be read is the
\* device's level, the last described one the peripheral's.
GattLevels(d, readable) ==
  LET take(acc, i) ==
        LET c == GattChars[d][i] IN
        IF i \notin readable THEN acc
        ELSE IF c.described THEN [acc EXCEPT !.peripheral = c.level]
        ELSE IF acc.central = NoLevel THEN [acc EXCEPT !.central = c.level] ELSE acc
  IN FoldLeft(take, [central |-> NoLevel, peripheral |-> NoLevel], [i \in 1..Len(GattChars[d]) |-> i])

\* getDeviceProperties()
DeviceInfo(d, level, readable) ==
  LET gatt == IF btConfig.peripheral THEN GattLevels(d, readable) ELSE [central |-> NoLevel, peripheral |-> NoLevel]
  IN [path |-> d, battery |-> IF level # NoLevel THEN level ELSE gatt.central, peripheral |-> gatt.peripheral]

\* Reads over the air may fail.
Readable(d) == IF btConfig.peripheral THEN SUBSET DOMAIN GattChars[d] ELSE {{}}

ControllerInfo(a, on) == [path |-> a, powered |-> a \in on]
Suits(a) == btConfig.alias \in {NoAdapter, a}

\* findCurController(): objects come in no order.
FindCurController(there, on) ==
  LET suited == {a \in there : Suits(a)} IN
  IF suited = {} THEN {NoController} ELSE {ControllerInfo(a, on) : a \in suited}

Listing(ds) ==
  {[i \in DOMAIN q |-> DeviceInfo(q[i], battery1[q[i]], DOMAIN GattChars[q[i]])] : q \in SetToSeqs(ds)}

FindDevices(a) == Listing({d \in devices : ControllerOf[d] = a})   \* mutant: also those not connected

\* findConnectedDevices()
FindConnectedDevices(a) == Listing({d \in devices \cap linked : ControllerOf[d] = a})

Listed(list, d) == \E i \in DOMAIN list : list[i].path = d
IndexOf(list, d) == CHOOSE i \in DOMAIN list : list[i].path = d

-----------------------------------------------------------------------------
BluezChange == btNews < MaxBtNews /\ btNews' = btNews + 1 /\ UNCHANGED <<btConfig, btShown>>

\* onObjectAdded(), for an adapter; the list is as it was.
AdapterAdded(a) ==
  /\ a \notin adapters /\ BluezChange
  /\ adapters' = adapters \cup {a}
  /\ LET takes == btController = NoController /\ Suits(a) IN
     /\ btController' = IF takes THEN ControllerInfo(a, powered) ELSE btController
     /\ btDp' = (btDp \/ takes)
  /\ UNCHANGED <<powered, devices, linked, battery1, blocked, btConnected, btFocussed, rfkillState, btPast>>

\* A device may be connected when it appears; nothing is done.
DeviceAdded(d, connected) ==
  /\ d \notin devices /\ ControllerOf[d] \in adapters /\ BluezChange
  /\ devices' = devices \cup {d}
  /\ linked' = IF connected THEN linked \cup {d} ELSE linked
  /\ btMissed' = IF connected THEN btMissed \cup {d} ELSE btMissed
  /\ UNCHANGED <<adapters, powered, battery1, blocked, btModel, btForeign>>

\* onObjectRemoved(), for an adapter whose devices are gone.
AdapterRemoved(a) ==
  /\ a \in adapters /\ \A d \in devices : ControllerOf[d] # a
  /\ BluezChange
  /\ adapters' = adapters \ {a} /\ powered' = powered \ {a}
  /\ IF btController.path # a THEN UNCHANGED btModel
     ELSE /\ btController' \in FindCurController(adapters', powered')
          /\ btConnected' \in (IF btController' = NoController THEN {btConnected} ELSE FindConnectedDevices(btController'.path))
          /\ btDp' = TRUE /\ UNCHANGED <<btFocussed, rfkillState>>
  /\ UNCHANGED <<devices, linked, battery1, blocked, btPast>>

\* A device that goes while it is connected (BlueZ stops) is not looked at.
DeviceRemoved(d) ==
  /\ d \in devices /\ BluezChange
  /\ devices' = devices \ {d} /\ linked' = linked \ {d} /\ battery1' = [battery1 EXCEPT ![d] = NoLevel]
  /\ btMissed' = IF d \in linked \/ Listed(btConnected, d) THEN btMissed \cup {d} ELSE btMissed
  /\ UNCHANGED <<adapters, powered, blocked, btModel, btForeign>>

\* onInterfaceProxyPropertiesChanged() of an adapter.
ControllerChanges(a) ==
  /\ a \in adapters /\ BluezChange
  /\ powered' = (powered \cup {a}) \ (powered \cap {a})
  /\ LET ours == btController.path = a IN
     /\ btController' = IF ours THEN ControllerInfo(a, powered') ELSE btController
     /\ btDp' = (btDp \/ ours)
  /\ UNCHANGED <<adapters, devices, linked, battery1, blocked, btConnected, btFocussed, rfkillState, btPast>>

\* .. of a device, or of its battery, whichever controller it belongs to.
DeviceTold(d, connected, level) ==
  LET heard == btController # NoController
      listed == Listed(btConnected, d)
  IN /\ \E readable \in Readable(d) :
          btConnected' = CASE ~heard -> btConnected
                           [] heard /\ ~listed -> IF connected THEN Append(btConnected, DeviceInfo(d, level, readable)) ELSE btConnected
                           [] heard /\ listed /\ ~connected -> RemoveAt(btConnected, IndexOf(btConnected, d))
                           [] OTHER -> [btConnected EXCEPT ![IndexOf(btConnected, d)] = DeviceInfo(d, level, readable)]
     /\ btDp' = (btDp \/ (heard /\ (listed \/ connected)))
     /\ btMissed' = IF heard THEN btMissed \ {d} ELSE btMissed \cup {d}
     /\ btForeign' = (btForeign \/ (heard /\ ~listed /\ connected /\ ControllerOf[d] # btController.path))
     /\ UNCHANGED <<btController, btFocussed, rfkillState>>

DeviceChanges(d) ==
  /\ d \in devices /\ BluezChange
  /\ linked' = (linked \cup {d}) \ (linked \cap {d})
  /\ DeviceTold(d, d \in linked', battery1[d])
  /\ UNCHANGED <<adapters, powered, devices, battery1, blocked>>

BatteryChanges(d, level) ==
  /\ d \in devices /\ battery1[d] # NoLevel /\ level \notin {NoLevel, battery1[d]} /\ BluezChange
  /\ battery1' = [battery1 EXCEPT ![d] = level]
  /\ DeviceTold(d, d \in linked, level)
  /\ UNCHANGED <<adapters, powered, devices, linked, blocked>>

\* onInterfaceAddedOrRemoved(), of a battery; what was read over the air is not read again.
BatteryComesOrGoes(d, level) ==
  /\ d \in devices /\ (battery1[d] = NoLevel) # (level = NoLevel) /\ BluezChange
  /\ battery1' = [battery1 EXCEPT ![d] = level]
  /\ LET told == btController # NoController /\ Listed(btConnected, d) IN
     /\ btConnected' = IF told THEN [btConnected EXCEPT ![IndexOf(btConnected, d)].battery = level] ELSE btConnected
     /\ btDp' = (btDp \/ told)
     /\ btMissed' = IF btController = NoController /\ Listed(btConnected, d) THEN btMissed \cup {d} ELSE btMissed
  /\ UNCHANGED <<adapters, powered, devices, linked, blocked, btController, btFocussed, rfkillState, btForeign>>

\* update()
UpdateBy(rf) ==
  LET preferred == SelectInSeq(btConfig.preferred, LAMBDA d : Listed(btConnected, d))
      focussed == CASE btConnected = <<>> -> btFocussed
                    [] btConnected # <<>> /\ preferred # 0 -> btConnected[IndexOf(btConnected, btConfig.preferred[preferred])]
                    [] OTHER -> Last(btConnected)
      state == CASE rf -> "disabled"
                 [] ~rf /\ btController = NoController -> "no-controller"
                 [] ~rf /\ btController # NoController /\ ~btController.powered -> "off"
                 [] OTHER -> IF btConnected # <<>> THEN "connected" ELSE "on"
  IN /\ btFocussed' = focussed
     /\ btShown' = [state |-> state, controller |-> btController.path, count |-> Len(btConnected),
                    devices |-> {btConnected[i].path : i \in DOMAIN btConnected}, device |-> focussed]
     /\ UNCHANGED <<btController, btConnected>>

BtUpdate ==
  /\ btDp /\ btDp' = FALSE
  /\ UpdateBy(rfkillState)
  /\ UNCHANGED <<btConfig, bluez, rfkillState, btNews, btPast>>

\* Rfkill::on_event() calls update() itself.
BtRfkillEvent ==
  /\ btNews < MaxBtNews /\ btNews' = btNews + 1
  /\ blocked' = ~blocked /\ rfkillState' = blocked'
  /\ UpdateBy(rfkillState')
  /\ UNCHANGED <<btConfig, adapters, powered, devices, linked, battery1, btDp, btPast>>

-----------------------------------------------------------------------------
\* The constructor finds the controller and the devices connected to it.
BtInit ==
  /\ btConfig \in BtConfigs
  /\ adapters \in SUBSET Controller /\ powered = adapters
  /\ devices \in SUBSET {d \in BtDevice : ControllerOf[d] \in adapters} /\ linked \in SUBSET devices
  /\ battery1 = [d \in BtDevice |-> NoLevel] /\ blocked \in BOOLEAN /\ rfkillState = blocked
  /\ btController \in FindCurController(adapters, powered)
  /\ btConnected \in (IF btController = NoController THEN {<<>>} ELSE FindConnectedDevices(btController.path))
  /\ btFocussed = [path |-> NoAdapter]
  /\ btShown = [state |-> ""] /\ btDp = TRUE
  /\ btNews = 0 /\ btForeign = FALSE
  /\ btMissed = IF btController = NoController THEN {} ELSE {d \in linked : ControllerOf[d] # btController.path}

Levels == {1, 2}

BtNext ==
  \/ \E a \in Controller : AdapterAdded(a)
  \/ \E a \in Controller : AdapterRemoved(a)
  \/ \E a \in Controller : ControllerChanges(a)
  \/ \E d \in BtDevice, connected \in BOOLEAN : DeviceAdded(d, connected)
  \/ \E d \in BtDevice : DeviceRemoved(d)
  \/ \E d \in BtDevice : DeviceChanges(d)
  \/ \E d \in BtDevice, n \in Levels : BatteryChanges(d, n)
  \/ \E d \in BtDevice, n \in Levels \cup {NoLevel} : BatteryComesOrGoes(d, n)
  \/ BtUpdate
  \/ BtRfkillEvent

BtSpec == BtInit /\ [][BtNext]_btVars

-----------------------------------------------------------------------------
BtTypeOK ==
  /\ btConfig \in BtConfigs /\ adapters \subseteq Controller /\ powered \subseteq adapters
  /\ linked \subseteq devices /\ devices \subseteq BtDevice
  /\ {blocked, btDp, rfkillState, btForeign} \subseteq BOOLEAN /\ btController.path \in Controller \cup {NoAdapter}
  /\ btMissed \subseteq BtDevice /\ btNews \in 0..MaxBtNews

\* The displayed controller is there, has the power that is shown and suits the config, and is
\* missing only if none suits.  A device of it is listed once, exactly while it is connected, and
\* with BlueZ's battery level if there is one, unless its last change was not told; the
\* device shown is a listed one, and a preferred one if one is (bluetooth.cpp:208-238,
\* 375-475).
BtAgrees ==
  ~btDp =>
    /\ blocked = (btShown.state = "disabled")
    /\ (btController = NoController) = (\A a \in adapters : ~Suits(a))
    /\ btController # NoController =>
         /\ btController.path \in adapters /\ Suits(btController.path)
         /\ ~blocked => (btShown.state = "off") = (btController.path \notin powered)
         /\ \A d \in BtDevice \ btMissed : ControllerOf[d] = btController.path =>
              /\ (d \in btShown.devices) = (d \in linked)
              /\ d \in linked /\ btShown.device.path = d /\ battery1[d] # NoLevel => btShown.device.battery = battery1[d]
    /\ \A d \in BtDevice : Cardinality({i \in DOMAIN btConnected : btConnected[i].path = d}) <= 1
    /\ btShown.devices # {} =>
         /\ btShown.device.path \in btShown.devices
         /\ ToSet(btConfig.preferred) \cap btShown.devices # {} => btShown.device.path \in ToSet(btConfig.preferred)

\* man/waybar-bluetooth.5.scd:160: num_connections is the "Number of connections the displayed
\* controller has."
CountsItsConnections ==
  ~btDp /\ btController # NoController /\ btMissed = {} =>
    btShown.count = Cardinality({d \in linked : ControllerOf[d] = btController.path})
=============================================================================
