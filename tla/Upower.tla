---------------------------------- MODULE Upower ----------------------------------
(***************************************************************************)
(* src/modules/upower.cpp: the device to display, and those of the tooltip.   *)
(* All callbacks run on the main thread.  While the service is away or the    *)
(* system sleeps nothing is shown anew; waking builds everything anew.        *)
(***************************************************************************)
EXTENDS Naturals, FiniteSets

CONSTANTS UpDev, Wanted,      \* devices, and the one "native-path" or "model" names
          DisplayDevice,      \* UPower's own summary of all
          NullDevice,
          MaxUpNews

\* The summary and "none" are no devices.
ASSUME UpAssumption ==
  NullDevice \notin UpDev \cup {DisplayDevice} /\ DisplayDevice \notin UpDev /\ MaxUpNews \in Nat

VARIABLES upNamed, hideIfEmpty,   \* the config
          upService,    \* [runs, present: devices, info: their state, also the summary's]
          upDevices,    \* devices_: those that are read and connected
          upDisplay,    \* upDevice_.upDevice
          upRead,       \* the rest of upDevice_: what was read last, "undefined" before
          upRunning, sleeping, upDp, upShown,
          upNews,
          upMissed      \* history: the service went away since devices_ was made

upConfigVars == <<upNamed, hideIfEmpty>>
upModel == <<upDevices, upDisplay, upRead, upRunning, sleeping, upDp>>
upVars == <<upConfigVars, upService, upModel, upShown, upNews, upMissed>>

UpStates == {"charging", "discharging", "full"}
Undefined == "undefined"

-----------------------------------------------------------------------------
\* setDisplayDevice(): the summary, or the device that has the name.
DisplayOf(s) ==
  IF ~upNamed THEN DisplayDevice
  ELSE IF s.runs /\ Wanted \in s.present THEN Wanted ELSE NullDevice

SetDisplayDevice(s) ==
  /\ upDisplay' = DisplayOf(s)
  /\ upRead' = IF upDisplay' = NullDevice THEN upRead ELSE s.info[upDisplay']

\* resetDevices()
ResetDevices(s) == upDevices' = IF s.runs THEN s.present ELSE {}

-----------------------------------------------------------------------------
Happens(s) == upNews < MaxUpNews /\ upNews' = upNews + 1 /\ upService' = s /\ UNCHANGED <<upConfigVars, upShown>>

\* deviceAdded_cb(); a device that cannot be read is left out.
DeviceAddedCb(d, readable) ==
  /\ upService.runs /\ d \notin upService.present
  /\ Happens([upService EXCEPT !.present = @ \cup {d}])
  /\ upDevices' = IF readable THEN upDevices \cup {d} ELSE upDevices
  /\ SetDisplayDevice(upService')
  /\ upDp' = TRUE
  /\ UNCHANGED <<upRunning, sleeping, upMissed>>

\* deviceRemoved_cb()
DeviceRemovedCb(d) ==
  /\ upService.runs /\ d \in upService.present
  /\ Happens([upService EXCEPT !.present = @ \ {d}])
  /\ upDevices' = upDevices \ {d}
  /\ SetDisplayDevice(upService')
  /\ upDp' = TRUE
  /\ UNCHANGED <<upRunning, sleeping, upMissed>>

\* deviceNotify_cb(), of a device in devices_ or of the one displayed.
DeviceNotifies(d, state) ==
  /\ upService.runs /\ d \in upService.present \cup {DisplayDevice} /\ state # upService.info[d]
  /\ Happens([upService EXCEPT !.info[d] = state])
  /\ upDp' = (upDp \/ d \in upDevices \cup {upDisplay})
  /\ UNCHANGED <<upDevices, upDisplay, upRead, upRunning, sleeping, upMissed>>

\* onVanished(), onAppear(): no update follows; devices may differ when the service is back.
ServiceGoes ==
  /\ upService.runs /\ Happens([upService EXCEPT !.runs = FALSE])
  /\ upRunning' = FALSE /\ upMissed' = TRUE
  /\ UNCHANGED <<upDevices, upDisplay, upRead, sleeping, upDp>>

ServiceComes(present) ==
  /\ ~upService.runs /\ Happens([upService EXCEPT !.runs = TRUE, !.present = present])
  /\ upRunning' = TRUE
  /\ UNCHANGED <<upDevices, upDisplay, upRead, sleeping, upDp, upMissed>>

\* prepareForSleep_cb()
PrepareForSleep ==
  /\ ~sleeping /\ sleeping' = TRUE
  /\ Happens(upService)
  /\ UNCHANGED <<upDevices, upDisplay, upRead, upRunning, upDp, upMissed>>

Resume ==
  /\ sleeping /\ sleeping' = FALSE /\ upDp' = TRUE
  /\ ResetDevices(upService) /\ SetDisplayDevice(upService)
  /\ upMissed' = ~upService.runs
  /\ UNCHANGED <<upConfigVars, upService, upRunning, upShown, upNews>>

\* The summary is a battery's if there is a device.
UpDeviceValid == upDisplay # DisplayDevice \/ upService.present # {}

\* update(); the class is that of the last device if there is none any more.
UpUpdate ==
  /\ upDp /\ upDp' = FALSE
  /\ LET away == ~upRunning \/ sleeping
         there == upDisplay # NullDevice
         read == IF there THEN upService.info[upDisplay] ELSE upRead
         hides == hideIfEmpty /\ (away \/ ~there \/ (upDevices = {} /\ ~UpDeviceValid))
     IN /\ upRead' = IF away THEN upRead ELSE read
        /\ upShown' = CASE hides -> [visible |-> FALSE, text |-> upShown.text, class |-> IF away \/ ~there THEN upShown.class ELSE read]
                        [] ~hides /\ away -> upShown
                        [] OTHER -> [visible |-> TRUE, text |-> IF there THEN read ELSE "", class |-> read]
  /\ UNCHANGED <<upConfigVars, upService, upDevices, upDisplay, upRunning, sleeping, upNews, upMissed>>

\* queryTooltipCb() reads every device again.
TooltipLists == upDevices

-----------------------------------------------------------------------------
UpInit ==
  /\ upNamed \in BOOLEAN /\ hideIfEmpty \in BOOLEAN
  /\ \E here \in SUBSET UpDev :
       upService = [runs |-> TRUE, present |-> here, info |-> [d \in UpDev \cup {DisplayDevice} |-> "charging"]]
  /\ upDevices = upService.present
  /\ upDisplay = DisplayOf(upService)
  /\ upRead = IF upDisplay = NullDevice THEN Undefined ELSE "charging"
  /\ upRunning = TRUE /\ sleeping = FALSE /\ upDp = TRUE
  /\ upShown = [visible |-> TRUE, text |-> "", class |-> ""]
  /\ upNews = 0 /\ upMissed = FALSE

UpNext ==
  \/ \E d \in UpDev, readable \in BOOLEAN : DeviceAddedCb(d, readable)
  \/ \E d \in UpDev : DeviceRemovedCb(d)
  \/ \E d \in UpDev \cup {DisplayDevice}, s \in UpStates : DeviceNotifies(d, s)
  \/ ServiceGoes
  \/ \E here \in SUBSET UpDev : ServiceComes(here)
  \/ PrepareForSleep \/ Resume
  \/ UpUpdate

UpSpec == UpInit /\ [][UpNext]_upVars

-----------------------------------------------------------------------------
UpTypeOK ==
  /\ {upNamed, hideIfEmpty, upRunning, sleeping, upDp, upMissed} \subseteq BOOLEAN
  /\ upDevices \subseteq UpDev /\ upDisplay \in UpDev \cup {DisplayDevice, NullDevice}
  /\ upRead \in UpStates \cup {Undefined} /\ upNews \in 0..MaxUpNews

\* While the service runs and the system is awake, and once no update is due: what is shown
\* is the present state of the device asked for, it is hidden exactly if the config says
\* so and there is none, and the tooltip lists only devices there are, however they came
\* and went during sleep (upower.cpp:193-330, 355-420).
UpowerAgrees ==
  ~upDp /\ upRunning /\ ~sleeping /\ ~upMissed =>
    LET there == ~upNamed \/ Wanted \in upService.present IN
    /\ TooltipLists \subseteq upService.present
    /\ (upShown.visible /\ there) => upShown.text = upService.info[IF upNamed THEN Wanted ELSE DisplayDevice]
    /\ upShown.visible /\ ~there => upShown.text = ""
    /\ ~hideIfEmpty => upShown.visible
    /\ hideIfEmpty /\ upNamed => upShown.visible = there
    /\ hideIfEmpty /\ ~upNamed => upShown.visible = (upService.present # {})
=============================================================================
