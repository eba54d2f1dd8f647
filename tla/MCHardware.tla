----------------------------- MODULE MCHardware -----------------------------
(***************************************************************************)
(* The modules that show the machine's power, its inputs and what uses it,  *)
(* over small instances.  They share no state and never call each other, so *)
(* that the states of all of them are those of each: part says which one    *)
(* runs, and the others rest in one of their initial states.                *)
(***************************************************************************)
EXTENDS Upower, Battery, Backlight, KeyboardState, IdleInhibitor, PowerProfiles, Gamemode, FailedUnits, Privacy

VARIABLE part   \* the component that runs

Parts == {"upower", "battery", "backlight", "keyboard", "inhibitor", "profiles", "gamemode", "units", "privacy"}

TwoBats == <<"b0", "b1">>
BatFiles ==
  [b \in {"b0", "b1"} |-> IF b = "b0" THEN {"energy", "energyFull", "power", "current"}
                          ELSE {"charge", "chargeFull", "voltage", "current", "timeToEmpty"}]
BatCfg(nodes, adapter, weighted, at, plugged) ==
  [nodes |-> nodes, adapter |-> adapter, weighted |-> weighted, fullAt |-> at, fullAtPlugged |-> plugged, low |-> 30]
BatCfgs ==
  {BatCfg(<<"ac", "b0", "b1">>, TRUE, TRUE, 100, TRUE), BatCfg(<<"b0", "b1", "ac">>, FALSE, FALSE, 80, FALSE),
   BatCfg(<<"ac", "b1", "b0">>, FALSE, TRUE, 100, FALSE)}

\* Of 255 levels most lie between two percents, of 3 none gets lost.
BlMaxes == [d \in BlDevice |-> IF d = "s1" THEN 255 ELSE 3]
BlCfg(p, slider, min, max) == [preferred |-> p, slider |-> slider, step |-> 40, min |-> min, max |-> max]
BlCfgs == {BlCfg("", FALSE, 0, 100), BlCfg("kbd", FALSE, 30, 100), BlCfg("", TRUE, 0, 100), BlCfg("kbd", TRUE, 20, 90)}

TwoBars == <<"x", "y">>
ThreeProfiles == <<"saver", "balanced", "performance">>
Kinds == [n \in PwNode |-> IF n = "s" THEN "screenshare" ELSE "audio-in"]

\* The initial state a component rests in while another one runs.
InUpowerRests == ~upNamed /\ ~hideIfEmpty /\ upService.present = {}
InBatteryRests == batConfig.adapter /\ online /\ \A b \in BatSet : ~sysBat[b].here /\ sysBat[b].status = "Charging"
InBacklightRests == blConfig.slider /\ blConfig.min = 0 /\ Len(blDevices) = 1 /\ blDevices[1].name = "s1" /\ ~sysBl["kbd"].here
InKeyboardRests == kbdConfig = NoKbd /\ kbdTracked = Kbd /\ kbdLit = {}
InInhibitorRests == inhConfig = [timeout |-> 0, dynamic |-> FALSE, wait |-> FALSE, start |-> FALSE]
InProfilesRests == daemonActive = OddProfile
InGamemodeRests == hideNotRunning /\ ~service.runs
InUnitsRests == hideOnOk /\ \A m \in Manager : managers[m].failed = {}
InPrivacyRests == privacyNodes = {}

Init ==
  /\ part \in Parts
  /\ UpInit /\ (part # "upower" => InUpowerRests)
  /\ BatInit /\ (part # "battery" => InBatteryRests)
  /\ BlInit /\ (part # "backlight" => InBacklightRests)
  /\ KbdInit /\ (part # "keyboard" => InKeyboardRests)
  /\ InhInit /\ (part # "inhibitor" => InInhibitorRests)
  /\ PpInit /\ (part # "profiles" => InProfilesRests)
  /\ GameInit /\ (part # "gamemode" => InGamemodeRests)
  /\ UnitInit /\ (part # "units" => InUnitsRests)
  /\ PrivInit /\ (part # "privacy" => InPrivacyRests)

\* A step of one component.
InUpower(A) == part = "upower" /\ A /\ UNCHANGED <<part, batVars, blVars, kbdVars, inhVars, ppVars, gameVars, unitVars, privVars>>
InBattery(A) == part = "battery" /\ A /\ UNCHANGED <<part, upVars, blVars, kbdVars, inhVars, ppVars, gameVars, unitVars, privVars>>
InBacklight(A) == part = "backlight" /\ A /\ UNCHANGED <<part, upVars, batVars, kbdVars, inhVars, ppVars, gameVars, unitVars, privVars>>
InKeyboard(A) == part = "keyboard" /\ A /\ UNCHANGED <<part, upVars, batVars, blVars, inhVars, ppVars, gameVars, unitVars, privVars>>
InInhibitor(A) == part = "inhibitor" /\ A /\ UNCHANGED <<part, upVars, batVars, blVars, kbdVars, ppVars, gameVars, unitVars, privVars>>
InProfiles(A) == part = "profiles" /\ A /\ UNCHANGED <<part, upVars, batVars, blVars, kbdVars, inhVars, gameVars, unitVars, privVars>>
InGamemode(A) == part = "gamemode" /\ A /\ UNCHANGED <<part, upVars, batVars, blVars, kbdVars, inhVars, ppVars, unitVars, privVars>>
InUnits(A) == part = "units" /\ A /\ UNCHANGED <<part, upVars, batVars, blVars, kbdVars, inhVars, ppVars, gameVars, privVars>>
InPrivacy(A) == part = "privacy" /\ A /\ UNCHANGED <<part, upVars, batVars, blVars, kbdVars, inhVars, ppVars, gameVars, unitVars>>

InUpowerStep ==
  \/ \E d \in UpDev, readable \in BOOLEAN : InUpower(DeviceAddedCb(d, readable))
  \/ \E d \in UpDev : InUpower(DeviceRemovedCb(d))
  \/ \E d \in UpDev \cup {DisplayDevice}, s \in UpStates : InUpower(DeviceNotifies(d, s))
  \/ InUpower(ServiceGoes)
  \/ \E here \in SUBSET UpDev : InUpower(ServiceComes(here))
  \/ InUpower(PrepareForSleep)
  \/ InUpower(Resume)
  \/ InUpower(UpUpdate)

InBatteryStep ==
  \/ \E b \in BatSet : InBattery(SysChanges(b, [sysBat[b] EXCEPT !.here = ~@], TRUE))
  \/ \E b \in BatSet, s \in Statuses, told \in BOOLEAN : InBattery(SysChanges(b, [sysBat[b] EXCEPT !.status = s], told))
  \/ \E b \in BatSet, e \in 0..(BatFull + 1), told \in BOOLEAN : InBattery(SysChanges(b, [sysBat[b] EXCEPT !.energy = e], told))
  \/ InBattery(AdapterChanges)
  \/ InBattery(UdevEvent)
  \/ InBattery(TimerTicks)
  \/ InBattery(UeventRead)
  \/ InBattery(BatUpdateStarts)
  \/ \E on, on2 \in BOOLEAN : InBattery(BatUpdateShows(on, on2))

InBacklightStep ==
  \/ \E d \in BlDevice : InBacklight(BlChanges(d, [sysBl[d] EXCEPT !.here = ~@], TRUE))
  \/ \E d \in BlDevice, v \in 0..3, told \in BOOLEAN : InBacklight(BlChanges(d, [sysBl[d] EXCEPT !.actual = v], told))
  \/ \E d \in BlDevice, told \in BOOLEAN : InBacklight(BlChanges(d, [sysBl[d] EXCEPT !.powered = ~@], told))
  \/ InBacklight(EventReceived)
  \/ InBacklight(PollTimesOut)
  \/ InBacklight(LabelUpdate)
  \/ InBacklight(SliderUpdate)
  \/ \E to \in {0, 50, 100} : InBacklight(SliderMoved(to))
  \/ \E up \in BOOLEAN : InBacklight(BlScrolled(up))

InKeyboardStep ==
  \/ \E k \in Kbd : InKeyboard(KbdPlugged(k))
  \/ \E k \in Kbd : InKeyboard(KbdReady(k))
  \/ \E k \in Kbd : InKeyboard(KbdUnplugged(k))
  \/ \E k \in Kbd : InKeyboard(LedsChange(k))
  \/ InKeyboard(KeyReleased)
  \/ InKeyboard(LibinputThread)
  \/ InKeyboard(HotplugWatches)
  \/ InKeyboard(HotplugEnds)
  \/ InKeyboard(HotplugCreated)
  \/ InKeyboard(HotplugDeleted)
  \/ InKeyboard(HotplugTriesAgain)
  \/ \E opens \in BOOLEAN : InKeyboard(HotplugAdds(opens))
  \/ InKeyboard(KbdUpdateStarts)
  \/ InKeyboard(KbdUpdateShows)

InInhibitorStep ==
  \/ \E b \in Bars, button \in 1..3 : InInhibitor(Click(b, button))
  \/ \E b \in Bars, up \in BOOLEAN : InInhibitor(InhScroll(b, up))
  \/ InInhibitor(Refresh)
  \/ \E b \in Bars : InInhibitor(InhUpdate(b))
  \/ \E t \in inh.timers : InInhibitor(Tick(t))
  \/ InInhibitor(HalfMinute)
  \/ \E b \in Bars : InInhibitor(HandleIdled(b))
  \/ \E b \in Bars : InInhibitor(BarMakesModule(b))
  \/ \E b \in Bars : InInhibitor(BarEndsModule(b))

InProfilesStep ==
  \/ \E p \in Profiles \cup {OddProfile} : InProfiles(OtherSets(p))
  \/ \E grants \in BOOLEAN : InProfiles(DaemonAnswers(grants))
  \/ \E works \in BOOLEAN : InProfiles(BusConnectedCb(works))
  \/ \E works \in BOOLEAN : InProfiles(GetAllPropsCb(works))
  \/ InProfiles(ProfileChangedCb)
  \/ InProfiles(SetPropCb)
  \/ \E left \in BOOLEAN : InProfiles(PpHandleToggle(left))
  \/ InProfiles(PpUpdate)

InGamemodeStep ==
  \/ \E n \in 0..MaxGames : InGamemode(GamesChange(n))
  \/ \E n \in 0..MaxGames : InGamemode(ServiceStarts(n))
  \/ InGamemode(ServiceStops)
  \/ InGamemode(SystemResumes)
  \/ \E what \in {"changed", "resume"}, reads \in BOOLEAN : InGamemode(NotifyCbGame(what, reads))
  \/ \E reads \in BOOLEAN : InGamemode(Appear(reads))
  \/ InGamemode(Disappear)
  \/ InGamemode(GameToggle)
  \/ InGamemode(GameUpdate)

InUnitsStep ==
  \/ \E m \in Manager, s \in {"running", "degraded"}, f \in SUBSET Unit, b \in BOOLEAN : InUnits(UnitsChange(m, s, f, b))
  \/ InUnits(NotifyCb)
  \/ \E failing \in SUBSET Manager : InUnits(UpdateData(failing))
  \/ \E failing \in SUBSET Manager : InUnits(RequestFailedUnits(failing))
  \/ \E failing \in SUBSET Manager : InUnits(RequestFailedUnitsList(failing))
  \/ InUnits(UnitsUpdate)

InPrivacyStep ==
  \/ \E n \in PwNode : InPrivacy(NodeComes(n))
  \/ \E n \in PwNode, running \in BOOLEAN : InPrivacy(NodeInfo(n, running))
  \/ \E n \in PwNode : InPrivacy(NodeGoes(n))
  \/ InPrivacy(NodeGone)
  \/ \E inUse \in BOOLEAN : InPrivacy(GeoChanges(inUse))
  \/ InPrivacy(LocationTimeout)
  \/ InPrivacy(PrivUpdate)
  \/ InPrivacy(BoxTimeout)
  \/ \E k \in PrivKind : InPrivacy(ItemTimeout(k))

Next == InUpowerStep \/ InBatteryStep \/ InBacklightStep \/ InKeyboardStep \/ InInhibitorStep \/ InProfilesStep \/ InGamemodeStep \/ InUnitsStep \/ InPrivacyStep

Spec == Init /\ [][Next]_<<part, upVars, batVars, blVars, kbdVars, inhVars, ppVars, gameVars, unitVars, privVars>>

-----------------------------------------------------------------------------
\* The types of all of them.
HardwareTypeOK == part \in Parts /\ UpTypeOK /\ BatTypeOK /\ BlTypeOK /\ KbdTypeOK /\ InhTypeOK /\ PpTypeOK /\ GameTypeOK /\ UnitTypeOK /\ PrivTypeOK

\* What is said of the power: UPower's device, the batteries of /sys, the active profile
\* (upower.cpp, battery.cpp, power_profiles_daemon.cpp).
PowerAgrees == UpowerAgrees /\ BatteryAgrees /\ ProfilesAgree

\* What the user works with: the light of the screen, the keyboards' locks, the inhibitor of
\* every bar (backlight.cpp, keyboard_state.cpp, idle_inhibitor.cpp).
InputAgrees == BacklightAgrees /\ KeyboardAgrees /\ InhibitorAgrees

\* What uses the machine: nodes and location, games, units that failed (privacy.cpp,
\* gamemode.cpp, systemd_failed_units.cpp).
UseAgrees == PrivacyAgrees /\ GamesAgree /\ FailedUnitsAgree
=============================================================================
