--------------------------------- MODULE Battery ---------------------------------
(***************************************************************************)
(* src/modules/battery.cpp on Linux: three threads keep the list of batteries *)
(* and ask for updates, and update() reads the batteries of the list.         *)
(*                                                                         *)
(* Files of a battery that can be read have their value; a value that is not   *)
(* zero stands for any, and a battery draws one unit of power.  Averaging of    *)
(* the power (smooth-power) is left out.                                      *)
(***************************************************************************)
EXTENDS Integers, Sequences, SequencesExt, FiniteSets

CONSTANTS Bat,           \* batteries, as the map orders them: a sequence
          Files,         \* the files of each battery
          Adapter,       \* the mains adapter's node
          BatConfigs,    \* [nodes: the directory's order, adapter: whether it is named, weighted,
                         \* fullAt: percent, fullAtPlugged, low: the state's threshold]
          BatFull,       \* the energy of a full battery
          UintSize,      \* 2^32 in the code
          MaxBatNews

ASSUME BatAssumption ==
  /\ Bat \in Seq(ToSet(Bat)) /\ Adapter \notin ToSet(Bat)
  /\ BatFull \in Nat \ {0} /\ UintSize \in Nat \ {0} /\ MaxBatNews \in Nat

VARIABLES batConfig,
          sysBat, online,       \* sysfs: [here, status, energy] of each battery, and the adapter
          batUdev,              \* events to be read by thread_battery_update_
          batteries, adapterNode, inotifyRuns,
          batDp, batReading,    \* update() has seen that there are batteries
          batShown, lastEvent,
          batNews,
          batDue                \* history: a change that no event told, since the last update

batSystem == <<sysBat, online, batUdev>>
batList == <<batteries, adapterNode, inotifyRuns>>
batView == <<batDp, batReading, batShown, lastEvent>>
batVars == <<batConfig, batSystem, batList, batView, batNews, batDue>>

BatSet == ToSet(Bat)
Statuses == {"Charging", "Discharging", "Full", "Not charging"}

-----------------------------------------------------------------------------
(* getInfos(): what is known of one battery.                                 *)

\* What is missing is computed by the first way that can; one of them gives nothing.
Way(needs, gives) == [needs |-> needs, gives |-> gives]
Derivations ==
  << [lacks |-> "capacity", ways |-> <<Way({"charge", "chargeFull"}, {"capacity"}), Way({"energy", "energyFull"}, {"capacity"})>>],
     [lacks |-> "voltage", ways |-> <<
        Way({"power", "current"}, {"voltage"}), Way({"energyDesign", "chargeDesign"}, {"voltage"}),
        Way({"energy", "charge"}, {"voltage"}), Way({"energy", "capacity", "chargeFull"}, {"charge", "voltage"}),
        Way({"energy"}, {}), Way({"energyFull", "chargeFull"}, {"voltage"}),
        Way({"energyFull", "charge", "capacity"}, {"chargeFull", "voltage"})>>],
     [lacks |-> "capacity", ways |-> <<
        Way({"charge", "energyFull", "voltage"}, {"chargeFull", "capacity"}),
        Way({"chargeFull", "energy", "voltage"}, {"charge", "capacity"})>>],
     [lacks |-> "energy", ways |-> <<
        Way({"voltage", "charge"}, {"energy"}), Way({"voltage", "capacity", "chargeFull"}, {"charge", "energy"}),
        Way({"voltage", "capacity", "energyFull"}, {"chargeFull", "charge", "energy"})>>],
     [lacks |-> "energyFull", ways |-> <<
        Way({"voltage", "chargeFull"}, {"energyFull"}), Way({"voltage", "charge", "capacity"}, {"chargeFull", "energyFull"}),
        Way({"voltage", "capacity", "energy"}, {"charge", "chargeFull", "energyFull"})>>],
     [lacks |-> "power", ways |-> <<Way({"voltage", "current"}, {"power"})>>],
     [lacks |-> "energyDesign", ways |-> <<Way({"voltage", "chargeDesign"}, {"energyDesign"})>>] >>

Known ==
  LET derive(known, d) ==
        LET can == SelectSeq(d.ways, LAMBDA w : w.needs \subseteq known) IN
        IF d.lacks \in known \/ can = <<>> THEN known ELSE known \cup can[1].gives
  IN [b \in BatSet |-> FoldLeft(derive, Files[b], Derivations)]

\* status_gt()
Rank(s) == CASE s = "Unknown" -> 5 [] s = "Full" -> 4 [] s = "Not charging" -> 3 [] s = "Discharging" -> 2 [] s = "Charging" -> 1 [] OTHER -> 0

Some(bs, field) == {b \in bs : sysBat[b].here /\ field \in Known[b]}
SumOf(sys, bs) == FoldSet(LAMBDA b, n : n + sys[b].energy, 0, bs)
PercentOf(n, of) == (100 * n) \div of
NoLimit(n, limit) == n         \* mutant: a battery that is charged past its full capacity

AtMost(n, limit) == IF n > limit THEN limit ELSE n

\* The adapter's "online" is read into a variable that nothing initialises: a battery taken
\* for the adapter has no such file.
OnlineRead == IF adapterNode = Adapter THEN {online} ELSE BOOLEAN
AdapterDischarges == adapterNode \in BatSet /\ sysBat[adapterNode].here /\ sysBat[adapterNode].status = "Discharging"
AdapterStatusFile == IF adapterNode \in BatSet /\ sysBat[adapterNode].here THEN sysBat[adapterNode].status ELSE ""

StatusOfFirst(bs) == IF bs = {} THEN "Unknown" ELSE sysBat[SelectSeq(Bat, LAMBDA b : b \in bs)[1]].status   \* mutant

\* The least in the order of status_gt(); of those that nothing is below, "Charging" and what the
\* order does not know, the first.
StatusOf(bs) ==
  LET file(i) == IF sysBat[Bat[i]].here THEN sysBat[Bat[i]].status ELSE AdapterStatusFile
      its == {i \in DOMAIN Bat : Bat[i] \in bs}
      least == CHOOSE i \in its : \A j \in its : IF Rank(file(i)) > 1 THEN Rank(file(i)) <= Rank(file(j))
                                                ELSE Rank(file(j)) <= 1 => i <= j
  IN IF its = {} THEN "Unknown" ELSE file(least)

\* Energies are summed, percentages averaged; ..
AverageOf(bs) ==
  LET percents == Some(bs, "capacity") IN
  IF percents = {} THEN 0
  ELSE FoldSet(LAMBDA b, n : n + PercentOf(sysBat[b].energy, BatFull), 0, percents) \div Cardinality(bs)

\* .. the time to full is an unsigned difference.
TimeRemaining(bs, status) ==
  LET energy == Some(bs, "energy")
      full == Some(bs, "energyFull")
      power == Cardinality(Some(bs, "power"))
      toEmpty == SelectSeq(Bat, LAMBDA b : b \in Some(bs, "timeToEmpty"))
  IN CASE status = "Discharging" /\ toEmpty # <<>> -> [to |-> "empty", units |-> sysBat[Last(toEmpty)].energy]
       [] status = "Discharging" /\ toEmpty = <<>> /\ power > 0 /\ energy # {} -> [to |-> "empty", units |-> SumOf(sysBat, energy)]
       [] status = "Charging" /\ power > 0 /\ energy # {} /\ full # {} ->
            [to |-> "full", units |-> (BatFull * Cardinality(full) - SumOf(sysBat, energy)) % UintSize]
       [] OTHER -> [to |-> "", units |-> 0]

\* getInfos()
GetInfos(bs, on) ==
  LET energy == Some(bs, "energy")
      full == Some(bs, "energyFull")
      weighted == IF batConfig.weighted /\ energy # {} /\ full # {}
                  THEN PercentOf(SumOf(sysBat, energy), BatFull * Cardinality(full)) ELSE AverageOf(bs)
      capacity == AtMost(IF batConfig.fullAt < 100 THEN PercentOf(weighted, batConfig.fullAt) ELSE weighted, 100)
      s == StatusOf(bs)
      status == IF s \in {"Discharging", "Not charging"} /\ on /\ ~AdapterDischarges THEN "Plugged" ELSE s
  IN [capacity |-> capacity, time |-> TimeRemaining(bs, status),
      status |-> IF capacity = 100 /\ status = "Charging" THEN "Full" ELSE status]

\* getAdapterStatus()
GetAdapterStatus(capacity, on) ==
  CASE capacity = 100 -> "Full"
    [] capacity # 100 /\ on /\ ~AdapterDischarges -> "Plugged"
    [] OTHER -> "Discharging"

GetState(capacity) == IF capacity <= batConfig.low THEN "low" ELSE ""

-----------------------------------------------------------------------------
(* sysfs.  The kernel tells of what comes and goes, and of most of what changes. *)

SysChanges(b, new, told) ==
  /\ batNews < MaxBatNews /\ batNews' = batNews + 1
  /\ new # sysBat[b]
  /\ sysBat' = [sysBat EXCEPT ![b] = new]
  /\ batUdev' = (batUdev \/ told) /\ batDue' = (batDue \/ ~told)
  /\ UNCHANGED <<batConfig, online, batList, batView>>

AdapterChanges ==
  /\ batNews < MaxBatNews /\ batNews' = batNews + 1
  /\ online' = ~online /\ batUdev' = TRUE
  /\ UNCHANGED <<batConfig, sysBat, batList, batView, batDue>>

BatPresent == {b \in BatSet : sysBat[b].here}

\* refreshBatteries(): nodes are looked at in the directory's order, and each that has
\* "online" or "status" is the adapter, unless one is named.  Taking a watch away has the
\* inotify thread read IN_IGNORED, and stop.
RefreshBatteries ==
  LET candidates == SelectSeq(batConfig.nodes, LAMBDA n : IF batConfig.adapter THEN n = Adapter ELSE n \in BatPresent \cup {Adapter})
  IN /\ batteries' = BatPresent
     /\ adapterNode' = Last(candidates)
     /\ inotifyRuns' = (inotifyRuns /\ batteries \subseteq BatPresent)

\* thread_battery_update_
UdevEvent ==
  /\ batUdev /\ batUdev' = FALSE
  /\ RefreshBatteries /\ batDp' = TRUE
  /\ UNCHANGED <<batConfig, sysBat, online, batReading, batShown, lastEvent, batNews, batDue>>

\* thread_timer_
TimerTicks ==
  /\ batDue /\ ~batDp
  /\ RefreshBatteries /\ batDp' = TRUE
  /\ UNCHANGED <<batConfig, batSystem, batReading, batShown, lastEvent, batNews, batDue>>

\* thread_: somebody reads the uevent file of a battery.
UeventRead ==
  /\ inotifyRuns /\ batteries # {} /\ ~batDp /\ batDp' = TRUE
  /\ UNCHANGED <<batConfig, batSystem, batList, batReading, batShown, lastEvent, batNews, batDue>>

-----------------------------------------------------------------------------
(* update(), on the main thread; refreshBatteries() may run after the first look. *)

BatUpdateStarts ==
  /\ batDp /\ ~batReading /\ batDp' = FALSE
  /\ IF batteries = {} THEN batShown' = [batShown EXCEPT !.visible = FALSE] /\ batDue' = FALSE /\ UNCHANGED batReading
     ELSE batReading' = TRUE /\ UNCHANGED <<batShown, batDue>>
  /\ UNCHANGED <<batConfig, batSystem, batList, lastEvent, batNews>>

\* setBarClass() and processEvents() included.
BatUpdateShows(on, on2) ==
  /\ batReading /\ batReading' = FALSE
  /\ on \in OnlineRead /\ on2 \in OnlineRead
  /\ LET i == GetInfos(batteries, on)
         known == IF i.status = "Unknown" THEN GetAdapterStatus(i.capacity, on2) ELSE i.status
         status == IF batConfig.fullAtPlugged /\ known = "Full" /\ adapterNode = Adapter /\ online THEN "Plugged" ELSE known
         state == GetState(i.capacity)
     IN /\ batShown' = [visible |-> TRUE, capacity |-> i.capacity, status |-> status, time |-> i.time, barClass |-> state]
        /\ lastEvent' = <<IF status = "Discharging" THEN "on-discharging" ELSE "on-charging", state, IF state = "" THEN i.capacity ELSE 0>>
  /\ batDue' = FALSE
  /\ UNCHANGED <<batConfig, batSystem, batList, batDp, batNews>>

-----------------------------------------------------------------------------
BatInit ==
  /\ batConfig \in BatConfigs
  /\ \E here \in SUBSET BatSet, s \in {"Charging", "Discharging"} :
       sysBat = [b \in BatSet |-> [here |-> b \in here, status |-> s, energy |-> 1]]
  /\ online \in BOOLEAN /\ batUdev = TRUE
  /\ batteries = {} /\ adapterNode = Adapter /\ inotifyRuns = TRUE
  /\ batDp = FALSE /\ batReading = FALSE
  /\ batShown = [visible |-> TRUE, capacity |-> 0, status |-> "", time |-> [to |-> "", units |-> 0], barClass |-> ""]
  /\ lastEvent = <<>> /\ batNews = 0 /\ batDue = FALSE

BatNext ==
  \/ \E b \in BatSet : SysChanges(b, [sysBat[b] EXCEPT !.here = ~@], TRUE)
  \/ \E b \in BatSet, s \in Statuses, told \in BOOLEAN : SysChanges(b, [sysBat[b] EXCEPT !.status = s], told)
  \/ \E b \in BatSet, e \in 0..(BatFull + 1), told \in BOOLEAN : SysChanges(b, [sysBat[b] EXCEPT !.energy = e], told)
  \/ AdapterChanges
  \/ UdevEvent
  \/ TimerTicks
  \/ UeventRead
  \/ BatUpdateStarts
  \/ \E on, on2 \in BOOLEAN : BatUpdateShows(on, on2)

BatSpec == BatInit /\ [][BatNext]_batVars

-----------------------------------------------------------------------------
BatTypeOK ==
  /\ batConfig \in BatConfigs /\ batteries \subseteq BatSet /\ adapterNode \in BatSet \cup {Adapter}
  /\ {online, batUdev, inotifyRuns, batDp, batReading, batDue} \subseteq BOOLEAN
  /\ batShown.capacity \in 0..100 /\ batShown.time.units \in 0..(UintSize - 1) /\ batNews \in 0..MaxBatNews

\* Once the events are read and the update is made: hidden exactly if there is no battery, else
\* the percentage is that of all batteries together, one that charges shows as charging (or
\* full) and, with the adapter found and on, none as discharging; the bar's class and the
\* last event fit what is shown (battery.cpp:77-200, 243-702, 754-860).
WithStatus(s) == {b \in BatPresent : sysBat[b].status = s}

PercentageFits ==
  batConfig.weighted /\ batConfig.fullAt = 100 /\ (\A b \in BatPresent : "energy" \in Known[b] /\ "energyFull" \in Known[b]) =>
    batShown.capacity = AtMost(PercentOf(SumOf(sysBat, BatPresent), BatFull * Cardinality(BatPresent)), 100)

StatusFits ==
  /\ WithStatus("Charging") # {} => batShown.status \in {"Charging", "Full", "Plugged"}
  /\ WithStatus("Charging") = {} /\ WithStatus("Discharging") # {} /\ adapterNode = Adapter =>
       batShown.status = IF online THEN "Plugged" ELSE "Discharging"

EventFits ==
  /\ batShown.barClass = GetState(batShown.capacity)
  /\ (lastEvent[1] = "on-discharging") = (batShown.status = "Discharging") /\ lastEvent[2] = batShown.barClass

BatteryAgrees ==
  ~batUdev /\ ~batDp /\ ~batReading /\ ~batDue =>
    /\ batShown.visible = (BatPresent # {})
    /\ batShown.visible => PercentageFits /\ StatusFits /\ EventFits
=============================================================================
