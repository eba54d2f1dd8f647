---------------------------- MODULE FailedUnits ----------------------------
(***************************************************************************)
(* src/modules/systemd_failed_units.cpp: two managers tell that something  *)
(* changed, a second later their states are read, then their counts and    *)
(* lists, each by calls of their own while units go on failing and         *)
(* restarting.                                                             *)
(***************************************************************************)
EXTENDS Naturals, FiniteSets

CONSTANTS Manager,      \* "system" and "user", those asked for
          Unit,         \* the units of each
          MaxUnitNews   \* bound on changes

ASSUME UnitAssumption == IsFiniteSet(Unit)

VARIABLES hideOnOk,     \* "hide-on-ok"
          managers,     \* [state, failed: units] of each
          unitSignals,  \* a PropertiesChanged is to be dispatched
          updatePending,    \* update_pending_: the timer runs
          unitReads,    \* what updateData() reads next: "nothing", "counts", "list"
          unitStates, unitCounts, unitList,     \* system_state_ .., nr_failed_system_ .., failed_units_
          unitDp, unitShown,
          unitNews,
          unitsMissed   \* history: a change was not announced, or a call failed

unitData == <<unitStates, unitCounts, unitList>>
unitVars == <<hideOnOk, managers, unitSignals, updatePending, unitReads, unitData, unitDp, unitShown,
              unitNews, unitsMissed>>

None == [m \in Manager |-> 0]
CountsOf(ms) == [m \in Manager |-> Cardinality(ms[m].failed)]
ListOf(ms) == {mu \in Manager \X Unit : mu[2] \in ms[mu[1]].failed}
Overall(states) == IF \A m \in Manager : states[m] = "running" THEN "ok" ELSE "degraded"

-----------------------------------------------------------------------------
\* systemd announces some of what changes.
UnitsChange(m, state, failed, announced) ==
  /\ unitNews < MaxUnitNews /\ unitNews' = unitNews + 1
  /\ [state |-> state, failed |-> failed] # managers[m] /\ (failed # {} => state # "running")
  /\ managers' = [managers EXCEPT ![m] = [state |-> state, failed |-> failed]]
  /\ unitSignals' = (unitSignals \/ announced)
  /\ unitsMissed' = (unitsMissed \/ ~announced)
  /\ UNCHANGED <<hideOnOk, updatePending, unitReads, unitData, unitDp, unitShown>>

-----------------------------------------------------------------------------
\* notify_cb(): at most one timer runs.
NotifyCb ==
  /\ unitSignals /\ unitReads = "nothing" /\ unitSignals' = FALSE
  /\ updatePending' = TRUE
  /\ UNCHANGED <<hideOnOk, managers, unitReads, unitData, unitDp, unitShown, unitNews, unitsMissed>>

\* A manager that does not answer is "unknown", with no failed units.
Answers(failing, value, otherwise) == [m \in Manager |-> IF m \in failing THEN otherwise ELSE value[m]]

\* updateData(), RequestSystemState(): the counts are asked for only if something is wrong.
UpdateData(failing) ==
  /\ updatePending /\ unitReads = "nothing" /\ updatePending' = FALSE
  /\ unitStates' = Answers(failing, [m \in Manager |-> managers[m].state], "unknown")
  /\ unitsMissed' = (failing # {})
  /\ IF Overall(unitStates') = "ok"
     THEN unitCounts' = None /\ unitList' = {} /\ unitReads' = "nothing" /\ unitDp' = TRUE
     ELSE unitReads' = "counts" /\ UNCHANGED <<unitCounts, unitList, unitDp>>
  /\ UNCHANGED <<hideOnOk, managers, unitSignals, unitShown, unitNews>>

\* RequestFailedUnits()
RequestFailedUnits(failing) ==
  /\ unitReads = "counts" /\ unitReads' = "list"
  /\ unitCounts' = Answers(failing, CountsOf(managers), 0)
  /\ unitsMissed' = (unitsMissed \/ failing # {})
  /\ UNCHANGED <<hideOnOk, managers, unitSignals, updatePending, unitStates, unitList, unitDp, unitShown, unitNews>>

\* failed_units_.clear(), and no list is asked for if no unit failed.
ListRead(list) == IF unitCounts = None THEN {} ELSE list

\* RequestFailedUnitsList()
RequestFailedUnitsList(failing) ==
  /\ unitReads = "list" /\ unitReads' = "nothing" /\ unitDp' = TRUE
  /\ unitList' = ListRead({mu \in ListOf(managers) : mu[1] \notin failing})
  /\ unitsMissed' = (unitsMissed \/ failing # {})
  /\ UNCHANGED <<hideOnOk, managers, unitSignals, updatePending, unitStates, unitCounts, unitShown, unitNews>>

\* update(): the class of the last status is taken off only when the label is shown.
UnitsUpdate ==
  /\ unitDp /\ unitReads = "nothing" /\ unitDp' = FALSE
  /\ LET overall == Overall(unitStates) IN
     unitShown' = IF overall = "ok" /\ hideOnOk
                  THEN [unitShown EXCEPT !.visible = FALSE, !.last = "ok"]
                  ELSE [visible |-> TRUE, counts |-> unitCounts, list |-> unitList, last |-> overall,
                        classes |-> (unitShown.classes \ {unitShown.last}) \cup {overall}]
  /\ UNCHANGED <<hideOnOk, managers, unitSignals, updatePending, unitReads, unitData, unitNews, unitsMissed>>

-----------------------------------------------------------------------------
\* The constructor ends with updateData(), as if a timer had been set before.
UnitInit ==
  /\ hideOnOk \in BOOLEAN
  /\ managers \in [Manager -> {[state |-> "running", failed |-> {}], [state |-> "degraded", failed |-> Unit]}]
  /\ unitSignals = FALSE /\ updatePending = TRUE /\ unitReads = "nothing"
  /\ unitStates = [m \in Manager |-> "unknown"] /\ unitCounts = None /\ unitList = {}
  /\ unitDp = FALSE
  /\ unitShown = [visible |-> TRUE, counts |-> None, list |-> {}, last |-> "", classes |-> {}]
  /\ unitNews = 0 /\ unitsMissed = FALSE

UnitNext ==
  \/ \E m \in Manager, s \in {"running", "degraded"}, f \in SUBSET Unit, b \in BOOLEAN : UnitsChange(m, s, f, b)
  \/ NotifyCb
  \/ \E failing \in SUBSET Manager : UpdateData(failing)
  \/ \E failing \in SUBSET Manager : RequestFailedUnits(failing)
  \/ \E failing \in SUBSET Manager : RequestFailedUnitsList(failing)
  \/ UnitsUpdate

UnitSpec == UnitInit /\ [][UnitNext]_unitVars

-----------------------------------------------------------------------------
UnitTypeOK ==
  /\ {hideOnOk, unitSignals, updatePending, unitDp, unitsMissed} \subseteq BOOLEAN
  /\ unitReads \in {"nothing", "counts", "list"} /\ unitNews \in 0..MaxUnitNews
  /\ unitList \subseteq Manager \X Unit

\* Once nothing is to be read or dispatched, the module is hidden or says "ok" exactly if both
\* managers run well, counts and lists the units that failed, and has no class but its state's,
\* whatever changed between the calls, unless a change was not announced or a call failed
\* (systemd_failed_units.cpp:92-101, 241-325).
FailedUnitsAgree ==
  ~unitSignals /\ ~updatePending /\ unitReads = "nothing" /\ ~unitDp /\ ~unitsMissed =>
    LET overall == Overall([m \in Manager |-> managers[m].state]) IN
    /\ unitShown.visible = ~(overall = "ok" /\ hideOnOk)
    /\ unitShown.visible =>
         /\ unitShown.counts = CountsOf(managers) /\ unitShown.list = ListOf(managers)
         /\ unitShown.classes = {overall}
=============================================================================
