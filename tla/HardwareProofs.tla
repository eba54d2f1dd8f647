--------------------------- MODULE HardwareProofs ---------------------------
(***************************************************************************)
(* Theorems about the modules of MCHardware, for any number of devices,     *)
(* batteries, profiles, keyboards, nodes, units and games and any number of  *)
(* changes: what they show at rest is what is.                               *)
(***************************************************************************)
EXTENDS MCHardware, FiniteSetTheorems, WellFoundedInduction, TLAPS

-----------------------------------------------------------------------------
(* gamemode.cpp.  The last word on the wire says whether the service runs;   *)
(* once that is read, one more event, of any kind, reads the count.          *)

Appearance == {"appear", "disappear"}
GameEvents == Appearance \cup {"changed", "resume"}
Unmentioned(w) == \A j \in 1..Len(w) : w[j] \notin Appearance
EndsWith(w, e) == \E i \in 1..Len(w) : w[i] = e /\ \A j \in 1..Len(w) : j > i => w[j] \notin Appearance

GameRuns ==
  service.runs =>
    \/ EndsWith(gameInbox, "appear")
    \/ Unmentioned(gameInbox) /\ gamemodeRunning /\ (gameInbox # <<>> \/ gamesMissed \/ gameCount = service.games)
GameStopped ==
  ~service.runs => EndsWith(gameInbox, "disappear") \/ (Unmentioned(gameInbox) /\ ~gamemodeRunning)

\* With no update due the module shows what it knows.
GameShowsKnown ==
  ~gameDp =>
    /\ gameShown.visible = (gamemodeRunning /\ (gameCount > 0 \/ ~hideNotRunning))
    /\ gameShown.visible => gameShown.count = gameCount

GameTypes ==
  /\ service \in [runs : BOOLEAN, games : Nat] /\ gameInbox \in Seq(GameEvents)
  /\ gameCount \in Nat /\ gameShown \in [visible : BOOLEAN, count : Nat]
  /\ hideNotRunning \in BOOLEAN /\ gamemodeRunning \in BOOLEAN /\ gameDp \in BOOLEAN /\ gamesMissed \in BOOLEAN

GameInv == GameTypes /\ GameRuns /\ GameStopped /\ GameShowsKnown

\* A new event becomes the last one; the first is taken off.
LEMMA InboxAppend ==
  ASSUME NEW w \in Seq(GameEvents), NEW e \in GameEvents, NEW v, v = Append(w, e)
  PROVE  /\ v \in Seq(GameEvents) /\ v # <<>>
         /\ e \in Appearance => EndsWith(v, e)
         /\ e \notin Appearance => /\ \A f \in Appearance : EndsWith(w, f) => EndsWith(v, f)
                                   /\ Unmentioned(w) => Unmentioned(v)
<1>1. /\ v \in Seq(GameEvents) /\ Len(v) = Len(w) + 1 /\ v[Len(v)] = e /\ Len(w) \in Nat /\ v # <<>>
      /\ \A i \in 1..Len(w) : v[i] = w[i] /\ i \in 1..Len(v)
      /\ \A i \in 1..Len(v) : i \in 1..Len(w) \/ i = Len(v)
  OBVIOUS
<1> QED  BY <1>1 DEF EndsWith, Unmentioned

LEMMA InboxTail ==
  ASSUME NEW w \in Seq(GameEvents), w # <<>>, NEW v, v = Tail(w)
  PROVE  /\ v \in Seq(GameEvents)
         /\ \A f \in Appearance : EndsWith(w, f) => EndsWith(v, f) \/ (Head(w) = f /\ Unmentioned(v))
         /\ Unmentioned(w) => Unmentioned(v) /\ Head(w) \notin Appearance
<1>1. /\ v \in Seq(GameEvents) /\ Len(v) \in Nat /\ Len(w) = Len(v) + 1 /\ Head(w) = w[1]
      /\ \A i \in 1..Len(v) : i + 1 \in 1..Len(w) /\ v[i] = w[i + 1]
      /\ 1 \in 1..Len(w)
  OBVIOUS
<1>2. ASSUME NEW f \in Appearance, NEW i \in 1..Len(w), w[i] = f, \A j \in 1..Len(w) : j > i => w[j] \notin Appearance
      PROVE  EndsWith(v, f) \/ (Head(w) = f /\ Unmentioned(v))
  <2>1. CASE i = 1
    BY <1>1, <1>2, <2>1 DEF Unmentioned
  <2>2. CASE i > 1
    <3>1. i - 1 \in 1..Len(v) /\ v[i - 1] = f
      BY <1>1, <1>2, <2>2
    <3>2. \A j \in 1..Len(v) : j > i - 1 => v[j] \notin Appearance
      BY <1>1, <1>2, <2>2
    <3> QED  BY <3>1, <3>2 DEF EndsWith
  <2> QED  BY <2>1, <2>2
<1> QED  BY <1>1, <1>2 DEF EndsWith, Unmentioned

\* The service, and D-Bus that tells of it.
LEMMA GameNewsKeep ==
  ASSUME GameInv,
         \/ \E n \in 0..MaxGames : GamesChange(n) \/ ServiceStarts(n)
         \/ ServiceStops \/ SystemResumes
  PROVE  GameInv'
<1>0. GameTypes /\ GameRuns /\ GameStopped /\ GameShowsKnown
  BY DEF GameInv
<1>1. PICK e \in GameEvents :
        /\ gameInbox' = Append(gameInbox, e) /\ UNCHANGED <<hideNotRunning, gameModel, gamesMissed>>
        /\ service' \in [runs : BOOLEAN, games : Nat]
        /\ e = "appear" => service'.runs
        /\ e = "disappear" => ~service'.runs
        /\ e \notin Appearance => service'.runs = service.runs
  <2>1. ASSUME NEW n \in 0..MaxGames, GamesChange(n) PROVE /\ GameNewsComes("changed") /\ service' = [service EXCEPT !.games = n] /\ n \in Nat
    BY <2>1 DEF GamesChange
  <2>2. ASSUME NEW n \in 0..MaxGames, ServiceStarts(n)
        PROVE  GameNewsComes("appear") /\ service' \in [runs : BOOLEAN, games : Nat] /\ service'.runs = TRUE
    BY <2>2 DEF ServiceStarts
  <2>3. CASE ServiceStops
    BY <2>3 DEF ServiceStops, GameNewsComes, GameEvents, Appearance
  <2>4. CASE SystemResumes
    BY <1>0, <2>4 DEF SystemResumes, GameNewsComes, GameEvents, Appearance, GameTypes
  <2>5. CASE \E n \in 0..MaxGames : GamesChange(n)
    BY <1>0, <2>1, <2>5 DEF GameNewsComes, GameEvents, Appearance, GameTypes
  <2>6. CASE \E n \in 0..MaxGames : ServiceStarts(n)
    BY <2>2, <2>6 DEF GameNewsComes, GameEvents, Appearance
  <2> QED  BY <2>3, <2>4, <2>5, <2>6
<1>2. /\ gameInbox' \in Seq(GameEvents) /\ gameInbox' # <<>>
      /\ e \in Appearance => EndsWith(gameInbox', e)
      /\ e \notin Appearance => /\ \A f \in Appearance : EndsWith(gameInbox, f) => EndsWith(gameInbox', f)
                                /\ Unmentioned(gameInbox) => Unmentioned(gameInbox')
  BY <1>0, <1>1, InboxAppend DEF GameTypes
<1>3. GameRuns' /\ GameStopped'
  BY <1>0, <1>1, <1>2 DEF GameRuns, GameStopped, Appearance, gameModel
<1> QED  BY <1>0, <1>1, <1>2, <1>3 DEF GameInv, GameTypes, GameShowsKnown, gameModel

\* What the module reads, and shows.
LEMMA GameReadKeeps ==
  ASSUME GameInv,
         \/ \E what \in {"changed", "resume"}, reads \in BOOLEAN : NotifyCbGame(what, reads)
         \/ \E reads \in BOOLEAN : Appear(reads)
         \/ Disappear
  PROVE  GameInv'
<1>0. GameTypes /\ GameRuns /\ GameStopped /\ GameShowsKnown
  BY DEF GameInv
<1>1. /\ gameInbox # <<>> /\ gameInbox' = Tail(gameInbox) /\ UNCHANGED <<hideNotRunning, service>>
  BY DEF NotifyCbGame, Appear, Disappear, Dispatched
<1>2. /\ gameInbox' \in Seq(GameEvents)
      /\ \A f \in Appearance : EndsWith(gameInbox, f) => EndsWith(gameInbox', f) \/ (Head(gameInbox) = f /\ Unmentioned(gameInbox'))
      /\ Unmentioned(gameInbox) => Unmentioned(gameInbox') /\ Head(gameInbox) \notin Appearance
  BY <1>0, <1>1, InboxTail DEF GameTypes
<1>3. ASSUME NEW what \in {"changed", "resume"}, NEW reads \in BOOLEAN, NotifyCbGame(what, reads) PROVE GameInv'
  <2>1. /\ Head(gameInbox) = what /\ what \notin Appearance /\ gameDp' = TRUE /\ UNCHANGED <<gamemodeRunning, gameShown>>
        /\ gameCount' = IF gamemodeRunning /\ service.runs /\ reads THEN service.games ELSE 0
        /\ gamesMissed' = (gamemodeRunning /\ ~reads)
    BY <1>3 DEF NotifyCbGame, Dispatched, GetData, Appearance
  <2>2. gameCount' \in Nat /\ gamesMissed' \in BOOLEAN
    BY <1>0, <2>1 DEF GameTypes
  <2>3. GameRuns' /\ GameStopped'
    BY <1>0, <1>1, <1>2, <2>1 DEF GameRuns, GameStopped, Appearance
  <2> QED  BY <1>0, <1>1, <1>2, <2>1, <2>2, <2>3 DEF GameInv, GameTypes, GameShowsKnown
<1>4. ASSUME NEW reads \in BOOLEAN, Appear(reads) PROVE GameInv'
  <2>1. /\ Head(gameInbox) = "appear" /\ gameDp' = TRUE /\ gamemodeRunning' = TRUE
        /\ gameShown' = [gameShown EXCEPT !.visible = TRUE]
        /\ gameCount' = IF service.runs /\ reads THEN service.games ELSE 0
        /\ gamesMissed' = ~reads
    BY <1>4 DEF Appear, Dispatched, GetData
  <2>2. gameCount' \in Nat /\ gamesMissed' \in BOOLEAN /\ gameShown' \in [visible : BOOLEAN, count : Nat]
    BY <1>0, <2>1 DEF GameTypes
  <2>3. GameRuns' /\ GameStopped'
    BY <1>0, <1>1, <1>2, <2>1 DEF GameRuns, GameStopped, Appearance
  <2> QED  BY <1>0, <1>1, <1>2, <2>1, <2>2, <2>3 DEF GameInv, GameTypes, GameShowsKnown
<1>5. CASE Disappear
  <2>1. /\ Head(gameInbox) = "disappear" /\ gamemodeRunning' = FALSE
        /\ gameShown' = [gameShown EXCEPT !.visible = FALSE]
        /\ UNCHANGED <<gameCount, gameDp, gamesMissed>>
    BY <1>5 DEF Disappear, Dispatched
  <2>2. gameShown' \in [visible : BOOLEAN, count : Nat] /\ gameShown'.visible = FALSE
    BY <1>0, <2>1 DEF GameTypes
  <2>3. GameRuns' /\ GameStopped'
    BY <1>0, <1>1, <1>2, <2>1 DEF GameRuns, GameStopped, Appearance
  <2> QED  BY <1>0, <1>1, <1>2, <2>1, <2>2, <2>3 DEF GameInv, GameTypes, GameShowsKnown
<1> QED  BY <1>3, <1>4, <1>5

LEMMA GameKeeps == GameInv /\ [GameNext]_gameVars => GameInv'
<1> SUFFICES ASSUME GameInv, [GameNext]_gameVars PROVE GameInv'
  OBVIOUS
<1> USE DEF GameInv, GameTypes, GameRuns, GameStopped, GameShowsKnown
<1>1. CASE UNCHANGED gameVars
  BY <1>1 DEF gameVars, gameModel
<1>2. CASE GameToggle
  BY <1>2 DEF GameToggle
<1>3. CASE GameUpdate
  <2>1. /\ gameDp' = FALSE
        /\ UNCHANGED <<hideNotRunning, service, gameInbox, gamemodeRunning, gameCount, gamesMissed>>
        /\ gameShown' = IF ~gamemodeRunning \/ (gameCount = 0 /\ hideNotRunning)
                        THEN [gameShown EXCEPT !.visible = FALSE]
                        ELSE [visible |-> TRUE, count |-> gameCount]
    BY <1>3 DEF GameUpdate
  <2>2. CASE ~gamemodeRunning \/ (gameCount = 0 /\ hideNotRunning)
    <3>1. gameShown' \in [visible : BOOLEAN, count : Nat] /\ gameShown'.visible = FALSE
      BY <2>1, <2>2
    <3>2. (gamemodeRunning /\ (gameCount > 0 \/ ~hideNotRunning)) = FALSE
      BY <2>2
    <3> QED  BY <2>1, <3>1, <3>2
  <2>3. CASE gamemodeRunning /\ ~(gameCount = 0 /\ hideNotRunning)
    <3>1. gameShown' \in [visible : BOOLEAN, count : Nat] /\ gameShown'.visible = TRUE /\ gameShown'.count = gameCount
      BY <2>1, <2>3
    <3>2. gameCount > 0 \/ ~hideNotRunning
      BY <2>3
    <3> QED  BY <2>1, <2>3, <3>1, <3>2
  <2> QED  BY <2>2, <2>3
<1> QED  BY <1>1, <1>2, <1>3, GameNewsKeep, GameReadKeeps DEF GameNext

LEMMA GameInvImplies == GameInv => GamesAgree
BY DEF GameInv, GameTypes, GameRuns, GameStopped, GameShowsKnown, GamesAgree, EndsWith

LEMMA GameStarts == GameInit => GameInv
<1> SUFFICES ASSUME GameInit PROVE GameInv
  OBVIOUS
<1>s. service \in [runs : BOOLEAN, games : Nat]
  <2>1. \A n \in 0..MaxGames : [runs |-> TRUE, games |-> n] \in [runs : BOOLEAN, games : Nat]
    OBVIOUS
  <2>2. [runs |-> FALSE, games |-> 0] \in [runs : BOOLEAN, games : Nat]
    OBVIOUS
  <2> QED  BY <2>1, <2>2 DEF GameInit
<1>1. /\ hideNotRunning \in BOOLEAN /\ gamemodeRunning = FALSE /\ gameCount = 0 /\ gameDp = TRUE /\ gamesMissed = FALSE
      /\ gameShown = [visible |-> TRUE, count |-> 0]
  BY DEF GameInit
<1>2. PICK e \in Appearance : gameInbox = <<e>> /\ (service.runs => e = "appear") /\ (~service.runs => e = "disappear")
  BY DEF GameInit, Appearance
<1>3. gameInbox \in Seq(GameEvents) /\ EndsWith(gameInbox, e)
  BY <1>2 DEF GameEvents, EndsWith
<1> QED  BY <1>s, <1>1, <1>2, <1>3 DEF GameInv, GameTypes, GameRuns, GameStopped, GameShowsKnown

-----------------------------------------------------------------------------
(* systemd_failed_units.cpp.  What was read is what is, unless a signal waits, *)
(* the timer runs or something was missed.                                   *)

ManagerStates == [state : {"running", "degraded"}, failed : SUBSET Unit]

UnitTypes ==
  /\ managers \in [Manager -> ManagerStates]
  /\ \A m \in Manager : managers[m].failed # {} => managers[m].state # "running"
  /\ hideOnOk \in BOOLEAN /\ unitSignals \in BOOLEAN /\ updatePending \in BOOLEAN
  /\ unitDp \in BOOLEAN /\ unitsMissed \in BOOLEAN
  /\ unitReads \in {"nothing", "counts", "list"}

UnitsCurrent == ~unitSignals /\ ~updatePending /\ ~unitsMissed

\* Each of the calls that were made has given what is so.
UnitsRead ==
  UnitsCurrent =>
    /\ unitStates = [m \in Manager |-> managers[m].state]
    /\ unitReads = "list" => unitCounts = CountsOf(managers)
    /\ unitReads = "nothing" => unitCounts = CountsOf(managers) /\ unitList = ListOf(managers)

\* What is shown is what was read; a class of another state stays only while the module is hidden.
UnitsShowRead ==
  ~unitDp /\ unitReads = "nothing" /\ ~updatePending =>
    /\ unitShown.visible = ~(Overall(unitStates) = "ok" /\ hideOnOk)
    /\ unitShown.visible =>
         /\ unitShown.counts = unitCounts /\ unitShown.list = unitList
         /\ unitShown.classes = {Overall(unitStates)}
UnitClasses == unitShown.classes \subseteq IF hideOnOk THEN {"degraded"} ELSE {unitShown.last}

\* unitShown is always a record of these fields.
ShownFields == unitShown = [visible |-> unitShown.visible, counts |-> unitShown.counts, list |-> unitShown.list,
                            last |-> unitShown.last, classes |-> unitShown.classes]

UnitInv == UnitTypes /\ UnitsRead /\ UnitsShowRead /\ UnitClasses /\ ShownFields

\* A manager in which a unit failed does not run well: with no failed unit the count is zero,
\* and with a count of zero there is none in the list.
LEMMA CountsTell ==
  ASSUME UnitTypes
  PROVE  /\ (\A m \in Manager : managers[m].state = "running") => CountsOf(managers) = None /\ ListOf(managers) = {}
         /\ CountsOf(managers) = None => ListOf(managers) = {}
<1>1. ASSUME NEW m \in Manager PROVE managers[m] \in ManagerStates /\ IsFiniteSet(managers[m].failed)
  <2>1. managers[m] \in ManagerStates /\ managers[m].failed \subseteq Unit
    BY DEF UnitTypes, ManagerStates
  <2> QED  BY <2>1, UnitAssumption, FS_Subset DEF UnitAssumption
<1>2. ASSUME NEW m \in Manager PROVE (Cardinality(managers[m].failed) = 0) = (managers[m].failed = {})
  BY <1>1, FS_EmptySet
<1>3. (\A m \in Manager : managers[m].failed = {}) => CountsOf(managers) = None /\ ListOf(managers) = {}
  BY <1>2 DEF CountsOf, None, ListOf
<1>4. CountsOf(managers) = None => \A m \in Manager : managers[m].failed = {}
  <2> SUFFICES ASSUME CountsOf(managers) = None, NEW m \in Manager PROVE managers[m].failed = {}
    OBVIOUS
  <2>1. CountsOf(managers)[m] = Cardinality(managers[m].failed) /\ None[m] = 0
    BY DEF CountsOf, None
  <2> QED  BY <2>1, <1>2
<1> QED  BY <1>3, <1>4 DEF UnitTypes

LEMMA UnitsChangeKeeps ==
  ASSUME UnitInv, NEW m \in Manager, NEW s \in {"running", "degraded"}, NEW f \in SUBSET Unit, NEW b \in BOOLEAN,
         UnitsChange(m, s, f, b)
  PROVE  UnitInv'
<1>0. UnitTypes /\ UnitsShowRead /\ UnitClasses /\ ShownFields
  BY DEF UnitInv
<1>1. /\ f # {} => s # "running"
      /\ managers' = [managers EXCEPT ![m] = [state |-> s, failed |-> f]]
      /\ unitSignals' = (unitSignals \/ b) /\ unitsMissed' = (unitsMissed \/ ~b)
      /\ UNCHANGED <<hideOnOk, updatePending, unitReads, unitStates, unitCounts, unitList, unitDp, unitShown>>
  BY DEF UnitsChange, unitData
<1>2. ~UnitsCurrent' /\ unitSignals' \in BOOLEAN /\ unitsMissed' \in BOOLEAN
  BY <1>0, <1>1 DEF UnitsCurrent, UnitTypes
<1>3. UnitTypes'
  BY <1>0, <1>1, <1>2 DEF UnitTypes, ManagerStates
<1> QED  BY <1>0, <1>1, <1>2, <1>3 DEF UnitInv, UnitsRead, UnitsShowRead, UnitClasses, ShownFields

\* The three reads.
LEMMA UnitReadsKeep ==
  ASSUME UnitInv, NEW failing \in SUBSET Manager,
         UpdateData(failing) \/ RequestFailedUnits(failing) \/ RequestFailedUnitsList(failing)
  PROVE  UnitInv'
<1>0. UnitTypes /\ UnitsRead /\ UnitsShowRead /\ UnitClasses /\ ShownFields
  BY DEF UnitInv
<1>1. /\ UNCHANGED <<managers, hideOnOk, unitSignals, unitShown>>
      /\ CountsOf(managers') = CountsOf(managers) /\ ListOf(managers') = ListOf(managers)
  BY DEF UpdateData, RequestFailedUnits, RequestFailedUnitsList
<1>2. \A value, otherwise : failing = {} => Answers(failing, value, otherwise) = [m \in Manager |-> value[m]]
  BY DEF Answers
<1>3. CASE UpdateData(failing)
  <2>1. /\ updatePending' = FALSE /\ unitsMissed' = (failing # {})
        /\ unitStates' = Answers(failing, [m \in Manager |-> managers[m].state], "unknown")
        /\ \/ /\ Overall(unitStates') = "ok" /\ unitCounts' = None /\ unitList' = {}
              /\ unitReads' = "nothing" /\ unitDp' = TRUE
           \/ unitReads' = "counts" /\ UNCHANGED unitDp
    BY <1>3 DEF UpdateData
  <2>2. failing = {} => unitStates' = [m \in Manager |-> managers[m].state]
    BY <1>2, <2>1
  <2>3. unitStates' = [m \in Manager |-> managers[m].state] /\ Overall(unitStates') = "ok" =>
          \A m \in Manager : managers[m].state = "running"
    BY DEF Overall
  <2>4. UnitsRead'
    BY <1>0, <1>1, <2>1, <2>2, <2>3, CountsTell DEF UnitsRead, UnitsCurrent
  <2>5. UnitTypes'
    BY <1>0, <1>1, <2>1 DEF UnitTypes
  <2> QED  BY <1>0, <1>1, <2>1, <2>4, <2>5 DEF UnitInv, UnitsShowRead, UnitClasses, ShownFields
<1>4. CASE RequestFailedUnits(failing)
  <2>1. /\ unitReads' = "list" /\ unitReads = "counts" /\ unitCounts' = Answers(failing, CountsOf(managers), 0)
        /\ unitsMissed' = (unitsMissed \/ failing # {}) /\ UNCHANGED <<updatePending, unitStates, unitList, unitDp>>
    BY <1>4 DEF RequestFailedUnits
  <2>2. failing = {} => unitCounts' = CountsOf(managers)
    BY <1>2, <2>1 DEF CountsOf
  <2>3. UnitsRead'
    BY <1>0, <1>1, <2>1, <2>2 DEF UnitsRead, UnitsCurrent
  <2>4. UnitTypes'
    BY <1>0, <1>1, <2>1 DEF UnitTypes
  <2> QED  BY <1>0, <1>1, <2>1, <2>3, <2>4 DEF UnitInv, UnitsShowRead, UnitClasses, ShownFields
<1>5. CASE RequestFailedUnitsList(failing)
  <2>1. /\ unitReads' = "nothing" /\ unitReads = "list" /\ unitDp' = TRUE
        /\ unitList' = ListRead({mu \in ListOf(managers) : mu[1] \notin failing})
        /\ unitsMissed' = (unitsMissed \/ failing # {}) /\ UNCHANGED <<updatePending, unitStates, unitCounts>>
    BY <1>5 DEF RequestFailedUnitsList
  <2>2. failing = {} /\ unitCounts = CountsOf(managers) => unitList' = ListOf(managers)
    BY <1>0, <2>1, CountsTell DEF ListRead
  <2>3. UnitsRead'
    BY <1>0, <1>1, <2>1, <2>2 DEF UnitsRead, UnitsCurrent
  <2>4. UnitTypes'
    BY <1>0, <1>1, <2>1 DEF UnitTypes
  <2> QED  BY <1>0, <1>1, <2>1, <2>3, <2>4 DEF UnitInv, UnitsShowRead, UnitClasses, ShownFields
<1> QED  BY <1>3, <1>4, <1>5

LEMMA UnitsUpdateKeeps == ASSUME UnitInv, UnitsUpdate PROVE UnitInv'
<1>0. UnitTypes /\ UnitsRead /\ UnitsShowRead /\ UnitClasses /\ ShownFields
  BY DEF UnitInv
<1>1. /\ unitDp' = FALSE
      /\ UNCHANGED <<hideOnOk, managers, unitSignals, updatePending, unitReads, unitStates, unitCounts, unitList, unitsMissed>>
      /\ unitShown' = IF Overall(unitStates) = "ok" /\ hideOnOk
                      THEN [unitShown EXCEPT !.visible = FALSE, !.last = "ok"]
                      ELSE [visible |-> TRUE, counts |-> unitCounts, list |-> unitList, last |-> Overall(unitStates),
                            classes |-> (unitShown.classes \ {unitShown.last}) \cup {Overall(unitStates)}]
  BY DEF UnitsUpdate, unitData
<1>2. Overall(unitStates) \in {"ok", "degraded"} /\ Overall(unitStates') = Overall(unitStates)
  BY <1>1 DEF Overall
<1>3. CASE Overall(unitStates) = "ok" /\ hideOnOk
  <2>1. /\ unitShown'.visible = FALSE /\ unitShown'.classes = unitShown.classes
        /\ ShownFields'
    BY <1>0, <1>1, <1>3 DEF ShownFields
  <2> QED  BY <1>0, <1>1, <1>2, <1>3, <2>1 DEF UnitInv, UnitTypes, UnitsRead, UnitsCurrent, UnitsShowRead, UnitClasses
<1>4. CASE ~(Overall(unitStates) = "ok" /\ hideOnOk)
  <2>1. /\ unitShown'.visible = TRUE /\ unitShown'.counts = unitCounts /\ unitShown'.list = unitList
        /\ unitShown'.last = Overall(unitStates)
        /\ unitShown'.classes = (unitShown.classes \ {unitShown.last}) \cup {Overall(unitStates)}
        /\ ShownFields'
    BY <1>1, <1>4 DEF ShownFields
  <2>2. unitShown'.classes = {Overall(unitStates)}
    BY <1>0, <1>2, <1>4, <2>1 DEF UnitClasses, UnitTypes
  <2> QED  BY <1>0, <1>1, <1>2, <1>4, <2>1, <2>2 DEF UnitInv, UnitTypes, UnitsRead, UnitsCurrent, UnitsShowRead, UnitClasses
<1> QED  BY <1>3, <1>4

LEMMA UnitsKeep == UnitInv /\ [UnitNext]_unitVars => UnitInv'
<1> SUFFICES ASSUME UnitInv, [UnitNext]_unitVars PROVE UnitInv'
  OBVIOUS
<1>1. CASE UNCHANGED unitVars
  BY <1>1 DEF unitVars, unitData, UnitInv, UnitTypes, UnitsRead, UnitsCurrent, UnitsShowRead, UnitClasses, ShownFields
<1>2. CASE NotifyCb
  BY <1>2 DEF NotifyCb, unitData, UnitInv, UnitTypes, UnitsRead, UnitsCurrent, UnitsShowRead, UnitClasses, ShownFields
<1> QED  BY <1>1, <1>2, UnitsChangeKeeps, UnitReadsKeep, UnitsUpdateKeeps DEF UnitNext

LEMMA UnitsStart == UnitInit => UnitInv
<1> SUFFICES ASSUME UnitInit PROVE UnitInv
  OBVIOUS
<1>1. UnitTypes
  <2>1. [state |-> "running", failed |-> {}] \in ManagerStates /\ [state |-> "degraded", failed |-> Unit] \in ManagerStates
    BY DEF ManagerStates
  <2>2. \A m \in Manager : managers[m] \in {[state |-> "running", failed |-> {}], [state |-> "degraded", failed |-> Unit]}
    BY DEF UnitInit
  <2>3. managers \in [Manager -> ManagerStates]
    BY <2>1 DEF UnitInit
  <2>4. \A m \in Manager : managers[m].failed # {} => managers[m].state # "running"
    BY <2>2
  <2>5. hideOnOk \in BOOLEAN /\ unitSignals = FALSE /\ updatePending = TRUE /\ unitReads = "nothing" /\ unitDp = FALSE /\ unitsMissed = FALSE
    BY DEF UnitInit
  <2> QED  BY <2>3, <2>4, <2>5 DEF UnitTypes
<1> QED  BY <1>1 DEF UnitInit, UnitInv, UnitsRead, UnitsCurrent, UnitsShowRead, UnitClasses, ShownFields

LEMMA UnitInvImplies == UnitInv => FailedUnitsAgree
BY DEF UnitInv, UnitsRead, UnitsCurrent, UnitsShowRead, FailedUnitsAgree

-----------------------------------------------------------------------------
(* src/modules/privacy/.  The lists hold what runs, what is in use changes only *)
(* with an update due, and an item without a timer shows what it was told.   *)

ItemSet == [init : BOOLEAN, inUse : BOOLEAN, visible : BOOLEAN, revealed : BOOLEAN, timer : {NoTimer, "reveal", "hide"}]

PrivTypes ==
  /\ pwNodes \in [PwNode -> {"gone", "idle", "running"}]
  /\ privacyNodes = {n \in PwNode : pwNodes[n] # "gone"}
  /\ pwRemoving \in BOOLEAN /\ privLate \in BOOLEAN
  /\ geoInUse \in BOOLEAN /\ geoTimer \in BOOLEAN /\ locationInUse \in BOOLEAN
  /\ privDue \in Nat
  /\ privItems \in [PrivKind -> ItemSet] /\ privBox \in [visible : BOOLEAN, timer : BOOLEAN]

Running == {n \in PwNode \ IgnoredNodes : pwNodes[n] = "running"}

\* What the backends know.
ListsHoldRunning ==
  /\ privLate => usedNodes = {}
  /\ ~privLate /\ ~pwRemoving => usedNodes = Running
  /\ usedNodes \subseteq privacyNodes \/ pwRemoving
LocationKnown == ~geoTimer => locationInUse = geoInUse

\* An item that was told shows what it was told last, or has a timer that will; the first
\* update, which tells it nothing, is not the last while something is in use.
ItemFits(i) ==
  /\ i.init => /\ i.inUse => i.visible
               /\ i.revealed => i.inUse
               /\ i.timer = NoTimer => (i.visible => i.inUse) /\ (i.inUse => i.revealed)
  /\ ~i.init => i.timer = NoTimer /\ ~i.inUse
ItemTold(k) ==
  /\ privDue = 0 => privItems[k].init /\ privItems[k].inUse = InUse(k)
  /\ ~privItems[k].init /\ privDue = 1 => ~InUse(k)
BoxTold == privDue = 0 /\ ~privBox.timer => privBox.visible = AnyInUse

PrivInv ==
  /\ PrivTypes /\ ListsHoldRunning /\ LocationKnown
  /\ \A k \in PrivKind : ItemFits(privItems[k]) /\ ItemTold(k)
  /\ BoxTold

LEMMA SetInUseFits ==
  ASSUME NEW i \in ItemSet, NEW u \in BOOLEAN, ItemFits(i)
  PROVE  /\ SetInUse(i, u) \in ItemSet /\ ItemFits(SetInUse(i, u))
         /\ SetInUse(i, u).init
         /\ i.init => SetInUse(i, u).inUse = u
         /\ ~i.init => SetInUse(i, u).inUse = FALSE
<1>1. CASE ~i.init
  <2>1. SetInUse(i, u) = [i EXCEPT !.init = TRUE, !.visible = FALSE, !.revealed = FALSE]
    BY <1>1 DEF SetInUse
  <2>2. i.inUse = FALSE /\ i.timer = NoTimer
    BY <1>1 DEF ItemFits, ItemSet
  <2> QED  BY <1>1, <2>1, <2>2 DEF ItemSet, ItemFits
<1>2. CASE i.init /\ i.inUse = u
  BY <1>2 DEF SetInUse
<1>3. CASE i.init /\ i.inUse # u
  <2>1. SetInUse(i, u) = Switched(i, u)
    BY <1>3 DEF SetInUse
  <2>2. CASE u = TRUE
    <3>1. Switched(i, u) = [i EXCEPT !.inUse = TRUE, !.visible = TRUE, !.revealed = i.revealed, !.timer = "reveal"]
      BY <2>2 DEF Switched, ItemSet
    <3> QED  BY <1>3, <2>1, <2>2, <3>1 DEF ItemSet, ItemFits, NoTimer
  <2>3. CASE u = FALSE
    <3>1. Switched(i, u) = [i EXCEPT !.inUse = FALSE, !.visible = i.visible, !.revealed = FALSE, !.timer = "hide"]
      BY <2>3 DEF Switched, ItemSet
    <3> QED  BY <1>3, <2>1, <2>3, <3>1 DEF ItemSet, ItemFits, NoTimer
  <2> QED  BY <2>2, <2>3
<1> QED  BY <1>1, <1>2, <1>3 DEF ItemSet

\* PipeWire's thread and GeoClue: what is in use changes with an update due.
LEMMA UseChanges ==
  ASSUME PrivInv, UNCHANGED privView, PrivTypes', ListsHoldRunning', LocationKnown',
         \/ privDue' = privDue + 1
         \/ UNCHANGED <<usedNodes, locationInUse, privDue>>
  PROVE  PrivInv'
<1>1. privDue \in Nat /\ UNCHANGED <<privItems, privBox>>
  BY DEF PrivInv, PrivTypes, privView
<1>2. CASE privDue' = privDue + 1
  BY <1>1, <1>2 DEF PrivInv, ItemTold, BoxTold
<1>3. CASE UNCHANGED <<usedNodes, locationInUse, privDue>>
  <2>1. \A k : InUse(k)' = InUse(k)
    BY <1>3 DEF InUse
  <2>2. AnyInUse' = AnyInUse
    BY <2>1 DEF AnyInUse
  <2> QED  BY <1>1, <1>3, <2>1, <2>2 DEF PrivInv, ItemTold, BoxTold
<1> QED  BY <1>2, <1>3

LEMMA PipeWireKeeps ==
  ASSUME PrivInv,
         \/ \E n \in PwNode : NodeComes(n) \/ NodeGoes(n)
         \/ \E n \in PwNode, running \in BOOLEAN : NodeInfo(n, running)
         \/ NodeGone
  PROVE  PrivInv'
<1>0. PrivTypes /\ ListsHoldRunning /\ LocationKnown /\ privDue + 1 \in Nat
  BY DEF PrivInv, PrivTypes
<1>1. ASSUME NEW n \in PwNode, NodeComes(n) PROVE PrivInv'
  <2>1. /\ pwNodes' = [pwNodes EXCEPT ![n] = "idle"] /\ privacyNodes' = privacyNodes \cup {n} /\ pwNodes[n] = "gone"
        /\ UNCHANGED <<usedNodes, pwRemoving, geoInUse, geoTimer, locationInUse, privView, privDue, privLate>>
    BY <1>1 DEF NodeComes, geoVars
  <2>2. PrivTypes' /\ ListsHoldRunning' /\ LocationKnown'
    BY <1>0, <2>1 DEF PrivTypes, ListsHoldRunning, LocationKnown, Running, privView
  <2> QED  BY <2>1, <2>2, UseChanges
<1>2. ASSUME NEW n \in PwNode, NodeGoes(n) PROVE PrivInv'
  <2>1. /\ pwNodes' = [pwNodes EXCEPT ![n] = "gone"] /\ privacyNodes' = privacyNodes \ {n} /\ pwRemoving' = TRUE
        /\ UNCHANGED <<usedNodes, geoInUse, geoTimer, locationInUse, privView, privDue, privLate>>
    BY <1>2 DEF NodeGoes, geoVars
  <2>2. PrivTypes' /\ ListsHoldRunning' /\ LocationKnown'
    BY <1>0, <2>1 DEF PrivTypes, ListsHoldRunning, LocationKnown, privView
  <2> QED  BY <2>1, <2>2, UseChanges
<1>3. ASSUME NEW n \in PwNode, NEW running \in BOOLEAN, NodeInfo(n, running) PROVE PrivInv'
  <2>1. PICK s \in {"idle", "running"} :
          /\ pwNodes' = [pwNodes EXCEPT ![n] = s] /\ pwNodes[n] \in {"idle", "running"} /\ ~pwRemoving
          /\ UNCHANGED <<privacyNodes, pwRemoving, geoInUse, geoTimer, locationInUse, privView>>
          /\ NodesChanged(pwNodes')
    BY <1>3 DEF NodeInfo, geoVars
  <2>2. /\ usedNodes' = {m \in privacyNodes' : pwNodes'[m] = "running"} \ IgnoredNodes
        /\ privDue' = privDue + 1 /\ privLate' = FALSE
    BY <2>1 DEF NodesChanged
  <2>3. PrivTypes'
    BY <1>0, <2>1, <2>2 DEF PrivTypes, privView
  <2>4. ListsHoldRunning' /\ LocationKnown'
    BY <1>0, <2>1, <2>2, <2>3 DEF PrivTypes, ListsHoldRunning, LocationKnown, Running
  <2> QED  BY <2>1, <2>2, <2>3, <2>4, UseChanges
<1>4. CASE NodeGone
  <2>1. /\ pwRemoving' = FALSE /\ UNCHANGED <<pwNodes, privacyNodes, geoInUse, geoTimer, locationInUse, privView>>
        /\ usedNodes' = {m \in privacyNodes' : pwNodes[m] = "running"} \ IgnoredNodes
        /\ privDue' = privDue + 1 /\ privLate' = FALSE
    BY <1>4 DEF NodeGone, RemovalTold, NodesChanged, geoVars
  <2>2. PrivTypes' /\ ListsHoldRunning' /\ LocationKnown'
    BY <1>0, <2>1 DEF PrivTypes, ListsHoldRunning, LocationKnown, Running, privView
  <2> QED  BY <2>1, <2>2, UseChanges
<1> QED  BY <1>1, <1>2, <1>3, <1>4

LEMMA GeoKeeps ==
  ASSUME PrivInv, (\E inUse \in BOOLEAN : GeoChanges(inUse)) \/ LocationTimeout
  PROVE  PrivInv'
<1>0. PrivTypes /\ ListsHoldRunning /\ LocationKnown /\ privDue + 1 \in Nat
  BY DEF PrivInv, PrivTypes
<1>1. ASSUME NEW inUse \in BOOLEAN, GeoChanges(inUse) PROVE PrivInv'
  <2>1. /\ geoInUse' = inUse /\ geoTimer' = ~inUse
        /\ IF inUse THEN locationInUse' = TRUE /\ privDue' = privDue + 1 ELSE UNCHANGED <<locationInUse, privDue>>
        /\ UNCHANGED <<pwNodes, privacyNodes, usedNodes, pwRemoving, privView, privLate>>
    BY <1>1 DEF GeoChanges, LocationSettles, pwThread
  <2>2. PrivTypes' /\ ListsHoldRunning' /\ LocationKnown'
    BY <1>0, <2>1 DEF PrivTypes, ListsHoldRunning, LocationKnown, Running, privView
  <2> QED  BY <2>1, <2>2, UseChanges
<1>2. CASE LocationTimeout
  <2>1. /\ geoTimer' = FALSE /\ locationInUse' = geoInUse /\ privDue' = privDue + 1
        /\ UNCHANGED <<geoInUse, pwNodes, privacyNodes, usedNodes, pwRemoving, privView, privLate>>
    BY <1>2 DEF LocationTimeout, LocationSettles, pwThread
  <2>2. PrivTypes' /\ ListsHoldRunning' /\ LocationKnown'
    BY <1>0, <2>1 DEF PrivTypes, ListsHoldRunning, LocationKnown, Running, privView
  <2> QED  BY <2>1, <2>2, UseChanges
<1> QED  BY <1>1, <1>2

\* The module: updates and timers change nothing of what is in use.
LEMMA PrivShowKeeps ==
  ASSUME PrivInv, PrivUpdate \/ BoxTimeout \/ (\E k \in PrivKind : ItemTimeout(k))
  PROVE  PrivInv'
<1>0. /\ PrivTypes /\ ListsHoldRunning /\ LocationKnown /\ BoxTold
      /\ \A k \in PrivKind : ItemFits(privItems[k]) /\ ItemTold(k) /\ privItems[k] \in ItemSet
  BY DEF PrivInv, PrivTypes
<1>1. UNCHANGED <<pwNodes, privacyNodes, usedNodes, pwRemoving, geoInUse, geoTimer, locationInUse, privLate>>
  BY DEF PrivUpdate, BoxTimeout, ItemTimeout, pwThread, geoVars
<1>2. /\ \A k : InUse(k)' = InUse(k) /\ InUse(k) \in BOOLEAN
      /\ AnyInUse' = AnyInUse /\ AnyInUse \in BOOLEAN
  <2>1. \A k : InUse(k)' = InUse(k) /\ InUse(k) \in BOOLEAN
    BY <1>0, <1>1 DEF InUse, PrivTypes
  <2> QED  BY <2>1 DEF AnyInUse
<1>3. CASE PrivUpdate
  <2>1. /\ privDue > 0 /\ privDue' = privDue - 1
        /\ privItems' = [k \in PrivKind |-> SetInUse(privItems[k], InUse(k))]
        /\ privBox' = IF AnyInUse = privBox.visible THEN privBox
                      ELSE IF AnyInUse THEN [visible |-> TRUE, timer |-> FALSE]
                      ELSE [privBox EXCEPT !.timer = TRUE]
    BY <1>3 DEF PrivUpdate
  <2>2. ASSUME NEW k \in PrivKind
        PROVE  /\ privItems'[k] \in ItemSet /\ ItemFits(privItems'[k])
               /\ privItems'[k].init
               /\ privItems[k].init => privItems'[k].inUse = InUse(k)
               /\ ~privItems[k].init => privItems'[k].inUse = FALSE
    <3>1. PICK u \in BOOLEAN : u = InUse(k)
      BY <1>2
    <3>2. privItems'[k] = SetInUse(privItems[k], u)
      BY <2>1, <3>1
    <3>3. PICK i \in ItemSet : i = privItems[k]
      BY <1>0
    <3>4. PICK j : j = SetInUse(i, u)
      OBVIOUS
    <3>5. /\ j \in ItemSet /\ ItemFits(j) /\ j.init /\ (i.init => j.inUse = u) /\ (~i.init => j.inUse = FALSE)
      BY <1>0, <3>3, <3>4, SetInUseFits
    <3> QED  BY <3>1, <3>2, <3>3, <3>4, <3>5
  <2>3. ASSUME NEW k \in PrivKind PROVE ItemTold(k)'
    <3>1. privDue' = 0 => privDue = 1
      BY <1>0, <2>1 DEF PrivTypes
    <3>2. privDue' = 0 /\ ~privItems[k].init => InUse(k) = FALSE
      BY <1>0, <1>2, <3>1 DEF ItemTold
    <3> QED  BY <1>2, <2>2, <3>2 DEF ItemTold
  <2>4. privBox' \in [visible : BOOLEAN, timer : BOOLEAN] /\ (~privBox'.timer => privBox'.visible = AnyInUse)
    <3>1. CASE AnyInUse = privBox.visible
      BY <1>0, <2>1, <3>1 DEF PrivTypes
    <3>2. CASE AnyInUse /\ AnyInUse # privBox.visible
      <4>1. privBox' = [visible |-> TRUE, timer |-> FALSE] /\ AnyInUse = TRUE
        BY <1>2, <2>1, <3>2
      <4> QED  BY <4>1
    <3>3. CASE ~AnyInUse /\ AnyInUse # privBox.visible
      <4>1. privBox' = [privBox EXCEPT !.timer = TRUE]
        BY <2>1, <3>3
      <4> QED  BY <1>0, <4>1 DEF PrivTypes
    <3> QED  BY <3>1, <3>2, <3>3
  <2>5. PrivTypes'
    <3>1. privDue' \in Nat
      BY <1>0, <2>1 DEF PrivTypes
    <3>2. privItems' \in [PrivKind -> ItemSet]
      BY <2>1, <2>2
    <3> QED  BY <1>0, <1>1, <2>4, <3>1, <3>2 DEF PrivTypes
  <2>6. BoxTold'
    BY <1>2, <2>4 DEF BoxTold
  <2> QED  BY <1>0, <1>1, <2>2, <2>3, <2>5, <2>6 DEF PrivInv, ListsHoldRunning, LocationKnown, Running
<1>4. CASE BoxTimeout
  <2>1. privBox' = [visible |-> AnyInUse, timer |-> FALSE] /\ UNCHANGED <<privItems, privDue>>
    BY <1>4 DEF BoxTimeout
  <2>2. privBox' \in [visible : BOOLEAN, timer : BOOLEAN] /\ privBox'.visible = AnyInUse
    BY <1>2, <2>1
  <2>3. PrivTypes' /\ BoxTold'
    BY <1>0, <1>1, <1>2, <2>1, <2>2 DEF PrivTypes, BoxTold
  <2> QED  BY <1>0, <1>1, <1>2, <2>1, <2>3 DEF PrivInv, ListsHoldRunning, LocationKnown, Running, ItemTold
<1>5. ASSUME NEW k \in PrivKind, ItemTimeout(k) PROVE PrivInv'
  <2>1. /\ privItems' = [privItems EXCEPT ![k] = IF privItems[k].inUse
                           THEN [privItems[k] EXCEPT !.revealed = TRUE, !.timer = NoTimer]
                           ELSE [privItems[k] EXCEPT !.visible = FALSE, !.timer = NoTimer]]
        /\ UNCHANGED <<privBox, privDue>> /\ privItems[k].timer # NoTimer
    BY <1>5 DEF ItemTimeout
  <2>2. /\ privItems'[k] \in ItemSet /\ ItemFits(privItems'[k])
        /\ privItems'[k].init = privItems[k].init /\ privItems'[k].inUse = privItems[k].inUse
    <3>1. PICK i \in ItemSet : i = privItems[k]
      BY <1>0
    <3>2. PICK j : j = privItems'[k]
      OBVIOUS
    <3>3. j = IF i.inUse THEN [i EXCEPT !.revealed = TRUE, !.timer = NoTimer]
              ELSE [i EXCEPT !.visible = FALSE, !.timer = NoTimer]
      BY <1>0, <2>1, <3>1, <3>2 DEF PrivTypes
    <3>4. ItemFits(i) /\ i.timer # NoTimer
      BY <1>0, <2>1, <3>1
    <3>5. j \in ItemSet /\ ItemFits(j) /\ j.init = i.init /\ j.inUse = i.inUse
      <4>1. CASE i.inUse = TRUE
        BY <3>3, <3>4, <4>1 DEF ItemSet, ItemFits
      <4>2. CASE i.inUse = FALSE
        BY <3>3, <3>4, <4>2 DEF ItemSet, ItemFits
      <4> QED  BY <4>1, <4>2 DEF ItemSet
    <3> QED  BY <3>1, <3>2, <3>5
  <2>3. \A h \in PrivKind : h # k => privItems'[h] = privItems[h]
    BY <1>0, <2>1 DEF PrivTypes
  <2>4. PrivTypes'
    BY <1>0, <1>1, <2>1, <2>2 DEF PrivTypes
  <2>5. ASSUME NEW h \in PrivKind PROVE ItemFits(privItems'[h]) /\ ItemTold(h)'
    BY <1>0, <1>2, <2>1, <2>2, <2>3 DEF ItemTold
  <2>6. BoxTold'
    BY <1>0, <1>2, <2>1 DEF BoxTold
  <2> QED  BY <1>0, <1>1, <2>4, <2>5, <2>6 DEF PrivInv, ListsHoldRunning, LocationKnown, Running
<1> QED  BY <1>3, <1>4, <1>5

LEMMA PrivKeeps == PrivInv /\ [PrivNext]_privVars => PrivInv'
<1> SUFFICES ASSUME PrivInv, [PrivNext]_privVars PROVE PrivInv'
  OBVIOUS
<1>1. CASE UNCHANGED privVars
  <2>1. PrivTypes' /\ ListsHoldRunning' /\ LocationKnown'
    BY <1>1 DEF PrivInv, PrivTypes, ListsHoldRunning, LocationKnown, Running, privVars, pwThread, geoVars, privView
  <2> QED  BY <1>1, <2>1, UseChanges DEF privVars, pwThread, geoVars, privView
<1> QED  BY <1>1, PipeWireKeeps, GeoKeeps, PrivShowKeeps DEF PrivNext

LEMMA PrivStarts == PrivInit => PrivInv
<1> SUFFICES ASSUME PrivInit PROVE PrivInv
  OBVIOUS
<1>1. NewItem \in ItemSet /\ ItemFits(NewItem) /\ NewItem.init = FALSE
  BY DEF NewItem, ItemSet, ItemFits
<1>2. /\ privItems \in [PrivKind -> ItemSet] /\ (\A k \in PrivKind : ItemFits(privItems[k]))
      /\ \A k \in PrivKind : ~InUse(k)
  BY <1>1 DEF PrivInit, InUse
<1>3. PrivTypes /\ ListsHoldRunning /\ LocationKnown
  BY <1>2 DEF PrivInit, PrivTypes, ListsHoldRunning, LocationKnown, Running
<1> QED  BY <1>2, <1>3 DEF PrivInv, PrivInit, ItemTold, BoxTold

LEMMA PrivInvImplies == PrivInv => PrivacyAgrees
<1> SUFFICES ASSUME PrivInv PROVE PrivacyAgrees
  OBVIOUS
<1> DEFINE uses(k) == IF k = LocationKind THEN geoInUse
                      ELSE ~privLate /\ \E n \in PwNode \ IgnoredNodes : KindOfNode[n] = k /\ pwNodes[n] = "running"
<1>1. ASSUME privDue = 0, ~pwRemoving, ~geoTimer, ~privBox.timer, \A k \in PrivKind : privItems[k].timer = NoTimer
      PROVE  /\ \A k \in PrivKind : {privItems[k].visible, privItems[k].revealed} = {uses(k)}
             /\ privBox.visible = \E k \in PrivKind : uses(k)
  <2>1. \A k : InUse(k) = uses(k)
    BY <1>1 DEF InUse, PrivInv, PrivTypes, ListsHoldRunning, LocationKnown, Running
  <2>2. ASSUME NEW k \in PrivKind PROVE {privItems[k].visible, privItems[k].revealed} = {uses(k)}
    <3>1. /\ privItems[k] \in ItemSet /\ privItems[k].init /\ privItems[k].inUse = uses(k) /\ ItemFits(privItems[k])
      BY <1>1, <2>1 DEF PrivInv, PrivTypes, ItemTold
    <3>2. privItems[k].visible = privItems[k].inUse /\ privItems[k].revealed = privItems[k].inUse
      BY <1>1, <3>1 DEF ItemFits, ItemSet
    <3> QED  BY <3>1, <3>2
  <2>3. AnyInUse = \E k \in PrivKind : uses(k)
    BY <2>1 DEF AnyInUse
  <2> QED  BY <1>1, <2>2, <2>3 DEF PrivInv, BoxTold
<1>2. usedNodes \subseteq privacyNodes \/ pwRemoving
  BY DEF PrivInv, ListsHoldRunning
<1> QED  BY <1>1, <1>2 DEF PrivacyAgrees

-----------------------------------------------------------------------------
(* upower.cpp.  Until the service has been away, the devices listed and the  *)
(* one displayed are the service's; what was shown last is its state.        *)

UpTypes ==
  /\ UpTypeOK
  /\ upService \in [runs : BOOLEAN, present : SUBSET UpDev, info : [UpDev \cup {DisplayDevice} -> UpStates]]
  /\ DOMAIN upShown = {"visible", "text", "class"} /\ upShown.visible \in BOOLEAN

\* While nothing was missed.
UpKept ==
  /\ upRunning = upService.runs
  /\ ~upMissed => upService.runs /\ upDisplay = DisplayOf(upService) /\ upDevices \subseteq upService.present

UpShows ==
  /\ ~hideIfEmpty => upShown.visible
  /\ ~upDp /\ upRunning /\ ~sleeping /\ ~upMissed =>
       /\ upShown.visible => upShown.text = IF upDisplay = NullDevice THEN "" ELSE upService.info[upDisplay]
       /\ hideIfEmpty => upShown.visible = (upDisplay # NullDevice /\ (upNamed \/ upService.present # {}))

UpInv == UpTypes /\ UpKept /\ UpShows

\* The device displayed is one, the summary or none.
LEMMA DisplayIsOne ==
  ASSUME NEW s, s.present \subseteq UpDev
  PROVE  /\ DisplayOf(s) \in UpDev \cup {DisplayDevice, NullDevice}
         /\ ~upNamed => DisplayOf(s) = DisplayDevice
         /\ upNamed => DisplayOf(s) = IF s.runs /\ Wanted \in s.present THEN Wanted ELSE NullDevice
BY DEF DisplayOf

LEMMA UpInitInv == UpInit => UpInv
<1> SUFFICES ASSUME UpInit PROVE UpInv
  OBVIOUS
<1>1. PICK here \in SUBSET UpDev :
        upService = [runs |-> TRUE, present |-> here, info |-> [d \in UpDev \cup {DisplayDevice} |-> "charging"]]
  BY DEF UpInit
<1>2. upDisplay = DisplayOf(upService) /\ upService.present \subseteq UpDev /\ upService.runs
  BY <1>1 DEF UpInit
<1>3. upService \in [runs : BOOLEAN, present : SUBSET UpDev, info : [UpDev \cup {DisplayDevice} -> UpStates]]
  BY <1>1 DEF UpStates
<1>4. UpTypes
  <2>1. upDisplay \in UpDev \cup {DisplayDevice, NullDevice}
    BY <1>2, DisplayIsOne
  <2>2. upRead \in UpStates \cup {Undefined}
    BY DEF UpInit, UpStates
  <2>3. upNews \in 0..MaxUpNews
    <3>1. upNews = 0
      BY DEF UpInit
    <3> QED  BY <3>1, UpAssumption DEF UpAssumption
  <2>4. upDevices \subseteq UpDev /\ {upNamed, hideIfEmpty, upRunning, sleeping, upDp, upMissed} \subseteq BOOLEAN
    BY <1>2 DEF UpInit
  <2>5. DOMAIN upShown = {"visible", "text", "class"} /\ upShown.visible \in BOOLEAN
    BY DEF UpInit
  <2> QED  BY <1>3, <2>1, <2>2, <2>3, <2>4, <2>5 DEF UpTypes, UpTypeOK
<1>5. UpKept /\ UpShows
  BY <1>2 DEF UpKept, UpShows, UpInit
<1> QED  BY <1>4, <1>5 DEF UpInv

\* A change of the service that asks for the device to display and for an update.
LEMMA DevicesChange ==
  ASSUME UpInv, NEW s, Happens(s), s.runs = upService.runs, s.runs,
         s \in [runs : BOOLEAN, present : SUBSET UpDev, info : [UpDev \cup {DisplayDevice} -> UpStates]],
         SetDisplayDevice(upService'), upDp' = TRUE, UNCHANGED <<upRunning, sleeping, upMissed>>,
         upDevices' \subseteq UpDev, ~upMissed => upDevices' \subseteq s.present
  PROVE  UpInv'
<1>1. upService' = s /\ upDisplay' = DisplayOf(s) /\ UNCHANGED <<upNamed, hideIfEmpty, upShown>>
  BY DEF Happens, SetDisplayDevice, DisplayOf, upConfigVars
<1>2. upDisplay' \in UpDev \cup {DisplayDevice, NullDevice}
  BY <1>1, DisplayIsOne
<1>3. upRead' \in UpStates \cup {Undefined}
  <2>1. CASE upDisplay' = NullDevice
    BY <2>1 DEF SetDisplayDevice, UpInv, UpTypes, UpTypeOK
  <2>2. CASE upDisplay' # NullDevice
    BY <2>2, <1>1, <1>2 DEF SetDisplayDevice
  <2> QED  BY <2>1, <2>2
<1>4. upNews' \in 0..MaxUpNews
  BY UpAssumption DEF Happens, UpInv, UpTypes, UpTypeOK
<1>5. UpTypes'
  BY <1>1, <1>2, <1>3, <1>4 DEF UpInv, UpTypes, UpTypeOK
<1>6. UpKept' /\ UpShows'
  BY <1>1 DEF UpInv, UpKept, UpShows, DisplayOf
<1> QED  BY <1>5, <1>6 DEF UpInv

LEMMA AddedKeeps ==
  ASSUME UpInv, NEW d \in UpDev, NEW readable \in BOOLEAN, DeviceAddedCb(d, readable)
  PROVE  UpInv'
<1> DEFINE s == [upService EXCEPT !.present = @ \cup {d}]
<1>1. /\ Happens(s) /\ s.runs = upService.runs /\ s.runs /\ s.present = upService.present \cup {d}
      /\ s \in [runs : BOOLEAN, present : SUBSET UpDev, info : [UpDev \cup {DisplayDevice} -> UpStates]]
  BY DEF DeviceAddedCb, UpInv, UpTypes
<1>2. upDevices' \subseteq UpDev /\ (~upMissed => upDevices' \subseteq s.present)
  BY <1>1 DEF DeviceAddedCb, UpInv, UpTypes, UpTypeOK, UpKept
<1> HIDE DEF s
<1> QED  BY <1>1, <1>2, DevicesChange DEF DeviceAddedCb

LEMMA RemovedKeeps ==
  ASSUME UpInv, NEW d \in UpDev, DeviceRemovedCb(d)
  PROVE  UpInv'
<1> DEFINE s == [upService EXCEPT !.present = @ \ {d}]
<1>1. /\ Happens(s) /\ s.runs = upService.runs /\ s.runs /\ s.present = upService.present \ {d}
      /\ s \in [runs : BOOLEAN, present : SUBSET UpDev, info : [UpDev \cup {DisplayDevice} -> UpStates]]
  BY DEF DeviceRemovedCb, UpInv, UpTypes
<1>2. upDevices' \subseteq UpDev /\ (~upMissed => upDevices' \subseteq s.present)
  BY <1>1 DEF DeviceRemovedCb, UpInv, UpTypes, UpTypeOK, UpKept
<1> HIDE DEF s
<1> QED  BY <1>1, <1>2, DevicesChange DEF DeviceRemovedCb

LEMMA NotifiesKeeps ==
  ASSUME UpInv, NEW d \in UpDev \cup {DisplayDevice}, NEW state \in UpStates, DeviceNotifies(d, state)
  PROVE  UpInv'
<1> DEFINE s == [upService EXCEPT !.info[d] = state]
<1>1. /\ s.runs = upService.runs /\ s.present = upService.present
      /\ s \in [runs : BOOLEAN, present : SUBSET UpDev, info : [UpDev \cup {DisplayDevice} -> UpStates]]
      /\ \A e \in UpDev \cup {DisplayDevice} : e # d => s.info[e] = upService.info[e]
  BY DEF UpInv, UpTypes
<1>2. /\ upService' = s /\ upNews' \in 0..MaxUpNews
      /\ UNCHANGED <<upNamed, hideIfEmpty, upShown, upDevices, upDisplay, upRead, upRunning, sleeping, upMissed>>
      /\ upDp' = (upDp \/ d \in upDevices \cup {upDisplay})
  BY UpAssumption DEF DeviceNotifies, Happens, upConfigVars, UpInv, UpTypes, UpTypeOK
<1> HIDE DEF s
<1>3. UpTypes'
  BY <1>1, <1>2 DEF UpInv, UpTypes, UpTypeOK
<1>4. UpKept'
  BY <1>1, <1>2 DEF UpInv, UpKept, DisplayOf
<1>5. ~upDp' => upDisplay # d
  BY <1>2
<1>6. upDisplay \in UpDev \cup {DisplayDevice, NullDevice}
  BY DEF UpInv, UpTypes, UpTypeOK
<1>7. UpShows'
  BY <1>1, <1>2, <1>5, <1>6 DEF UpInv, UpShows
<1> QED  BY <1>3, <1>4, <1>7 DEF UpInv

\* What update() shows, in its three cases.
LEMMA WhatUpdateShows ==
  ASSUME UpUpdate
  PROVE  LET away == ~upRunning \/ sleeping
             there == upDisplay # NullDevice
             hides == hideIfEmpty /\ (away \/ ~there \/ (upDevices = {} /\ ~UpDeviceValid)) IN
         /\ hides => DOMAIN upShown' = {"visible", "text", "class"} /\ upShown'.visible = FALSE
         /\ ~hides /\ away => upShown' = upShown
         /\ ~hides /\ ~away => /\ DOMAIN upShown' = {"visible", "text", "class"} /\ upShown'.visible = TRUE
                               /\ upShown'.text = IF there THEN upService.info[upDisplay] ELSE ""
<1> DEFINE away == ~upRunning \/ sleeping
           there == upDisplay # NullDevice
           read == IF there THEN upService.info[upDisplay] ELSE upRead
           hides == hideIfEmpty /\ (away \/ ~there \/ (upDevices = {} /\ ~UpDeviceValid))
<1>1. upShown' = CASE hides -> [visible |-> FALSE, text |-> upShown.text, class |-> IF away \/ ~there THEN upShown.class ELSE read]
                   [] ~hides /\ away -> upShown
                   [] OTHER -> [visible |-> TRUE, text |-> IF there THEN read ELSE "", class |-> read]
  BY DEF UpUpdate
<1>2. there => read = upService.info[upDisplay]
  OBVIOUS
<1> HIDE DEF away, there, read, hides
<1>3. /\ hides => DOMAIN upShown' = {"visible", "text", "class"} /\ upShown'.visible = FALSE
      /\ ~hides /\ away => upShown' = upShown
      /\ ~hides /\ ~away => /\ DOMAIN upShown' = {"visible", "text", "class"} /\ upShown'.visible = TRUE
                            /\ upShown'.text = IF there THEN read ELSE ""
  BY <1>1
<1> QED  BY <1>2, <1>3 DEF away, there, hides

LEMMA UpdateKeepsUp ==
  ASSUME UpInv, UpUpdate
  PROVE  UpInv'
<1>1. /\ UNCHANGED <<upNamed, hideIfEmpty, upService, upDevices, upDisplay, upRunning, sleeping, upNews, upMissed>>
      /\ upDp' = FALSE /\ upRead' \in UpStates \cup {Undefined}
  <2>1. upDisplay # NullDevice => upService.info[upDisplay] \in UpStates
    BY DEF UpInv, UpTypes, UpTypeOK
  <2> QED  BY <2>1 DEF UpUpdate, upConfigVars, UpInv, UpTypes, UpTypeOK
<1>2. UpTypes'
  BY <1>1, WhatUpdateShows DEF UpInv, UpTypes, UpTypeOK
<1>3. UpKept'
  BY <1>1 DEF UpInv, UpKept, DisplayOf
<1>4. ~hideIfEmpty => upShown'.visible
  BY WhatUpdateShows DEF UpInv, UpShows
<1>5. ASSUME upRunning, ~sleeping, ~upMissed
      PROVE  /\ upShown'.visible => upShown'.text = IF upDisplay = NullDevice THEN "" ELSE upService.info[upDisplay]
             /\ hideIfEmpty => upShown'.visible = (upDisplay # NullDevice /\ (upNamed \/ upService.present # {}))
  <2>1. upDisplay = DisplayOf(upService) /\ upDevices \subseteq upService.present /\ upService.present \subseteq UpDev
    BY <1>5 DEF UpInv, UpKept, UpTypes
  <2>2. ~upNamed => upDisplay = DisplayDevice
    BY <2>1 DEF DisplayOf
  <2>3. upNamed /\ upDisplay # NullDevice => upDisplay # DisplayDevice
    BY <2>1, UpAssumption DEF DisplayOf
  <2>4. upDisplay # NullDevice =>
          (upDevices = {} /\ ~UpDeviceValid <=> ~(upNamed \/ upService.present # {}))
    BY <2>1, <2>2, <2>3 DEF UpDeviceValid
  <2>5. (hideIfEmpty /\ (upDisplay = NullDevice \/ (upDevices = {} /\ ~UpDeviceValid))) => ~upShown'.visible
    BY <1>5, WhatUpdateShows
  <2>6. ~(hideIfEmpty /\ (upDisplay = NullDevice \/ (upDevices = {} /\ ~UpDeviceValid))) =>
          upShown'.visible /\ upShown'.text = IF upDisplay # NullDevice THEN upService.info[upDisplay] ELSE ""
    BY <1>5, WhatUpdateShows
  <2>7. upShown'.visible \in BOOLEAN
    BY <1>2 DEF UpTypes
  <2> QED  BY <2>4, <2>5, <2>6, <2>7
<1>6. UpShows'
  BY <1>1, <1>4, <1>5 DEF UpShows
<1> QED  BY <1>2, <1>3, <1>6 DEF UpInv

LEMMA ResumeKeeps == ASSUME UpInv, Resume PROVE UpInv'
<1>1. /\ UNCHANGED <<upNamed, hideIfEmpty, upService, upRunning, upShown, upNews>>
      /\ sleeping' = FALSE /\ upDp' = TRUE /\ upMissed' = ~upService.runs
      /\ upDisplay' = DisplayOf(upService) /\ upDevices' = IF upService.runs THEN upService.present ELSE {}
      /\ upRead' = IF upDisplay' = NullDevice THEN upRead ELSE upService.info[upDisplay']
  BY DEF Resume, upConfigVars, SetDisplayDevice, ResetDevices
<1>2. upDisplay' \in UpDev \cup {DisplayDevice, NullDevice}
  BY <1>1, DisplayIsOne DEF UpInv, UpTypes
<1>3. upRead' \in UpStates \cup {Undefined}
  <2>1. CASE upDisplay' = NullDevice
    BY <2>1, <1>1 DEF UpInv, UpTypes, UpTypeOK
  <2>2. CASE upDisplay' # NullDevice
    BY <2>2, <1>1, <1>2 DEF UpInv, UpTypes
  <2> QED  BY <2>1, <2>2
<1>4. upDevices' \subseteq UpDev
  BY <1>1 DEF UpInv, UpTypes
<1>5. UpTypes'
  BY <1>1, <1>2, <1>3, <1>4 DEF UpInv, UpTypes, UpTypeOK
<1>6. UpKept' /\ UpShows'
  BY <1>1 DEF UpInv, UpKept, UpShows, DisplayOf
<1> QED  BY <1>5, <1>6 DEF UpInv

\* The service comes and goes, and the system goes to sleep, without an update.
LEMMA ServiceKeeps ==
  ASSUME UpInv, ServiceGoes \/ (\E here \in SUBSET UpDev : ServiceComes(here)) \/ PrepareForSleep
  PROVE  UpInv'
<1>1. /\ upNews' \in 0..MaxUpNews
      /\ UNCHANGED <<upNamed, hideIfEmpty, upShown, upDevices, upDisplay, upRead, upDp>>
  <2>1. \E s : Happens(s)
    BY DEF ServiceGoes, ServiceComes, PrepareForSleep
  <2>2. upNews' \in 0..MaxUpNews /\ UNCHANGED <<upNamed, hideIfEmpty, upShown>>
    BY <2>1, UpAssumption DEF Happens, upConfigVars, UpInv, UpTypes, UpTypeOK
  <2>3. UNCHANGED <<upDevices, upDisplay, upRead, upDp>>
    BY DEF ServiceGoes, ServiceComes, PrepareForSleep
  <2> QED  BY <2>2, <2>3
<1>2. CASE ServiceGoes
  <2>1. upService' = [upService EXCEPT !.runs = FALSE] /\ upRunning' = FALSE /\ upMissed' = TRUE /\ sleeping' = sleeping
    BY <1>2 DEF ServiceGoes, Happens
  <2> QED  BY <1>1, <2>1 DEF UpInv, UpTypes, UpTypeOK, UpKept, UpShows
<1>3. ASSUME NEW here \in SUBSET UpDev, ServiceComes(here) PROVE UpInv'
  <2>1. /\ upService' = [upService EXCEPT !.runs = TRUE, !.present = here] /\ upRunning' = TRUE
        /\ upMissed' = upMissed /\ sleeping' = sleeping /\ upMissed
    BY <1>3 DEF ServiceComes, Happens, UpInv, UpKept
  <2> QED  BY <1>1, <2>1 DEF UpInv, UpTypes, UpTypeOK, UpKept, UpShows
<1>4. CASE PrepareForSleep
  <2>1. upService' = upService /\ upRunning' = upRunning /\ upMissed' = upMissed /\ sleeping' = TRUE
    BY <1>4 DEF PrepareForSleep, Happens
  <2> QED  BY <1>1, <2>1 DEF UpInv, UpTypes, UpTypeOK, UpKept, UpShows, DisplayOf
<1> QED  BY <1>2, <1>3, <1>4

LEMMA UpStays == UpInv /\ [UpNext]_upVars => UpInv'
<1> SUFFICES ASSUME UpInv, [UpNext]_upVars PROVE UpInv'
  OBVIOUS
<1>1. CASE UNCHANGED upVars
  BY <1>1 DEF UpInv, UpTypes, UpTypeOK, UpKept, UpShows, DisplayOf, upVars, upConfigVars, upModel
<1>2. ASSUME UpNext PROVE UpInv'
  BY <1>2, AddedKeeps, RemovedKeeps, NotifiesKeeps, ServiceKeeps, ResumeKeeps, UpdateKeepsUp DEF UpNext
<1> QED  BY <1>1, <1>2

\* However devices came and went, during sleep or not, the module shows at rest the device asked for.
LEMMA UpInvAgrees == UpInv => UpowerAgrees
<1> SUFFICES ASSUME UpInv, ~upDp, upRunning, ~sleeping, ~upMissed PROVE UpowerAgrees
  BY DEF UpowerAgrees
<1>1. upService.runs /\ upDisplay = DisplayOf(upService) /\ upDevices \subseteq upService.present /\ upService.present \subseteq UpDev
  BY DEF UpInv, UpKept, UpTypes
<1>2. upDisplay = IF ~upNamed THEN DisplayDevice ELSE IF Wanted \in upService.present THEN Wanted ELSE NullDevice
  BY <1>1 DEF DisplayOf
<1>3. (upDisplay # NullDevice) <=> (~upNamed \/ Wanted \in upService.present)
  BY <1>1, <1>2, UpAssumption
<1> QED  BY <1>1, <1>2, <1>3 DEF UpowerAgrees, UpInv, UpShows, TooltipLists

\* UPower's display device is shown as the service has it (upower.cpp:189-234, 336-419).
THEOREM DisplayIsShown == UpSpec => []UpowerAgrees
<1>1. UpInit => UpInv
  BY UpInitInv
<1>2. UpInv /\ [UpNext]_upVars => UpInv'
  BY UpStays
<1>3. UpInv => UpowerAgrees
  BY UpInvAgrees
<1> QED  BY <1>1, <1>2, <1>3, PTL DEF UpSpec

-----------------------------------------------------------------------------
(* power_profiles_daemon.cpp.  The last change on the wire, or the cache, is  *)
(* the daemon's profile; the module is there, or at what was clicked last     *)
(* while the daemon is still to be asked.                                    *)

AnyProfile == Profiles \cup {OddProfile}
PpMessage == [kind : {"changed", "done", "refused"}, profile : AnyProfile]

NoneIs(w, kinds) == \A k \in 1..Len(w) : w[k].kind \notin kinds
LastChange(w, p) ==
  \E k \in 1..Len(w) : /\ w[k].kind = "changed" /\ w[k].profile = p
                       /\ \A l \in 1..Len(w) : l > k => w[l].kind # "changed"

PpTypes ==
  /\ PpTypeOK
  /\ daemonActive \in AnyProfile /\ ppCached \in AnyProfile
  /\ ppInbox \in Seq(PpMessage) /\ ppAsked \in Seq(Profiles)
  /\ ppConnection = "connecting" => ppAsked = <<>> /\ NoneIs(ppInbox, {"done", "refused"})
  /\ ppConnection # "connected" => ppAsked = <<>>

DaemonTold == LastChange(ppInbox, daemonActive) \/ (NoneIs(ppInbox, {"changed"}) /\ ppCached = daemonActive)

ProfileKnown ==
  ppConnection = "connected" /\ NoneIs(ppInbox, {"changed", "refused"}) /\ ~ppRefused =>
    \/ activeProfile = PositionIn(daemonActive)
    \/ ppAsked # <<>> /\ activeProfile = PositionIn(ppAsked[Len(ppAsked)])

ProfileShown ==
  ppConnection = "connected" /\ ~ppDp /\ ~ppRefused /\ ppAsked = <<>> /\ NoneIs(ppInbox, {"done", "refused"}) =>
    ppShown = activeProfile

PpInv == PpTypes /\ DaemonTold /\ ProfileKnown /\ ProfileShown

LEMMA ProfilesAre ==
  /\ PpProfiles \in Seq(Profiles) /\ Len(PpProfiles) \in Nat /\ DOMAIN PpProfiles = 1..Len(PpProfiles)
  /\ Profiles # {} => Len(PpProfiles) > 0
  /\ \A i \in 1..Len(PpProfiles) : PpProfiles[i] \in Profiles /\ PositionIn(PpProfiles[i]) = i
  /\ \A p : PositionIn(p) \in 0..Len(PpProfiles)
<1>1. PpProfiles \in Seq(Profiles) /\ Len(PpProfiles) \in Nat /\ DOMAIN PpProfiles = 1..Len(PpProfiles)
  BY PpAssumption DEF PpAssumption, Profiles
<1>2. Profiles # {} => Len(PpProfiles) > 0
  BY <1>1 DEF Profiles, ToSet
<1>3. \A i \in 1..Len(PpProfiles) : PpProfiles[i] \in Profiles
  BY <1>1
<1>4. ASSUME NEW p \in Profiles PROVE PositionIn(p) \in DOMAIN PpProfiles /\ PpProfiles[PositionIn(p)] = p
  <2>1. \E i \in DOMAIN PpProfiles : PpProfiles[i] = p
    BY <1>1 DEF Profiles, ToSet
  <2> QED  BY <2>1 DEF PositionIn
<1>5. \A p : PositionIn(p) \in 0..Len(PpProfiles)
  <2>1. \A p : p \notin Profiles => PositionIn(p) = 0
    BY DEF PositionIn, End
  <2> QED  BY <2>1, <1>1, <1>4
<1>6. \A i \in 1..Len(PpProfiles) : PositionIn(PpProfiles[i]) = i
  BY <1>1, <1>3, <1>4, PpAssumption DEF PpAssumption
<1> QED  BY <1>1, <1>2, <1>3, <1>5, <1>6

LEMMA WireGrows ==
  ASSUME NEW w \in Seq(PpMessage), NEW m \in PpMessage
  PROVE  /\ Append(w, m) \in Seq(PpMessage)
         /\ \A kinds : NoneIs(Append(w, m), kinds) <=> NoneIs(w, kinds) /\ m.kind \notin kinds
         /\ m.kind = "changed" => LastChange(Append(w, m), m.profile)
         /\ \A p : m.kind # "changed" /\ LastChange(w, p) => LastChange(Append(w, m), p)
<1> DEFINE v == Append(w, m)
<1>1. /\ v \in Seq(PpMessage) /\ Len(v) = Len(w) + 1 /\ Len(w) \in Nat /\ v[Len(v)] = m
      /\ \A k \in 1..Len(w) : v[k] = w[k]
  OBVIOUS
<1> HIDE DEF v
<1>2. \A k \in 1..Len(v) : k \in 1..Len(w) \/ k = Len(v)
  BY <1>1
<1>3. ASSUME NEW kinds PROVE NoneIs(v, kinds) <=> NoneIs(w, kinds) /\ m.kind \notin kinds
  <2>1. 1..Len(w) \subseteq 1..Len(v) /\ Len(v) \in 1..Len(v)
    BY <1>1
  <2> QED  BY <1>1, <1>2, <2>1 DEF NoneIs
<1>4. m.kind = "changed" => LastChange(v, m.profile)
  <2>1. Len(v) \in 1..Len(v) /\ \A l \in 1..Len(v) : ~(l > Len(v))
    BY <1>1
  <2> QED  BY <1>1, <2>1 DEF LastChange
<1>5. ASSUME NEW p, m.kind # "changed", LastChange(w, p) PROVE LastChange(v, p)
  <2>1. PICK k \in 1..Len(w) : /\ w[k].kind = "changed" /\ w[k].profile = p
                               /\ \A l \in 1..Len(w) : l > k => w[l].kind # "changed"
    BY <1>5 DEF LastChange
  <2>2. k \in 1..Len(v) /\ v[k] = w[k]
    BY <1>1
  <2>3. \A l \in 1..Len(v) : l > k => v[l].kind # "changed"
    BY <1>1, <1>2, <1>5, <2>1
  <2> QED  BY <2>1, <2>2, <2>3 DEF LastChange
<1> QED  BY <1>1, <1>3, <1>4, <1>5 DEF v

LEMMA WireRead ==
  ASSUME NEW w \in Seq(PpMessage), w # <<>>
  PROVE  /\ Head(w) \in PpMessage /\ Tail(w) \in Seq(PpMessage)
         /\ \A kinds : NoneIs(w, kinds) <=> Head(w).kind \notin kinds /\ NoneIs(Tail(w), kinds)
         /\ \A p : LastChange(w, p) => \/ LastChange(Tail(w), p)
                                       \/ Head(w).kind = "changed" /\ Head(w).profile = p /\ NoneIs(Tail(w), {"changed"})
<1> DEFINE t == Tail(w)
<1>1. /\ Head(w) \in PpMessage /\ t \in Seq(PpMessage) /\ Len(w) \in Nat /\ Len(w) > 0 /\ Len(t) = Len(w) - 1
      /\ Head(w) = w[1] /\ \A k \in 1..Len(t) : t[k] = w[k + 1]
  OBVIOUS
<1> HIDE DEF t
<1>2. /\ \A k \in 1..Len(w) : k = 1 \/ (k - 1 \in 1..Len(t) /\ t[k - 1] = w[k])
      /\ \A k \in 1..Len(t) : k + 1 \in 1..Len(w)
      /\ 1 \in 1..Len(w)
  <2>1. \A k \in 1..Len(w) : k = 1 \/ (k - 1 \in 1..Len(t) /\ (k - 1) + 1 = k)
    BY <1>1
  <2> QED  BY <1>1, <2>1
<1>3. ASSUME NEW kinds PROVE NoneIs(w, kinds) <=> Head(w).kind \notin kinds /\ NoneIs(t, kinds)
  BY <1>1, <1>2 DEF NoneIs
<1>4. ASSUME NEW p, LastChange(w, p)
      PROVE  \/ LastChange(t, p)
             \/ Head(w).kind = "changed" /\ Head(w).profile = p /\ NoneIs(t, {"changed"})
  <2>1. PICK k \in 1..Len(w) : /\ w[k].kind = "changed" /\ w[k].profile = p
                               /\ \A l \in 1..Len(w) : l > k => w[l].kind # "changed"
    BY <1>4 DEF LastChange
  <2>2. \A l \in 1..Len(t) : l + 1 > k => t[l].kind # "changed"
    BY <1>1, <1>2, <2>1
  <2>3. CASE k = 1
    <3>1. \A l \in 1..Len(t) : l + 1 > k
      BY <2>3, <1>1
    <3> QED  BY <1>1, <2>1, <2>2, <2>3, <3>1 DEF NoneIs
  <2>4. CASE k # 1
    <3>1. k - 1 \in 1..Len(t) /\ t[k - 1] = w[k] /\ \A l \in 1..Len(t) : l > k - 1 => l + 1 > k
      BY <2>4, <1>1, <1>2
    <3> QED  BY <2>1, <2>2, <3>1 DEF LastChange
  <2> QED  BY <2>3, <2>4
<1> QED  BY <1>1, <1>3, <1>4 DEF t

LEMMA EmptyWire ==
  \A kinds : NoneIs(<<>>, kinds)
BY DEF NoneIs

LEMMA PpInitInv == PpInit => PpInv
<1> SUFFICES ASSUME PpInit PROVE PpInv
  OBVIOUS
<1>1. PpTypes
  <2>1. activeProfile \in 0..Len(PpProfiles) /\ ppShown \in 0..Len(PpProfiles)
    BY ProfilesAre DEF PpInit, End
  <2>2. Len(ppAsked) = 0 /\ ppNews = 0 /\ 0 \in 0..MaxPpNews /\ 0 <= MaxPpAsked
    BY PpAssumption DEF PpInit, PpAssumption
  <2>3. ppInbox = <<>> /\ ppAsked = <<>> /\ ppInbox \in Seq(PpMessage) /\ ppAsked \in Seq(Profiles)
    BY DEF PpInit
  <2>4. ppCached = daemonActive /\ daemonActive \in AnyProfile /\ ppConnection = "connecting" /\ ~ppRefused /\ ppDp = TRUE
    BY DEF PpInit, AnyProfile
  <2>5. ppRefused = FALSE
    BY DEF PpInit
  <2> QED  BY <2>1, <2>2, <2>3, <2>4, <2>5, EmptyWire DEF PpTypes, PpTypeOK
<1>2. DaemonTold /\ ProfileKnown /\ ProfileShown
  BY EmptyWire DEF PpInit, DaemonTold, ProfileKnown, ProfileShown
<1> QED  BY <1>1, <1>2 DEF PpInv

LEMMA OtherSetsKeeps ==
  ASSUME PpInv, NEW p \in AnyProfile, OtherSets(p) PROVE PpInv'
<1> DEFINE m == [kind |-> "changed", profile |-> p]
<1>1. /\ daemonActive' = p /\ ppInbox' = Append(ppInbox, m)
      /\ UNCHANGED <<ppCached, ppAsked, ppConnection, activeProfile, ppDp, ppShown, ppRefused>>
      /\ ppNews' \in 0..MaxPpNews
  BY PpAssumption DEF OtherSets, Announces, PpNewsComes, ppModule, PpInv, PpTypes, PpTypeOK, PpAssumption
<1>2. m \in PpMessage /\ m.kind = "changed" /\ m.profile = p /\ ppInbox \in Seq(PpMessage)
  BY DEF PpMessage, PpInv, PpTypes
<1> HIDE DEF m
<1>3. PpTypes'
  BY <1>1, <1>2, WireGrows DEF PpInv, PpTypes, PpTypeOK
<1>4. DaemonTold'
  BY <1>1, <1>2, WireGrows DEF DaemonTold
<1>5. ProfileKnown'
  BY <1>1, <1>2, WireGrows DEF ProfileKnown
<1>6. ProfileShown'
  BY <1>1, <1>2, WireGrows DEF PpInv, ProfileShown
<1> QED  BY <1>3, <1>4, <1>5, <1>6 DEF PpInv

LEMMA AnswerKeeps ==
  ASSUME PpInv, NEW grants \in BOOLEAN, DaemonAnswers(grants) PROVE PpInv'
<1> DEFINE p == Head(ppAsked)
           moves == grants /\ p # daemonActive
           c == [kind |-> "changed", profile |-> p]
           told == IF moves THEN Append(ppInbox, c) ELSE ppInbox
           a == [kind |-> IF grants THEN "done" ELSE "refused", profile |-> p]
<1>1. /\ ppAsked # <<>> /\ ppAsked' = Tail(ppAsked) /\ daemonActive' = (IF grants THEN p ELSE daemonActive)
      /\ ppInbox' = Append(told, a)
      /\ UNCHANGED <<ppCached, ppConnection, activeProfile, ppDp, ppShown, ppNews, ppRefused>>
  BY DEF DaemonAnswers, ppModule
<1>2. /\ ppAsked \in Seq(Profiles) /\ Len(ppAsked) \in Nat /\ Len(ppAsked) > 0 /\ p = ppAsked[1]
      /\ Len(ppAsked) <= MaxPpAsked
  BY <1>1 DEF PpInv, PpTypes, PpTypeOK
<1>3. /\ p \in Profiles /\ ppAsked' \in Seq(Profiles) /\ Len(ppAsked') = Len(ppAsked) - 1
      /\ Len(ppAsked) > 1 => ppAsked'[Len(ppAsked')] = ppAsked[Len(ppAsked)]
  BY <1>1, <1>2
<1>4. c \in PpMessage /\ a \in PpMessage /\ a.kind = (IF grants THEN "done" ELSE "refused") /\ c.kind = "changed" /\ c.profile = p
  BY <1>3 DEF PpMessage, AnyProfile
<1>5. ppInbox \in Seq(PpMessage) /\ told \in Seq(PpMessage) /\ ppConnection = "connected"
  BY <1>1, <1>4, WireGrows DEF PpInv, PpTypes
<1>6. /\ moves => LastChange(told, p)
      /\ ~moves => told = ppInbox
  BY <1>4, <1>5, WireGrows
<1>7. /\ ppInbox' \in Seq(PpMessage) /\ \A k : NoneIs(ppInbox', k) <=> NoneIs(told, k) /\ a.kind \notin k
      /\ \A q : LastChange(told, q) => LastChange(ppInbox', q)
  BY <1>1, <1>4, <1>5, WireGrows
<1>8. moves => ~NoneIs(told, {"changed", "refused"})
  BY <1>4, <1>5, WireGrows
<1>9. Len(ppAsked') <= MaxPpAsked
  BY <1>2, <1>3, PpAssumption DEF PpAssumption
<1>10. daemonActive' = (IF moves THEN p ELSE daemonActive)
  BY <1>1
<1> HIDE DEF p, c, a, told, moves
<1>11. PpTypes'
  BY <1>1, <1>3, <1>5, <1>7, <1>9 DEF PpInv, PpTypes, PpTypeOK, AnyProfile
<1>12. DaemonTold'
  <2>1. CASE moves
    BY <2>1, <1>6, <1>7, <1>10 DEF DaemonTold
  <2>2. CASE ~moves
    <3>1. LastChange(told, daemonActive) \/ (NoneIs(told, {"changed"}) /\ ppCached = daemonActive)
      BY <2>2, <1>6 DEF PpInv, DaemonTold
    <3> QED  BY <2>2, <3>1, <1>1, <1>4, <1>7, <1>10 DEF DaemonTold
  <2> QED  BY <2>1, <2>2
<1>13. ProfileKnown'
  <2> SUFFICES ASSUME NoneIs(ppInbox', {"changed", "refused"}), ~ppRefused
               PROVE  \/ activeProfile = PositionIn(daemonActive')
                      \/ ppAsked' # <<>> /\ activeProfile = PositionIn(ppAsked'[Len(ppAsked')])
    BY <1>1 DEF ProfileKnown, PositionIn
  <2>1. ~moves /\ NoneIs(ppInbox, {"changed", "refused"}) /\ a.kind # "refused"
    BY <1>6, <1>7, <1>8
  <2>2. \/ activeProfile = PositionIn(daemonActive)
        \/ activeProfile = PositionIn(ppAsked[Len(ppAsked)])
    BY <2>1, <1>5 DEF PpInv, ProfileKnown
  <2>3. CASE Len(ppAsked) > 1
    BY <2>1, <2>2, <2>3, <1>3, <1>10
  <2>4. CASE ~(Len(ppAsked) > 1)
    <3>1. ppAsked[Len(ppAsked)] = p
      BY <2>4, <1>2
    <3>2. p = daemonActive
      BY <2>1, <1>4 DEF moves
    <3> QED  BY <2>1, <2>2, <3>1, <3>2, <1>10
  <2> QED  BY <2>3, <2>4
<1>14. ProfileShown'
  BY <1>4, <1>7 DEF ProfileShown
<1> QED  BY <1>11, <1>12, <1>13, <1>14 DEF PpInv

LEMMA ConnectedKeeps ==
  ASSUME PpInv, NEW works \in BOOLEAN, BusConnectedCb(works) PROVE PpInv'
<1>1. /\ ppConnection' \in {"asked", "failed"} /\ ppCached' = daemonActive /\ ppInbox' = <<>>
      /\ UNCHANGED <<daemonActive, ppAsked, activeProfile, ppDp, ppShown, ppNews, ppRefused>>
      /\ ppAsked = <<>>
  BY DEF BusConnectedCb, PpInv, PpTypes
<1>2. PpTypes'
  BY <1>1 DEF PpInv, PpTypes, PpTypeOK
<1> QED  BY <1>1, <1>2, EmptyWire DEF PpInv, DaemonTold, ProfileKnown, ProfileShown

LEMMA SwitchPlaces ==
  ASSUME NEW p, SwitchToProfile(p)
  PROVE  activeProfile' = PositionIn(p) /\ activeProfile' \in 0..Len(PpProfiles) /\ ppDp' = TRUE /\ ppRefused' = FALSE
BY ProfilesAre DEF SwitchToProfile

LEMMA PropertiesReadKeeps ==
  ASSUME PpInv, NEW works \in BOOLEAN, GetAllPropsCb(works) PROVE PpInv'
<1>1. /\ UNCHANGED <<daemonActive, ppCached, ppInbox, ppAsked, ppShown, ppNews>> /\ ppAsked = <<>>
  BY DEF GetAllPropsCb, ppDaemon, PpInv, PpTypes
<1>2. CASE works
  <2>1. ppConnection' = "connected" /\ activeProfile' = PositionIn(ppCached) /\ activeProfile' \in 0..Len(PpProfiles) /\ ppDp' = TRUE /\ ppRefused' = FALSE
    BY <1>2, SwitchPlaces DEF GetAllPropsCb
  <2>2. NoneIs(ppInbox, {"changed", "refused"}) => ppCached = daemonActive
    BY DEF PpInv, DaemonTold, LastChange, NoneIs
  <2>3. PpTypes'
    BY <1>1, <2>1 DEF PpInv, PpTypes, PpTypeOK
  <2>4. DaemonTold' /\ ProfileShown'
    BY <1>1, <2>1 DEF PpInv, DaemonTold, ProfileShown
  <2>5. ProfileKnown'
    BY <1>1, <2>1, <2>2 DEF ProfileKnown, PositionIn
  <2> QED  BY <2>3, <2>4, <2>5 DEF PpInv
<1>3. CASE ~works
  <2>1. ppConnection' = "failed" /\ UNCHANGED <<activeProfile, ppDp, ppRefused>>
    BY <1>3 DEF GetAllPropsCb
  <2> QED  BY <1>1, <2>1 DEF PpInv, PpTypes, PpTypeOK, DaemonTold, ProfileKnown, ProfileShown
<1> QED  BY <1>2, <1>3

LEMMA ChangedCbKeeps == ASSUME PpInv, ProfileChangedCb PROVE PpInv'
<1> DEFINE p == Head(ppInbox).profile
<1>1. /\ ppInbox # <<>> /\ Head(ppInbox).kind = "changed" /\ ppInbox' = Tail(ppInbox) /\ ppCached' = p
      /\ UNCHANGED <<daemonActive, ppAsked, ppConnection, ppShown, ppNews>>
  BY DEF ProfileChangedCb
<1>2. /\ Head(ppInbox) \in PpMessage /\ ppInbox' \in Seq(PpMessage)
      /\ \A kinds : NoneIs(ppInbox, kinds) => NoneIs(ppInbox', kinds)
      /\ LastChange(ppInbox, daemonActive) =>
           LastChange(ppInbox', daemonActive) \/ (p = daemonActive /\ NoneIs(ppInbox', {"changed"}))
      /\ ~NoneIs(ppInbox, {"changed"})
  BY <1>1, WireRead DEF PpInv, PpTypes
<1>3. DaemonTold'
  BY <1>1, <1>2 DEF PpInv, DaemonTold
<1>4. p \in AnyProfile
  BY <1>2 DEF PpMessage
<1>5. CASE ppConnection = "connected"
  <2>1. activeProfile' = PositionIn(p) /\ activeProfile' \in 0..Len(PpProfiles) /\ ppDp' = TRUE /\ ppRefused' = FALSE
    BY <1>5, SwitchPlaces DEF ProfileChangedCb
  <2>2. PpTypes'
    BY <1>1, <1>2, <1>4, <1>5, <2>1 DEF PpInv, PpTypes, PpTypeOK
  <2>3. NoneIs(ppInbox', {"changed", "refused"}) => ppCached' = daemonActive'
    BY <1>3 DEF DaemonTold, LastChange, NoneIs
  <2>4. ProfileKnown'
    <3>1. ppCached' = p /\ PositionIn(daemonActive)' = PositionIn(daemonActive)
      BY <1>1 DEF PositionIn
    <3> HIDE DEF p
    <3> QED  BY <1>1, <2>1, <2>3, <3>1 DEF ProfileKnown
  <2>5. ProfileShown'
    BY <2>1 DEF ProfileShown
  <2> QED  BY <1>3, <2>2, <2>4, <2>5 DEF PpInv
<1>6. CASE ppConnection # "connected"
  <2>1. UNCHANGED <<activeProfile, ppDp, ppRefused>>
    BY <1>6 DEF ProfileChangedCb
  <2> QED  BY <1>1, <1>2, <1>3, <1>4, <1>6, <2>1 DEF PpInv, PpTypes, PpTypeOK, ProfileKnown, ProfileShown
<1> QED  BY <1>5, <1>6

LEMMA SetPropKeeps == ASSUME PpInv, SetPropCb PROVE PpInv'
<1>1. /\ ppInbox # <<>> /\ Head(ppInbox).kind # "changed" /\ ppInbox' = Tail(ppInbox)
      /\ UNCHANGED <<daemonActive, ppCached, ppAsked, ppConnection, activeProfile, ppShown, ppNews>>
  BY DEF SetPropCb
<1>2. /\ Head(ppInbox) \in PpMessage /\ ppInbox' \in Seq(PpMessage)
      /\ \A kinds : NoneIs(ppInbox, kinds) <=> Head(ppInbox).kind \notin kinds /\ NoneIs(ppInbox', kinds)
      /\ LastChange(ppInbox, daemonActive) => LastChange(ppInbox', daemonActive)
  BY <1>1, WireRead DEF PpInv, PpTypes
<1>3. DaemonTold'
  BY <1>1, <1>2 DEF PpInv, DaemonTold
<1>4. CASE Head(ppInbox).kind = "done"
  <2>1. ppDp' = TRUE /\ ppRefused' = ppRefused
    BY <1>4 DEF SetPropCb
  <2>2. PpTypes'
    BY <1>1, <1>2, <2>1 DEF PpInv, PpTypes, PpTypeOK
  <2>3. NoneIs(ppInbox', {"changed", "refused"}) => NoneIs(ppInbox, {"changed", "refused"})
    BY <1>2, <1>4
  <2>4. ProfileKnown'
    <3>1. PositionIn(daemonActive)' = PositionIn(daemonActive)
      BY <1>1 DEF PositionIn
    <3>2. PositionIn(ppAsked[Len(ppAsked)])' = PositionIn(ppAsked[Len(ppAsked)])
      BY <1>1 DEF PositionIn
    <3> QED  BY <1>1, <2>1, <2>3, <3>1, <3>2 DEF PpInv, ProfileKnown
  <2>5. ProfileShown'
    BY <2>1 DEF ProfileShown
  <2> QED  BY <1>3, <2>2, <2>4, <2>5 DEF PpInv
<1>5. CASE Head(ppInbox).kind # "done"
  <2>1. ppRefused' = TRUE /\ ppDp' = ppDp
    BY <1>5 DEF SetPropCb
  <2>2. PpTypes'
    BY <1>1, <1>2, <2>1 DEF PpInv, PpTypes, PpTypeOK
  <2> QED  BY <1>3, <2>1, <2>2 DEF PpInv, ProfileKnown, ProfileShown
<1> QED  BY <1>4, <1>5

LEMMA ToggleKeeps ==
  ASSUME PpInv, NEW left \in BOOLEAN, PpHandleToggle(left) PROVE PpInv'
<1> DEFINE n == Len(PpProfiles)
           from == IF activeProfile = End THEN 1 ELSE activeProfile
           to == IF left THEN (from % n) + 1 ELSE IF from = 1 THEN n ELSE from - 1
<1>1. /\ ppConnection = "connected" /\ Profiles # {} /\ Len(ppAsked) < MaxPpAsked
      /\ activeProfile' = to /\ ppAsked' = Append(ppAsked, PpProfiles[to]) /\ ppNews' \in 0..MaxPpNews
      /\ UNCHANGED <<daemonActive, ppCached, ppInbox, ppConnection, ppDp, ppShown, ppRefused>>
  BY PpAssumption DEF PpHandleToggle, PpNewsComes, PpInv, PpTypes, PpTypeOK, PpAssumption
<1>2. n \in Nat /\ n > 0
  BY <1>1, ProfilesAre
<1>3. from \in 1..n
  BY <1>2 DEF End, PpInv, PpTypes, PpTypeOK
<1>4. from % n \in 0..(n - 1)
  BY <1>2, <1>3
<1> HIDE DEF from, n
<1>5. to \in 1..n
  BY <1>2, <1>3, <1>4
<1> HIDE DEF to
<1>6. PpProfiles[to] \in Profiles /\ PositionIn(PpProfiles[to]) = to
  BY <1>5, ProfilesAre DEF n
<1>7. ppAsked \in Seq(Profiles) /\ Len(ppAsked) \in Nat /\ MaxPpAsked \in Nat
  BY PpAssumption DEF PpInv, PpTypes, PpAssumption
<1>8. /\ ppAsked' \in Seq(Profiles) /\ ppAsked' # <<>> /\ Len(ppAsked') = Len(ppAsked) + 1
      /\ ppAsked'[Len(ppAsked')] = PpProfiles[to]
  BY <1>1, <1>6, <1>7
<1>9. Len(ppAsked') <= MaxPpAsked
  BY <1>1, <1>7, <1>8
<1>10. activeProfile' \in 0..Len(PpProfiles)
  BY <1>1, <1>2, <1>5 DEF n
<1>11. PpTypes'
  BY <1>1, <1>8, <1>9, <1>10 DEF PpInv, PpTypes, PpTypeOK
<1>12. DaemonTold'
  BY <1>1 DEF PpInv, DaemonTold
<1>13. ProfileKnown'
  BY <1>1, <1>6, <1>8 DEF ProfileKnown, PositionIn
<1>14. ProfileShown'
  BY <1>8 DEF ProfileShown
<1> QED  BY <1>11, <1>12, <1>13, <1>14 DEF PpInv

LEMMA UpdateKeepsPp == ASSUME PpInv, PpUpdate PROVE PpInv'
<1>1. /\ UNCHANGED <<daemonActive, ppCached, ppInbox, ppAsked, ppConnection, activeProfile, ppNews, ppRefused>>
      /\ ppDp' = FALSE /\ ppShown' = (IF ppConnection = "connected" THEN activeProfile ELSE End)
  BY DEF PpUpdate, ppDaemon
<1>2. ppShown' \in 0..Len(PpProfiles)
  BY <1>1, ProfilesAre DEF End, PpInv, PpTypes, PpTypeOK
<1> QED  BY <1>1, <1>2 DEF PpInv, PpTypes, PpTypeOK, DaemonTold, ProfileKnown, ProfileShown

LEMMA PpStays == PpInv /\ [PpNext]_ppVars => PpInv'
<1> SUFFICES ASSUME PpInv, [PpNext]_ppVars PROVE PpInv'
  OBVIOUS
<1>1. CASE UNCHANGED ppVars
  BY <1>1 DEF PpInv, PpTypes, PpTypeOK, DaemonTold, ProfileKnown, ProfileShown, ppVars, ppDaemon, ppModule
<1>2. ASSUME PpNext PROVE PpInv'
  BY <1>2, OtherSetsKeeps, AnswerKeeps, ConnectedKeeps, PropertiesReadKeeps, ChangedCbKeeps, SetPropKeeps, ToggleKeeps,
     UpdateKeepsPp DEF PpNext, AnyProfile
<1> QED  BY <1>1, <1>2

LEMMA PpInvAgrees == PpInv => ProfilesAgree
BY EmptyWire DEF PpInv, ProfileKnown, ProfileShown, ProfilesAgree

\* The profile shown is the daemon's, or the one asked for (power_profiles_daemon.cpp:154-249).
THEOREM ProfileIsShown == PpSpec => []ProfilesAgree
<1>1. PpInit => PpInv
  BY PpInitInv
<1>2. PpInv /\ [PpNext]_ppVars => PpInv'
  BY PpStays
<1>3. PpInv => ProfilesAgree
  BY PpInvAgrees
<1> QED  BY <1>1, <1>2, <1>3, PTL DEF PpSpec

\* A set of numbers has a least one.
LEMMA LeastNumber ==
  ASSUME NEW S, S \subseteq Nat, S # {}
  PROVE  \E x \in S : \A y \in S : x <= y
<1>1. IsWellFoundedOn(OpToRel(<, Nat), Nat)
  BY NatLessThanWellFounded
<1>2. PICK x \in S : \A y \in S : ~(<<y, x>> \in OpToRel(<, Nat))
  BY <1>1, WFMin
<1>3. \A y \in S : ~(y < x)
  BY <1>2 DEF OpToRel
<1>4. x \in Nat /\ \A y \in S : y \in Nat
  OBVIOUS
<1>5. \A y \in S : x <= y
  BY <1>3, <1>4
<1> QED  BY <1>5

-----------------------------------------------------------------------------
(* battery.cpp.  The list is that of the batteries there are once the event  *)
(* is read, and an update reads the batteries in the list.                   *)

BatTypes ==
  /\ sysBat \in [BatSet -> [here : BOOLEAN, status : Statuses, energy : Nat]]
  /\ online \in BOOLEAN /\ batUdev \in BOOLEAN /\ batDp \in BOOLEAN /\ batReading \in BOOLEAN /\ batDue \in BOOLEAN
  /\ "visible" \in DOMAIN batShown /\ batShown.visible \in BOOLEAN

ListFits == batUdev \/ batteries = BatPresent
ReadingFits == batReading /\ ~batDp => batteries # {}
BatInv == BatTypes /\ ListFits /\ ReadingFits /\ BatteryAgrees

\* status_gt() keeps what charges, and else what discharges.
LEMMA StatusOfList ==
  ASSUME BatTypes, batteries = BatPresent, batteries # {}
  PROVE  /\ (\E b \in batteries : sysBat[b].status = "Charging") => StatusOf(batteries) = "Charging"
         /\ /\ \A b \in batteries : sysBat[b].status # "Charging"
            /\ \E b \in batteries : sysBat[b].status = "Discharging"
            => StatusOf(batteries) = "Discharging"
<1> DEFINE file(i) == IF sysBat[Bat[i]].here THEN sysBat[Bat[i]].status ELSE AdapterStatusFile
           its == {i \in DOMAIN Bat : Bat[i] \in batteries}
           Best(i) == \A j \in its : IF Rank(file(i)) > 1 THEN Rank(file(i)) <= Rank(file(j))
                                     ELSE Rank(file(j)) <= 1 => i <= j
           least == CHOOSE i \in its : Best(i)
<1>1. Len(Bat) \in Nat /\ DOMAIN Bat = 1..Len(Bat) /\ \A i \in DOMAIN Bat : Bat[i] \in BatSet
  BY BatAssumption DEF BatAssumption, BatSet
<1>2. batteries \subseteq BatSet /\ \A b \in batteries : sysBat[b].here /\ sysBat[b].status \in Statuses
  BY DEF BatPresent, BatTypes
<1>3. \A b \in batteries : \E i \in its : Bat[i] = b
  BY <1>2 DEF BatSet, ToSet
<1>4. its # {} /\ its \subseteq Nat
  BY <1>1, <1>3
<1>5. \A i \in its : file(i) = sysBat[Bat[i]].status /\ file(i) \in Statuses
  BY <1>2
<1>6. StatusOf(batteries) = file(least)
  BY <1>4 DEF StatusOf
<1> HIDE DEF file, its
<1>7. \A s \in Statuses : /\ Rank(s) \in 1..4 /\ (Rank(s) <= 1 <=> s = "Charging")
                          /\ (Rank(s) = 2 <=> s = "Discharging")
  <2>1. Rank("Full") = 4 /\ Rank("Not charging") = 3 /\ Rank("Discharging") = 2 /\ Rank("Charging") = 1
    BY DEF Rank
  <2>2. \A s \in Statuses : s = "Full" \/ s = "Not charging" \/ s = "Discharging" \/ s = "Charging"
    BY DEF Statuses
  <2>3. /\ 4 \in 1..4 /\ 3 \in 1..4 /\ 2 \in 1..4 /\ 1 \in 1..4
        /\ ~(4 <= 1) /\ ~(3 <= 1) /\ ~(2 <= 1) /\ 1 <= 1 /\ 4 # 2 /\ 3 # 2 /\ 1 # 2
    OBVIOUS
  <2> HIDE DEF Rank
  <2> QED  BY <2>1, <2>2, <2>3, Zenon
<1>8. ASSUME NEW i \in its, Best(i) PROVE least \in its /\ Best(least)
  <2>1. \E j \in its : Best(j)
    BY <1>8
  <2> HIDE DEF Best
  <2> QED  BY <2>1
<1>9. ASSUME NEW b \in batteries, sysBat[b].status = "Charging" PROVE StatusOf(batteries) = "Charging"
  <2> DEFINE C == {i \in its : Rank(file(i)) <= 1}
  <2>1. PICK c \in its : Bat[c] = b
    BY <1>3
  <2>2. c \in C
    BY <1>5, <1>7, <1>9, <2>1
  <2>3. PICK i \in C : \A j \in C : i <= j
    BY <2>2, <1>4, LeastNumber
  <2>4. Best(i)
    <3>1. ~(Rank(file(i)) > 1)
      BY <2>3, <1>5, <1>7
    <3> QED  BY <3>1, <2>3
  <2>5. least \in its /\ Best(least)
    BY <1>8, <2>3, <2>4
  <2>6. ~(Rank(file(least)) > 1)
    <3>1. Rank(file(c)) <= 1 /\ Rank(file(c)) \in Nat /\ Rank(file(least)) \in Nat
      BY <2>2, <2>5, <1>5, <1>7
    <3> QED  BY <2>5, <3>1
  <2> HIDE DEF least, Best
  <2> QED  BY <1>5, <1>6, <1>7, <2>5, <2>6
<1>10. ASSUME \A b \in batteries : sysBat[b].status # "Charging", NEW d \in batteries, sysBat[d].status = "Discharging"
       PROVE  StatusOf(batteries) = "Discharging"
  <2>1. \A i \in its : Bat[i] \in batteries
    BY DEF its
  <2>2. PICK c \in its : Bat[c] = d
    BY <1>3
  <2>3. \A i \in its : Rank(file(i)) \in 2..4
    BY <1>5, <1>7, <1>10, <2>1
  <2>4. Rank(file(c)) = 2
    BY <1>5, <1>7, <1>10, <2>2
  <2>5. Best(c)
    BY <2>3, <2>4
  <2>6. least \in its /\ Best(least)
    BY <1>8, <2>5
  <2>7. Rank(file(least)) = 2
    BY <2>2, <2>3, <2>4, <2>6
  <2> HIDE DEF least, Best
  <2> QED  BY <1>5, <1>6, <1>7, <2>6, <2>7
<1> QED  BY <1>9, <1>10

LEMMA BatInitInv == BatInit => BatInv
<1> SUFFICES ASSUME BatInit PROVE BatInv
  OBVIOUS
<1>1. PICK here \in SUBSET BatSet, s \in {"Charging", "Discharging"} :
        sysBat = [b \in BatSet |-> [here |-> b \in here, status |-> s, energy |-> 1]]
  BY DEF BatInit
<1>2. sysBat \in [BatSet -> [here : BOOLEAN, status : Statuses, energy : Nat]]
  <2>1. \A b \in BatSet : [here |-> b \in here, status |-> s, energy |-> 1] \in [here : BOOLEAN, status : Statuses, energy : Nat]
    <3>1. s \in Statuses /\ 1 \in Nat
      BY DEF Statuses
    <3>2. \A b \in BatSet : (b \in here) \in BOOLEAN
      <4> TAKE b \in BatSet
      <4>1. CASE b \in here
        <5>1. (b \in here) = TRUE
          BY <4>1
        <5> QED  BY <5>1
      <4>2. CASE b \notin here
        <5>1. (b \in here) = FALSE
          BY <4>2
        <5> QED  BY <5>1
      <4> QED  BY <4>1, <4>2
    <3> QED  BY <3>1, <3>2, Zenon
  <2> QED  BY <1>1, <2>1
<1>3. /\ online \in BOOLEAN /\ batUdev = TRUE /\ batDp = FALSE /\ batReading = FALSE /\ batDue = FALSE
      /\ "visible" \in DOMAIN batShown /\ batShown.visible = TRUE
  BY DEF BatInit
<1> QED  BY <1>2, <1>3 DEF BatInv, BatTypes, ListFits, ReadingFits, BatteryAgrees

\* What changes without an event is due, and so is what an event tells of.
LEMMA SysKeeps ==
  ASSUME BatInv, NEW b \in BatSet, NEW new \in [here : BOOLEAN, status : Statuses, energy : Nat], NEW told \in BOOLEAN,
         new.here # sysBat[b].here => told, SysChanges(b, new, told)
  PROVE  BatInv'
<1>1. /\ sysBat' = [sysBat EXCEPT ![b] = new]
      /\ batUdev' = (batUdev \/ told) /\ batDue' = (batDue \/ ~told)
      /\ UNCHANGED <<online, batteries, batDp, batReading, batShown>>
  BY DEF SysChanges, batList, batView
<1>2. BatTypes'
  BY <1>1 DEF BatInv, BatTypes
<1>3. ~told => BatPresent' = BatPresent
  BY <1>1 DEF BatInv, BatTypes, BatPresent
<1>4. ListFits' /\ ReadingFits'
  BY <1>1, <1>3 DEF BatInv, BatTypes, ListFits, ReadingFits
<1>5. batUdev' \/ batDue'
  BY <1>1 DEF BatInv, BatTypes
<1> QED  BY <1>2, <1>4, <1>5 DEF BatInv, BatteryAgrees

\* The threads read the list anew and ask for an update.
LEMMA ThreadsKeep ==
  ASSUME BatInv, UdevEvent \/ TimerTicks \/ UeventRead \/ AdapterChanges
  PROVE  BatInv'
<1>1. /\ UNCHANGED <<sysBat, batReading, batShown, batDue>>
      /\ online' \in BOOLEAN /\ batUdev' \in BOOLEAN /\ batDp' \in BOOLEAN /\ (batDp' \/ batUdev')
  BY DEF UdevEvent, TimerTicks, UeventRead, AdapterChanges, batSystem, batView, BatInv, BatTypes
<1>2. BatTypes'
  BY <1>1 DEF BatInv, BatTypes
<1>3. CASE UdevEvent \/ TimerTicks
  <2>1. batteries' = BatPresent /\ batDp'
    BY <1>3 DEF UdevEvent, TimerTicks, RefreshBatteries, BatPresent
  <2> QED  BY <1>1, <1>2, <2>1 DEF BatInv, ListFits, ReadingFits, BatteryAgrees, BatPresent
<1>4. CASE UeventRead \/ AdapterChanges
  <2>1. batteries' = batteries /\ (batDp' \/ batDp' = batDp) /\ (batUdev' \/ batUdev' = batUdev)
    BY <1>4 DEF UeventRead, AdapterChanges, batSystem, batList, batView
  <2> QED  BY <1>1, <1>2, <2>1 DEF BatInv, ListFits, ReadingFits, BatteryAgrees, BatPresent
<1> QED  BY <1>3, <1>4

LEMMA UpdateStartsKeeps == ASSUME BatInv, BatUpdateStarts PROVE BatInv'
<1>1. batDp' = FALSE /\ UNCHANGED <<batConfig, sysBat, online, batUdev, batteries, adapterNode, lastEvent>>
  BY DEF BatUpdateStarts, batSystem, batList
<1>2. CASE batteries = {}
  <2>1. batShown' = [batShown EXCEPT !.visible = FALSE] /\ batDue' = FALSE /\ batReading' = FALSE
    BY <1>2 DEF BatUpdateStarts, BatInv, BatTypes
  <2>2. BatTypes' /\ batShown'.visible = FALSE
    BY <1>1, <2>1 DEF BatInv, BatTypes
  <2>3. ListFits' /\ ReadingFits'
    BY <1>1, <2>1 DEF BatInv, ListFits, ReadingFits, BatPresent
  <2>4. ~batUdev => BatPresent = {}
    BY <1>2 DEF BatInv, ListFits
  <2>5. BatteryAgrees'
    BY <1>1, <2>2, <2>4 DEF BatteryAgrees, BatPresent
  <2> QED  BY <2>2, <2>3, <2>5 DEF BatInv
<1>3. CASE batteries # {}
  <2>1. batReading' = TRUE /\ batShown' = batShown /\ batDue' = batDue
    BY <1>3 DEF BatUpdateStarts
  <2> QED  BY <1>1, <1>3, <2>1 DEF BatInv, BatTypes, ListFits, ReadingFits, BatPresent, BatteryAgrees
<1> QED  BY <1>2, <1>3

\* What getInfos() finds, in the cases the properties tell apart.
LEMMA InfosFit ==
  ASSUME BatTypes, batteries = BatPresent, batteries # {}, NEW on \in BOOLEAN
  PROVE  LET i == GetInfos(batteries, on) IN
         /\ batConfig.weighted /\ batConfig.fullAt = 100 /\ (\A b \in batteries : "energy" \in Known[b] /\ "energyFull" \in Known[b]) =>
              i.capacity = AtMost(PercentOf(SumOf(sysBat, batteries), BatFull * Cardinality(batteries)), 100)
         /\ (\E b \in batteries : sysBat[b].status = "Charging") => i.status \in {"Charging", "Full"}
         /\ /\ \A b \in batteries : sysBat[b].status # "Charging"
            /\ \E b \in batteries : sysBat[b].status = "Discharging"
            /\ ~AdapterDischarges
            => i.status = IF on THEN "Plugged" ELSE "Discharging"
<1> DEFINE energy == Some(batteries, "energy")
           full == Some(batteries, "energyFull")
           weighted == IF batConfig.weighted /\ energy # {} /\ full # {}
                       THEN PercentOf(SumOf(sysBat, energy), BatFull * Cardinality(full)) ELSE AverageOf(batteries)
           capacity == AtMost(IF batConfig.fullAt < 100 THEN PercentOf(weighted, batConfig.fullAt) ELSE weighted, 100)
           s == StatusOf(batteries)
           status == IF s \in {"Discharging", "Not charging"} /\ on /\ ~AdapterDischarges THEN "Plugged" ELSE s
<1>1. /\ GetInfos(batteries, on).capacity = capacity
      /\ GetInfos(batteries, on).status = IF capacity = 100 /\ status = "Charging" THEN "Full" ELSE status
  BY DEF GetInfos
<1>2. ASSUME batConfig.weighted, batConfig.fullAt = 100, \A b \in batteries : "energy" \in Known[b] /\ "energyFull" \in Known[b]
      PROVE  capacity = AtMost(PercentOf(SumOf(sysBat, batteries), BatFull * Cardinality(batteries)), 100)
  <2>1. energy = batteries /\ full = batteries
    BY <1>2 DEF Some, BatPresent
  <2> HIDE DEF energy, full
  <2>2. weighted = PercentOf(SumOf(sysBat, batteries), BatFull * Cardinality(batteries))
    BY <1>2, <2>1
  <2> HIDE DEF weighted
  <2>3. ~(batConfig.fullAt < 100)
    BY <1>2
  <2> QED  BY <2>2, <2>3
<1> HIDE DEF capacity
<1>3. ASSUME NEW b \in batteries, sysBat[b].status = "Charging" PROVE s = "Charging"
  BY <1>3, StatusOfList
<1>4. ASSUME \A b \in batteries : sysBat[b].status # "Charging", \E b \in batteries : sysBat[b].status = "Discharging"
      PROVE  s = "Discharging"
  BY <1>4, StatusOfList
<1> HIDE DEF s
<1> QED  BY <1>1, <1>2, <1>3, <1>4

LEMMA UpdateShowsKeeps ==
  ASSUME BatInv, NEW on \in BOOLEAN, NEW on2 \in BOOLEAN, BatUpdateShows(on, on2)
  PROVE  BatInv'
<1> DEFINE i == GetInfos(batteries, on)
           known == IF i.status = "Unknown" THEN GetAdapterStatus(i.capacity, on2) ELSE i.status
           status == IF batConfig.fullAtPlugged /\ known = "Full" /\ adapterNode = Adapter /\ online THEN "Plugged" ELSE known
           state == GetState(i.capacity)
<1>1. /\ batReading /\ batReading' = FALSE /\ batDue' = FALSE /\ on \in OnlineRead
      /\ UNCHANGED <<batConfig, sysBat, online, batUdev, batteries, adapterNode, batDp>>
  BY DEF BatUpdateShows, batSystem, batList
<1>2. /\ batShown' = [visible |-> TRUE, capacity |-> i.capacity, status |-> status, time |-> i.time, barClass |-> state]
      /\ lastEvent' = <<IF status = "Discharging" THEN "on-discharging" ELSE "on-charging", state, IF state = "" THEN i.capacity ELSE 0>>
  BY DEF BatUpdateShows
<1> HIDE DEF i
<1>3. /\ batShown'.visible = TRUE /\ "visible" \in DOMAIN batShown' /\ batShown'.capacity = i.capacity
      /\ batShown'.status = status /\ batShown'.barClass = GetState(batShown'.capacity)
      /\ (lastEvent'[1] = "on-discharging") = (batShown'.status = "Discharging") /\ lastEvent'[2] = batShown'.barClass
  BY <1>2
<1> HIDE DEF state
<1>4. BatTypes' /\ ListFits' /\ ReadingFits'
  BY <1>1, <1>3 DEF BatInv, BatTypes, ListFits, ReadingFits, BatPresent
<1>5. ASSUME ~batUdev, ~batDp PROVE BatteryAgrees'
  <2>1. batteries = BatPresent /\ batteries # {} /\ BatTypes
    BY <1>1, <1>5 DEF BatInv, ListFits, ReadingFits
  <2>2. adapterNode = Adapter => ~AdapterDischarges /\ on = online
    BY <1>1, BatAssumption DEF AdapterDischarges, OnlineRead, BatAssumption, BatSet
  <2>3. /\ batConfig.weighted /\ batConfig.fullAt = 100 /\ (\A b \in BatPresent : "energy" \in Known[b] /\ "energyFull" \in Known[b]) =>
             i.capacity = AtMost(PercentOf(SumOf(sysBat, BatPresent), BatFull * Cardinality(BatPresent)), 100)
        /\ (\E b \in BatPresent : sysBat[b].status = "Charging") => i.status \in {"Charging", "Full"}
        /\ /\ \A b \in BatPresent : sysBat[b].status # "Charging"
           /\ \E b \in BatPresent : sysBat[b].status = "Discharging"
           /\ ~AdapterDischarges
           => i.status = IF on THEN "Plugged" ELSE "Discharging"
    BY <2>1, InfosFit DEF i
  <2>4. (\E b \in BatPresent : sysBat[b].status = "Charging") => status \in {"Charging", "Full", "Plugged"}
    BY <2>3
  <2>5. /\ \A b \in BatPresent : sysBat[b].status # "Charging"
        /\ \E b \in BatPresent : sysBat[b].status = "Discharging"
        /\ adapterNode = Adapter
        => status = IF online THEN "Plugged" ELSE "Discharging"
    BY <2>2, <2>3
  <2> HIDE DEF status
  <2>6. /\ BatPresent' = BatPresent /\ batConfig' = batConfig /\ online' = online /\ adapterNode' = adapterNode /\ sysBat' = sysBat
    BY <1>1 DEF BatPresent
  <2>7. BatPresent # {}
    BY <2>1
  <2>8. PercentageFits'
    BY <1>3, <2>3, <2>6 DEF PercentageFits
  <2>9. WithStatus("Charging")' = {b \in BatPresent : sysBat[b].status = "Charging"}
    BY <2>6 DEF WithStatus
  <2>10. WithStatus("Discharging")' = {b \in BatPresent : sysBat[b].status = "Discharging"}
    BY <2>6 DEF WithStatus
  <2>11. StatusFits'
    BY <1>3, <2>4, <2>5, <2>6, <2>9, <2>10 DEF StatusFits
  <2>12. GetState(batShown.capacity)' = GetState(batShown'.capacity)
    BY <2>6 DEF GetState
  <2>13. EventFits'
    BY <1>3, <2>12 DEF EventFits
  <2> QED  BY <1>3, <2>6, <2>7, <2>8, <2>11, <2>13 DEF BatteryAgrees
<1>6. CASE batUdev \/ batDp
  BY <1>1, <1>4, <1>6 DEF BatInv, BatteryAgrees
<1> QED  BY <1>4, <1>5, <1>6 DEF BatInv

LEMMA BatStays == BatInv /\ [BatNext]_batVars => BatInv'
<1> SUFFICES ASSUME BatInv, [BatNext]_batVars PROVE BatInv'
  OBVIOUS
<1>1. CASE UNCHANGED batVars
  <2>1. UNCHANGED <<batConfig, sysBat, online, batUdev, batteries, adapterNode, batDp, batReading, batShown, lastEvent, batDue>>
    BY <1>1 DEF batVars, batSystem, batList, batView
  <2>2. BatTypes' /\ ListFits' /\ ReadingFits'
    BY <2>1 DEF BatInv, BatTypes, ListFits, ReadingFits, BatPresent
  <2>3. BatteryAgrees'
    BY <2>1 DEF BatInv, BatPresent, BatteryAgrees, PercentageFits, StatusFits, EventFits, WithStatus, GetState
  <2> QED  BY <2>2, <2>3 DEF BatInv
<1>2. ASSUME NEW b \in BatSet, SysChanges(b, [sysBat[b] EXCEPT !.here = ~@], TRUE) PROVE BatInv'
  <2>1. [sysBat[b] EXCEPT !.here = ~@] \in [here : BOOLEAN, status : Statuses, energy : Nat]
    BY DEF BatInv, BatTypes
  <2> QED  BY <1>2, <2>1, SysKeeps
<1>3. ASSUME NEW b \in BatSet, NEW s \in Statuses, NEW told \in BOOLEAN, SysChanges(b, [sysBat[b] EXCEPT !.status = s], told)
      PROVE  BatInv'
  <2>1. /\ [sysBat[b] EXCEPT !.status = s] \in [here : BOOLEAN, status : Statuses, energy : Nat]
        /\ [sysBat[b] EXCEPT !.status = s].here = sysBat[b].here
    BY DEF BatInv, BatTypes
  <2> QED  BY <1>3, <2>1, SysKeeps
<1>4. ASSUME NEW b \in BatSet, NEW e \in 0..(BatFull + 1), NEW told \in BOOLEAN, SysChanges(b, [sysBat[b] EXCEPT !.energy = e], told)
      PROVE  BatInv'
  <2>1. /\ [sysBat[b] EXCEPT !.energy = e] \in [here : BOOLEAN, status : Statuses, energy : Nat]
        /\ [sysBat[b] EXCEPT !.energy = e].here = sysBat[b].here
    BY DEF BatInv, BatTypes
  <2> QED  BY <1>4, <2>1, SysKeeps
<1>5. CASE UdevEvent \/ TimerTicks \/ UeventRead \/ AdapterChanges
  BY <1>5, ThreadsKeep
<1>6. CASE BatUpdateStarts
  BY <1>6, UpdateStartsKeeps
<1>7. ASSUME NEW on \in BOOLEAN, NEW on2 \in BOOLEAN, BatUpdateShows(on, on2) PROVE BatInv'
  BY <1>7, UpdateShowsKeeps
<1> QED  BY <1>1, <1>2, <1>3, <1>4, <1>5, <1>6, <1>7 DEF BatNext

\* What is shown of the batteries fits their files (battery.cpp:553-674, 721-860).
THEOREM BatteryIsShown == BatSpec => []BatteryAgrees
<1>1. BatInit => BatInv
  BY BatInitInv
<1>2. BatInv /\ [BatNext]_batVars => BatInv'
  BY BatStays
<1>3. BatInv => BatteryAgrees
  BY DEF BatInv
<1> QED  BY <1>1, <1>2, <1>3, PTL DEF BatSpec

-----------------------------------------------------------------------------
(* keyboard_state.cpp.  A device's plugging and unplugging alternate in the  *)
(* events, so that the last one is what it is, and one that is tracked is    *)
(* not plugged before it is unplugged.  What is tracked is known only of     *)
(* those that came and went under the watch.                                 *)

KbdEvent == [create : BOOLEAN, dev : Kbd]

Silent(w, k) == \A i \in 1..Len(w) : w[i].dev # k
LastSays(w, k, there) ==
  \E i \in 1..Len(w) : w[i].dev = k /\ w[i].create = there /\ \A l \in 1..Len(w) : l > i => w[l].dev # k
PluggedAgain(w, k) ==
  \A i \in 1..Len(w) : w[i].dev = k /\ w[i].create =>
    \E j \in 1..Len(w) : j < i /\ w[j].dev = k /\ ~w[j].create
Alternating(w, k) ==
  \A i, j \in 1..Len(w) : i < j /\ w[i].dev = k /\ w[i].create /\ w[j].dev = k /\ w[j].create =>
    \E l \in 1..Len(w) : i < l /\ l < j /\ w[l].dev = k /\ ~w[l].create

KbdWaiting == kbdWaits = NotWaiting \/ kbdWaits \in [dev : Kbd, left : 0..KbdTries]

HotplugKnows(k) ==
  /\ Silent(kbdInotify, k) =>
       IF kbdWaits.dev = k THEN kbdNode[k] # "gone"
       ELSE k \in kbdUntold \/ (k \in kbdTracked <=> kbdNode[k] # "gone" /\ k \notin kbdGivenUp)
  /\ ~Silent(kbdInotify, k) => LastSays(kbdInotify, k, kbdNode[k] # "gone")
  /\ (k \in kbdTracked /\ k \notin kbdUntold) \/ kbdWaits.dev = k => PluggedAgain(kbdInotify, k)
  /\ Alternating(kbdInotify, k)
  /\ kbdWaits.dev = k => k \notin kbdTracked \/ k \in kbdUntold

Unwatched == kbdWatch # "on" => kbdInotify = <<>> /\ kbdWaits = NotWaiting

LedsShown ==
  ~kbdDue /\ kbdTracked # {} => kbdShown = \E k \in PathsToRead : kbdNode[k] = "ready" /\ k \in kbdLit

KbdInv ==
  /\ KbdTypeOK /\ kbdInotify \in Seq(KbdEvent) /\ KbdWaiting /\ Unwatched
  /\ \A k \in Kbd : HotplugKnows(k)
  /\ LedsShown

LEMMA EventAppended ==
  ASSUME NEW w \in Seq(KbdEvent), NEW m \in KbdEvent, NEW k \in Kbd, NEW v, v = Append(w, m)
  PROVE  /\ v \in Seq(KbdEvent)
         /\ m.dev # k => /\ Silent(v, k) <=> Silent(w, k)
                         /\ \A b : LastSays(w, k, b) => LastSays(v, k, b)
                         /\ PluggedAgain(w, k) => PluggedAgain(v, k)
                         /\ Alternating(w, k) => Alternating(v, k)
         /\ m.dev = k => /\ ~Silent(v, k) /\ LastSays(v, k, m.create)
                         /\ ~m.create \/ LastSays(w, k, FALSE) => (PluggedAgain(w, k) => PluggedAgain(v, k))
                         /\ ~m.create \/ LastSays(w, k, FALSE) \/ Silent(w, k) => (Alternating(w, k) => Alternating(v, k))
<1> DEFINE n == Len(w)
<1>1. /\ v \in Seq(KbdEvent) /\ n \in Nat /\ Len(v) = n + 1 /\ v[n + 1] = m
      /\ \A i \in 1..n : v[i] = w[i] /\ i \in 1..Len(v)
      /\ \A i \in 1..Len(v) : i \in 1..n \/ i = n + 1
      /\ n + 1 \in 1..Len(v) /\ \A i \in 1..n : i < n + 1
      /\ \A i \in 1..Len(v) : v[i].create \in BOOLEAN
  <2>1. /\ v \in Seq(KbdEvent) /\ n \in Nat /\ Len(v) = n + 1 /\ v[n + 1] = m /\ \A i \in 1..n : v[i] = w[i]
    OBVIOUS
  <2>2. \A i \in 1..Len(v) : v[i] \in KbdEvent
    BY <2>1
  <2> QED  BY <2>1, <2>2 DEF KbdEvent
<1> HIDE DEF n
<1>2. \A b : LastSays(w, k, b) <=>
        \E i \in 1..n : w[i].dev = k /\ w[i].create = b /\ \A l \in 1..n : l > i => w[l].dev # k
  BY DEF LastSays, n
<1>3. /\ Silent(w, k) <=> \A i \in 1..n : w[i].dev # k
      /\ PluggedAgain(w, k) <=> \A i \in 1..n : w[i].dev = k /\ w[i].create =>
                                  \E j \in 1..n : j < i /\ w[j].dev = k /\ ~w[j].create
      /\ Alternating(w, k) <=> \A i, j \in 1..n : i < j /\ w[i].dev = k /\ w[i].create /\ w[j].dev = k /\ w[j].create =>
                                 \E l \in 1..n : i < l /\ l < j /\ w[l].dev = k /\ ~w[l].create
  BY DEF Silent, PluggedAgain, Alternating, n
<1>4. ASSUME m.dev # k PROVE Silent(v, k) <=> Silent(w, k)
  BY <1>1, <1>3, <1>4 DEF Silent
<1>5. ASSUME m.dev # k, NEW b, LastSays(w, k, b) PROVE LastSays(v, k, b)
  <2>1. PICK i \in 1..n : w[i].dev = k /\ w[i].create = b /\ \A l \in 1..n : l > i => w[l].dev # k
    BY <1>2, <1>5
  <2>2. i \in 1..Len(v) /\ v[i].dev = k /\ v[i].create = b
    BY <1>1, <2>1
  <2>3. \A l \in 1..Len(v) : l > i => v[l].dev # k
    BY <1>1, <1>5, <2>1
  <2> QED  BY <2>2, <2>3 DEF LastSays
<1>6. ASSUME PluggedAgain(w, k), m.dev # k \/ ~m.create \/ LastSays(w, k, FALSE) PROVE PluggedAgain(v, k)
  <2> SUFFICES ASSUME NEW i \in 1..Len(v), v[i].dev = k, v[i].create
               PROVE  \E j \in 1..Len(v) : j < i /\ v[j].dev = k /\ ~v[j].create
    BY DEF PluggedAgain
  <2>1. CASE i \in 1..n
    BY <2>1, <1>1, <1>3, <1>6
  <2>2. CASE i = n + 1
    <3>1. LastSays(w, k, FALSE)
      BY <2>2, <1>1, <1>6
    <3>2. PICK j \in 1..n : w[j].dev = k /\ w[j].create = FALSE
      BY <3>1, <1>2
    <3> QED  BY <2>2, <3>2, <1>1
  <2> QED  BY <2>1, <2>2, <1>1
<1>7. ASSUME Alternating(w, k), m.dev # k \/ ~m.create \/ LastSays(w, k, FALSE) \/ Silent(w, k) PROVE Alternating(v, k)
  <2> SUFFICES ASSUME NEW i \in 1..Len(v), NEW j \in 1..Len(v), i < j, v[i].dev = k, v[i].create, v[j].dev = k, v[j].create
               PROVE  \E l \in 1..Len(v) : i < l /\ l < j /\ v[l].dev = k /\ ~v[l].create
    BY DEF Alternating
  <2>1. i \in 1..n
    BY <1>1
  <2>2. CASE j \in 1..n
    <3>1. PICK l \in 1..n : i < l /\ l < j /\ w[l].dev = k /\ ~w[l].create
      BY <2>1, <2>2, <1>1, <1>3, <1>7
    <3> QED  BY <3>1, <1>1
  <2>3. CASE j = n + 1
    <3>1. LastSays(w, k, FALSE)
      <4>1. m.dev = k /\ m.create
        BY <2>3, <1>1
      <4>2. ~Silent(w, k)
        BY <2>1, <1>1, <1>3
      <4> QED  BY <1>7, <4>1, <4>2
    <3>2. PICK l \in 1..n : w[l].dev = k /\ w[l].create = FALSE /\ \A x \in 1..n : x > l => w[x].dev # k
      BY <3>1, <1>2
    <3>3. i # l /\ ~(i > l)
      BY <2>1, <3>2, <1>1
    <3>4. i < l /\ l < j
      BY <2>1, <2>3, <3>2, <3>3, <1>1
    <3> QED  BY <3>2, <3>4, <1>1
  <2> QED  BY <2>2, <2>3, <1>1
<1>8. ASSUME m.dev = k PROVE ~Silent(v, k) /\ LastSays(v, k, m.create)
  <2>1. \A l \in 1..Len(v) : ~(l > n + 1)
    BY <1>1
  <2> QED  BY <1>1, <1>8, <2>1 DEF Silent, LastSays
<1> QED  BY <1>1, <1>4, <1>5, <1>6, <1>7, <1>8

LEMMA EventRead ==
  ASSUME NEW w \in Seq(KbdEvent), w # <<>>, NEW k \in Kbd
  PROVE  LET t == Tail(w)
             h == Head(w) IN
         /\ t \in Seq(KbdEvent) /\ h \in KbdEvent
         /\ h.dev # k => Silent(t, k) <=> Silent(w, k)
         /\ h.dev = k => ~Silent(w, k)
         /\ h.dev # k => \A b : LastSays(w, k, b) => LastSays(t, k, b)
         /\ h.dev = k => \A b : LastSays(w, k, b) => LastSays(t, k, b) \/ (Silent(t, k) /\ h.create = b)
         /\ h.dev # k => (PluggedAgain(w, k) => PluggedAgain(t, k))
         /\ h.dev = k /\ h.create => ~PluggedAgain(w, k) /\ (Alternating(w, k) => PluggedAgain(t, k))
         /\ Alternating(w, k) => Alternating(t, k)
<1> DEFINE t == Tail(w)
           h == Head(w)
           n == Len(t)
<1>1. /\ t \in Seq(KbdEvent) /\ h \in KbdEvent /\ h = w[1] /\ n \in Nat /\ Len(w) = n + 1
      /\ \A i \in 1..n : t[i] = w[i + 1] /\ i + 1 \in 1..Len(w)
      /\ \A i \in 1..Len(w) : i = 1 \/ (i - 1 \in 1..n /\ t[i - 1] = w[i])
      /\ 1 \in 1..Len(w)
  <2>1. /\ t \in Seq(KbdEvent) /\ h \in KbdEvent /\ h = w[1] /\ n \in Nat /\ Len(w) = n + 1 /\ \A i \in 1..n : t[i] = w[i + 1]
    OBVIOUS
  <2> HIDE DEF t, n, h
  <2>2. \A i \in 1..Len(w) : i = 1 \/ (i - 1 \in 1..n /\ (i - 1) + 1 = i)
    BY <2>1
  <2>3. \A i \in 1..n : i + 1 \in 1..Len(w)
    BY <2>1
  <2> QED  BY <2>1, <2>2, <2>3
<1> HIDE DEF t, h, n
<1>2. \A b : LastSays(t, k, b) <=>
        \E i \in 1..n : t[i].dev = k /\ t[i].create = b /\ \A l \in 1..n : l > i => t[l].dev # k
  BY DEF LastSays, n
<1>3. /\ Silent(t, k) <=> \A i \in 1..n : t[i].dev # k
      /\ PluggedAgain(t, k) <=> \A i \in 1..n : t[i].dev = k /\ t[i].create =>
                                  \E j \in 1..n : j < i /\ t[j].dev = k /\ ~t[j].create
      /\ Alternating(t, k) <=> \A i, j \in 1..n : i < j /\ t[i].dev = k /\ t[i].create /\ t[j].dev = k /\ t[j].create =>
                                 \E l \in 1..n : i < l /\ l < j /\ t[l].dev = k /\ ~t[l].create
  BY DEF Silent, PluggedAgain, Alternating, n
<1>4. (h.dev # k => (Silent(t, k) <=> Silent(w, k))) /\ (h.dev = k => ~Silent(w, k))
  BY <1>1, <1>3 DEF Silent
<1>5. ASSUME NEW b, LastSays(w, k, b)
      PROVE  LastSays(t, k, b) \/ (h.dev = k /\ Silent(t, k) /\ h.create = b)
  <2>1. PICK i \in 1..Len(w) : w[i].dev = k /\ w[i].create = b /\ \A l \in 1..Len(w) : l > i => w[l].dev # k
    BY <1>5 DEF LastSays
  <2>2. \A l \in 1..n : l + 1 > i => t[l].dev # k
    BY <1>1, <2>1
  <2>3. CASE i = 1
    <3>1. \A l \in 1..n : l + 1 > i
      BY <2>3, <1>1
    <3> QED  BY <1>1, <1>3, <2>1, <2>2, <2>3, <3>1
  <2>4. CASE i # 1
    <3>1. i - 1 \in 1..n /\ t[i - 1] = w[i] /\ \A l \in 1..n : l > i - 1 => l + 1 > i
      BY <2>4, <1>1
    <3> QED  BY <1>2, <2>1, <2>2, <3>1
  <2> QED  BY <2>3, <2>4
<1>6. ASSUME h.dev # k, PluggedAgain(w, k) PROVE PluggedAgain(t, k)
  <2> SUFFICES ASSUME NEW i \in 1..n, t[i].dev = k, t[i].create
               PROVE  \E j \in 1..n : j < i /\ t[j].dev = k /\ ~t[j].create
    BY <1>3
  <2>1. PICK j \in 1..Len(w) : j < i + 1 /\ w[j].dev = k /\ ~w[j].create
    BY <1>1, <1>6 DEF PluggedAgain
  <2>2. j # 1
    BY <1>1, <1>6, <2>1
  <2>3. j - 1 \in 1..n /\ t[j - 1] = w[j] /\ j - 1 < i
    BY <1>1, <2>1, <2>2
  <2> QED  BY <2>1, <2>3
<1>7. ASSUME h.dev = k, h.create PROVE ~PluggedAgain(w, k)
  <2>1. \A j \in 1..Len(w) : ~(j < 1)
    BY <1>1
  <2> QED  BY <1>1, <1>7, <2>1 DEF PluggedAgain
<1>8. ASSUME h.dev = k, h.create, Alternating(w, k) PROVE PluggedAgain(t, k)
  <2> SUFFICES ASSUME NEW i \in 1..n, t[i].dev = k, t[i].create
               PROVE  \E j \in 1..n : j < i /\ t[j].dev = k /\ ~t[j].create
    BY <1>3
  <2>1. 1 < i + 1 /\ i + 1 \in 1..Len(w) /\ w[i + 1] = t[i]
    BY <1>1
  <2>2. PICK l \in 1..Len(w) : 1 < l /\ l < i + 1 /\ w[l].dev = k /\ ~w[l].create
    BY <1>1, <1>8, <2>1 DEF Alternating
  <2>3. l - 1 \in 1..n /\ t[l - 1] = w[l] /\ l - 1 < i
    BY <1>1, <2>2
  <2> QED  BY <2>2, <2>3
<1>9. ASSUME Alternating(w, k) PROVE Alternating(t, k)
  <2> SUFFICES ASSUME NEW i \in 1..n, NEW j \in 1..n, i < j, t[i].dev = k, t[i].create, t[j].dev = k, t[j].create
               PROVE  \E l \in 1..n : i < l /\ l < j /\ t[l].dev = k /\ ~t[l].create
    BY <1>3
  <2>1. i + 1 < j + 1 /\ i + 1 \in 1..Len(w) /\ j + 1 \in 1..Len(w) /\ w[i + 1] = t[i] /\ w[j + 1] = t[j]
    BY <1>1
  <2>2. PICK l \in 1..Len(w) : i + 1 < l /\ l < j + 1 /\ w[l].dev = k /\ ~w[l].create
    BY <1>9, <2>1 DEF Alternating
  <2>3. l - 1 \in 1..n /\ t[l - 1] = w[l] /\ i < l - 1 /\ l - 1 < j
    BY <1>1, <2>2
  <2> QED  BY <2>2, <2>3
<1> QED  BY <1>1, <1>4, <1>5, <1>6, <1>7, <1>8, <1>9 DEF t, h

LEMMA KbdInitInv == KbdInit => KbdInv
<1> SUFFICES ASSUME KbdInit PROVE KbdInv
  OBVIOUS
<1>1. /\ kbdInotify = <<>> /\ kbdWaits = NotWaiting /\ kbdDue = TRUE
      /\ kbdTracked \subseteq {k \in Kbd : kbdNode[k] = "ready"} /\ kbdNode \in [Kbd -> {"gone", "denied", "ready"}]
      /\ kbdGivenUp = {k \in Kbd : kbdNode[k] # "gone"} \ kbdTracked /\ kbdUntold = {} /\ kbdWatch = "coming"
      /\ kbdLit \subseteq {k \in Kbd : kbdNode[k] # "gone"}
  BY DEF KbdInit
<1>2. KbdTypeOK
  <2>1. kbdNews \in 0..MaxKbdNews /\ kbdWaits.left \in 0..KbdTries
    BY <1>1, KbdAssumption DEF KbdInit, KbdAssumption, NotWaiting
  <2> QED  BY <1>1, <2>1 DEF KbdInit, KbdTypeOK
<1>3. \A k \in Kbd : Silent(kbdInotify, k) /\ Alternating(kbdInotify, k) /\ PluggedAgain(kbdInotify, k) /\ kbdWaits.dev # k
  BY <1>1, KbdAssumption DEF KbdAssumption, NotWaiting, Silent, Alternating, PluggedAgain
<1>4. \A k \in Kbd : HotplugKnows(k)
  BY <1>1, <1>3 DEF HotplugKnows
<1> QED  BY <1>1, <1>2, <1>4 DEF KbdInv, KbdWaiting, Unwatched, LedsShown

\* A device comes or goes: without the watch, ..
LEMMA UntoldKeeps ==
  ASSUME KbdInv, NEW d \in Kbd, kbdWatch # "on", kbdInotify' = kbdInotify, kbdUntold' = kbdUntold \cup {d}, kbdDue' = TRUE,
         kbdNode' \in [Kbd -> {"gone", "denied", "ready"}], \A k \in Kbd : k # d => kbdNode'[k] = kbdNode[k],
         kbdLit' \subseteq kbdLit, kbdNews' \in 0..MaxKbdNews,
         UNCHANGED <<kbdConfig, kbdWatch, kbdWaits, kbdTracked, kbdGivenUp, kbdReleased, kbdDp, kbdReading, kbdShown>>
  PROVE  KbdInv'
<1>1. kbdInotify = <<>> /\ kbdWaits = NotWaiting
  BY DEF KbdInv, Unwatched
<1>2. KbdTypeOK' /\ KbdWaiting' /\ Unwatched' /\ LedsShown' /\ kbdInotify' \in Seq(KbdEvent)
  BY <1>1 DEF KbdInv, KbdTypeOK, KbdWaiting, Unwatched, LedsShown
<1>3. ASSUME NEW k \in Kbd PROVE HotplugKnows(k)'
  <2>1. Silent(kbdInotify', k) /\ Alternating(kbdInotify', k) /\ PluggedAgain(kbdInotify', k) /\ kbdWaits'.dev # k
    BY <1>1, KbdAssumption DEF KbdAssumption, NotWaiting, Silent, Alternating, PluggedAgain
  <2>2. HotplugKnows(k) /\ Silent(kbdInotify, k) /\ kbdWaits.dev # k
    BY <1>1, <2>1 DEF KbdInv
  <2>3. CASE k = d
    BY <2>1, <2>3 DEF HotplugKnows
  <2>4. CASE k # d
    <3>1. (kbdNode'[k] # "gone") = (kbdNode[k] # "gone")
      BY <2>4
    <3> QED  BY <2>1, <2>2, <3>1 DEF HotplugKnows
  <2> QED  BY <2>3, <2>4
<1> QED  BY <1>2, <1>3 DEF KbdInv

\* .. or under it.
LEMMA NewsKeeps ==
  ASSUME KbdInv, NEW d \in Kbd, NEW m \in KbdEvent, m.dev = d, m.create = (kbdNode[d] = "gone"),
         kbdInotify' = Append(kbdInotify, m), kbdDue' = TRUE,
         kbdNode' = [kbdNode EXCEPT ![d] = IF kbdNode[d] = "gone" THEN "denied" ELSE "gone"],
         kbdLit' \subseteq kbdLit, kbdNews' \in 0..MaxKbdNews, kbdWatch = "on",
         UNCHANGED <<kbdConfig, kbdWatch, kbdWaits, kbdTracked, kbdGivenUp, kbdUntold, kbdReleased, kbdDp, kbdReading, kbdShown>>
  PROVE  KbdInv'
<1>1. /\ kbdInotify' = Append(kbdInotify, m) /\ kbdDue' = TRUE
      /\ kbdNode' = [kbdNode EXCEPT ![d] = IF kbdNode[d] = "gone" THEN "denied" ELSE "gone"]
      /\ kbdLit' \subseteq kbdLit /\ kbdNews' \in 0..MaxKbdNews /\ kbdWatch' = "on"
      /\ UNCHANGED <<kbdConfig, kbdWaits, kbdTracked, kbdGivenUp, kbdUntold, kbdReleased, kbdDp, kbdReading, kbdShown>>
  OBVIOUS
<1>2. m \in KbdEvent /\ m.dev = d /\ m.create = (kbdNode[d] = "gone") /\ kbdInotify \in Seq(KbdEvent)
  BY DEF KbdInv
<1>3. kbdNode' \in [Kbd -> {"gone", "denied", "ready"}] /\ (kbdNode'[d] # "gone" <=> kbdNode[d] = "gone")
      /\ \A k \in Kbd : k # d => kbdNode'[k] = kbdNode[k]
  BY <1>1 DEF KbdInv, KbdTypeOK
<1>4. KbdTypeOK'
  BY <1>1, <1>3 DEF KbdInv, KbdTypeOK
<1>5. ASSUME NEW k \in Kbd, k # d PROVE HotplugKnows(k)'
  <2>1. HotplugKnows(k) /\ (kbdNode'[k] # "gone") = (kbdNode[k] # "gone")
    BY <1>3, <1>5 DEF KbdInv
  <2>2. /\ Silent(kbdInotify', k) <=> Silent(kbdInotify, k)
        /\ \A b : LastSays(kbdInotify, k, b) => LastSays(kbdInotify', k, b)
        /\ PluggedAgain(kbdInotify, k) => PluggedAgain(kbdInotify', k)
        /\ Alternating(kbdInotify, k) => Alternating(kbdInotify', k)
    BY <1>1, <1>2, <1>5, EventAppended
  <2> QED  BY <1>1, <2>1, <2>2 DEF HotplugKnows
<1>6. HotplugKnows(d)'
  <2>1. HotplugKnows(d)
    BY DEF KbdInv
  <2>2. ~Silent(kbdInotify', d) /\ LastSays(kbdInotify', d, kbdNode[d] = "gone")
    <3>1. ~Silent(kbdInotify', d) /\ LastSays(kbdInotify', d, m.create)
      BY <1>1, <1>2, EventAppended
    <3> QED  BY <1>2, <3>1
  <2>3. m.create \in BOOLEAN
    BY <1>2 DEF KbdEvent
  <2>4. ~m.create \/ Silent(kbdInotify, d) \/ LastSays(kbdInotify, d, FALSE)
    <3>1. m.create => (kbdNode[d] # "gone") = FALSE
      BY <1>2
    <3> QED  BY <2>1, <3>1 DEF HotplugKnows
  <2>5. Alternating(kbdInotify', d)
    BY <1>1, <1>2, <2>1, <2>4, EventAppended DEF HotplugKnows
  <2>6. ASSUME (d \in kbdTracked /\ d \notin kbdUntold) \/ kbdWaits.dev = d PROVE PluggedAgain(kbdInotify', d)
    <3>1. PluggedAgain(kbdInotify, d)
      BY <2>1, <2>6 DEF HotplugKnows
    <3>2. m.create => ~Silent(kbdInotify, d)
      BY <1>2, <2>1, <2>6 DEF HotplugKnows
    <3> QED  BY <1>1, <1>2, <2>4, <3>1, <3>2, EventAppended
  <2>7. (kbdNode[d] = "gone") = (kbdNode'[d] # "gone")
    BY <1>3
  <2> QED  BY <1>1, <2>1, <2>2, <2>5, <2>6, <2>7 DEF HotplugKnows
<1>7. kbdInotify' \in Seq(KbdEvent)
  BY <1>1, <1>2, EventAppended
<1>8. \A k \in Kbd : HotplugKnows(k)'
  BY <1>5, <1>6
<1> QED  BY <1>1, <1>4, <1>7, <1>8 DEF KbdInv, KbdWaiting, Unwatched, LedsShown

LEMMA PlugKeeps ==
  ASSUME KbdInv, NEW d \in Kbd, KbdPlugged(d) \/ KbdUnplugged(d)
  PROVE  KbdInv'
<1>1. kbdLit \ {d} \subseteq kbdLit
  OBVIOUS
<1>2. ASSUME KbdChange PROVE kbdDue' = TRUE /\ kbdNews' \in 0..MaxKbdNews /\ kbdConfig' = kbdConfig
  BY <1>2, KbdAssumption DEF KbdChange, KbdInv, KbdTypeOK, KbdAssumption
<1>u. ASSUME kbdWatch # "on" PROVE KbdInv'
  <2>1. CASE KbdPlugged(d)
    <3>1. /\ kbdNode' = [kbdNode EXCEPT ![d] = "denied"] /\ kbdInotify' = kbdInotify /\ kbdUntold' = kbdUntold \cup {d} /\ KbdChange
          /\ UNCHANGED <<kbdLit, kbdWatch, kbdWaits, kbdTracked, kbdGivenUp, kbdReleased, kbdDp, kbdReading, kbdShown>>
      BY <1>u, <2>1 DEF KbdPlugged, KbdTold, kbdView
    <3>2. kbdNode' \in [Kbd -> {"gone", "denied", "ready"}] /\ \A k \in Kbd : k # d => kbdNode'[k] = kbdNode[k]
      BY <3>1 DEF KbdInv, KbdTypeOK
    <3> QED  BY <1>2, <1>u, <3>1, <3>2, UntoldKeeps
  <2>2. CASE KbdUnplugged(d)
    <3>1. /\ kbdNode' = [kbdNode EXCEPT ![d] = "gone"] /\ kbdInotify' = kbdInotify /\ kbdUntold' = kbdUntold \cup {d} /\ KbdChange
          /\ kbdLit' \subseteq kbdLit
          /\ UNCHANGED <<kbdWatch, kbdWaits, kbdTracked, kbdGivenUp, kbdReleased, kbdDp, kbdReading, kbdShown>>
      BY <1>1, <1>u, <2>2 DEF KbdUnplugged, KbdTold, kbdView
    <3>2. kbdNode' \in [Kbd -> {"gone", "denied", "ready"}] /\ \A k \in Kbd : k # d => kbdNode'[k] = kbdNode[k]
      BY <3>1 DEF KbdInv, KbdTypeOK
    <3> QED  BY <1>2, <1>u, <3>1, <3>2, UntoldKeeps
  <2> QED  BY <2>1, <2>2
<1>3. CASE kbdWatch = "on" /\ KbdPlugged(d)
  <2>1. kbdNode[d] = "gone" /\ KbdChange
    BY <1>3 DEF KbdPlugged
  <2>2. (kbdNode[d] = "gone") = TRUE
    BY <2>1
  <2>3. /\ kbdNode' = [kbdNode EXCEPT ![d] = IF kbdNode[d] = "gone" THEN "denied" ELSE "gone"]
        /\ kbdLit' \subseteq kbdLit
        /\ kbdInotify' = Append(kbdInotify, [create |-> TRUE, dev |-> d])
        /\ UNCHANGED <<kbdWatch, kbdWaits, kbdTracked, kbdGivenUp, kbdUntold, kbdReleased, kbdDp, kbdReading, kbdShown>>
    BY <1>3, <2>1 DEF KbdPlugged, KbdTold, kbdView
  <2>4. PICK m : m = [create |-> TRUE, dev |-> d] /\ m \in KbdEvent /\ m.create = TRUE /\ m.dev = d
    <3>1. [create |-> TRUE, dev |-> d] \in KbdEvent /\ [create |-> TRUE, dev |-> d].create = TRUE /\ [create |-> TRUE, dev |-> d].dev = d
      BY DEF KbdEvent
    <3> QED  BY <3>1
  <2>5. kbdInotify' = Append(kbdInotify, m) /\ m.create = (kbdNode[d] = "gone")
    BY <2>2, <2>3, <2>4
  <2> QED  BY <1>2, <1>3, <2>1, <2>3, <2>4, <2>5, NewsKeeps
<1>4. CASE kbdWatch = "on" /\ KbdUnplugged(d)
  <2>1. kbdNode[d] # "gone" /\ KbdChange
    BY <1>4 DEF KbdUnplugged
  <2>2. (kbdNode[d] = "gone") = FALSE
    BY <2>1
  <2>3. /\ kbdNode' = [kbdNode EXCEPT ![d] = IF kbdNode[d] = "gone" THEN "denied" ELSE "gone"]
        /\ kbdLit' \subseteq kbdLit
        /\ kbdInotify' = Append(kbdInotify, [create |-> FALSE, dev |-> d])
        /\ UNCHANGED <<kbdWatch, kbdWaits, kbdTracked, kbdGivenUp, kbdUntold, kbdReleased, kbdDp, kbdReading, kbdShown>>
    BY <1>1, <1>4, <2>1 DEF KbdUnplugged, KbdTold, kbdView
  <2>4. PICK m : m = [create |-> FALSE, dev |-> d] /\ m \in KbdEvent /\ m.create = FALSE /\ m.dev = d
    <3>1. [create |-> FALSE, dev |-> d] \in KbdEvent /\ [create |-> FALSE, dev |-> d].create = FALSE /\ [create |-> FALSE, dev |-> d].dev = d
      BY DEF KbdEvent
    <3> QED  BY <3>1
  <2>5. kbdInotify' = Append(kbdInotify, m) /\ m.create = (kbdNode[d] = "gone")
    BY <2>2, <2>3, <2>4
  <2> QED  BY <1>2, <1>4, <2>1, <2>3, <2>4, <2>5, NewsKeeps
<1> QED  BY <1>u, <1>3, <1>4

\* The thread begins to watch, or ends.
LEMMA WatchKeeps ==
  ASSUME KbdInv, HotplugWatches \/ HotplugEnds
  PROVE  KbdInv'
<1>1. /\ kbdWatch' \in {"on", "ended"} /\ kbdWaits = NotWaiting
      /\ UNCHANGED <<kbdConfig, kbdNode, kbdLit, kbdNews, kbdWaits, kbdTracked, kbdGivenUp, kbdReleased, kbdDp, kbdReading, kbdShown, kbdDue>>
  BY DEF KbdInv, Unwatched, HotplugWatches, HotplugEnds, kbdSystem, kbdView
<1>2. kbdInotify' = <<>> /\ kbdUntold' \subseteq Kbd /\ kbdUntold \subseteq kbdUntold' /\ \A k \in Kbd : k \notin kbdUntold' => Silent(kbdInotify, k)
  <2>1. CASE HotplugWatches
    BY <2>1 DEF HotplugWatches, KbdInv, KbdTypeOK, Unwatched, Silent
  <2>2. CASE HotplugEnds
    <3>1. kbdInotify' = <<>> /\ kbdUntold' = kbdUntold \cup {kbdInotify[i].dev : i \in DOMAIN kbdInotify}
      BY <2>2 DEF HotplugEnds
    <3>2. kbdInotify \in Seq(KbdEvent) /\ kbdUntold \subseteq Kbd
      BY DEF KbdInv, KbdTypeOK
    <3>3. PICK q \in Seq(KbdEvent) : q = kbdInotify
      BY <3>2
    <3>4. DOMAIN q = 1..Len(q) /\ \A i \in 1..Len(q) : q[i] \in KbdEvent
      OBVIOUS
    <3>5. \A i \in 1..Len(q) : q[i].dev \in Kbd
      BY <3>4 DEF KbdEvent
    <3>6. kbdUntold' = kbdUntold \cup {q[i].dev : i \in 1..Len(q)}
      BY <3>1, <3>3, <3>4
    <3>7. kbdUntold' \subseteq Kbd /\ kbdUntold \subseteq kbdUntold'
      BY <3>2, <3>5, <3>6
    <3>8. \A k \in Kbd : k \notin kbdUntold' => Silent(q, k)
      BY <3>6 DEF Silent
    <3> QED  BY <3>1, <3>3, <3>7, <3>8
  <2> QED  BY <2>1, <2>2
<1>3. KbdTypeOK' /\ KbdWaiting' /\ Unwatched' /\ LedsShown' /\ kbdInotify' \in Seq(KbdEvent)
  <2>1. KbdTypeOK'
    BY <1>1, <1>2 DEF KbdInv, KbdTypeOK
  <2>2. LedsShown'
    BY <1>1 DEF KbdInv, LedsShown, PathsToRead
  <2> QED  BY <1>1, <1>2, <2>1, <2>2 DEF KbdWaiting, Unwatched
<1>4. ASSUME NEW k \in Kbd PROVE HotplugKnows(k)'
  <2>1. Silent(kbdInotify', k) /\ Alternating(kbdInotify', k) /\ PluggedAgain(kbdInotify', k) /\ kbdWaits'.dev # k
    BY <1>1, <1>2, KbdAssumption DEF KbdAssumption, NotWaiting, Silent, Alternating, PluggedAgain
  <2>2. k \notin kbdUntold' => Silent(kbdInotify, k) /\ k \notin kbdUntold /\ kbdWaits.dev # k
    BY <1>1, <1>2, <2>1
  <2>3. k \notin kbdUntold' => (k \in kbdTracked <=> kbdNode[k] # "gone" /\ k \notin kbdGivenUp)
    BY <2>2 DEF KbdInv, HotplugKnows
  <2> QED  BY <1>1, <2>1, <2>3 DEF HotplugKnows
<1> QED  BY <1>3, <1>4 DEF KbdInv

\* udev sets the mode; the compositor an LED.
LEMMA DevicesKeep ==
  ASSUME KbdInv, NEW d \in Kbd, KbdReady(d) \/ LedsChange(d)
  PROVE  KbdInv'
<1>1. /\ kbdNode' \in [Kbd -> {"gone", "denied", "ready"}]
      /\ \A k \in Kbd : kbdNode'[k] # "gone" <=> kbdNode[k] # "gone"
      /\ kbdDue' = TRUE /\ kbdNews' \in 0..MaxKbdNews /\ kbdLit' \subseteq Kbd
      /\ UNCHANGED <<kbdConfig, kbdInotify, kbdWatch, kbdWaits, kbdTracked, kbdGivenUp, kbdUntold>>
      /\ UNCHANGED <<kbdReleased, kbdDp, kbdReading, kbdShown>>
  <2>1. CASE KbdReady(d)
    BY <2>1 DEF KbdReady, kbdThreads, kbdView, KbdInv, KbdTypeOK
  <2>2. CASE LedsChange(d)
    BY <2>2, KbdAssumption DEF LedsChange, KbdChange, kbdThreads, kbdView, KbdInv, KbdTypeOK, KbdAssumption
  <2> QED  BY <2>1, <2>2
<1>2. ASSUME NEW k \in Kbd PROVE HotplugKnows(k)'
  <2>1. (kbdNode[k] # "gone") = (kbdNode'[k] # "gone")
    BY <1>1
  <2> QED  BY <1>1, <2>1 DEF KbdInv, HotplugKnows
<1> QED  BY <1>1, <1>2 DEF KbdInv, KbdTypeOK, KbdWaiting, Unwatched, LedsShown

LEMMA CreatedKeeps == ASSUME KbdInv, HotplugCreated PROVE KbdInv'
<1>0. PICK d : d = Head(kbdInotify).dev
  OBVIOUS
<1>1. /\ kbdWaits = NotWaiting /\ kbdInotify # <<>> /\ Head(kbdInotify).create
      /\ kbdWaits' = [dev |-> d, left |-> KbdTries] /\ kbdInotify' = Tail(kbdInotify)
      /\ UNCHANGED <<kbdConfig, kbdNode, kbdLit, kbdNews, kbdWatch, kbdTracked, kbdGivenUp, kbdUntold>>
      /\ UNCHANGED <<kbdReleased, kbdDp, kbdReading, kbdShown, kbdDue>>
  BY <1>0 DEF HotplugCreated, kbdSystem, kbdView
<1>2. d \in Kbd /\ kbdInotify \in Seq(KbdEvent) /\ Head(kbdInotify).create = TRUE
  <2>1. kbdInotify \in Seq(KbdEvent)
    BY DEF KbdInv
  <2>2. Head(kbdInotify) \in KbdEvent
    BY <1>1, <2>1
  <2>3. d \in Kbd /\ Head(kbdInotify).create \in BOOLEAN
    BY <1>0, <2>2 DEF KbdEvent
  <2> QED  BY <1>1, <2>1, <2>3
<1>3. KbdTypeOK' /\ KbdWaiting' /\ LedsShown' /\ Unwatched'
  <2>1. kbdWaits' \in [dev : Kbd, left : 0..KbdTries] /\ kbdWaits'.left \in 0..KbdTries
    BY <1>1, <1>2, KbdAssumption DEF KbdAssumption
  <2>2. KbdTypeOK'
    BY <1>1, <2>1 DEF KbdInv, KbdTypeOK
  <2>3. LedsShown'
    BY <1>1 DEF KbdInv, LedsShown, PathsToRead
  <2>4. Unwatched'
    BY <1>1 DEF KbdInv, Unwatched
  <2> QED  BY <2>1, <2>2, <2>3, <2>4 DEF KbdWaiting
<1>4. ASSUME NEW k \in Kbd, k # d PROVE HotplugKnows(k)'
  <2>1. kbdWaits.dev # k /\ kbdWaits'.dev # k
    BY <1>1, <1>4, KbdAssumption DEF NotWaiting, KbdAssumption
  <2>2. Head(kbdInotify).dev # k
    BY <1>0, <1>4
  <2> QED  BY <1>1, <1>2, <2>1, <2>2, EventRead DEF KbdInv, HotplugKnows
<1>5. HotplugKnows(d)'
  <2>1. HotplugKnows(d) /\ kbdWaits'.dev = d /\ Head(kbdInotify).dev = d
    BY <1>0, <1>1, <1>2 DEF KbdInv
  <2>2. ~Silent(kbdInotify, d) /\ ~PluggedAgain(kbdInotify, d)
    BY <1>1, <1>2, <2>1, EventRead
  <2>3. (d \notin kbdTracked \/ d \in kbdUntold) /\ LastSays(kbdInotify, d, kbdNode[d] # "gone") /\ Alternating(kbdInotify, d)
    BY <2>1, <2>2 DEF HotplugKnows
  <2>4. /\ PluggedAgain(kbdInotify', d) /\ Alternating(kbdInotify', d)
        /\ LastSays(kbdInotify', d, kbdNode[d] # "gone") \/ (Silent(kbdInotify', d) /\ TRUE = (kbdNode[d] # "gone"))
    BY <1>1, <1>2, <2>1, <2>3, EventRead
  <2>5. ASSUME Silent(kbdInotify', d) PROVE kbdNode[d] # "gone"
    <3>1. \A b : ~LastSays(kbdInotify', d, b)
      BY <2>5 DEF Silent, LastSays
    <3> QED  BY <2>4, <3>1
  <2>6. ~Silent(kbdInotify', d) => LastSays(kbdInotify', d, kbdNode[d] # "gone")
    BY <2>4
  <2>7. kbdNode'[d] = kbdNode[d] /\ kbdTracked' = kbdTracked /\ kbdUntold' = kbdUntold
    BY <1>1
  <2>8. (kbdNode'[d] # "gone") = (kbdNode[d] # "gone")
    BY <2>7
  <2>9. Silent(kbdInotify', d) => kbdNode'[d] # "gone"
    BY <2>5, <2>7
  <2>10. ~Silent(kbdInotify', d) => LastSays(kbdInotify', d, kbdNode'[d] # "gone")
    BY <2>6, <2>8
  <2>11. kbdWaits'.dev = d /\ (d \notin kbdTracked' \/ d \in kbdUntold')
    BY <2>1, <2>3, <2>7
  <2> QED  BY <2>4, <2>9, <2>10, <2>11 DEF HotplugKnows
<1>6. kbdInotify' \in Seq(KbdEvent)
  BY <1>1, <1>2, EventRead
<1>7. \A k \in Kbd : HotplugKnows(k)'
  BY <1>4, <1>5
<1> QED  BY <1>3, <1>6, <1>7 DEF KbdInv

LEMMA DeletedKeeps == ASSUME KbdInv, HotplugDeleted PROVE KbdInv'
<1>0. PICK d : d = Head(kbdInotify).dev
  OBVIOUS
<1>1. /\ kbdWaits = NotWaiting /\ kbdInotify # <<>> /\ ~Head(kbdInotify).create
      /\ kbdTracked' = kbdTracked \ {d} /\ kbdGivenUp' = kbdGivenUp \ {d} /\ kbdUntold' = kbdUntold \ {d}
      /\ kbdInotify' = Tail(kbdInotify) /\ kbdDue' = TRUE
      /\ UNCHANGED <<kbdConfig, kbdNode, kbdLit, kbdNews, kbdWatch, kbdWaits, kbdReleased, kbdDp, kbdReading, kbdShown>>
  BY <1>0 DEF HotplugDeleted, Deleted, kbdSystem, kbdView
<1>2. d \in Kbd /\ kbdInotify \in Seq(KbdEvent) /\ Head(kbdInotify).create = FALSE
  <2>1. kbdInotify \in Seq(KbdEvent)
    BY DEF KbdInv
  <2>2. Head(kbdInotify) \in KbdEvent
    BY <1>1, <2>1
  <2>3. d \in Kbd /\ Head(kbdInotify).create \in BOOLEAN
    BY <1>0, <2>2 DEF KbdEvent
  <2> QED  BY <1>1, <2>1, <2>3
<1>3. KbdTypeOK' /\ KbdWaiting' /\ LedsShown' /\ Unwatched'
  BY <1>1, <1>2 DEF KbdInv, KbdTypeOK, KbdWaiting, LedsShown, Unwatched
<1>4. \A k \in Kbd : kbdWaits.dev # k
  BY <1>1, KbdAssumption DEF NotWaiting, KbdAssumption
<1>5. ASSUME NEW k \in Kbd, k # d PROVE HotplugKnows(k)'
  <2>1. Head(kbdInotify).dev # k
    BY <1>0, <1>5
  <2> QED  BY <1>1, <1>2, <1>4, <1>5, <2>1, EventRead DEF KbdInv, HotplugKnows
<1>6. HotplugKnows(d)'
  <2>1. HotplugKnows(d) /\ Head(kbdInotify).dev = d /\ d \notin kbdTracked'
    BY <1>0, <1>1, <1>2 DEF KbdInv
  <2>2. ~Silent(kbdInotify, d)
    BY <1>1, <1>2, <2>1, EventRead
  <2>3. LastSays(kbdInotify, d, kbdNode[d] # "gone") /\ Alternating(kbdInotify, d)
    BY <2>1, <2>2 DEF HotplugKnows
  <2>4. /\ Alternating(kbdInotify', d)
        /\ LastSays(kbdInotify', d, kbdNode[d] # "gone") \/ (Silent(kbdInotify', d) /\ FALSE = (kbdNode[d] # "gone"))
    BY <1>1, <1>2, <2>1, <2>3, EventRead
  <2>5. ASSUME Silent(kbdInotify', d) PROVE kbdNode[d] = "gone"
    <3>1. \A b : ~LastSays(kbdInotify', d, b)
      BY <2>5 DEF Silent, LastSays
    <3> QED  BY <2>4, <3>1
  <2>6. ~Silent(kbdInotify', d) => LastSays(kbdInotify', d, kbdNode[d] # "gone")
    BY <2>4
  <2>7. kbdNode'[d] = kbdNode[d] /\ kbdWaits' = kbdWaits
    BY <1>1
  <2>8. (kbdNode'[d] # "gone") = (kbdNode[d] # "gone")
    BY <2>7
  <2>9. Silent(kbdInotify', d) => kbdNode'[d] = "gone"
    BY <2>5, <2>7
  <2>10. ~Silent(kbdInotify', d) => LastSays(kbdInotify', d, kbdNode'[d] # "gone")
    BY <2>6, <2>8
  <2>11. kbdWaits'.dev # d /\ d \notin kbdTracked'
    BY <1>2, <1>4, <2>1, <2>7
  <2> QED  BY <2>4, <2>9, <2>10, <2>11 DEF HotplugKnows
<1>7. kbdInotify' \in Seq(KbdEvent)
  BY <1>1, <1>2, EventRead
<1>8. \A k \in Kbd : HotplugKnows(k)'
  BY <1>5, <1>6
<1> QED  BY <1>3, <1>7, <1>8 DEF KbdInv

LEMMA TriesAgainKeeps == ASSUME KbdInv, HotplugTriesAgain PROVE KbdInv'
<1>1. /\ kbdWaits.left > 0 /\ kbdWaits' = [kbdWaits EXCEPT !.left = @ - 1]
      /\ UNCHANGED <<kbdConfig, kbdNode, kbdLit, kbdNews, kbdInotify, kbdWatch, kbdTracked, kbdGivenUp, kbdUntold>>
      /\ UNCHANGED <<kbdReleased, kbdDp, kbdReading, kbdShown, kbdDue>>
  BY DEF HotplugTriesAgain, kbdSystem, kbdView
<1>2. kbdWaits \in [dev : Kbd, left : 0..KbdTries]
  BY <1>1 DEF KbdInv, KbdWaiting, NotWaiting
<1>3. kbdWaits' \in [dev : Kbd, left : 0..KbdTries] /\ kbdWaits'.dev = kbdWaits.dev
  BY <1>1, <1>2, KbdAssumption DEF KbdAssumption
<1>4. KbdTypeOK' /\ KbdWaiting' /\ LedsShown' /\ Unwatched'
  <2>1. kbdWatch = "on"
    <3>1. kbdWaits # NotWaiting
      BY <1>1 DEF NotWaiting
    <3> QED  BY <3>1 DEF KbdInv, Unwatched
  <2> QED  BY <1>1, <1>3, <2>1 DEF KbdInv, KbdTypeOK, KbdWaiting, LedsShown, PathsToRead, Unwatched
<1>5. \A k \in Kbd : HotplugKnows(k)'
  BY <1>1, <1>3 DEF KbdInv, HotplugKnows
<1> QED  BY <1>1, <1>4, <1>5 DEF KbdInv

LEMMA AddsKeeps == ASSUME KbdInv, NEW opens \in BOOLEAN, HotplugAdds(opens) PROVE KbdInv'
<1>0. PICK d : d = kbdWaits.dev
  OBVIOUS
<1>1. /\ kbdWaits # NotWaiting /\ kbdWaits' = NotWaiting /\ kbdDue' = TRUE
      /\ \/ /\ kbdNode[d] = "ready" /\ kbdTracked' = kbdTracked \cup {d}
            /\ kbdGivenUp' = kbdGivenUp \ {d} /\ kbdUntold' = kbdUntold \ {d}
         \/ /\ kbdTracked' = kbdTracked /\ kbdUntold' = kbdUntold
            /\ kbdGivenUp' = IF kbdNode[d] = "gone" THEN kbdGivenUp \ {d} ELSE kbdGivenUp \cup {d}
      /\ UNCHANGED <<kbdConfig, kbdNode, kbdLit, kbdNews, kbdWatch, kbdInotify, kbdReleased, kbdDp, kbdReading, kbdShown>>
  BY <1>0 DEF HotplugAdds, TryAddDevice, kbdSystem, kbdView
<1>2. d \in Kbd /\ kbdNode[d] \in {"gone", "denied", "ready"}
  BY <1>0, <1>1 DEF KbdInv, KbdWaiting, KbdTypeOK
<1>3. \A k \in Kbd : kbdWaits'.dev # k
  BY <1>1, KbdAssumption DEF NotWaiting, KbdAssumption
<1>4. KbdTypeOK' /\ KbdWaiting' /\ LedsShown' /\ Unwatched'
  BY <1>1, <1>2, KbdAssumption DEF KbdInv, KbdTypeOK, KbdWaiting, LedsShown, NotWaiting, KbdAssumption, Unwatched
<1>5. ASSUME NEW k \in Kbd, k # d PROVE HotplugKnows(k)'
  BY <1>0, <1>1, <1>3, <1>5 DEF KbdInv, HotplugKnows
<1>6. HotplugKnows(d)'
  <2>1. HotplugKnows(d)
    BY <1>2 DEF KbdInv
  <2> QED  BY <1>0, <1>1, <1>2, <1>3, <2>1 DEF HotplugKnows
<1>7. \A k \in Kbd : HotplugKnows(k)'
  BY <1>5, <1>6
<1> QED  BY <1>1, <1>4, <1>7 DEF KbdInv

\* The rest leaves the devices alone.
LEMMA KbdUpdatesKeep ==
  ASSUME KbdInv, KeyReleased \/ LibinputThread \/ KbdUpdateStarts \/ KbdUpdateShows
  PROVE  KbdInv'
<1>1. UNCHANGED <<kbdConfig, kbdNode, kbdLit, kbdNews, kbdInotify, kbdWatch, kbdWaits, kbdTracked, kbdGivenUp, kbdUntold>>
  BY DEF KeyReleased, LibinputThread, KbdUpdateStarts, KbdUpdateShows, kbdSystem, kbdThreads
<1>2. \A k \in Kbd : HotplugKnows(k)'
  BY <1>1 DEF KbdInv, HotplugKnows
<1>3. PathsToRead' = PathsToRead
  BY <1>1 DEF PathsToRead
<1>4. CASE KeyReleased \/ LibinputThread \/ KbdUpdateStarts
  <2>1. UNCHANGED <<kbdShown, kbdDue>> /\ kbdReleased' \in BOOLEAN /\ kbdDp' \in BOOLEAN
    BY <1>4 DEF KeyReleased, LibinputThread, KbdUpdateStarts, kbdView, KbdInv, KbdTypeOK
  <2> QED  BY <1>1, <1>2, <1>3, <2>1 DEF KbdInv, KbdTypeOK, KbdWaiting, Unwatched, LedsShown
<1>5. CASE KbdUpdateShows
  <2>1. /\ kbdShown' = (\E k \in kbdReading : kbdNode[k] = "ready" /\ k \in kbdLit)
        /\ kbdDue' = (kbdReading # PathsToRead) /\ UNCHANGED <<kbdReleased, kbdDp>>
    BY <1>5 DEF KbdUpdateShows
  <2>2. kbdShown' \in BOOLEAN
    <3>1. CASE \E k \in kbdReading : kbdNode[k] = "ready" /\ k \in kbdLit
      <4>1. kbdShown' = TRUE
        BY <2>1, <3>1
      <4> QED  BY <4>1
    <3>2. CASE ~\E k \in kbdReading : kbdNode[k] = "ready" /\ k \in kbdLit
      <4>1. kbdShown' = FALSE
        BY <2>1, <3>2
      <4> QED  BY <4>1
    <3> QED  BY <3>1, <3>2
  <2>3. kbdDue' \in BOOLEAN
    <3>1. CASE kbdReading # PathsToRead
      <4>1. kbdDue' = TRUE
        BY <2>1, <3>1
      <4> QED  BY <4>1
    <3>2. CASE kbdReading = PathsToRead
      <4>1. kbdDue' = FALSE
        BY <2>1, <3>2
      <4> QED  BY <4>1
    <3> QED  BY <3>1, <3>2
  <2>4. LedsShown'
    BY <1>1, <1>3, <2>1 DEF LedsShown
  <2> QED  BY <1>1, <1>2, <2>1, <2>2, <2>3, <2>4 DEF KbdInv, KbdTypeOK, KbdWaiting, Unwatched
<1> QED  BY <1>4, <1>5

LEMMA KbdStays == KbdInv /\ [KbdNext]_kbdVars => KbdInv'
<1> SUFFICES ASSUME KbdInv, [KbdNext]_kbdVars PROVE KbdInv'
  OBVIOUS
<1>1. CASE UNCHANGED kbdVars
  <2>1. /\ UNCHANGED <<kbdConfig, kbdNode, kbdLit, kbdNews, kbdInotify, kbdWatch, kbdWaits, kbdTracked, kbdGivenUp, kbdUntold>>
        /\ UNCHANGED <<kbdReleased, kbdDp, kbdReading, kbdShown, kbdDue>>
    BY <1>1 DEF kbdVars, kbdSystem, kbdThreads, kbdView
  <2> QED  BY <2>1 DEF KbdInv, KbdTypeOK, KbdWaiting, Unwatched, HotplugKnows, LedsShown, PathsToRead
<1>2. ASSUME KbdNext PROVE KbdInv'
  BY <1>2, PlugKeeps, DevicesKeep, WatchKeeps, CreatedKeeps, DeletedKeeps, TriesAgainKeeps, AddsKeeps, KbdUpdatesKeep DEF KbdNext
<1> QED  BY <1>1, <1>2

LEMMA KbdInvAgrees == KbdInv => KeyboardAgrees
<1> SUFFICES ASSUME KbdInv PROVE KeyboardAgrees
  OBVIOUS
<1>1. ASSUME kbdInotify = <<>>, kbdWaits = NotWaiting
      PROVE  \A k \in Kbd \ kbdUntold : k \in kbdTracked <=> kbdNode[k] # "gone" /\ k \notin kbdGivenUp
  <2>1. \A k \in Kbd : Silent(kbdInotify, k) /\ kbdWaits.dev # k
    BY <1>1, KbdAssumption DEF NotWaiting, KbdAssumption, Silent
  <2> QED  BY <2>1 DEF KbdInv, HotplugKnows
<1> QED  BY <1>1 DEF KbdInv, LedsShown, KeyboardAgrees

\* The keyboards tracked are those there are, as far as the thread could hear of them, and the
\* lock shown is theirs (keyboard_state.cpp:194-415).
THEOREM KeyboardsAreShown == KbdSpec => []KeyboardAgrees
<1>1. KbdInit => KbdInv
  BY KbdInitInv
<1>2. KbdInv /\ [KbdNext]_kbdVars => KbdInv'
  BY KbdStays
<1>3. KbdInv => KeyboardAgrees
  BY KbdInvAgrees
<1> QED  BY <1>1, <1>2, <1>3, PTL DEF KbdSpec

-----------------------------------------------------------------------------
(* The components of MCHardware: a step is one of a component, or leaves it    *)
(* alone.                                                                     *)

LEMMA StepsOfHardware ==
  ASSUME Next
  PROVE  /\ [UpNext]_upVars /\ [BatNext]_batVars /\ [PpNext]_ppVars /\ [KbdNext]_kbdVars
         /\ [PrivNext]_privVars /\ [GameNext]_gameVars /\ [UnitNext]_unitVars
<1>1. CASE InUpowerStep
  <2>1. UNCHANGED <<batVars, ppVars, kbdVars, privVars, gameVars, unitVars>>
    BY <1>1 DEF InUpowerStep, InUpower
  <2>2. UpNext
    BY <1>1 DEF InUpowerStep, InUpower, UpNext
  <2> QED  BY <2>1, <2>2
<1>2. CASE InBatteryStep
  <2>1. UNCHANGED <<upVars, ppVars, kbdVars, privVars, gameVars, unitVars>>
    BY <1>2 DEF InBatteryStep, InBattery
  <2>2. BatNext
    BY <1>2 DEF InBatteryStep, InBattery, BatNext
  <2> QED  BY <2>1, <2>2
<1>3. CASE InBacklightStep
  <2>1. UNCHANGED <<upVars, batVars, ppVars, kbdVars, privVars, gameVars, unitVars>>
    BY <1>3 DEF InBacklightStep, InBacklight
  <2> QED  BY <2>1
<1>4. CASE InKeyboardStep
  <2>1. UNCHANGED <<upVars, batVars, ppVars, privVars, gameVars, unitVars>>
    BY <1>4 DEF InKeyboardStep, InKeyboard
  <2>2. KbdNext
    BY <1>4 DEF InKeyboardStep, InKeyboard, KbdNext
  <2> QED  BY <2>1, <2>2
<1>5. CASE InInhibitorStep
  <2>1. UNCHANGED <<upVars, batVars, ppVars, kbdVars, privVars, gameVars, unitVars>>
    BY <1>5 DEF InInhibitorStep, InInhibitor
  <2> QED  BY <2>1
<1>6. CASE InProfilesStep
  <2>1. UNCHANGED <<upVars, batVars, kbdVars, privVars, gameVars, unitVars>>
    BY <1>6 DEF InProfilesStep, InProfiles
  <2>2. PpNext
    BY <1>6 DEF InProfilesStep, InProfiles, PpNext
  <2> QED  BY <2>1, <2>2
<1>7. CASE InGamemodeStep
  <2>1. UNCHANGED <<upVars, batVars, ppVars, kbdVars, privVars, unitVars>>
    BY <1>7 DEF InGamemodeStep, InGamemode
  <2>2. GameNext
    BY <1>7 DEF InGamemodeStep, InGamemode, GameNext
  <2> QED  BY <2>1, <2>2
<1>8. CASE InUnitsStep
  <2>1. UNCHANGED <<upVars, batVars, ppVars, kbdVars, privVars, gameVars>>
    BY <1>8 DEF InUnitsStep, InUnits
  <2>2. UnitNext
    BY <1>8 DEF InUnitsStep, InUnits, UnitNext
  <2> QED  BY <2>1, <2>2
<1>9. CASE InPrivacyStep
  <2>1. UNCHANGED <<upVars, batVars, ppVars, kbdVars, gameVars, unitVars>>
    BY <1>9 DEF InPrivacyStep, InPrivacy
  <2>2. PrivNext
    BY <1>9 DEF InPrivacyStep, InPrivacy, PrivNext
  <2> QED  BY <2>1, <2>2
<1> QED  BY <1>1, <1>2, <1>3, <1>4, <1>5, <1>6, <1>7, <1>8, <1>9 DEF Next

LEMMA SpecsOfHardware ==
  Spec => UpSpec /\ BatSpec /\ PpSpec /\ KbdSpec /\ PrivSpec /\ GameSpec /\ UnitSpec
<1>1. Init => UpInit /\ BatInit /\ PpInit /\ KbdInit /\ PrivInit /\ GameInit /\ UnitInit
  BY DEF Init
<1>2. [Next]_<<part, upVars, batVars, blVars, kbdVars, inhVars, ppVars, gameVars, unitVars, privVars>> =>
        /\ [UpNext]_upVars /\ [BatNext]_batVars /\ [PpNext]_ppVars /\ [KbdNext]_kbdVars
        /\ [PrivNext]_privVars /\ [GameNext]_gameVars /\ [UnitNext]_unitVars
  <2>1. ASSUME UNCHANGED <<part, upVars, batVars, blVars, kbdVars, inhVars, ppVars, gameVars, unitVars, privVars>>
        PROVE  UNCHANGED <<upVars, batVars, ppVars, kbdVars, privVars, gameVars, unitVars>>
    BY <2>1
  <2> QED  BY <2>1, StepsOfHardware
<1> QED  BY <1>1, <1>2, PTL DEF Spec, UpSpec, BatSpec, PpSpec, KbdSpec, PrivSpec, GameSpec, UnitSpec

\* Whatever order UPower's signals, the batteries' files and udev's events, and the daemon's
\* answers come in, the display device, the batteries and the profile are shown as they are
\* once nothing is left to be read (upower.cpp, battery.cpp, power_profiles_daemon.cpp).
THEOREM PowerAlwaysAgrees == Spec => []PowerAgrees
<1>1. UpowerAgrees /\ BatteryAgrees /\ ProfilesAgree => PowerAgrees
  BY DEF PowerAgrees
<1> QED  BY <1>1, SpecsOfHardware, DisplayIsShown, BatteryIsShown, ProfileIsShown, PTL

-----------------------------------------------------------------------------
\* For any number of nodes, kinds, units and games, and any number of changes at any time:
\* once nothing is due, the privacy items show what is in use, the game module the number of
\* games, and the module of failed units those that failed (privacy.cpp, gamemode.cpp,
\* systemd_failed_units.cpp).
THEOREM UseAlwaysAgrees == Spec => []UseAgrees
<1>1. PrivSpec => []PrivacyAgrees
  BY PrivStarts, PrivKeeps, PrivInvImplies, PTL DEF PrivSpec
<1>2. GameSpec => []GamesAgree
  BY GameStarts, GameKeeps, GameInvImplies, PTL DEF GameSpec
<1>3. UnitSpec => []FailedUnitsAgree
  BY UnitsStart, UnitsKeep, UnitInvImplies, PTL DEF UnitSpec
<1>4. PrivacyAgrees /\ GamesAgree /\ FailedUnitsAgree => UseAgrees
  BY DEF UseAgrees
<1> QED  BY <1>1, <1>2, <1>3, <1>4, SpecsOfHardware, PTL
=============================================================================
