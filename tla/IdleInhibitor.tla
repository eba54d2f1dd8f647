--------------------------- MODULE IdleInhibitor ---------------------------
(***************************************************************************)
(* src/modules/idle_inhibitor.cpp: one module on every bar, all of which   *)
(* share `status` and `deactivationTime`, while each holds an inhibitor, a *)
(* timer and a notification of its own.  A timer outlives its module.      *)
(* Time is in half minutes; all callbacks run on the main thread.          *)
(***************************************************************************)
EXTENDS Naturals, FiniteSets, SequencesExt

CONSTANTS InhBars,      \* the sequence of bars
          InhTimeouts, InhStep,     \* "timeout", "timeout-step"
          MaxInhNews    \* bound on what the user does and on bars that come and go

VARIABLES inhConfig,    \* [timeout, dynamic, wait, start]
          inh,          \* [status, deadline: until deactivationTime, timers: of the modules, also of those gone,
                        \*  mods: the module of each bar, limited: history, the inhibition was to end by itself]
          inhNews,
          inhUntold,    \* history: bars whose module was not updated since another changed `status`
          inhOrphaned   \* history: the module that waited for activity went away with its bar

inhVars == <<inhConfig, inh, inhNews, inhUntold, inhOrphaned>>

Bars == ToSet(InhBars)
NoOwner == "none"
NoModule == [here |-> FALSE, held |-> FALSE, notif |-> FALSE, timeout |-> 0, dp |-> FALSE, label |-> FALSE]
NewModule == [NoModule EXCEPT !.here = TRUE, !.timeout = inhConfig.timeout, !.dp = TRUE]
Here(s) == {b \in Bars : s.mods[b].here}

-----------------------------------------------------------------------------
\* update(), of each of the modules bs: the inhibitor is made or destroyed.
Updated(s, bs) ==
  [s EXCEPT !.mods = [b \in Bars |->
     IF b \in bs THEN [s.mods[b] EXCEPT !.held = s.status, !.label = s.status] ELSE s.mods[b]]]

\* toggleStatus(): only the timer and the notification of the module itself are ended.
Toggled(s, b, on) ==
  LET m == s.mods[b]
      cut == {t \in s.timers : t.owner # b}
      timed == on /\ m.timeout > 0
      then == [s EXCEPT !.status = on, !.limited = timed, !.timers = cut]
  IN CASE timed /\ ~inhConfig.wait ->
            [then EXCEPT !.timers = cut \cup {[owner |-> b, due |-> 2]}, !.deadline = m.timeout]
       [] timed /\ inhConfig.wait -> [then EXCEPT !.mods[b].notif = TRUE]
       [] OTHER -> [then EXCEPT !.mods[b].notif = FALSE]

InhDoes(s) ==
  /\ inh' = s
  /\ inhOrphaned' = (inhOrphaned /\ ~(s.status /\ ~inh.status))
  /\ UNCHANGED inhConfig

InhNewsComes == inhNews < MaxInhNews /\ inhNews' = inhNews + 1

-----------------------------------------------------------------------------
ToldNobody(s, b) == s       \* mutant: the other bars keep what they have

\* "Make all other idle inhibitor modules update"
Told(s, b) == Updated(s, Here(s) \ {b})

\* handleToggle(): the module's own update is queued.
Click(b, button) ==
  LET flipped == Toggled(inh, b, inhConfig.dynamic \/ ~inh.status)
      ended == Toggled(inh, b, FALSE)
      after == CASE button = 1 -> Told(flipped, b)
                 [] button = 3 /\ inhConfig.dynamic -> Told(ended, b)
                 [] button = 2 /\ inhConfig.dynamic -> [ended EXCEPT !.mods[b].timeout = inhConfig.timeout]
                 [] OTHER -> inh
  IN /\ inh.mods[b].here /\ InhNewsComes
     /\ InhDoes([after EXCEPT !.mods[b].dp = TRUE])
     /\ inhUntold' = CASE button = 2 /\ inhConfig.dynamic /\ inh.status -> Here(inh)
                       [] button = 1 \/ (button = 3 /\ inhConfig.dynamic) -> {}
                       [] OTHER -> inhUntold

\* handleScroll(), with dynamic timeouts
InhScroll(b, up) ==
  LET off == Toggled(inh, b, FALSE)
      t == IF up THEN off.mods[b].timeout + InhStep
           ELSE IF off.mods[b].timeout < InhStep THEN 0 ELSE off.mods[b].timeout - InhStep
  IN /\ inhConfig.dynamic /\ inh.mods[b].here /\ InhNewsComes
     /\ InhDoes([off EXCEPT !.mods[b].timeout = t, !.mods[b].dp = TRUE, !.deadline = t])
     /\ inhUntold' = IF inh.status THEN Here(inh) ELSE inhUntold

\* Bar::handleSignal() of every bar, and refresh() of each module: each toggles.
RefreshAll(s) ==
  FoldLeft(LAMBDA r, b : IF r.mods[b].here THEN Updated(Toggled(r, b, ~r.status), Here(r)) ELSE r, s, InhBars)

Refresh ==
  /\ Here(inh) # {} /\ InhNewsComes
  /\ InhDoes(RefreshAll(inh)) /\ inhUntold' = {}

\* The queued update of a module itself
InhUpdate(b) ==
  /\ inh.mods[b].dp
  /\ InhDoes([Updated(inh, {b}) EXCEPT !.mods[b].dp = FALSE])
  /\ inhUntold' = inhUntold \ {b} /\ UNCHANGED inhNews

-----------------------------------------------------------------------------
\* The timer's callback: timeleft is in whole minutes.
TickEnds == inh.deadline < 2

Tick(t) ==
  LET s == [inh EXCEPT !.status = inh.status /\ ~TickEnds,
                       !.timers = (@ \ {t}) \cup IF TickEnds THEN {} ELSE {[t EXCEPT !.due = 2]}]
  IN /\ t \in inh.timers /\ t.due = 0
     /\ InhDoes(Updated(s, Here(s))) /\ inhUntold' = {} /\ UNCHANGED inhNews

\* Timers are served before time goes on; below nothing the rest of the time is all the same.
HalfMinute ==
  /\ inh.timers # {} /\ \A t \in inh.timers : t.due > 0
  /\ \A b \in Bars : ~inh.mods[b].dp
  /\ InhDoes([inh EXCEPT !.deadline = IF @ = 0 THEN 0 ELSE @ - 1,
                         !.timers = {[t EXCEPT !.due = @ - 1] : t \in @}])
  /\ UNCHANGED <<inhNews, inhUntold>>

\* The compositor saw no input for the time asked for.
HandleIdled(b) ==
  LET s == [inh EXCEPT !.status = FALSE, !.mods[b].notif = FALSE] IN
  /\ inh.mods[b].notif
  /\ InhDoes(Updated(s, Here(s))) /\ inhUntold' = {} /\ UNCHANGED inhNews

-----------------------------------------------------------------------------
\* A bar comes with its output ..
BarMakesModule(b) ==
  LET new == [inh EXCEPT !.mods[b] = NewModule]
      started == IF Here(inh) = {} /\ inhConfig.start /\ ~inh.status THEN Toggled(new, b, TRUE) ELSE new
  IN /\ ~inh.mods[b].here /\ InhNewsComes
     /\ InhDoes([started EXCEPT !.deadline = inhConfig.timeout])
     /\ UNCHANGED inhUntold

\* .. and goes; the timer, if any, runs on.
BarEndsModule(b) ==
  /\ inh.mods[b].here /\ InhNewsComes
  /\ inh' = [inh EXCEPT !.mods[b] = NoModule,
               !.timers = {IF t.owner = b THEN [t EXCEPT !.owner = NoOwner] ELSE t : t \in @}]
  /\ inhOrphaned' = (inhOrphaned \/ inh.mods[b].notif)
  /\ inhUntold' = inhUntold \ {b} /\ UNCHANGED inhConfig

InhInit ==
  /\ inhConfig \in [timeout : InhTimeouts, dynamic : BOOLEAN, wait : BOOLEAN, start : BOOLEAN]
  /\ inhConfig.wait => inhConfig.timeout > 0
  /\ inh = [status |-> FALSE, deadline |-> 0, timers |-> {}, mods |-> [b \in Bars |-> NoModule], limited |-> FALSE]
  /\ inhNews = 0 /\ inhUntold = {} /\ inhOrphaned = FALSE

InhNext ==
  \/ \E b \in Bars, button \in 1..3 : Click(b, button)
  \/ \E b \in Bars, up \in BOOLEAN : InhScroll(b, up)
  \/ Refresh
  \/ \E b \in Bars : InhUpdate(b)
  \/ \E t \in inh.timers : Tick(t)
  \/ HalfMinute
  \/ \E b \in Bars : HandleIdled(b)
  \/ \E b \in Bars : BarMakesModule(b)
  \/ \E b \in Bars : BarEndsModule(b)

InhSpec == InhInit /\ [][InhNext]_inhVars

-----------------------------------------------------------------------------
InhTypeOK ==
  /\ inh.status \in BOOLEAN /\ inh.limited \in BOOLEAN /\ inhNews \in 0..MaxInhNews
  /\ \A b \in Bars : DOMAIN inh.mods[b] = DOMAIN NoModule
  /\ \A t \in inh.timers : t.owner \in Bars \cup {NoOwner} /\ t.due \in 0..2
  /\ inhUntold \subseteq Bars /\ inhOrphaned \in BOOLEAN

\* Once its update is done, a module holds an inhibitor and says so exactly if the inhibition
\* is on, whichever bar it was switched on, unless it was ended by a scroll or a middle click
\* on another bar.  And an inhibition that is to end by itself always has what ends it: a
\* timer that runs, also after its bar went, or a notification, unless that one went with
\* its bar (idle_inhibitor.cpp:128-217).
InhibitorAgrees ==
  /\ \A b \in Here(inh) \ inhUntold : ~inh.mods[b].dp =>
       inh.mods[b].held = inh.status /\ inh.mods[b].label = inh.status
  /\ inh.status /\ inh.limited /\ ~inhOrphaned =>
       IF inhConfig.wait THEN \E b \in Bars : inh.mods[b].notif
       ELSE inh.timers # {}

\* The signal "used to toggle the idle inhibitor externally" toggles it
\* (man/waybar-idle-inhibitor.5.scd:95-99).
SignalToggles == [][Refresh => inh'.status # inh.status]_inhVars
=============================================================================
