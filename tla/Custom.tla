------------------------------- MODULE Custom -------------------------------
(***************************************************************************)
(* src/modules/custom.cpp: a module that shows what a script prints.        *)
(*                                                                         *)
(* Its configuration makes it one of three things: a worker that runs the   *)
(* script at intervals ("delay") or on request ("wait"), on a               *)
(* SleeperThread; or a reader of a script that runs all the time            *)
(* ("continuous"), on a LineStream.  The script's result goes to output_,   *)
(* which the worker assigns without a lock while the main thread may be in  *)
(* update(), and dp tells the main loop to call update().                   *)
(*                                                                         *)
(* output_ is abstracted to what update() makes of it: a text, or Hidden    *)
(* for an empty text or a nonzero exit code.                                *)
(***************************************************************************)
EXTENDS SleeperThread, LineStream

CONSTANTS Text,         \* the texts a script may print
          Malformed,    \* those that cannot be parsed (as JSON) or formatted
          BadTooltip,   \* those whose tooltip cannot be formatted
          Hidden,       \* the module is not shown
          Main,         \* the main thread, the only waker and the owner
          MaxRequests,  \* bound on the clicks and signals
          MaxIntervals, \* bound on the intervals that end
          MaxFailures   \* bound on the failed starts of the continuous script

ASSUME MainAssumption == Main \in Waker
ASSUME TextAssumption == Malformed \cup BadTooltip \subseteq Text
ASSUME CustomBoundsAssumption == {MaxRequests, MaxIntervals, MaxFailures} \subseteq Nat

VARIABLES conf,      \* the configuration
          created,   \* the constructor has run
          stage,     \* where func is
          result,    \* what the last command returned, about to be assigned
          output,    \* output_
          dp,        \* an announcement of dp is pending
          shown,     \* what the module shows
          timer,     \* restart_connection_ is connected
          requests,  \* clicks and signals so far
          intervals, \* intervals that have ended
          failures,  \* failed starts so far
          fresh      \* history: which of output and the last update() come from
                     \* a run of func that began after the last request

displayVars == <<output, dp, shown>>
customVars == <<conf, created, stage, result, output, dp, shown, timer, requests, intervals, failures, fresh>>
vars == <<sleeperVars, streamVars, customVars>>

\* The configurations with something to run; restart is a positive restart-interval.
Configurations ==
  {[kind |-> k, execIf |-> i, exec |-> e, restart |-> FALSE] :
     k \in {"delay", "wait"}, i \in BOOLEAN, e \in BOOLEAN} \cup
  {[kind |-> "continuous", execIf |-> FALSE, exec |-> TRUE, restart |-> r] : r \in BOOLEAN}

Polling == conf.kind # "continuous"
MainFree == created /\ owner = "free" /\ ~stopping /\ waker[Main] = "idle"

Init ==
  /\ SleeperInit /\ StreamInit
  /\ conf \in {c \in Configurations : c.execIf \/ c.exec}
  /\ created = FALSE
  /\ stage = "start" /\ result = Hidden
  /\ output = Hidden /\ dp = FALSE /\ shown = Hidden
  /\ timer = FALSE
  /\ requests = 0 /\ intervals = 0 /\ failures = 0
  /\ fresh = {}

\* The constructor, and the first dp.emit() of Bar::getModules().  A continuous
\* script that cannot be started makes the constructor throw: no module.
Construct ==
  /\ ~created
  /\ created' = TRUE
  /\ dp' = TRUE
  /\ IF Polling THEN Start /\ UNCHANGED streamVars
                ELSE StreamStart /\ UNCHANGED sleeperVars
  /\ UNCHANGED <<conf, stage, result, output, shown, timer, requests, intervals, failures, fresh>>

-----------------------------------------------------------------------------
\* func of delayWorker() and waitingWorker().  "start", "allowed": about to run
\* exec-if, exec.  "assignIf", "assign": assigning the result to output_.
\* "announce": about to call dp.emit().  "sleep": about to sleep.
InFunc(s) ==
  /\ worker = "func" /\ stage = s
  /\ UNCHANGED <<sleeperVars, streamVars, conf, created, shown, timer, requests, intervals, failures>>

\* execNoRead(): no output; its exit code decides.
RunExecIf(next) ==
  /\ InFunc("start")
  /\ conf.execIf
  /\ result' = Hidden
  /\ stage' = next
  /\ UNCHANGED <<output, dp, fresh>>

NoExecIf ==
  /\ InFunc("start")
  /\ ~conf.execIf
  /\ stage' = "allowed"
  /\ UNCHANGED <<result, output, dp, fresh>>

RunExec ==
  /\ InFunc("allowed")
  /\ IF conf.exec THEN stage' = "assign" /\ result' \in Text \cup {Hidden}
                  ELSE stage' = "announce" /\ UNCHANGED result
  /\ UNCHANGED <<output, dp, fresh>>

\* The end of the assignment to output_.
Assign(s, next) ==
  /\ InFunc(s)
  /\ output' = result /\ result' = Hidden
  /\ stage' = next
  /\ fresh' = fresh \ {"output"}
  /\ UNCHANGED dp

AnnounceShown == \* mutant: dp.emit() only for an output that is not hidden
  /\ InFunc("announce")
  /\ dp' = (dp \/ output # Hidden)
  /\ stage' = "sleep"
  /\ fresh' = IF asked THEN fresh ELSE fresh \cup {"output"}
  /\ UNCHANGED <<result, output>>

\* dp.emit(): output_ is this run's result.
Announce ==
  /\ InFunc("announce")
  /\ dp' = TRUE
  /\ stage' = "sleep"
  /\ fresh' = IF asked THEN fresh ELSE fresh \cup {"output"}
  /\ UNCHANGED <<result, output>>

Rest ==
  /\ stage = "sleep"
  /\ IF conf.kind = "delay" THEN SleepFor ELSE Sleep
  /\ stage' = "start"
  /\ UNCHANGED <<streamVars, conf, created, result, displayVars, timer, requests, intervals, failures, fresh>>

Loop ==
  /\ LoopStep
  /\ UNCHANGED <<streamVars, customVars>>

Assigning == worker = "func" /\ stage \in {"assignIf", "assignFailed", "assign"}

WorkerStep ==
  \/ Loop
  \/ \E next \in {"assignIf", "assignFailed"} : RunExecIf(next)
  \/ NoExecIf
  \/ RunExec
  \/ Assign("assignIf", "allowed")
  \/ Assign("assignFailed", "announce")
  \/ Assign("assign", "announce")
  \/ Announce
  \/ Rest

-----------------------------------------------------------------------------
\* What update() leaves of what was shown.  Where it throws, Bar logs that and goes on: before
\* the label is set, or between the label and event_box_.show().
Displayed(text) ==
  IF text \in Malformed \/ (text \in BadTooltip /\ shown = Hidden) THEN shown ELSE text

\* The main loop calls update() for an announcement.  In the middle of the
\* worker's assignment it reads anything.
Update ==
  /\ MainFree /\ dp
  /\ dp' = FALSE
  /\ \E text \in IF Assigning THEN Text \cup {Hidden} ELSE {output} : shown' = Displayed(text)
  /\ fresh' = IF "output" \in fresh THEN fresh \cup {"updated"} ELSE fresh \ {"updated"}
  /\ UNCHANGED <<sleeperVars, streamVars, conf, created, stage, result, output, timer,
                 requests, intervals, failures>>

\* refresh() for the configured signal, or handleEvent() after a scroll or a
\* click, which AModule::handleUserEvent() has followed by dp.emit().
Request(click) ==
  /\ MainFree
  /\ requests < MaxRequests
  /\ requests' = requests + 1
  /\ WakeUp(Main)
  /\ dp' = (dp \/ click)
  /\ fresh' = {}
  /\ UNCHANGED <<streamVars, conf, created, stage, result, output, shown, timer, intervals, failures>>

RequestNotifies ==
  /\ NotifyWorker(Main)
  /\ UNCHANGED <<streamVars, customVars>>

-----------------------------------------------------------------------------
\* The continuous script.  on_output_ runs for every line; the last one stays.
OutputLines ==
  IF delivered' > delivered
  THEN output' \in Text \cup {Hidden} /\ dp' = TRUE
  ELSE UNCHANGED <<output, dp>>

ReadOutput ==
  /\ MainFree
  /\ \E hup \in BOOLEAN : HandleStdout(hup)
  /\ OutputLines
  /\ UNCHANGED <<sleeperVars, conf, created, stage, result, shown, timer, requests, intervals, failures, fresh>>

ScheduleOnFailure == timer' = (conf.restart /\ status # 0) \* mutant: no restart after exit 0

\* scheduleContinuousRestart()
ScheduleRestart == timer' = conf.restart

\* handleContinuousProcessExit(), after the last lines.
ScriptExits ==
  /\ MainFree
  /\ HandleExit
  /\ IF status # 0 THEN output' = Hidden /\ dp' = TRUE ELSE OutputLines
  /\ ScheduleRestart
  /\ UNCHANGED <<sleeperVars, conf, created, stage, result, shown, requests, intervals, failures, fresh>>

\* The restart timer: startContinuousProcess(false), which may fail.
RestartScript ==
  /\ MainFree /\ timer
  /\ timer' = FALSE
  /\ StreamStart
  /\ UNCHANGED <<sleeperVars, conf, created, stage, result, displayVars, requests, intervals, failures, fresh>>

RestartFails ==
  /\ MainFree /\ timer
  /\ failures < MaxFailures
  /\ failures' = failures + 1
  /\ output' = Hidden /\ dp' = TRUE
  /\ ScheduleRestart
  /\ UNCHANGED <<sleeperVars, streamVars, conf, created, stage, result, shown, requests, intervals, fresh>>

Child ==
  /\ ChildStep
  /\ UNCHANGED <<sleeperVars, customVars>>

-----------------------------------------------------------------------------
\* ~Custom: the body stops the timer and the stream, then thread_, the last
\* member and so the first destroyed, stops its worker.
DestroyCustom ==
  /\ MainFree
  /\ timer' = FALSE
  /\ IF Polling THEN UNCHANGED streamVars ELSE StreamStop
  /\ Destroy
  /\ UNCHANGED <<conf, created, stage, result, displayVars, requests, intervals, failures, fresh>>

StreamWaits ==
  /\ StreamStopped
  /\ UNCHANGED <<sleeperVars, customVars>>

WorkerWaits ==
  /\ ~stopping
  /\ StopNotify \/ StopCancel \/ JoinDestroy
  /\ UNCHANGED <<streamVars, customVars>>

-----------------------------------------------------------------------------
MainStep ==
  \/ Construct
  \/ Update
  \/ \E click \in BOOLEAN : Request(click)
  \/ RequestNotifies
  \/ ReadOutput
  \/ ScriptExits
  \/ RestartScript
  \/ RestartFails
  \/ DestroyCustom
  \/ StreamWaits
  \/ WorkerWaits

\* The interval is over.
IntervalOver ==
  /\ intervals < MaxIntervals
  /\ intervals' = intervals + 1
  /\ TimeUp
  /\ UNCHANGED <<streamVars, conf, created, stage, result, displayVars, timer, requests,
                 failures, fresh>>

Next == WorkerStep \/ IntervalOver \/ MainStep \/ Child
Spec == Init /\ [][Next]_vars

\* The worker runs and its commands end; the main loop dispatches what is ready,
\* timers included.  The continuous script need not end, nor the interval.
Fairness ==
  /\ WF_vars(WorkerStep)
  /\ WF_vars(Update)
  /\ WF_vars(RequestNotifies)
  /\ WF_vars(ReadOutput)
  /\ WF_vars(ScriptExits)
  /\ WF_vars(RestartScript \/ RestartFails)
  /\ WF_vars(Construct)

FairSpec == Spec /\ Fairness

-----------------------------------------------------------------------------
CustomTypeOK ==
  /\ SleeperTypeOK /\ StreamTypeOK
  /\ conf \in Configurations
  /\ stage \in {"start", "assignIf", "assignFailed", "allowed", "assign", "announce", "sleep"}
  /\ {output, shown, result} \subseteq Text \cup {Hidden}
  /\ {created, dp, timer} \subseteq BOOLEAN
  /\ requests \in 0..MaxRequests /\ intervals \in 0..MaxIntervals /\ failures \in 0..MaxFailures
  /\ fresh \subseteq {"output", "updated"}
  /\ timer => ~pid  \* never a script running and another about to be started

\* Between runs the module shows what the last one found, or update() has thrown over just
\* that: when the worker sleeps, or no script runs, and no announcement is pending, what is
\* shown is what output_ says, unless that cannot be parsed or formatted, or its tooltip
\* cannot and the module was hidden.  Every assignment is announced after it, a torn reading
\* of it included, and one output that makes update() throw spoils no later one
\* (custom.cpp:70-82, 104-125, 197-285, bar.cpp:619-625).
AtRest == created /\ ~dp /\ (IF Polling THEN worker \in Asleep ELSE TRUE)
ShowsOutput == shown = output \/ output \in Malformed \/ (output \in BadTooltip /\ shown = Hidden)
ShownAtRest == AtRest => ShowsOutput

\* A click or a signal is answered: a module with a worker updates from the result of a
\* run that began after it, whatever run was going on (custom.cpp:168-180).
RequestShown ==
  (Polling /\ created /\ "updated" \notin fresh) ~> ("updated" \in fresh \/ owner # "free")

\* A script that is to be restarted is running again after every exit and every
\* failed start (custom.cpp:128-146).
ScriptRestarts == (conf.restart /\ created /\ shell # "running") ~> (shell = "running" \/ owner # "free")
=============================================================================
