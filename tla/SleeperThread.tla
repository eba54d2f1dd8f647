---------------------------- MODULE SleeperThread ---------------------------
(***************************************************************************)
(* include/util/sleeper_thread.hpp: the polling thread of most modules.     *)
(*                                                                         *)
(* The worker runs  while (do_run_) { signal_ = false; func(); }  and func  *)
(* ends in one of the sleep calls, which wait on condvar_ under mutex_.     *)
(* Wakers set signal_ under mutex_ and notify after releasing it.  The      *)
(* owner replaces the function, pauses, resumes and destroys the object;    *)
(* to stop the worker it clears do_run_, notifies, calls pthread_cancel and *)
(* joins.  Sleeping threads cannot be cancelled (CancellationGuard).        *)
(*                                                                         *)
(* A condition variable wakes the waiter only when it is notified or, in a  *)
(* timed wait, when the time is up: a spurious wake-up could only hide a    *)
(* missing notification.                                                    *)
(***************************************************************************)
EXTENDS Naturals

CONSTANT Waker  \* threads that call wake_up(): main loop, sleep signal, other workers

VARIABLES do_run, signal, is_paused,  \* the flags
          worker,     \* where the worker is: see WorkerPC
          notified,   \* the waiting worker has been notified
          cancelled,  \* pthread_cancel() was called on the worker
          waker,      \* where each waker is in wake_up()
          owner,      \* where the owner is: see OwnerPC
          asked,      \* history: wake_up() was called after the last run of func began
          quietRuns   \* history: runs begun since pause() without wake_up() or resume()

flags == <<do_run, signal, is_paused>>
sleeperVars == <<flags, worker, notified, cancelled, waker, owner, asked, quietRuns>>

\* "head": about to test do_run_; "clear": about to clear signal_; "func": in func
\* and not asleep; "pauseWait" and "timedWait": the two waits of sleep_for and
\* sleep_until; "wait": the wait of sleep; "done": returned, not joined.
WorkerPC == {"none", "head", "clear", "func", "pauseWait", "timedWait", "wait", "done"}
Asleep == {"pauseWait", "timedWait", "wait"}

\* "restart" and "destroy" prefix the steps of operator= and of the destructor.
OwnerPC == {"free", "gone"} \cup
  {"restartNotify", "restartCancel", "restartJoin",
   "destroyNotify", "destroyCancel", "destroyJoin"}

Destroying == owner \in {"destroyNotify", "destroyCancel", "destroyJoin", "gone"}
Woken == signal \/ ~do_run

-----------------------------------------------------------------------------
SleeperInit ==
  /\ do_run = TRUE /\ signal = FALSE /\ is_paused = FALSE
  /\ worker = "none"
  /\ notified = FALSE
  /\ cancelled = FALSE
  /\ waker = [w \in Waker |-> "idle"]
  /\ owner = "free"
  /\ asked = FALSE
  /\ quietRuns = 0

Notify == notified' = (notified \/ worker \in Asleep)

-----------------------------------------------------------------------------
\* The worker's loop.
TestDoRun ==
  /\ worker = "head"
  /\ worker' = IF do_run THEN "clear" ELSE "done"
  /\ UNCHANGED <<flags, notified, cancelled, waker, owner, asked, quietRuns>>

ClearSignal ==
  /\ worker = "clear"
  /\ worker' = "func"
  /\ signal' = FALSE
  /\ asked' = FALSE
  /\ quietRuns' = IF is_paused /\ ~asked THEN quietRuns + 1 ELSE quietRuns
  /\ UNCHANGED <<do_run, is_paused, notified, cancelled, waker, owner>>

\* Where the second wait of sleep_for leads when its predicate is evaluated.
TimedWait == IF Woken THEN "head" ELSE "timedWait"

SleepForUncleared == \* mutant: signal_ cleared by the sleep, not before func
  /\ worker = "func"
  /\ worker' = IF is_paused THEN "pauseWait" ELSE IF do_run THEN "timedWait" ELSE "head"
  /\ signal' = FALSE
  /\ UNCHANGED <<do_run, is_paused, notified, cancelled, waker, owner, asked, quietRuns>>

SleepForUnpaused == \* mutant: sleep_for() without its first wait
  /\ worker = "func"
  /\ worker' = TimedWait
  /\ UNCHANGED <<flags, notified, cancelled, waker, owner, asked, quietRuns>>

\* sleep_for() and sleep_until(): from the lock to the first wait that blocks.
SleepFor ==
  /\ worker = "func"
  /\ worker' = IF ~is_paused \/ Woken THEN TimedWait ELSE "pauseWait"
  /\ UNCHANGED <<flags, notified, cancelled, waker, owner, asked, quietRuns>>

\* sleep(), which does not look at is_paused_.
Sleep ==
  /\ worker = "func"
  /\ worker' = IF Woken THEN "head" ELSE "wait"
  /\ UNCHANGED <<flags, notified, cancelled, waker, owner, asked, quietRuns>>

\* The notified waiter holds the mutex again and evaluates its predicate.
Recheck ==
  /\ worker \in Asleep
  /\ notified
  /\ notified' = FALSE
  /\ worker' = CASE worker = "pauseWait" -> IF ~is_paused \/ Woken THEN TimedWait
                                            ELSE "pauseWait"
                 [] worker = "timedWait" -> TimedWait
                 [] worker = "wait"      -> IF Woken THEN "head" ELSE "wait"
  /\ UNCHANGED <<flags, cancelled, waker, owner, asked, quietRuns>>

TimeUp ==
  /\ worker = "timedWait"
  /\ worker' = "head"
  /\ notified' = FALSE
  /\ UNCHANGED <<flags, cancelled, waker, owner, asked, quietRuns>>

\* func calls stop() on its own thread (network.cpp:309, battery.cpp:84).
SelfStop ==
  /\ worker = "func"
  /\ signal' = TRUE /\ do_run' = FALSE
  /\ cancelled' = TRUE
  /\ UNCHANGED <<is_paused, worker, notified, waker, owner, asked, quietRuns>>

\* A cancellation point in func unwinds the thread.
Cancelled ==
  /\ cancelled
  /\ worker = "func"
  /\ worker' = "done"
  /\ UNCHANGED <<flags, notified, cancelled, waker, owner, asked, quietRuns>>

-----------------------------------------------------------------------------
\* wake_up(): the locked part, then condvar_.notify_all().
WakeUp(w) ==
  /\ waker[w] = "idle"
  /\ ~Destroying
  /\ signal' = TRUE
  /\ asked' = (worker # "none")
  /\ waker' = [waker EXCEPT ![w] = "notify"]
  /\ UNCHANGED <<do_run, is_paused, worker, notified, cancelled, owner, quietRuns>>

NotifyWorker(w) ==
  /\ waker[w] = "notify"
  /\ Notify
  /\ waker' = [waker EXCEPT ![w] = "idle"]
  /\ UNCHANGED <<flags, worker, cancelled, owner, asked, quietRuns>>

\* pause() and resume(), called by the owner's suspend() and resume().
Pause ==
  /\ owner = "free"
  /\ is_paused' = TRUE
  /\ quietRuns' = IF is_paused THEN quietRuns ELSE 0
  /\ UNCHANGED <<do_run, signal, worker, notified, cancelled, waker, owner, asked>>

Resume ==
  /\ owner = "free"
  /\ is_paused' = FALSE
  /\ quietRuns' = 0
  /\ Notify
  /\ UNCHANGED <<do_run, signal, worker, cancelled, waker, owner, asked>>

-----------------------------------------------------------------------------
\* operator=() on an object without a thread.
Start ==
  /\ owner = "free"
  /\ worker = "none"
  /\ do_run' = TRUE /\ signal' = FALSE
  /\ worker' = "head"
  /\ UNCHANGED <<is_paused, notified, cancelled, waker, owner, asked, quietRuns>>

\* stop(), as operator=() and the destructor call it: the locked part ...
Stop(next) ==
  /\ owner = "free"
  /\ signal' = TRUE /\ do_run' = FALSE
  /\ owner' = next
  /\ UNCHANGED <<is_paused, worker, notified, cancelled, waker, asked, quietRuns>>

Restart == worker # "none" /\ Stop("restartNotify")

\* The destructor disconnects the sleep signal; the other callers of wake_up()
\* belong to the owner, which must have stopped them: no waker is inside.
Destroy == (\A w \in Waker : waker[w] = "idle") /\ Stop("destroyNotify")

\* ... notify_all() ...
StopNotifyNobody == \* mutant: stop() without notify_all()
  /\ owner \in {"restartNotify", "destroyNotify"}
  /\ owner' = IF owner = "restartNotify" THEN "restartCancel" ELSE "destroyCancel"
  /\ UNCHANGED <<flags, worker, notified, cancelled, waker, asked, quietRuns>>

StopNotify ==
  /\ owner \in {"restartNotify", "destroyNotify"}
  /\ Notify
  /\ owner' = IF owner = "restartNotify" THEN "restartCancel" ELSE "destroyCancel"
  /\ UNCHANGED <<flags, worker, cancelled, waker, asked, quietRuns>>

\* ... pthread_cancel(), which does nothing to a thread that is gone.
StopCancel ==
  /\ owner \in {"restartCancel", "destroyCancel"}
  /\ cancelled' = (worker # "none")
  /\ owner' = IF owner = "restartCancel" THEN "restartJoin" ELSE "destroyJoin"
  /\ UNCHANGED <<flags, worker, notified, waker, asked, quietRuns>>

\* thread_.join(), then the rest of operator=(): a new thread with fresh flags.
JoinRestart ==
  /\ owner = "restartJoin"
  /\ worker = "done"
  /\ worker' = "head"
  /\ do_run' = TRUE /\ signal' = FALSE
  /\ notified' = FALSE /\ cancelled' = FALSE
  /\ owner' = "free"
  /\ quietRuns' = 0
  /\ UNCHANGED <<is_paused, waker, asked>>

JoinDestroyDetached == \* mutant: the destructor does not join
  /\ owner = "destroyJoin"
  /\ owner' = "gone"
  /\ UNCHANGED <<flags, worker, notified, cancelled, waker, asked, quietRuns>>

JoinDestroy ==
  /\ owner = "destroyJoin"
  /\ worker \in {"none", "done"}
  /\ owner' = "gone"
  /\ UNCHANGED <<flags, worker, notified, cancelled, waker, asked, quietRuns>>

-----------------------------------------------------------------------------
OwnerStep ==
  \/ Pause
  \/ Resume
  \/ Start
  \/ Restart
  \/ Destroy
  \/ StopNotify
  \/ StopCancel
  \/ JoinRestart
  \/ JoinDestroy

WakerStep == \E w \in Waker : WakeUp(w) \/ NotifyWorker(w)

\* The steps of the worker that are not calls made by func.
LoopStep == TestDoRun \/ ClearSignal \/ Recheck \/ Cancelled

\* A func that ends in either sleep call, or gives up.
Func == SleepFor \/ Sleep \/ SelfStop

SleeperNext == OwnerStep \/ WakerStep \/ LoopStep \/ TimeUp \/ Func
SleeperSpec == SleeperInit /\ [][SleeperNext]_sleeperVars

\* Threads are scheduled and cancellation points are reached; func need not end,
\* nor the time of a wait be up ("interval": "once" waits for ever).
SleeperFairness ==
  /\ WF_sleeperVars(TestDoRun \/ ClearSignal \/ Recheck)
  /\ WF_sleeperVars(Cancelled)
  /\ WF_sleeperVars(StopNotify \/ StopCancel \/ JoinRestart \/ JoinDestroy)
  /\ \A w \in Waker : WF_sleeperVars(NotifyWorker(w))

FairSleeperSpec == SleeperSpec /\ SleeperFairness

-----------------------------------------------------------------------------
SleeperTypeOK ==
  /\ do_run \in BOOLEAN /\ signal \in BOOLEAN /\ is_paused \in BOOLEAN
  /\ worker \in WorkerPC
  /\ notified \in BOOLEAN /\ cancelled \in BOOLEAN
  /\ waker \in [Waker -> {"idle", "notify"}]
  /\ owner \in OwnerPC
  /\ asked \in BOOLEAN
  /\ quietRuns \in Nat
  /\ owner = "gone" => worker \in {"none", "done"}

\* Nothing is slept through.  A worker asleep that has been asked, resumed or told
\* to stop since the last run of func began has been notified or is about to be
\* (sleeper_thread.hpp:115-146: the flags are set under mutex_, wake_up() and
\* stop() notify after it; the worker clears signal_ without mutex_, 49-51).
Notifying == (\E w \in Waker : waker[w] = "notify") \/ owner \in {"restartNotify", "destroyNotify"}
Due == asked \/ Woken \/ (worker = "pauseWait" /\ ~is_paused)
NoMissedWakeup == worker \in Asleep /\ Due => notified \/ Notifying

\* A paused module rests: pause() lets the run of func in progress, or the one
\* its wait was about to lead to, go on, and no other without a request
\* (sleep_for, sleeper_thread.hpp:83-86).
PausedRests == quietRuns <= 1

\* A destructor or an operator= that stops the worker returns, whatever the worker
\* was doing (stop and join, sleeper_thread.hpp:123-135 and 148-154): also in a
\* func that never ends, in a wait without end, and when paused.
StopReturns == owner \notin {"free", "gone"} ~> owner \in {"free", "gone"}
=============================================================================
