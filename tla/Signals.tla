------------------------------- MODULE Signals ------------------------------
(***************************************************************************)
(* src/main.cpp: POSIX signals on their way to the main thread, and the     *)
(* do { ... } while (reload) loop they control.                             *)
(*                                                                         *)
(*   kernel --writeSignalToPipe--> pipe --catchSignals--> SafeSignal<int>   *)
(*          --handleSignalMainThread--> bars, reload, Client::reset, reap   *)
(*                                                                         *)
(* The SafeSignal is module SafeSignal, with the signal thread as its only  *)
(* emitter.  Children are started by util::command::forkExec, listed in     *)
(* `reap' and in the module's pid_children_, and collected on SIGCHLD or by *)
(* the worker thread of an interval `custom' module, whichever comes first. *)
(***************************************************************************)
EXTENDS SafeSignal

CONSTANTS Catcher,   \* the signal thread
          Monitor,   \* the outputs that come and go
          BarConfig, \* the bars of the configuration file
          BarsOn,    \* BarsOn[m]: the configurations of monitor m, in order
          OnUser,    \* OnUser[c][s]: action of configuration c on s \in {"USR1", "USR2"}
          StartHidden, \* the configurations with start_hidden
          Launching, \* the configurations with a module that starts processes
          PipeSize,  \* signals the pipe holds (about 16000 in the program)
          MaxChildren  \* bound: processes forkExec() starts; a pid is not reused

\* A real-time signal, which makes modules refresh, is to this module a user signal whose
\* action is NOOP.
Signum == {"INT", "USR1", "USR2", "CHLD"}
KillSignalAction == {"HIDE", "SHOW", "TOGGLE", "RELOAD", "NOOP"}

ASSUME SignalThreadAssumption == Thread = {Catcher} /\ NoEvent \notin Signum
ASSUME BarAssumption ==
  /\ BarsOn \in [Monitor -> Seq(BarConfig)]
  /\ OnUser \in [BarConfig -> [{"USR1", "USR2"} -> KillSignalAction]]
ASSUME SignalPipeAssumption == PipeSize \in Nat \ {0}
ASSUME ChildAssumption == MaxChildren \in Nat

Child   == 1..MaxChildren
NoChild == 0

\* A bar is known by its monitor and its place among the bars of that monitor.
Bar == UNION {{m} \X (1..Len(BarsOn[m])) : m \in Monitor}
ConfigOf(b) == BarsOn[b[1]][b[2]]
Launcher == {b \in Bar : ConfigOf(b) \in Launching}

VARIABLES pipe,          \* what writeSignalToPipe() wrote and nobody read
          chldPending,   \* the kernel owes the process one SIGCHLD
          lost,          \* history: a signal was dropped by the pipe or the queue
          app,           \* "setup", "run" (gtk_app->run()), "exited"
          quit,          \* gtk_app->quit() was called in this run
          reload,        \* the flag of main()
          bars,          \* the bars in Client::bars
          visible,       \* visibility of each bar
          fresh,         \* history: bars made since a user signal was last handled
          met,           \* history: bars with no user signal handled between their makings
          child,         \* state of each process
          forking,       \* the process forkExec() has forked and not yet listed
          reap,          \* the list of main.cpp
          pid_children   \* pid_children_: a bar whose module started a process, and the process

barVars   == <<bars, visible, fresh, met>>
appVars   == <<app, quit, reload, barVars>>
childVars == <<child, forking, reap, pid_children>>
vars == <<signalVars, pipe, chldPending, lost, appVars, childVars>>

Idle == main = "loop" /\ forking = NoChild

-----------------------------------------------------------------------------
Init ==
  /\ SignalInit
  /\ pipe = <<>>
  /\ chldPending = FALSE
  /\ lost = FALSE
  /\ app = "setup"
  /\ quit = FALSE
  /\ reload = FALSE
  /\ bars = {} /\ fresh = {} /\ met = {}
  /\ visible = [b \in Bar |-> TRUE]
  /\ child = [c \in Child |-> "none"]
  /\ forking = NoChild
  /\ reap = {}
  /\ pid_children = {}

-----------------------------------------------------------------------------
\* writeSignalToPipe(): the write end is non-blocking, a full pipe drops.
WriteSignalToPipe(signum) ==
  IF Len(pipe) < PipeSize THEN pipe' = Append(pipe, signum) /\ lost' = lost
                          ELSE pipe' = pipe /\ lost' = TRUE

\* Somebody sends the process a signal.
Raise(signum) ==
  /\ signum \in Signum \ {"CHLD"}
  /\ app # "exited"
  /\ WriteSignalToPipe(signum)
  /\ UNCHANGED <<signalVars, chldPending, appVars, childVars>>

\* The kernel merges the SIGCHLDs of children that exit before one is delivered.
RaiseChld ==
  /\ chldPending
  /\ chldPending' = FALSE
  /\ WriteSignalToPipe("CHLD")
  /\ UNCHANGED <<signalVars, appVars, childVars>>

\* catchSignals(): read one signal and emit() it; the rest of emit() is Announce.
CatchSignal ==
  /\ pipe # <<>>
  /\ Push(Catcher, Head(pipe))
  /\ pipe' = Tail(pipe)
  /\ lost' = (lost \/ Len(queue') = Len(queue))
  /\ UNCHANGED <<chldPending, appVars, childVars>>

AnnounceSignal ==
  /\ Announce(Catcher)
  /\ UNCHANGED <<pipe, chldPending, lost, appVars, childVars>>

-----------------------------------------------------------------------------
\* The main loop: gtk_app->run() iterates until quit() was called.
Dispatch ==
  /\ app = "run"
  /\ ~quit
  /\ forking = NoChild
  /\ Wakeup
  /\ UNCHANGED <<pipe, chldPending, lost, appVars, childVars>>

NextSignal ==
  /\ Take \/ Drained
  /\ UNCHANGED <<pipe, chldPending, lost, appVars, childVars>>

Applied(action, shown) ==
  CASE action = "HIDE"   -> FALSE
    [] action = "SHOW"   -> TRUE
    [] action = "TOGGLE" -> ~shown
    [] OTHER             -> shown

\* The bars a user signal reaches: all, or those in front of the first that reloads.  The
\* order of Client::bars is left open.
Reached(signum) ==
  LET reloads == {b \in bars : OnUser[ConfigOf(b)][signum] = "RELOAD"}
  IN IF reloads = {} THEN {bars} ELSE SUBSET (bars \ reloads)

HandleUserSignalFirst == \* mutant: returns after the first bar
  /\ args \in {"USR1", "USR2"}
  /\ SlotReturns
  /\ fresh' = {}
  /\ \E reached \in Reached(args), first \in Bar :
       /\ visible' = [b \in Bar |-> IF b \in reached /\ b = first
                                    THEN Applied(OnUser[ConfigOf(b)][args], visible[b])
                                    ELSE visible[b]]
       /\ IF reached = bars THEN UNCHANGED <<reload, quit>> ELSE reload' = TRUE /\ quit' = TRUE
  /\ UNCHANGED <<pipe, chldPending, lost, app, bars, met, childVars>>

\* handleUserSignal().
HandleUserSignal ==
  /\ args \in {"USR1", "USR2"}
  /\ SlotReturns
  /\ fresh' = {}
  /\ \E reached \in Reached(args) :
       /\ visible' = [b \in Bar |-> IF b \in reached
                                    THEN Applied(OnUser[ConfigOf(b)][args], visible[b])
                                    ELSE visible[b]]
       /\ IF reached = bars THEN UNCHANGED <<reload, quit>> ELSE reload' = TRUE /\ quit' = TRUE
  /\ UNCHANGED <<pipe, chldPending, lost, app, bars, met, childVars>>

HandleSigintNoReset == \* mutant: clears the flag and forgets Client::reset()
  /\ args = "INT"
  /\ SlotReturns
  /\ reload' = FALSE
  /\ UNCHANGED <<pipe, chldPending, lost, app, quit, barVars, childVars>>

HandleSigint ==
  /\ args = "INT"
  /\ SlotReturns
  /\ reload' = FALSE
  /\ quit' = TRUE
  /\ UNCHANGED <<pipe, chldPending, lost, app, barVars, childVars>>

HandleSigchldOnce == \* mutant: one waitpid() per SIGCHLD
  /\ args = "CHLD"
  /\ SlotReturns
  /\ LET dead == {c \in reap : child[c] = "zombie"}
     IN  \/ dead = {} /\ UNCHANGED <<child, reap>>
         \/ \E c \in dead : /\ child' = [child EXCEPT ![c] = "reaped"]
                            /\ reap' = reap \ {c}
  /\ UNCHANGED <<pipe, chldPending, lost, appVars, forking, pid_children>>

\* SIGCHLD: waitpid(WNOHANG) every listed pid.  A pid that somebody else waited
\* for makes waitpid() fail and stays in the list.
HandleSigchld ==
  /\ args = "CHLD"
  /\ SlotReturns
  /\ LET dead == {c \in reap : child[c] = "zombie"}
     IN  /\ child' = [c \in Child |-> IF c \in dead THEN "reaped" ELSE child[c]]
         /\ reap' = reap \ dead
  /\ UNCHANGED <<pipe, chldPending, lost, appVars, forking, pid_children>>

HandleSignal == HandleUserSignal \/ HandleSigint \/ HandleSigchld

-----------------------------------------------------------------------------
\* Client::main() up to gtk_app->run().
StartRun ==
  /\ app = "setup"
  /\ app' = "run"
  /\ UNCHANGED <<signalVars, pipe, chldPending, lost, quit, reload, barVars, childVars>>

\* createBarsBatch() for a monitor, at the start or when it is plugged in: the bars go to
\* the end of Client::bars.  One whose constructor throws leaves out the rest of them.
CreateBars(m, n) ==
  LET new == {m} \X (1..n)
  IN /\ app = "run"
     /\ Idle
     /\ \A b \in bars : b[1] # m
     /\ bars' = bars \cup new
     /\ visible' = [b \in Bar |-> IF b \in new THEN ConfigOf(b) \notin StartHidden ELSE visible[b]]
     /\ fresh' = fresh \cup new
     /\ met' = met \cup (fresh' \X fresh')
     /\ UNCHANGED <<signalVars, pipe, chldPending, lost, app, quit, reload, childVars>>

\* handleDeferredMonitorRemoval().  A module that goes terminates its children.
RemoveBars(m) ==
  LET left == {b \in bars : b[1] # m}
  IN /\ app = "run"
     /\ Idle
     /\ bars # left
     /\ bars' = left
     /\ visible' = [b \in Bar |-> b \in left => visible[b]]
     /\ fresh' = fresh \cap left
     /\ met' = met \cap (left \X left)
     /\ pid_children' = pid_children \cap (left \X Child)
     /\ UNCHANGED <<signalVars, pipe, chldPending, lost, app, quit, reload, child, forking, reap>>

\* gtk_app->run() returns; bars.clear() terminates the children of the modules
\* (they exit in their own time); main() starts over if reload is set.
EndRun ==
  /\ app = "run"
  /\ quit
  /\ Idle
  /\ quit' = FALSE
  /\ bars' = {} /\ fresh' = {} /\ met' = {}
  /\ visible' = [b \in Bar |-> TRUE]
  /\ pid_children' = {}
  /\ app' = IF reload THEN "setup" ELSE "exited"
  /\ reload' = FALSE
  /\ UNCHANGED <<signalVars, pipe, chldPending, lost, child, forking, reap>>

-----------------------------------------------------------------------------
\* forkExec() in the handler of a click, in two steps: fork(), then reap.push_back.
Fork(c) ==
  /\ app = "run"
  /\ bars \cap Launcher # {}
  /\ Idle
  /\ child[c] = "none" /\ \A d \in 1..c-1 : child[d] # "none"
  /\ child' = [child EXCEPT ![c] = "running"]
  /\ forking' = c
  /\ UNCHANGED <<signalVars, pipe, chldPending, lost, appVars, reap, pid_children>>

ListChild(b) ==
  /\ forking # NoChild
  /\ b \in bars \cap Launcher
  /\ reap' = reap \cup {forking}
  /\ pid_children' = pid_children \cup {<<b, forking>>}
  /\ forking' = NoChild
  /\ UNCHANGED <<signalVars, pipe, chldPending, lost, appVars, child>>

Exit(c) ==
  /\ child[c] = "running"
  /\ child' = [child EXCEPT ![c] = "zombie"]
  /\ chldPending' = TRUE
  /\ UNCHANGED <<signalVars, pipe, lost, appVars, forking, reap, pid_children>>

\* Custom::delayWorker() on its own thread: waitpid(WNOHANG) one pid of the
\* module; exited now or waited for by somebody else, it leaves pid_children_.
WorkerWaits(b, c) ==
  /\ <<b, c>> \in pid_children
  /\ child[c] \in {"zombie", "reaped"}
  /\ child' = [child EXCEPT ![c] = "reaped"]
  /\ pid_children' = pid_children \ {<<b, c>>}
  /\ UNCHANGED <<signalVars, pipe, chldPending, lost, appVars, forking, reap>>

-----------------------------------------------------------------------------
\* Bound: a behaviour ends with the first lost signal, about which the code
\* promises nothing, or when the program has exited.
Stop == (lost \/ app = "exited") /\ UNCHANGED vars

Next ==
  \/ ~lost /\ \E s \in Signum : Raise(s)
  \/ ~lost /\ RaiseChld
  \/ ~lost /\ CatchSignal
  \/ ~lost /\ AnnounceSignal
  \/ ~lost /\ Dispatch
  \/ ~lost /\ NextSignal
  \/ ~lost /\ HandleUserSignal
  \/ ~lost /\ HandleSigint
  \/ ~lost /\ HandleSigchld
  \/ ~lost /\ StartRun
  \/ ~lost /\ \E m \in Monitor : \E n \in 1..Len(BarsOn[m]) : CreateBars(m, n)
  \/ ~lost /\ \E m \in Monitor : RemoveBars(m)
  \/ ~lost /\ EndRun
  \/ ~lost /\ \E b \in Bar : ListChild(b)
  \/ ~lost /\ \E c \in Child : Fork(c)
  \/ ~lost /\ \E c \in Child : Exit(c)
  \/ ~lost /\ \E b \in Bar, c \in Child : WorkerWaits(b, c)
  \/ Stop

Spec == Init /\ [][Next]_vars

(***************************************************************************)
(* The kernel delivers signals, the signal thread and the main thread run.  *)
(* Nothing is assumed of the senders, the children and the worker thread.   *)
(***************************************************************************)
Fairness ==
  /\ WF_vars(~lost /\ RaiseChld)
  /\ WF_vars(~lost /\ CatchSignal)
  /\ WF_vars(~lost /\ AnnounceSignal)
  /\ WF_vars(~lost /\ Dispatch)
  /\ WF_vars(~lost /\ NextSignal)
  /\ WF_vars(~lost /\ HandleSignal)
  /\ WF_vars(~lost /\ StartRun)
  /\ WF_vars(~lost /\ EndRun)
  /\ WF_vars(~lost /\ \E b \in Bar : ListChild(b))

FairSpec == Spec /\ Fairness

-----------------------------------------------------------------------------
SignalsTypeOK ==
  /\ queue \in Seq(Signum)
  /\ max_queued_events = InitialLimit
  /\ wakeups \in 0..PipeCapacity
  /\ emitter \in [Thread -> EmitterPC]
  /\ main \in MainPC
  /\ args \in Signum \cup {NoEvent}
  /\ main = "slot" => args \in Signum
  /\ pipe \in Seq(Signum) /\ Len(pipe) <= PipeSize
  /\ chldPending \in BOOLEAN /\ lost \in BOOLEAN
  /\ app \in {"setup", "run", "exited"}
  /\ quit \in BOOLEAN /\ reload \in BOOLEAN
  /\ bars \subseteq Bar
  /\ visible \in [Bar -> BOOLEAN]
  /\ fresh \subseteq bars /\ met \subseteq bars \X bars
  /\ child \in [Child -> {"none", "running", "zombie", "reaped"}]
  /\ forking \in Child \cup {NoChild}
  /\ reap \subseteq Child
  /\ pid_children \subseteq bars \X Child

\* A SIGCHLD that handleSignalMainThread() has yet to see.
ChldOnItsWay ==
  \/ chldPending
  \/ \E i \in DOMAIN pipe : pipe[i] = "CHLD"
  \/ \E i \in DOMAIN queue : queue[i] = "CHLD"
  \/ main = "slot" /\ args = "CHLD"

\* No child stays a zombie: unless a signal was dropped, one that nobody waited for is
\* covered by a SIGCHLD still to be handled, and is listed by the time that it is, although
\* SIGCHLDs merge, forkExec() lists the pid only after the fork and the list is scanned
\* while further children exit (main.cpp:155-170, command.hpp:160-180).
ZombiesReaped ==
  /\ (\E c \in Child : child[c] = "zombie") => lost \/ ChldOnItsWay
  /\ \A c \in Child : child[c] \in {"running", "zombie"} => c = forking \/ c \in reap

\* Configurations whose bars start alike and answer the user signals alike.
SameBehaviour(c, d) == OnUser[c] = OnUser[d] /\ (c \in StartHidden <=> d \in StartHidden)

\* Bars of one configuration stay alike, on whatever monitors and from whatever batches, as
\* long as no user signal was handled between their makings: only a signal that ends the run
\* reaches some of them and not others (main.cpp:102-128, client.cpp:129-146).
BarsAgree ==
  ~quit => \A p \in met : SameBehaviour(ConfigOf(p[1]), ConfigOf(p[2])) => visible[p[1]] = visible[p[2]]

\* A SIGINT that got into the pipe, in whichever run and phase, ends the program
\* unless a later reload request overrides it.
SigintAnswered ==
  (\E i \in DOMAIN pipe : pipe[i] = "INT") ~> (app = "exited" \/ lost \/ reload)

\* The main thread always gets back to its loop, at whatever pace signals arrive.
HandlerReturns == []<>(main = "loop" \/ lost)

\* "SIGINT: Quits the bar" (man/waybar.5.scd.in): once the handler of a SIGINT
\* runs, the program exits.
SigintQuits == (main = "slot" /\ args = "INT") ~> (app = "exited" \/ lost)
=============================================================================
