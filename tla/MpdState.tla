------------------------------ MODULE MpdState ------------------------------
(***************************************************************************)
(* src/modules/mpd: the statechart behind the MPD module, its connection,   *)
(* and what the label ends up showing.                                      *)
(*                                                                         *)
(* Everything runs on the main thread; a handler is one step.  A handler    *)
(* makes several blocking calls to MPD, each of which may fail, and some    *)
(* failures are C++ exceptions: so handlers are written as operators from   *)
(* a module to the set of modules they may leave, composed with Then and    *)
(* Catch.  An exception nobody catches ends the process.                    *)
(***************************************************************************)
EXTENDS Naturals

CONSTANTS Buttons,  \* the mouse buttons used: 1 (play or pause) and 3 (stop)
          MaxEmits  \* bound on the counted updates under way in the dispatcher

ASSUME MaxEmitsAssumption == MaxEmits \in Nat \ {0}

VARIABLES mpd,      \* the module and its connection, see MpdType
          shown,    \* what the label says
          calm,     \* from now on MPD stays as it is, and nobody clicks
          dropped   \* history: a click's command discarded news of MPD

vars == <<mpd, shown, calm, dropped>>

Null == "null"
Plays == {"play", "pause", "stop"}

MpdType ==
  [state      : {"Disconnected", "Idle", "Playing", "Paused", "Stopped"},  \* Context::state_
   timer      : BOOLEAN,                   \* timer_connection_
   watch      : BOOLEAN,                   \* idle_connection_
   connection : {Null, "ok", "lost", "refused"},  \* connection_, and the error it holds
   idling     : BOOLEAN,                   \* an "idle" was sent, its answer not read
   news       : 0..2,                      \* how many times MPD has to answer "idle"
   server     : Plays \cup {"down"},       \* MPD itself
   known      : Plays \cup {"unknown"},    \* MPD::state_
   status     : BOOLEAN,                   \* status_ is not null
   emits      : 0..MaxEmits,               \* dp.emit()s not dispatched yet
   fate       : {"alive", "threw", "null"}]  \* an exception on its way (or escaped);
                                             \* a null pointer was used
Alive == mpd.fate = "alive"

-----------------------------------------------------------------------------
\* Composition: g for each outcome of S that did not throw; the handler's catch.
Then(S, g(_)) == UNION {IF m.fate = "alive" THEN g(m) ELSE {m} : m \in S}

Emit(m) == [m EXCEPT !.emits = IF @ < MaxEmits THEN @ + 1 ELSE @]

\* The exit() of every state, then entry() of Disconnected.
Disconnect(m) ==
  Emit([m EXCEPT !.state = "Disconnected", !.timer = TRUE, !.watch = FALSE, !.fate = "alive"])
Catch(S) == {IF m.fate = "threw" THEN Disconnect(m) ELSE m : m \in S}

\* checkErrors(): it throws unless there is no error.  A closed connection or a
\* timeout forgets the state, a system error does not; MPD's refusal keeps the
\* connection, without the error.
CheckErrors(m) ==
  CASE m.connection = "ok" -> {m}
    [] m.connection = "lost" ->
         {[m EXCEPT !.connection = Null, !.idling = FALSE, !.known = k, !.fate = "threw"] :
            k \in {"unknown", m.known}}
    [] m.connection = "refused" -> {[m EXCEPT !.connection = "ok", !.fate = "threw"]}
    [] m.connection = Null -> {[m EXCEPT !.fate = "threw"]}

Fails(m, errors) == IF calm THEN {} ELSE {[m EXCEPT !.connection = e] : e \in errors}

\* A command and its answer.  It cannot even be sent while an answer or an error
\* is left on the connection.
Command(m) ==
  IF m.connection # "ok" THEN {m}
  ELSE IF m.idling THEN {[m EXCEPT !.connection = "refused"]}
  ELSE {m} \cup Fails(m, {"lost", "refused"})

\* fetchState(): the status, then the current song.
FetchState(m) ==
  IF m.connection = Null THEN {m}
  ELSE UNION {IF c.connection # "ok" THEN CheckErrors([c EXCEPT !.status = FALSE])
              ELSE UNION {CheckErrors(s) :
                            s \in Command([c EXCEPT !.status = TRUE, !.known = c.server])} :
                c \in Command(m)}

\* tryConnect(): nothing is thrown.
TryConnect(m) ==
  IF m.connection # Null THEN {m}
  ELSE (IF m.server # "down"
        THEN {[m EXCEPT !.connection = "ok", !.idling = FALSE, !.news = 0]} ELSE {})
       \cup (IF m.server = "down" \/ ~calm THEN {m} ELSE {})

SendIdle(m) ==
  IF m.connection = "ok" /\ ~m.idling
  THEN {[m EXCEPT !.idling = TRUE]} \cup UNION {CheckErrors(l) : l \in Fails(m, {"lost"})}
  ELSE UNION {CheckErrors(c) : c \in Command(m)}

\* mpd_recv_idle() or mpd_run_noidle(), with the check of errors.
ReadIdle(m) ==
  IF m.connection = "ok"
  THEN {[m EXCEPT !.idling = FALSE, !.news = IF @ > 0 THEN @ - 1 ELSE 0]}
         \cup UNION {CheckErrors(l) : l \in Fails(m, {"lost"})}
  ELSE CheckErrors(m)

\* Idle::entry() and Playing::idle(), which may leave for Disconnected at once.
Idling(m) ==
  IF m.connection = Null THEN {[m EXCEPT !.fate = "null"]}
  ELSE Catch(Then(SendIdle(m), LAMBDA s : {[s EXCEPT !.watch = TRUE]}))

\* Context::setState(): exit() drops the sources, entry() makes those of s.
SetState(m, s) ==
  LET entered == [m EXCEPT !.state = s, !.timer = (s # "Idle"), !.watch = FALSE]
  IN  CASE s = "Disconnected" -> {Disconnect(m)}
        [] s \in {"Idle", "Playing"} -> Idling(entered)
        [] s \in {"Paused", "Stopped"} -> {entered}

\* The state for what MPD said; Idle when it said neither.
Follow(m) == CASE m.known = "play" -> "Playing"
               [] m.known = "pause" -> "Paused"
               [] m.known = "stop" -> "Stopped"
               [] OTHER -> "Idle"

-----------------------------------------------------------------------------
Init ==
  /\ \E s \in Plays \cup {"down"}, k \in Plays \cup {"unknown"} :
       mpd = [state |-> "Disconnected", timer |-> TRUE, watch |-> FALSE, connection |-> Null,
              idling |-> FALSE, news |-> 0, server |-> s, known |-> k,
              status |-> FALSE, emits |-> 1, fate |-> "alive"]
  /\ shown = "nothing"
  /\ calm = FALSE /\ dropped = FALSE

Step(outcomes) == mpd' \in outcomes /\ UNCHANGED <<shown, calm, dropped>>

\* Disconnected::on_timer(); the timer stays, or another takes its place.
DisconnectedOnTimer ==
  /\ Alive /\ mpd.state = "Disconnected" /\ mpd.timer
  /\ Step(LET answers(c) == IF c.connection = Null THEN {c}
                            ELSE Then(FetchState(c), LAMBDA f :
                                        SetState(Emit(f), IF Follow(f) = "Idle" THEN "Stopped"
                                                          ELSE Follow(f)))
          IN  {[m EXCEPT !.fate = IF @ = "threw" THEN "alive" ELSE @] :
                 m \in UNION {answers(c) : c \in TryConnect(mpd)}})

\* Paused::on_timer() and Stopped::on_timer(): MPD is asked again 200 ms later;
\* if it says the same the module goes Idle.  The dispatcher's pipe was written before the timer
\* was armed, and GLib serves it first also when both are late.
RestOnTimer ==
  /\ Alive /\ mpd.state \in {"Paused", "Stopped"} /\ mpd.timer
  /\ mpd.emits = 0
  /\ Step(LET settle(f) == IF Follow(f) = mpd.state THEN SetState(Emit(f), "Idle")
                           ELSE IF Follow(f) = "Idle" THEN {Emit(f)}
                           ELSE SetState(Emit(f), Follow(f))
              answers(c) == IF c.connection = Null THEN SetState(c, "Disconnected")
                            ELSE Then(FetchState(c), settle)
          IN  Catch(UNION {answers(c) : c \in TryConnect(mpd)}))

Readable == mpd.watch /\ (mpd.connection = "lost" \/ (mpd.idling /\ mpd.news > 0))

IdleOnIoStays == \* mutant: Idle watches on without going through the state MPD is in
  /\ Alive /\ mpd.state = "Idle" /\ Readable
  /\ Step(LET follow(f) == SetState(Emit(f), "Idle")
          IN  Then(Catch(ReadIdle(mpd)), LAMBDA r :
                IF r.state = "Disconnected" THEN {r} ELSE Then(FetchState(r), follow)))

\* Idle::on_io(): fetchState() is not inside the try block.
IdleOnIo ==
  /\ Alive /\ mpd.state = "Idle" /\ Readable
  /\ Step(LET follow(f) == SetState(Emit(f), Follow(f))
          IN  Then(Catch(ReadIdle(mpd)), LAMBDA r :
                IF r.state = "Disconnected" THEN {r} ELSE Then(FetchState(r), follow)))

\* Playing has its song's time to show: a timer, and the watch.
Rest(f) == SetState(Emit(f), IF Follow(f) = "Paused" THEN "Paused" ELSE "Stopped")

\* RUN_NOIDLE_AND_CMD, up to the command.
Noidle(m) == IF m.watch THEN ReadIdle([m EXCEPT !.watch = FALSE]) ELSE {m}

PlayingOnTimerStillIdling == \* mutant: no noidle before the status
  /\ Alive /\ mpd.state = "Playing" /\ mpd.timer
  /\ Step(LET answers(c) == IF c.connection = Null THEN SetState(c, "Disconnected")
                            ELSE Then(FetchState(c), LAMBDA f :
                                   IF f.known # "play" THEN Rest(f) ELSE Idling(Emit(f)))
          IN  Catch(UNION {answers(c) : c \in TryConnect(mpd)}))

PlayingOnTimer ==
  /\ Alive /\ mpd.state = "Playing" /\ mpd.timer
  /\ Step(LET fetched(n) == Then(FetchState(n), LAMBDA f :
                              IF f.known # "play" THEN Rest(f) ELSE Idling(Emit(f)))
              answers(c) == IF c.connection = Null THEN SetState(c, "Disconnected")
                            ELSE Then(Noidle(c), fetched)
          IN  Catch(UNION {answers(c) : c \in TryConnect(mpd)}))

PlayingOnIo ==
  /\ Alive /\ mpd.state = "Playing" /\ Readable
  /\ Step(LET follow(f) == IF f.known # "play" THEN Rest(f)
                           ELSE Then(SendIdle(Emit(f)), LAMBDA s : {[s EXCEPT !.timer = TRUE]})
          IN  Catch(Then(ReadIdle(mpd), LAMBDA r : Then(FetchState(r), follow))))

-----------------------------------------------------------------------------
\* The commands each state takes, and where they lead.
Takes == [Disconnected |-> {}, Idle |-> Plays, Playing |-> {"pause", "stop"},
          Paused |-> {"play", "stop"}, Stopped |-> {"play", "pause"}]
Target == [play |-> "Playing", pause |-> "Paused", stop |-> "Stopped"]

\* MPD tells each client of a change: at once if it idles, else when it next does.
News(m) == [m EXCEPT !.news = IF m.connection # "ok" THEN 0
                              ELSE IF m.idling /\ @ > 0 THEN 2 ELSE 1]

\* mpd_run_play() and so on; nobody looks at the answer.
Do(m, c) ==
  UNION {IF d.connection # "ok" THEN {d}
         ELSE {d, IF d.server = c THEN d ELSE News([d EXCEPT !.server = c])} : d \in Command(m)}

\* play(), pause() and stop() of the states.  A failed noidle throws.
Obey(m, c) ==
  LET done == IF m.watch THEN Then(Noidle(m), LAMBDA n : Do(n, c))
              ELSE IF m.timer THEN Do(m, c) ELSE {m}
  IN  Then(done, LAMBDA d : SetState(d, Target[c]))

\* handlePlayPause(), from a GTK signal handler.
HandlePlayPause(button) ==
  LET c == IF button = 3 THEN "stop" ELSE IF mpd.known = "play" THEN "pause" ELSE "play"
  IN  /\ Alive /\ ~calm
      /\ mpd.connection # Null
      /\ c \in Takes[mpd.state]
      /\ mpd' \in Obey(mpd, c)
      /\ dropped' = (dropped \/ (mpd.watch /\ mpd.news > 0))
      /\ UNCHANGED <<shown, calm>>

\* A click on the module also asks for an update (AModule::handleUserEvent()).
Clicked ==
  /\ Alive /\ ~calm /\ Buttons # {}
  /\ Step({Emit(mpd)})

UpdateUnasked == \* mutant: update() without an emit()
  /\ Alive
  /\ mpd' = [mpd EXCEPT !.emits = @ - 1]
  /\ shown' = IF mpd.connection = Null THEN "hidden" ELSE mpd.known
  /\ UNCHANGED <<calm, dropped>>

\* MPD::update() and setLabel(), by the dispatcher.  Idle::update() is blank.
\* Without a connection the label is hidden, whatever format-disconnected says
\* (unless that is empty); with one, status_ is used as it is.
Update ==
  /\ Alive /\ mpd.emits > 0
  /\ LET label == mpd.state # "Idle"
         crash == label /\ mpd.connection # Null /\ ~mpd.status
     IN  /\ mpd' = [mpd EXCEPT !.emits = @ - 1, !.fate = IF crash THEN "null" ELSE @]
         /\ shown' = IF ~label \/ crash THEN shown
                     ELSE IF mpd.connection = Null THEN "hidden" ELSE mpd.known
  /\ UNCHANGED <<calm, dropped>>

-----------------------------------------------------------------------------
\* MPD and the network.
ServerChanges == \* the state, or only the queue or the options
  /\ Alive /\ ~calm /\ mpd.server # "down"
  /\ Step({News([mpd EXCEPT !.server = s]) : s \in Plays})

ConnectionDrops ==
  /\ Alive /\ ~calm
  /\ mpd.connection # Null
  /\ Step({[mpd EXCEPT !.connection = "lost", !.server = s] : s \in {mpd.server, "down"}})

ServerStartsOrStops ==
  /\ Alive /\ ~calm
  /\ \/ mpd.server = "down" /\ Step({[mpd EXCEPT !.server = s] : s \in Plays})
     \/ mpd.connection = Null /\ Step({[mpd EXCEPT !.server = "down"]})

Calm == ~calm /\ calm' = TRUE /\ UNCHANGED <<mpd, shown, dropped>>

Timers == DisconnectedOnTimer \/ RestOnTimer \/ PlayingOnTimer
Watches == IdleOnIo \/ PlayingOnIo

Next ==
  \/ Timers \/ Watches \/ Update
  \/ \E b \in Buttons : HandlePlayPause(b)
  \/ Clicked
  \/ ServerChanges \/ ConnectionDrops \/ ServerStartsOrStops \/ Calm

Spec == Init /\ [][Next]_vars

\* The main loop serves every source that stays ready.
FairSpec == Spec /\ WF_vars(Timers) /\ WF_vars(Watches) /\ WF_vars(Update)

-----------------------------------------------------------------------------
\* The state's fields hold what the source's types allow (state.hpp, mpd.hpp).
MpdTypeOK ==
  /\ mpd \in MpdType
  /\ shown \in Plays \cup {"unknown", "nothing", "hidden"}
  /\ calm \in BOOLEAN /\ dropped \in BOOLEAN

\* Between handlers each state has the sources it lives from, neither fewer nor
\* more: the statechart is never left without anything that could wake it, and an
\* old state's source never fires in a new state.  Every entry(), exit(), return
\* value and caught exception of state.cpp takes part.
SourcesFit ==
  /\ mpd.timer = (mpd.state # "Idle")
  /\ mpd.watch = (mpd.state \in {"Idle", "Playing"})

\* On a sound connection MPD is left in "idle" exactly while the module watches
\* for its answer: else commands are refused for good, or news are missed.  And
\* only Disconnected does without a connection: entry()'s assertions hold.
IdlesOnlyWatched ==
  /\ mpd.connection = "ok" => (mpd.idling = mpd.watch)
  /\ mpd.connection = Null => mpd.state = "Disconnected"

\* Each state has its sources and its side of the conversation (state.cpp).
StateFits == Alive => SourcesFit /\ IdlesOnlyWatched

\* Once MPD stays as it is, the label comes to show it and stays so, though Idle
\* neither asks nor updates the label.  Three things may come in between: the
\* process ends; a click sends a command that changes nothing while news of MPD
\* is still unread, and discards it; MPD goes down, which Disconnected::on_timer()
\* notices but does not show if MPD had refused a command before.
LabelSettles ==
  [](calm => <>[](\/ ~Alive \/ dropped
                  \/ IF mpd.server = "down" THEN mpd.connection = Null ELSE shown = mpd.server))

\* waybar-mpd(5): a lost connection is retried at an interval.
LossIsRetried ==
  mpd.connection = Null => mpd.state = "Disconnected" /\ mpd.timer /\ mpd.fate # "threw"
=============================================================================
