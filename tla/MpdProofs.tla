------------------------------ MODULE MpdProofs ------------------------------
(***************************************************************************)
(* For every bound on the updates under way and every use of the buttons:   *)
(* the statechart of the MPD module is never left without a source that     *)
(* wakes it, and never talks on a connection that is in "idle".             *)
(*                                                                         *)
(* Handlers are sets of outcomes, so each operator has a lemma on what its   *)
(* outcomes may be; a step's proof follows the handler.                     *)
(***************************************************************************)
EXTENDS MpdState, TLAPS

\* What stays of m while a handler talks to MPD: its state, and the sources.
Kept(r, m) ==
  /\ r.state = m.state /\ r.timer = m.timer /\ r.watch = m.watch
  /\ r.server = m.server

\* MPD answers only while it is up.
ServerUp(m) == m.connection \in {"ok", "refused"} => m.server # "down"

\* An exception leaves no connection, or one that is not in "idle".
Thrown(m) ==
  /\ m \in MpdType /\ m.fate = "threw" /\ ServerUp(m)
  /\ m.connection \in {Null, "ok"}
  /\ m.connection = "ok" => ~m.idling

\* A connection on which a command can be sent, or fails at once.
Ready(m) ==
  /\ m \in MpdType /\ m.fate = "alive" /\ ServerUp(m)
  /\ m.connection \in {"ok", "refused"} => ~m.idling

\* The connection after a successful exchange.
Answered(m) == Ready(m) /\ m.connection = "ok"

\* The invariant of the states between handlers: StateFits, and what becomes of a refusal.
Fits(m) ==
  /\ m \in MpdType /\ ServerUp(m)
  /\ m.timer = (m.state # "Idle")
  /\ m.watch = (m.state \in {"Idle", "Playing"})
  /\ m.connection = "ok" => (m.idling = m.watch)
  /\ m.connection = Null => m.state = "Disconnected"
  /\ m.connection = "refused" => ~m.idling /\ ~m.watch

\* Between two handlers; and the end of one that lets no exception out.
Rests(m) == m \in MpdType /\ (m.fate = "alive" => Fits(m))
Ended(m) == Rests(m) /\ m.fate # "threw"

LEMMA EmitKeeps ==
  ASSUME NEW m \in MpdType
  PROVE  /\ Emit(m) \in MpdType /\ Kept(Emit(m), m)
         /\ Emit(m).connection = m.connection /\ Emit(m).idling = m.idling
         /\ Emit(m).fate = m.fate /\ Emit(m).known = m.known /\ Emit(m).status = m.status
<1>1. (IF m.emits < MaxEmits THEN m.emits + 1 ELSE m.emits) \in 0..MaxEmits
  BY MaxEmitsAssumption DEF MpdType, MaxEmitsAssumption
<1> QED  BY <1>1 DEF Emit, MpdType, Kept

LEMMA DisconnectFits ==
  ASSUME NEW m, Thrown(m) \/ (Ready(m) /\ (m.connection = "ok" => ~m.idling))
  PROVE  Ended(Disconnect(m)) /\ Disconnect(m).fate = "alive" /\ Disconnect(m).state = "Disconnected"
<1> DEFINE d == [m EXCEPT !.state = "Disconnected", !.timer = TRUE, !.watch = FALSE, !.fate = "alive"]
<1>1. /\ d \in MpdType /\ d.state = "Disconnected" /\ d.timer = TRUE /\ d.watch = FALSE /\ d.fate = "alive"
      /\ d.connection = m.connection /\ d.idling = m.idling /\ d.server = m.server
  BY DEF Thrown, Ready, MpdType
<1>2. m.connection \in {"ok", "refused"} => m.idling = FALSE
  BY DEF Thrown, Ready, MpdType, Null
<1>3. m.connection \in {Null, "ok", "lost", "refused"} /\ ServerUp(m)
  BY DEF Thrown, Ready, MpdType
<1> HIDE DEF d
<1>4. Disconnect(m) = Emit(d)
  BY DEF Disconnect, d
<1>5. /\ Emit(d) \in MpdType /\ Kept(Emit(d), d)
      /\ Emit(d).connection = d.connection /\ Emit(d).idling = d.idling /\ Emit(d).fate = d.fate
  BY <1>1, EmitKeeps
<1>6. ServerUp(Emit(d)) /\ Emit(d).state = "Disconnected" /\ Emit(d).fate = "alive"
  BY <1>1, <1>3, <1>5 DEF Kept, ServerUp
<1>7. Emit(d).timer = (Emit(d).state # "Idle")
  BY <1>1, <1>5 DEF Kept
<1>8. Emit(d).watch = (Emit(d).state \in {"Idle", "Playing"})
  <2>1. Emit(d).watch = FALSE /\ (Emit(d).state \in {"Idle", "Playing"}) = FALSE
    BY <1>1, <1>5 DEF Kept
  <2> QED  BY <2>1
<1>9. Emit(d).connection \in {"ok", "refused"} => Emit(d).idling = FALSE /\ Emit(d).watch = FALSE
  BY <1>1, <1>2, <1>5 DEF Kept
<1>10. Fits(Emit(d))
  BY <1>5, <1>6, <1>7, <1>8, <1>9 DEF Fits
<1> QED  BY <1>4, <1>5, <1>6, <1>10 DEF Ended, Rests

LEMMA CheckErrorsOutcome ==
  ASSUME NEW m, Ready(m), NEW r \in CheckErrors(m)
  PROVE  Kept(r, m) /\ ((m.connection = "ok" /\ r = m) \/ Thrown(r))
<1>1. CASE m.connection = "ok"  BY <1>1 DEF CheckErrors, Kept, Null
<1>2. CASE m.connection = "lost"
  <2>1. PICK k \in {"unknown", m.known} :
          r = [m EXCEPT !.connection = Null, !.idling = FALSE, !.known = k, !.fate = "threw"]
    BY <1>2 DEF CheckErrors, Null
  <2>2. /\ r.state = m.state /\ r.timer = m.timer /\ r.watch = m.watch /\ r.server = m.server
        /\ r.fate = "threw" /\ r.connection = Null /\ r.idling = FALSE
    BY <2>1 DEF Ready, MpdType
  <2>3. r \in MpdType
    BY <2>1 DEF Ready, MpdType, Null
  <2> QED  BY <2>2, <2>3 DEF Kept, Thrown, ServerUp, Null
<1>3. CASE m.connection = "refused"
  <2>1. r = [m EXCEPT !.connection = "ok", !.fate = "threw"]
    BY <1>3 DEF CheckErrors, Null
  <2>2. /\ r.state = m.state /\ r.timer = m.timer /\ r.watch = m.watch /\ r.server = m.server
        /\ r.fate = "threw" /\ r.connection = "ok" /\ r.idling = FALSE
    BY <1>3, <2>1 DEF Ready, MpdType
  <2>3. r \in MpdType /\ r.server # "down"
    BY <1>3, <2>1, <2>2 DEF Ready, MpdType, ServerUp, Null
  <2> QED  BY <2>2, <2>3 DEF Kept, Thrown, ServerUp, Null
<1>4. CASE m.connection = Null
  <2>1. r = [m EXCEPT !.fate = "threw"]
    BY <1>4 DEF CheckErrors, Null
  <2>2. r.connection = "null" /\ r.server = m.server
    BY <1>4, <2>1 DEF Ready, MpdType, Null
  <2> QED  BY <1>4, <2>1, <2>2 DEF Kept, Thrown, Ready, MpdType, ServerUp, Null
<1> QED  BY <1>1, <1>2, <1>3, <1>4 DEF Ready, MpdType, Null

\* A command fails or is answered; nothing else of m changes.
LEMMA CommandOutcome ==
  ASSUME NEW m, Ready(m), NEW r \in Command(m)
  PROVE  Ready(r) /\ Kept(r, m) /\ (m.connection # Null => r.connection # Null)
<1>1. CASE r = m  BY <1>1 DEF Kept
<1>2. ASSUME NEW e \in {"lost", "refused"}, m.connection = "ok", r = [m EXCEPT !.connection = e]
      PROVE  Ready(r) /\ Kept(r, m) /\ r.connection # Null
  <2>1. /\ r \in MpdType /\ r.fate = "alive" /\ r.connection = e /\ r.idling = m.idling /\ r.server = m.server
        /\ Kept(r, m)
    BY <1>2 DEF Ready, MpdType, Kept
  <2> QED  BY <1>2, <2>1 DEF Ready, ServerUp, Null
<1>3. r = m \/ \E e \in {"lost", "refused"} : m.connection = "ok" /\ r = [m EXCEPT !.connection = e]
  <2>1. m.connection = "ok" => ~m.idling
    BY DEF Ready
  <2> QED  BY <2>1 DEF Command, Fails
<1> QED  BY <1>1, <1>2, <1>3

\* fetchState() on a connection gets an answer, or throws.
LEMMA FetchStateOutcome ==
  ASSUME NEW m, Ready(m), m.connection # Null, NEW r \in FetchState(m)
  PROVE  Kept(r, m) /\ ((Answered(r) /\ r.known \in Plays) \/ Thrown(r))
<1>1. PICK c \in Command(m) :
        r \in IF c.connection # "ok" THEN CheckErrors([c EXCEPT !.status = FALSE])
              ELSE UNION {CheckErrors(s) : s \in Command([c EXCEPT !.status = TRUE, !.known = c.server])}
  BY DEF FetchState
<1>2. Ready(c) /\ Kept(c, m) /\ c.connection # Null
  BY CommandOutcome
<1>3. CASE c.connection # "ok"
  <2> DEFINE n == [c EXCEPT !.status = FALSE]
  <2>1. n \in MpdType /\ n.connection = c.connection /\ n.idling = c.idling /\ n.fate = c.fate /\ Kept(n, c)
    BY <1>2 DEF Ready, MpdType, Kept
  <2>2. Ready(n) /\ n.connection # "ok" /\ Kept(n, m)
    BY <1>2, <1>3, <2>1 DEF Ready, ServerUp, Kept
  <2>3. r \in CheckErrors(n)
    BY <1>1, <1>3
  <2> HIDE DEF n
  <2>4. Kept(r, n) /\ Thrown(r)
    BY <2>2, <2>3, CheckErrorsOutcome
  <2> QED  BY <2>2, <2>4 DEF Kept
<1>4. CASE c.connection = "ok"
  <2> DEFINE n == [c EXCEPT !.status = TRUE, !.known = c.server]
  <2>1. c.server \in Plays
    BY <1>2, <1>4 DEF Ready, MpdType, ServerUp
  <2>2. n \in MpdType /\ n.connection = "ok" /\ n.idling = c.idling /\ n.fate = c.fate /\ Kept(n, c) /\ n.known \in Plays
    BY <1>2, <1>4, <2>1 DEF Ready, MpdType, Kept
  <2>3. Ready(n) /\ Kept(n, m)
    BY <1>2, <1>4, <2>2 DEF Ready, ServerUp, Kept
  <2>4. PICK s \in Command(n) : r \in CheckErrors(s)
    BY <1>1, <1>4
  <2> HIDE DEF n
  <2>5. Ready(s) /\ Kept(s, n)
    BY <2>3, CommandOutcome
  <2>6. s.known \in Plays
    <3>1. s = n \/ \E e \in {"lost", "refused"} : s = [n EXCEPT !.connection = e]
      BY <2>2, <2>4 DEF Command, Fails
    <3> QED  BY <2>2, <3>1 DEF MpdType
  <2>7. Kept(r, s) /\ ((s.connection = "ok" /\ r = s) \/ Thrown(r))
    BY <2>4, <2>5, CheckErrorsOutcome
  <2> QED  BY <2>3, <2>5, <2>6, <2>7 DEF Kept, Answered
<1> QED  BY <1>3, <1>4

\* tryConnect() leaves a connection alone, and a new one is not in "idle".
LEMMA TryConnectOutcome ==
  ASSUME NEW m, Ready(m), NEW r \in TryConnect(m)
  PROVE  Ready(r) /\ Kept(r, m) /\ (r = m \/ (m.connection = Null /\ r.connection = "ok"))
<1>1. CASE r = m  BY <1>1 DEF Kept
<1>2. CASE /\ m.connection = Null /\ m.server # "down"
           /\ r = [m EXCEPT !.connection = "ok", !.idling = FALSE, !.news = 0]
  <2>1. m \in MpdType /\ m.fate = "alive"
    BY DEF Ready
  <2>2. r \in MpdType
    <3>1. {"ok"} \subseteq {Null, "ok", "lost", "refused"} /\ FALSE \in BOOLEAN /\ 0 \in 0..2
      OBVIOUS
    <3>2. [m EXCEPT !.connection = "ok", !.idling = FALSE] \in MpdType
      BY <2>1, <3>1 DEF MpdType
    <3>3. \A x \in MpdType : [x EXCEPT !.news = 0] \in MpdType
      BY <3>1 DEF MpdType
    <3> QED  BY <1>2, <3>2, <3>3
  <2>3. r.connection = "ok" /\ r.idling = FALSE /\ r.fate = "alive" /\ r.server # "down" /\ Kept(r, m)
    BY <1>2, <2>1 DEF MpdType, Kept
  <2> QED  BY <1>2, <2>2, <2>3 DEF Ready, ServerUp
<1> QED  BY <1>1, <1>2 DEF TryConnect

\* What a handler may do before it idles: the answer to "idle" is awaited, or it throws.
LEMMA SendIdleOutcome ==
  ASSUME NEW m, Ready(m), m.connection # Null, NEW r \in SendIdle(m)
  PROVE  /\ Kept(r, m)
         /\ \/ r \in MpdType /\ r.fate = "alive" /\ ServerUp(r) /\ r.connection = "ok" /\ r.idling = TRUE
            \/ Thrown(r)
<1>1. CASE m.connection = "ok"
  <2>1. ~m.idling
    BY <1>1 DEF Ready
  <2>2. CASE r = [m EXCEPT !.idling = TRUE]
    BY <1>1, <2>2 DEF Ready, MpdType, Kept, ServerUp
  <2>3. CASE r \in UNION {CheckErrors(l) : l \in Fails(m, {"lost"})}
    <3>1. PICK l \in Fails(m, {"lost"}) : r \in CheckErrors(l)
      BY <2>3
    <3>2. l \in Command(m) /\ l.connection = "lost"
      BY <1>1, <2>1, <3>1 DEF Command, Fails, Ready, MpdType
    <3>3. Ready(l) /\ Kept(l, m)
      BY <3>2, CommandOutcome
    <3>4. Kept(r, l) /\ Thrown(r)
      BY <3>1, <3>2, <3>3, CheckErrorsOutcome
    <3> QED  BY <3>3, <3>4 DEF Kept
  <2> QED  BY <1>1, <2>1, <2>2, <2>3 DEF SendIdle
<1>2. CASE m.connection # "ok"
  <2>1. PICK c \in Command(m) : r \in CheckErrors(c)
    BY <1>2 DEF SendIdle
  <2>2. c = m
    BY <1>2, <2>1 DEF Command
  <2> QED  BY <1>2, <2>1, <2>2, CheckErrorsOutcome
<1> QED  BY <1>1, <1>2

\* What it takes to read the answer to "idle", and what comes of it.
Listening(m) ==
  /\ m \in MpdType /\ m.fate = "alive" /\ ServerUp(m)
  /\ m.connection = "refused" => ~m.idling

LEMMA ReadIdleOutcome ==
  ASSUME NEW m, Listening(m), NEW r \in ReadIdle(m)
  PROVE  Kept(r, m) /\ (Answered(r) \/ Thrown(r))
<1>1. CASE m.connection = "ok"
  <2>1. CASE r = [m EXCEPT !.idling = FALSE, !.news = IF @ > 0 THEN @ - 1 ELSE 0]
    <3>1. (IF m.news > 0 THEN m.news - 1 ELSE 0) \in 0..2
      BY DEF Listening, MpdType
    <3>2. [m EXCEPT !.idling = FALSE] \in MpdType /\ [m EXCEPT !.idling = FALSE].news = m.news
      BY DEF Listening, MpdType
    <3>3. \A x \in MpdType, n \in 0..2 : [x EXCEPT !.news = n] \in MpdType
      BY DEF MpdType
    <3>4. r = [[m EXCEPT !.idling = FALSE] EXCEPT !.news = IF m.news > 0 THEN m.news - 1 ELSE 0]
      BY <2>1, <3>2
    <3>5. r \in MpdType
      BY <3>1, <3>2, <3>3, <3>4
    <3>6. r.connection = "ok" /\ r.idling = FALSE /\ r.fate = "alive" /\ Kept(r, m)
      BY <1>1, <2>1 DEF Listening, MpdType, Kept
    <3> QED  BY <1>1, <3>5, <3>6 DEF Answered, Ready, Listening, ServerUp, Kept
  <2>2. CASE r \in UNION {CheckErrors(l) : l \in Fails(m, {"lost"})}
    <3>1. PICK l \in Fails(m, {"lost"}) : r \in CheckErrors(l)
      BY <2>2
    <3>2. l = [m EXCEPT !.connection = "lost"]
      BY <3>1 DEF Fails
    <3>3. l \in MpdType /\ l.connection = "lost" /\ l.fate = "alive" /\ Kept(l, m)
      BY <3>2 DEF Listening, MpdType, Kept
    <3>4. Ready(l)
      BY <3>3 DEF Ready, ServerUp
    <3>5. Kept(r, l) /\ Thrown(r)
      BY <3>1, <3>3, <3>4, CheckErrorsOutcome
    <3> QED  BY <3>3, <3>5 DEF Kept
  <2> QED  BY <1>1, <2>1, <2>2 DEF ReadIdle
<1>2. CASE m.connection # "ok"
  <2>1. Ready(m) /\ r \in CheckErrors(m)
    BY <1>2 DEF Listening, Ready, ReadIdle
  <2> QED  BY <1>2, <2>1, CheckErrorsOutcome
<1> QED  BY <1>1, <1>2

\* Whatever a handler throws, its catch ends in Disconnected.
LEMMA CatchEnds ==
  ASSUME NEW S, \A q \in S : Ended(q) \/ Thrown(q), NEW r \in Catch(S)
  PROVE  Ended(r)
<1>1. PICK q \in S : r = IF q.fate = "threw" THEN Disconnect(q) ELSE q
  BY DEF Catch
<1>2. CASE Thrown(q)
  BY <1>1, <1>2, DisconnectFits DEF Thrown
<1>3. CASE Ended(q)
  BY <1>1, <1>3 DEF Ended, Rests
<1> QED  BY <1>1, <1>2, <1>3

\* To idle is to be in Idle or Playing with the answer awaited, or in Disconnected.
LEMMA IdlingEnds ==
  ASSUME NEW m, Ready(m), m.state \in {"Idle", "Playing"}, m.timer = (m.state # "Idle"), NEW r \in Idling(m)
  PROVE  Ended(r)
<1>1. CASE m.connection = Null
  <2>1. r = [m EXCEPT !.fate = "null"]
    BY <1>1 DEF Idling
  <2>2. r \in MpdType /\ r.fate = "null"
    BY <2>1 DEF Ready, MpdType
  <2> QED  BY <2>2 DEF Ended, Rests
<1>2. CASE m.connection # Null
  <2> DEFINE S == Then(SendIdle(m), LAMBDA s : {[s EXCEPT !.watch = TRUE]})
  <2>1. r \in Catch(S)
    BY <1>2 DEF Idling
  <2>2. ASSUME NEW q \in S PROVE Ended(q) \/ Thrown(q)
    <3>1. PICK s \in SendIdle(m) : q \in IF s.fate = "alive" THEN {[s EXCEPT !.watch = TRUE]} ELSE {s}
      BY <2>2 DEF Then
    <3>2. Kept(s, m)
      BY <1>2, SendIdleOutcome
    <3>3. CASE s \in MpdType /\ s.fate = "alive" /\ ServerUp(s) /\ s.connection = "ok" /\ s.idling = TRUE
      <4>1. q = [s EXCEPT !.watch = TRUE]
        BY <3>1, <3>3
      <4>2. /\ q \in MpdType /\ q.watch = TRUE /\ q.idling = TRUE /\ q.fate = "alive" /\ q.connection = "ok"
            /\ q.state = m.state /\ q.timer = m.timer /\ q.server = s.server
        BY <3>2, <3>3, <4>1 DEF MpdType, Kept
      <4>3. ServerUp(q) /\ q.timer = (q.state # "Idle") /\ q.watch = (q.state \in {"Idle", "Playing"})
        BY <3>3, <4>2 DEF ServerUp
      <4> QED  BY <4>2, <4>3 DEF Ended, Rests, Fits, Null
    <3>4. CASE Thrown(s)
      BY <3>1, <3>4 DEF Thrown
    <3> QED  BY <1>2, <3>3, <3>4, SendIdleOutcome
  <2> HIDE DEF S
  <2> QED  BY <2>1, <2>2, CatchEnds
<1> QED  BY <1>1, <1>2

\* setState() enters no state without what that state lives from.
LEMMA SetStateEnds ==
  ASSUME NEW m, Ready(m), NEW s \in {"Disconnected", "Idle", "Playing", "Paused", "Stopped"},
         s = "Disconnected" \/ m.connection # Null, NEW r \in SetState(m, s)
  PROVE  Ended(r)
<1> DEFINE entered == [m EXCEPT !.state = s, !.timer = (s # "Idle"), !.watch = FALSE]
<1>1. /\ entered \in MpdType /\ entered.state = s /\ entered.timer = (s # "Idle") /\ entered.watch = FALSE
      /\ entered.connection = m.connection /\ entered.idling = m.idling /\ entered.server = m.server
      /\ entered.fate = "alive"
  BY DEF Ready, MpdType
<1>2. CASE s = "Disconnected"
  <2>1. r = Disconnect(m)
    BY <1>2 DEF SetState
  <2> QED  BY <2>1, DisconnectFits DEF Ready
<1>3. CASE s \in {"Idle", "Playing"}
  <2>1. r \in Idling(entered)
    BY <1>3 DEF SetState
  <2> HIDE DEF entered
  <2>2. Ready(entered)
    BY <1>1 DEF Ready, ServerUp
  <2>3. entered.state \in {"Idle", "Playing"} /\ entered.timer = (entered.state # "Idle")
    BY <1>1, <1>3
  <2> QED  BY <2>1, <2>2, <2>3, IdlingEnds
<1>4. CASE s \in {"Paused", "Stopped"}
  <2>1. r = entered
    BY <1>4 DEF SetState
  <2> HIDE DEF entered
  <2>2. entered.timer = (entered.state # "Idle")
    BY <1>1
  <2>3. entered.watch = (entered.state \in {"Idle", "Playing"})
    <3>1. entered.watch = FALSE /\ (entered.state \in {"Idle", "Playing"}) = FALSE
      BY <1>1, <1>4
    <3> QED  BY <3>1
  <2>4. entered.connection \in {"ok", "refused"} => entered.idling = FALSE
    BY <1>1 DEF Ready, MpdType
  <2>5. ServerUp(entered) /\ entered.connection # Null
    BY <1>1, <1>4 DEF Ready, ServerUp
  <2> QED  BY <1>1, <2>1, <2>2, <2>3, <2>4, <2>5 DEF Ended, Rests, Fits
<1> QED  BY <1>2, <1>3, <1>4

-----------------------------------------------------------------------------
\* Between handlers.
MpdInv ==
  /\ Rests(mpd)
  /\ shown \in Plays \cup {"unknown", "nothing", "hidden"}
  /\ calm \in BOOLEAN /\ dropped \in BOOLEAN

\* After a status has been fetched, its updates are announced and a state is entered.
LEMMA FollowEnds ==
  ASSUME NEW m, Answered(m), NEW s \in {"Idle", "Playing", "Paused", "Stopped"}, NEW r \in SetState(Emit(m), s)
  PROVE  Ended(r)
<1>1. m \in MpdType
  BY DEF Answered, Ready
<1>2. Ready(Emit(m)) /\ Emit(m).connection # Null
  BY <1>1, EmitKeeps DEF Answered, Ready, ServerUp, Kept, Null
<1> QED  BY <1>2, SetStateEnds

LEMMA FetchAndFollowEnds ==
  ASSUME NEW m, Ready(m), m.connection # Null,
         NEW f, f \in FetchState(m),
         NEW r, r \in IF f.fate = "alive" THEN SetState(Emit(f), Follow(f)) ELSE {f}
  PROVE  Ended(r) \/ (Thrown(r) /\ Kept(r, m))
<1>1. Kept(f, m) /\ ((Answered(f) /\ f.known \in Plays) \/ Thrown(f))
  BY FetchStateOutcome
<1>2. CASE Answered(f) /\ f.known \in Plays
  <2>1. r \in SetState(Emit(f), Follow(f)) /\ Follow(f) \in {"Playing", "Paused", "Stopped"}
    BY <1>2 DEF Answered, Ready, Follow, Plays
  <2> QED  BY <1>2, <2>1, FollowEnds
<1>3. CASE Thrown(f)
  BY <1>1, <1>3 DEF Thrown
<1> QED  BY <1>1, <1>2, <1>3

LEMMA AliveFits == ASSUME Rests(mpd), Alive
                   PROVE  Fits(mpd) /\ Listening(mpd) /\ mpd \in MpdType /\ (~mpd.watch => Ready(mpd))
<1>1. Fits(mpd) /\ mpd.fate = "alive" /\ mpd \in MpdType
  BY DEF Ended, Rests, Alive
<1>2. mpd.connection = "ok" => mpd.idling = mpd.watch
  BY <1>1 DEF Fits
<1>3. mpd.connection = "refused" => ~mpd.idling
  BY <1>1 DEF Fits
<1>4. ASSUME ~mpd.watch PROVE mpd.connection = "ok" => ~mpd.idling
  BY <1>2, <1>4
<1> QED  BY <1>1, <1>3, <1>4 DEF Fits, Listening, Ready

LEMMA DisconnectedOnTimerKeeps == ASSUME Rests(mpd), DisconnectedOnTimer PROVE Ended(mpd')
<1> DEFINE target(f) == IF Follow(f) = "Idle" THEN "Stopped" ELSE Follow(f)
           answers(c) == IF c.connection = Null THEN {c}
                         ELSE Then(FetchState(c), LAMBDA f : SetState(Emit(f), target(f)))
<1>1. PICK c \in TryConnect(mpd) :
        \E q \in answers(c) : mpd' = [q EXCEPT !.fate = IF @ = "threw" THEN "alive" ELSE @]
  <2>1. \E m \in UNION {answers(c) : c \in TryConnect(mpd)} :
          mpd' = [m EXCEPT !.fate = IF @ = "threw" THEN "alive" ELSE @]
    BY DEF DisconnectedOnTimer, Step, Then
  <2> HIDE DEF answers
  <2> QED  BY <2>1
<1>. PICK q \in answers(c) : mpd' = [q EXCEPT !.fate = IF @ = "threw" THEN "alive" ELSE @]
  BY <1>1
<1>2. /\ Fits(mpd) /\ mpd.state = "Disconnected" /\ mpd.timer /\ ~mpd.watch /\ Ready(mpd)
  BY AliveFits DEF DisconnectedOnTimer, Fits
<1>3. Ready(c) /\ Kept(c, mpd)
  BY <1>2, TryConnectOutcome
<1>4. CASE c.connection = Null
  <2>1. q = c /\ c.fate = "alive" /\ c \in MpdType
    BY <1>1, <1>3, <1>4 DEF Ready
  <2>2. mpd' = c
    BY <1>1, <2>1 DEF MpdType
  <2> QED  BY <1>2, <1>3, <1>4, <2>1, <2>2 DEF Ended, Rests, Fits, Kept, Ready, Null
<1>5. CASE c.connection # Null
  <2>1. PICK f \in FetchState(c) : q \in IF f.fate = "alive" THEN SetState(Emit(f), target(f)) ELSE {f}
    BY <1>1, <1>5 DEF Then
  <2>2. Kept(f, c) /\ ((Answered(f) /\ f.known \in Plays) \/ Thrown(f))
    BY <1>3, <1>5, FetchStateOutcome
  <2>3. CASE Answered(f) /\ f.known \in Plays
    <3>1. q \in SetState(Emit(f), target(f)) /\ target(f) \in {"Playing", "Paused", "Stopped"}
      BY <2>1, <2>3 DEF Answered, Ready, Follow, Plays
    <3> HIDE DEF target
    <3>2. Ended(q)
      BY <2>3, <3>1, FollowEnds
    <3>3. mpd' = q
      BY <1>1, <3>2 DEF Ended, Rests, MpdType
    <3> QED  BY <3>2, <3>3
  <2>4. CASE Thrown(f)
    <3>1. q = f /\ f \in MpdType /\ f.fate = "threw"
      BY <2>1, <2>4 DEF Thrown
    <3>2. mpd' = [f EXCEPT !.fate = "alive"]
      BY <1>1, <3>1
    <3>3. /\ mpd' \in MpdType /\ Kept(mpd', f) /\ mpd'.connection = f.connection /\ mpd'.idling = f.idling
          /\ mpd'.fate = "alive"
      BY <3>1, <3>2 DEF MpdType, Kept
    <3>4. mpd'.state = "Disconnected" /\ mpd'.timer = TRUE /\ mpd'.watch = FALSE
      BY <1>2, <1>3, <2>2, <3>3 DEF Kept, MpdType
    <3>5. mpd'.connection \in {Null, "ok"} /\ (mpd'.connection = "ok" => mpd'.idling = FALSE) /\ ServerUp(mpd')
      BY <2>4, <3>3 DEF Thrown, Kept, ServerUp, MpdType
    <3>6. mpd'.timer = (mpd'.state # "Idle")
      BY <3>4
    <3>7. mpd'.watch = (mpd'.state \in {"Idle", "Playing"})
      <4>1. (mpd'.state \in {"Idle", "Playing"}) = FALSE
        BY <3>4
      <4> QED  BY <3>4, <4>1
    <3> QED  BY <3>3, <3>4, <3>5, <3>6, <3>7 DEF Ended, Rests, Fits, Null
  <2> QED  BY <2>2, <2>3, <2>4
<1> QED  BY <1>4, <1>5

LEMMA RestOnTimerKeeps == ASSUME Rests(mpd), RestOnTimer PROVE Ended(mpd')
<1> DEFINE settle(f) == IF Follow(f) = mpd.state THEN SetState(Emit(f), "Idle")
                        ELSE IF Follow(f) = "Idle" THEN {Emit(f)}
                        ELSE SetState(Emit(f), Follow(f))
           answers(c) == IF c.connection = Null THEN SetState(c, "Disconnected")
                         ELSE Then(FetchState(c), settle)
           S == UNION {answers(c) : c \in TryConnect(mpd)}
<1>1. mpd' \in Catch(S)
  BY DEF RestOnTimer, Step
<1>2. /\ mpd.state \in {"Paused", "Stopped"} /\ Ready(mpd) /\ mpd.connection # Null
  <2>1. Fits(mpd) /\ mpd.state \in {"Paused", "Stopped"}
    BY AliveFits DEF RestOnTimer
  <2>2. ~mpd.watch
    BY <2>1 DEF Fits
  <2> QED  BY <2>1, <2>2, AliveFits DEF RestOnTimer, Fits
<1>3. ASSUME NEW q \in S PROVE Ended(q) \/ Thrown(q)
  <2>1. q \in answers(mpd)
    <3>1. PICK c \in TryConnect(mpd) : q \in answers(c)
      <4> HIDE DEF answers
      <4> QED  BY <1>3
    <3>2. c = mpd
      BY <1>2, TryConnectOutcome
    <3> QED  BY <3>1, <3>2 DEF Then
  <2>2. PICK f \in FetchState(mpd) : q \in IF f.fate = "alive" THEN settle(f) ELSE {f}
    BY <1>2, <2>1 DEF Then
  <2>3. CASE Answered(f) /\ f.known \in Plays
    <3>1. Follow(f) \in {"Playing", "Paused", "Stopped"} /\ f.fate = "alive"
      BY <2>3 DEF Answered, Ready, Follow, Plays
    <3>2. q \in SetState(Emit(f), "Idle") \/ q \in SetState(Emit(f), Follow(f))
      BY <2>2, <3>1
    <3> QED  BY <2>3, <3>1, <3>2, FollowEnds
  <2>4. CASE Thrown(f)
    BY <2>2, <2>4 DEF Thrown
  <2> QED  BY <1>2, <2>3, <2>4, FetchStateOutcome
<1> HIDE DEF S
<1> QED  BY <1>1, <1>3, CatchEnds

\* A noidle is answered, or fails, as an answer to "idle" does.
LEMMA NoidleOutcome ==
  ASSUME NEW m, Listening(m), m.watch, NEW r \in Noidle(m)
  PROVE  r.state = m.state /\ r.timer = m.timer /\ (Answered(r) \/ Thrown(r))
<1> DEFINE n == [m EXCEPT !.watch = FALSE]
<1>1. n \in MpdType /\ n.state = m.state /\ n.timer = m.timer /\ n.connection = m.connection
      /\ n.idling = m.idling /\ n.server = m.server /\ n.fate = m.fate
  BY DEF Listening, MpdType
<1>2. r \in ReadIdle(n)
  BY DEF Noidle
<1> HIDE DEF n
<1>3. Listening(n)
  BY <1>1 DEF Listening, ServerUp
<1> QED  BY <1>1, <1>2, <1>3, ReadIdleOutcome DEF Kept

LEMMA IdleOnIoKeeps == ASSUME Rests(mpd), IdleOnIo PROVE Rests(mpd')
<1> DEFINE go(r) == IF r.state = "Disconnected" THEN {r}
                    ELSE Then(FetchState(r), LAMBDA f : SetState(Emit(f), Follow(f)))
<1>1. PICK r \in Catch(ReadIdle(mpd)) : mpd' \in IF r.fate = "alive" THEN go(r) ELSE {r}
  BY DEF IdleOnIo, Step, Then
<1>2. mpd.state = "Idle" /\ Listening(mpd)
  BY AliveFits DEF IdleOnIo
<1>3. PICK x \in ReadIdle(mpd) : r = IF x.fate = "threw" THEN Disconnect(x) ELSE x
  BY <1>1 DEF Catch
<1>4. Kept(x, mpd) /\ (Answered(x) \/ Thrown(x))
  BY <1>2, ReadIdleOutcome
<1>5. CASE Thrown(x)
  <2>1. r = Disconnect(x)
    BY <1>3, <1>5 DEF Thrown
  <2>2. Ended(r) /\ r.fate = "alive" /\ r.state = "Disconnected"
    BY <1>5, <2>1, DisconnectFits
  <2> QED  BY <1>1, <2>2 DEF Ended
<1>6. CASE Answered(x)
  <2>1. r = x /\ Ready(r) /\ r.connection # Null /\ r.fate = "alive" /\ r.state # "Disconnected"
    BY <1>2, <1>3, <1>4, <1>6 DEF Answered, Ready, Kept, Null
  <2>2. PICK f \in FetchState(r) : mpd' \in IF f.fate = "alive" THEN SetState(Emit(f), Follow(f)) ELSE {f}
    BY <1>1, <2>1 DEF Then
  <2> QED  BY <2>1, <2>2, FetchAndFollowEnds DEF Ended, Rests, Thrown
<1> QED  BY <1>4, <1>5, <1>6

LEMMA RestEnds == ASSUME NEW f, Answered(f), NEW r \in Rest(f) PROVE Ended(r)
<1>1. r \in SetState(Emit(f), "Paused") \/ r \in SetState(Emit(f), "Stopped")
  BY DEF Rest
<1> QED  BY <1>1, FollowEnds

LEMMA PlayingOnTimerKeeps == ASSUME Rests(mpd), PlayingOnTimer PROVE Ended(mpd')
<1> DEFINE go(f) == IF f.known # "play" THEN Rest(f) ELSE Idling(Emit(f))
           fetched(n) == Then(FetchState(n), go)
           answers(c) == IF c.connection = Null THEN SetState(c, "Disconnected") ELSE Then(Noidle(c), fetched)
           S == UNION {answers(c) : c \in TryConnect(mpd)}
<1>1. mpd' \in Catch(S)
  BY DEF PlayingOnTimer, Step, Then
<1>2. mpd.state = "Playing" /\ mpd.timer /\ Listening(mpd) /\ mpd.watch /\ mpd.connection # Null
  BY AliveFits DEF PlayingOnTimer, Fits
<1>3. ASSUME NEW q \in S PROVE Ended(q) \/ Thrown(q)
  <2>1. q \in answers(mpd)
    <3>1. TryConnect(mpd) = {mpd}
      BY <1>2 DEF TryConnect
    <3>2. PICK c \in TryConnect(mpd) : q \in answers(c)
      <4> HIDE DEF answers
      <4> QED  BY <1>3
    <3> HIDE DEF answers
    <3> QED  BY <3>1, <3>2
  <2>2. PICK n \in Noidle(mpd) : q \in IF n.fate = "alive" THEN fetched(n) ELSE {n}
    <3> HIDE DEF fetched
    <3> QED  BY <1>2, <2>1 DEF Then
  <2>3. CASE Thrown(n)
    BY <2>2, <2>3 DEF Thrown
  <2>4. CASE Answered(n)
    <3>1. Ready(n) /\ n.connection # Null /\ n.fate = "alive" /\ n.state = "Playing" /\ n.timer = TRUE
      BY <1>2, <2>4, NoidleOutcome DEF Answered, Ready, Null, MpdType
    <3>2. PICK f \in FetchState(n) : q \in IF f.fate = "alive" THEN go(f) ELSE {f}
      <4> HIDE DEF go
      <4> QED  BY <2>2, <3>1 DEF Then
    <3>3. Kept(f, n) /\ (Answered(f) \/ Thrown(f))
      BY <3>1, FetchStateOutcome
    <3>4. CASE Thrown(f)
      BY <3>2, <3>4 DEF Thrown
    <3>5. CASE Answered(f)
      <4>1. f \in MpdType /\ f.fate = "alive" /\ f.state = "Playing" /\ f.timer = TRUE
        BY <3>1, <3>3, <3>5 DEF Answered, Ready, Kept
      <4>2. Ready(Emit(f)) /\ Emit(f).state = "Playing" /\ Emit(f).timer = TRUE
        BY <3>5, <4>1, EmitKeeps DEF Answered, Ready, Kept, ServerUp
      <4>3. Emit(f).timer = (Emit(f).state # "Idle")
        BY <4>2
      <4>4. q \in Rest(f) \/ q \in Idling(Emit(f))
        BY <3>2, <4>1
      <4> QED  BY <3>5, <4>2, <4>3, <4>4, RestEnds, IdlingEnds
    <3> QED  BY <3>3, <3>4, <3>5
  <2> QED  BY <1>2, <2>3, <2>4, NoidleOutcome
<1> HIDE DEF S
<1> QED  BY <1>1, <1>3, CatchEnds

LEMMA PlayingOnIoKeeps == ASSUME Rests(mpd), PlayingOnIo PROVE Ended(mpd')
<1> DEFINE idled(f) == Then(SendIdle(Emit(f)), LAMBDA s : {[s EXCEPT !.timer = TRUE]})
           follow(f) == IF f.known # "play" THEN Rest(f) ELSE idled(f)
           fetched(r) == Then(FetchState(r), follow)
           S == Then(ReadIdle(mpd), fetched)
<1>1. mpd' \in Catch(S)
  BY DEF PlayingOnIo, Step, Then
<1>2. mpd.state = "Playing" /\ Listening(mpd) /\ mpd.watch = TRUE
  <2>1. Fits(mpd) /\ mpd.state = "Playing" /\ Listening(mpd)
    BY AliveFits DEF PlayingOnIo
  <2> QED  BY <2>1 DEF Fits
<1>3. ASSUME NEW q \in S PROVE Ended(q) \/ Thrown(q)
  <2>1. PICK r \in ReadIdle(mpd) : q \in IF r.fate = "alive" THEN fetched(r) ELSE {r}
    <3> HIDE DEF fetched
    <3> QED  BY <1>3 DEF Then
  <2>2. Kept(r, mpd) /\ (Answered(r) \/ Thrown(r))
    BY <1>2, ReadIdleOutcome
  <2>3. CASE Thrown(r)
    BY <2>1, <2>3 DEF Thrown
  <2>4. CASE Answered(r)
    <3>1. Ready(r) /\ r.connection # Null /\ r.fate = "alive" /\ r.state = "Playing" /\ r.watch = TRUE
      BY <1>2, <2>2, <2>4 DEF Answered, Ready, Null, Kept
    <3>2. PICK f \in FetchState(r) : q \in IF f.fate = "alive" THEN follow(f) ELSE {f}
      <4> HIDE DEF follow
      <4> QED  BY <2>1, <3>1 DEF Then
    <3>3. Kept(f, r) /\ (Answered(f) \/ Thrown(f))
      BY <3>1, FetchStateOutcome
    <3>4. CASE Thrown(f)
      BY <3>2, <3>4 DEF Thrown
    <3>5. CASE Answered(f)
      <4>1. f \in MpdType /\ f.fate = "alive" /\ f.state = "Playing" /\ f.watch = TRUE /\ f.connection = "ok"
        BY <3>1, <3>3, <3>5 DEF Answered, Ready, Kept
      <4>2. Ready(Emit(f)) /\ Emit(f).state = "Playing" /\ Emit(f).watch = TRUE /\ Emit(f).connection # Null
        BY <3>5, <4>1, EmitKeeps DEF Answered, Ready, Kept, ServerUp, Null
      <4>3. q \in Rest(f) \/ q \in idled(f)
        <5> HIDE DEF idled
        <5> QED  BY <3>2, <4>1
      <4>4. CASE q \in Rest(f)
        BY <3>5, <4>4, RestEnds
      <4>5. CASE q \in idled(f)
        <5>1. PICK s \in SendIdle(Emit(f)) : q \in IF s.fate = "alive" THEN {[s EXCEPT !.timer = TRUE]} ELSE {s}
          BY <4>5 DEF Then
        <5>2. Kept(s, Emit(f))
          BY <4>2, SendIdleOutcome
        <5>3. CASE Thrown(s)
          BY <5>1, <5>3 DEF Thrown
        <5>4. CASE s \in MpdType /\ s.fate = "alive" /\ ServerUp(s) /\ s.connection = "ok" /\ s.idling = TRUE
          <6>1. q = [s EXCEPT !.timer = TRUE]
            BY <5>1, <5>4
          <6>2. /\ q \in MpdType /\ q.timer = TRUE /\ q.watch = TRUE /\ q.idling = TRUE /\ q.fate = "alive"
                /\ q.connection = "ok" /\ q.state = "Playing" /\ q.server = s.server
            BY <4>2, <5>2, <5>4, <6>1 DEF MpdType, Kept
          <6>3. ServerUp(q) /\ q.timer = (q.state # "Idle") /\ q.watch = (q.state \in {"Idle", "Playing"})
            BY <5>4, <6>2 DEF ServerUp
          <6> QED  BY <6>2, <6>3 DEF Ended, Rests, Fits, Null
        <5> QED  BY <4>2, <5>3, <5>4, SendIdleOutcome
      <4> QED  BY <4>3, <4>4, <4>5
    <3> QED  BY <3>3, <3>4, <3>5
  <2> QED  BY <2>2, <2>3, <2>4
<1> HIDE DEF S
<1> QED  BY <1>1, <1>3, CatchEnds

-----------------------------------------------------------------------------
\* What a click sends, with or without an answer.
LEMMA NewsInType == ASSUME NEW m \in MpdType PROVE News(m) \in MpdType
<1>1. (IF m.connection # "ok" THEN 0 ELSE IF m.idling /\ m.news > 0 THEN 2 ELSE 1) \in 0..2
  OBVIOUS
<1>2. \A n \in 0..2 : [m EXCEPT !.news = n] \in MpdType
  BY DEF MpdType
<1> QED  BY <1>1, <1>2 DEF News

LEMMA DoOutcome ==
  ASSUME NEW m, Ready(m), m.connection # Null, NEW c \in Plays, NEW r \in Do(m, c)
  PROVE  Ready(r) /\ r.connection # Null
<1>1. PICK d \in Command(m) :
        r \in IF d.connection # "ok" THEN {d}
              ELSE {d, IF d.server = c THEN d ELSE News([d EXCEPT !.server = c])}
  BY DEF Do
<1>2. Ready(d) /\ d.connection # Null
  BY CommandOutcome
<1>3. CASE r = d  BY <1>2, <1>3
<1>4. CASE d.connection = "ok" /\ r = News([d EXCEPT !.server = c])
  <2> DEFINE e == [d EXCEPT !.server = c]
  <2>1. /\ e \in MpdType /\ e.server = c /\ e.connection = "ok" /\ e.idling = d.idling /\ e.fate = "alive"
    BY <1>2, <1>4 DEF Ready, MpdType
  <2>2. r = News(e)
    BY <1>4
  <2> HIDE DEF e
  <2>3. r \in MpdType
    BY <2>1, <2>2, NewsInType
  <2>4. r.server = c /\ r.connection = "ok" /\ r.idling = d.idling /\ r.fate = "alive"
    BY <2>1, <2>2 DEF News, MpdType
  <2>5. ~d.idling /\ c # "down"
    BY <1>2, <1>4 DEF Ready, Plays
  <2> QED  BY <2>3, <2>4, <2>5 DEF Ready, ServerUp, Null
<1> QED  BY <1>1, <1>3, <1>4

LEMMA ObeyOutcome ==
  ASSUME Rests(mpd), Alive, mpd.connection # Null, NEW c \in Plays, NEW r \in Obey(mpd, c)
  PROVE  Rests(r)
<1> DEFINE done == IF mpd.watch THEN Then(Noidle(mpd), LAMBDA n : Do(n, c))
                   ELSE IF mpd.timer THEN Do(mpd, c) ELSE {mpd}
<1>1. PICK d \in done : r \in IF d.fate = "alive" THEN SetState(d, Target[c]) ELSE {d}
  BY DEF Obey, Then
<1>2. (Ready(d) /\ d.connection # Null) \/ Thrown(d)
  <2>1. CASE mpd.watch
    <3>1. PICK n \in Noidle(mpd) : d \in IF n.fate = "alive" THEN Do(n, c) ELSE {n}
      BY <2>1 DEF Then
    <3>2. Answered(n) \/ Thrown(n)
      BY <2>1, AliveFits, NoidleOutcome
    <3>3. CASE Answered(n)
      <4>1. Ready(n) /\ n.connection # Null /\ n.fate = "alive"
        BY <3>3 DEF Answered, Ready, Null
      <4> QED  BY <3>1, <4>1, DoOutcome
    <3>4. CASE Thrown(n)
      BY <3>1, <3>4 DEF Thrown
    <3> QED  BY <3>2, <3>3, <3>4
  <2>2. CASE ~mpd.watch
    <3>1. Ready(mpd)
      BY <2>2, AliveFits
    <3> QED  BY <2>2, <3>1, DoOutcome
  <2> QED  BY <2>1, <2>2
<1>3. Target[c] \in {"Playing", "Paused", "Stopped"}
  BY DEF Target, Plays
<1>4. CASE Ready(d) /\ d.connection # Null
  <2>1. r \in SetState(d, Target[c])
    BY <1>1, <1>4 DEF Ready
  <2> QED  BY <1>3, <1>4, <2>1, SetStateEnds DEF Ended
<1>5. CASE Thrown(d)
  BY <1>1, <1>5 DEF Thrown, Rests
<1> HIDE DEF done
<1> QED  BY <1>2, <1>4, <1>5

\* A change of the other fields leaves the sources as they are.
LEMMA SourcesStay ==
  ASSUME Rests(mpd), Alive, NEW r \in MpdType, ServerUp(r),
         r.state = mpd.state, r.timer = mpd.timer, r.watch = mpd.watch,
         r.connection = mpd.connection, r.idling = mpd.idling
  PROVE  Rests(r)
BY DEF Rests, Fits, Alive

LEMMA OutsideKeeps ==
  ASSUME Rests(mpd), ServerChanges \/ ConnectionDrops \/ ServerStartsOrStops
  PROVE  Rests(mpd')
<1>1. mpd \in MpdType /\ Alive
  BY DEF Rests, ServerChanges, ConnectionDrops, ServerStartsOrStops
<1>2. Fits(mpd)
  BY <1>1, AliveFits
<1>3. CASE ServerChanges
  <2>1. PICK s \in Plays : mpd' = News([mpd EXCEPT !.server = s])
    BY <1>3 DEF ServerChanges, Step
  <2> DEFINE e == [mpd EXCEPT !.server = s]
  <2>2. e \in MpdType /\ e.server = s /\ e.connection = mpd.connection /\ e.idling = mpd.idling
        /\ e.state = mpd.state /\ e.timer = mpd.timer /\ e.watch = mpd.watch
    BY <1>1 DEF MpdType
  <2>3. mpd' = News(e)
    BY <2>1
  <2> HIDE DEF e
  <2>4. mpd' \in MpdType
    BY <2>2, <2>3, NewsInType
  <2>5. /\ mpd'.server = s /\ mpd'.connection = mpd.connection /\ mpd'.idling = mpd.idling
        /\ mpd'.state = mpd.state /\ mpd'.timer = mpd.timer /\ mpd'.watch = mpd.watch
    BY <2>2, <2>3 DEF News, MpdType
  <2>6. ServerUp(mpd')
    BY <2>5 DEF ServerUp, Plays
  <2> QED  BY <1>1, <2>4, <2>5, <2>6, SourcesStay
<1>4. CASE ConnectionDrops
  <2>1. PICK s \in {mpd.server, "down"} : mpd' = [mpd EXCEPT !.connection = "lost", !.server = s]
    BY <1>4 DEF ConnectionDrops, Step
  <2>2. /\ mpd' \in MpdType /\ mpd'.connection = "lost"
        /\ mpd'.state = mpd.state /\ mpd'.timer = mpd.timer /\ mpd'.watch = mpd.watch
    BY <1>1, <2>1 DEF MpdType
  <2> QED  BY <1>2, <2>2 DEF Rests, Fits, ServerUp, Null
<1>5. CASE ServerStartsOrStops
  <2>1. PICK s \in Plays \cup {"down"} :
          /\ mpd' = [mpd EXCEPT !.server = s]
          /\ s = "down" => mpd.connection = Null
    BY <1>5 DEF ServerStartsOrStops, Step, Plays
  <2>2. /\ mpd' \in MpdType /\ mpd'.server = s /\ mpd'.connection = mpd.connection /\ mpd'.idling = mpd.idling
        /\ mpd'.state = mpd.state /\ mpd'.timer = mpd.timer /\ mpd'.watch = mpd.watch
    BY <1>1, <2>1 DEF MpdType
  <2>3. ServerUp(mpd')
    BY <2>1, <2>2 DEF ServerUp, Null
  <2> QED  BY <1>1, <2>2, <2>3, SourcesStay
<1> QED  BY <1>3, <1>4, <1>5

LEMMA UpdateKeeps == ASSUME MpdInv, Update PROVE MpdInv'
<1>1. mpd \in MpdType /\ Alive /\ Fits(mpd) /\ Rests(mpd)
  BY AliveFits DEF MpdInv, Rests, Update
<1>2. mpd.emits - 1 \in 0..MaxEmits
  BY <1>1, MaxEmitsAssumption DEF Update, MpdType, MaxEmitsAssumption
<1>3. PICK fate \in {"alive", "null"} : mpd' = [mpd EXCEPT !.emits = @ - 1, !.fate = fate]
  BY <1>1 DEF Update, Alive
<1>4. mpd' \in MpdType
  <2>1. \A e \in 0..MaxEmits : [mpd EXCEPT !.emits = e, !.fate = fate] \in MpdType
    BY <1>1 DEF MpdType
  <2> QED  BY <1>2, <1>3, <2>1
<1>5. /\ mpd'.server = mpd.server /\ mpd'.connection = mpd.connection /\ mpd'.idling = mpd.idling
      /\ mpd'.state = mpd.state /\ mpd'.timer = mpd.timer /\ mpd'.watch = mpd.watch
  BY <1>1, <1>3 DEF MpdType
<1>6. ServerUp(mpd')
  BY <1>1, <1>5 DEF Fits, ServerUp
<1>7. Rests(mpd')
  BY <1>1, <1>4, <1>5, <1>6, SourcesStay
<1>8. shown' \in Plays \cup {"unknown", "nothing", "hidden"}
  BY <1>1 DEF Update, MpdInv, MpdType
<1> QED  BY <1>7, <1>8 DEF Update, MpdInv

LEMMA MpdStarts == Init => MpdInv
<1> SUFFICES ASSUME Init PROVE MpdInv
  OBVIOUS
<1>1. PICK s \in Plays \cup {"down"}, k \in Plays \cup {"unknown"} :
        mpd = [state |-> "Disconnected", timer |-> TRUE, watch |-> FALSE, connection |-> Null,
               idling |-> FALSE, news |-> 0, server |-> s, known |-> k,
               status |-> FALSE, emits |-> 1, fate |-> "alive"]
  BY DEF Init
<1>2. 1 \in 0..MaxEmits /\ 0 \in 0..2
  BY MaxEmitsAssumption DEF MaxEmitsAssumption
<1>3. mpd \in MpdType
  BY <1>1, <1>2 DEF MpdType
<1>4. /\ mpd.state = "Disconnected" /\ mpd.timer = TRUE /\ mpd.watch = FALSE /\ mpd.connection = "null"
  BY <1>1 DEF Null
<1>5. mpd.timer = (mpd.state # "Idle") /\ mpd.watch = (mpd.state \in {"Idle", "Playing"})
  <2>1. (mpd.state \in {"Idle", "Playing"}) = FALSE /\ (mpd.state # "Idle") = TRUE
    BY <1>4
  <2> QED  BY <1>4, <2>1
<1>6. Rests(mpd)
  BY <1>3, <1>4, <1>5 DEF Rests, Fits, ServerUp
<1> QED  BY <1>6 DEF Init, MpdInv

LEMMA MpdKeeps == MpdInv /\ [Next]_vars => MpdInv'
<1> SUFFICES ASSUME MpdInv, [Next]_vars PROVE MpdInv'
  OBVIOUS
<1>0. Rests(mpd)
  BY DEF MpdInv
<1>1. CASE Timers
  <2>1. Rests(mpd')
    BY <1>0, <1>1, DisconnectedOnTimerKeeps, RestOnTimerKeeps, PlayingOnTimerKeeps DEF Timers, Ended
  <2>2. UNCHANGED <<shown, calm, dropped>>
    BY <1>1 DEF Timers, DisconnectedOnTimer, RestOnTimer, PlayingOnTimer, Step
  <2> QED  BY <2>1, <2>2 DEF MpdInv
<1>2. CASE Watches
  <2>1. Rests(mpd')
    BY <1>0, <1>2, IdleOnIoKeeps, PlayingOnIoKeeps DEF Watches, Ended
  <2>2. UNCHANGED <<shown, calm, dropped>>
    BY <1>2 DEF Watches, IdleOnIo, PlayingOnIo, Step
  <2> QED  BY <2>1, <2>2 DEF MpdInv
<1>3. CASE Update
  BY <1>3, UpdateKeeps
<1>4. ASSUME NEW b \in Buttons, HandlePlayPause(b) PROVE MpdInv'
  <2>1. PICK c \in Plays : mpd' \in Obey(mpd, c)
    BY <1>4 DEF HandlePlayPause, Plays
  <2>2. Rests(mpd')
    BY <1>0, <1>4, <2>1, ObeyOutcome DEF HandlePlayPause
  <2>3. dropped' \in BOOLEAN /\ UNCHANGED <<shown, calm>>
    BY <1>4 DEF HandlePlayPause
  <2> QED  BY <2>2, <2>3 DEF MpdInv
<1>5. CASE Clicked
  <2>1. mpd' = Emit(mpd) /\ mpd \in MpdType /\ Alive /\ Fits(mpd) /\ UNCHANGED <<shown, calm, dropped>>
    BY <1>0, <1>5, AliveFits DEF Clicked, Step
  <2>2. Rests(mpd')
    BY <1>0, <2>1, EmitKeeps, SourcesStay DEF Kept, ServerUp, Fits
  <2> QED  BY <2>1, <2>2 DEF MpdInv
<1>6. CASE ServerChanges \/ ConnectionDrops \/ ServerStartsOrStops
  <2>1. Rests(mpd')
    BY <1>0, <1>6, OutsideKeeps
  <2>2. UNCHANGED <<shown, calm, dropped>>
    BY <1>6 DEF ServerChanges, ConnectionDrops, ServerStartsOrStops, Step
  <2> QED  BY <2>1, <2>2 DEF MpdInv
<1>7. CASE Calm
  BY <1>7 DEF Calm, MpdInv
<1>8. CASE UNCHANGED vars
  BY <1>8 DEF vars, MpdInv
<1> QED  BY <1>1, <1>2, <1>3, <1>4, <1>5, <1>6, <1>7, <1>8 DEF Next

LEMMA MpdInvariant == Spec => []MpdInv
<1> QED  BY MpdStarts, MpdKeeps, PTL DEF Spec

-----------------------------------------------------------------------------
\* The fields hold what the source's types allow, and MPD's own state is never read from an
\* MPD that is down (state.hpp, mpd.hpp).
THEOREM MpdTypeCorrect == Spec => []MpdTypeOK
<1>1. MpdInv => MpdTypeOK
  BY DEF MpdInv, Rests, MpdTypeOK
<1> QED  BY <1>1, MpdInvariant, PTL

\* Between handlers each state has the sources it lives from and no other, and MPD is in "idle"
\* exactly while they wait for its answer, whatever calls failed and whatever was thrown
\* and caught on the way (state.cpp).
THEOREM StatesFit == Spec => []StateFits
<1>1. MpdInv => StateFits
  BY DEF MpdInv, Rests, Fits, Alive, StateFits, SourcesFit, IdlesOnlyWatched
<1> QED  BY <1>1, MpdInvariant, PTL
=============================================================================
