------------------------------ MODULE Gamemode ------------------------------
(***************************************************************************)
(* src/modules/gamemode.cpp: how many games the service counts.  Every     *)
(* signal leads to a call that reads the count anew; the service comes and *)
(* goes, and the module is shown and hidden outside of update() too.       *)
(***************************************************************************)
EXTENDS Naturals, Sequences

CONSTANTS MaxGames, MaxGameNews

VARIABLES hideNotRunning,   \* "hide-not-running"
          service,      \* GameMode: [runs, games]
          gameInbox,    \* what D-Bus is to dispatch: "appear", "disappear", "changed", "resume"
          gamemodeRunning, gameCount,
          gameDp, gameShown,
          gameNews,
          gamesMissed   \* history: the count could not be read, or its service was away

gameModel == <<gamemodeRunning, gameCount, gameDp, gameShown>>
gameVars == <<hideNotRunning, service, gameInbox, gameModel, gameNews, gamesMissed>>

-----------------------------------------------------------------------------
GameNewsComes(what) ==
  /\ gameNews < MaxGameNews /\ gameNews' = gameNews + 1
  /\ gameInbox' = Append(gameInbox, what)
  /\ UNCHANGED <<hideNotRunning, gameModel, gamesMissed>>

GamesChange(n) == service.runs /\ n # service.games /\ service' = [service EXCEPT !.games = n] /\ GameNewsComes("changed")
ServiceStarts(n) == ~service.runs /\ service' = [runs |-> TRUE, games |-> n] /\ GameNewsComes("appear")
ServiceStops == service.runs /\ service' = [runs |-> FALSE, games |-> 0] /\ GameNewsComes("disappear")
SystemResumes == service' = service /\ GameNewsComes("resume")

-----------------------------------------------------------------------------
\* getData(): what cannot be read is no game.
GetData(running, reads) ==
  /\ gameCount' = IF running /\ service.runs /\ reads THEN service.games ELSE 0
  /\ gamesMissed' = (running /\ ~reads)

Dispatched(what) == gameInbox # <<>> /\ Head(gameInbox) = what /\ gameInbox' = Tail(gameInbox)
                      /\ UNCHANGED <<hideNotRunning, service, gameNews>>

\* notify_cb(), prepareForSleep_cb()
NotifyCbGame(what, reads) ==
  /\ Dispatched(what)
  /\ GetData(gamemodeRunning, reads) /\ gameDp' = TRUE
  /\ UNCHANGED <<gamemodeRunning, gameShown>>

\* appear()
Appear(reads) ==
  /\ Dispatched("appear")
  /\ gamemodeRunning' = TRUE /\ gameShown' = [gameShown EXCEPT !.visible = TRUE]
  /\ GetData(TRUE, reads) /\ gameDp' = TRUE

\* disappear(): the count stays.
Disappear ==
  /\ Dispatched("disappear")
  /\ gamemodeRunning' = FALSE /\ gameShown' = [gameShown EXCEPT !.visible = FALSE]
  /\ UNCHANGED <<gameCount, gameDp, gamesMissed>>

\* handleToggle() switches to the other format.
GameToggle ==
  /\ ~gameDp /\ gameDp' = TRUE
  /\ UNCHANGED <<hideNotRunning, service, gameInbox, gamemodeRunning, gameCount, gameShown, gameNews, gamesMissed>>

\* update()
GameUpdate ==
  /\ gameDp /\ gameDp' = FALSE
  /\ gameShown' = IF ~gamemodeRunning \/ (gameCount = 0 /\ hideNotRunning)
                  THEN [gameShown EXCEPT !.visible = FALSE]
                  ELSE [visible |-> TRUE, count |-> gameCount]
  /\ UNCHANGED <<hideNotRunning, service, gameInbox, gamemodeRunning, gameCount, gameNews, gamesMissed>>

-----------------------------------------------------------------------------
\* Watching the name starts with what it is; the bar asks for an update of a new module.
GameInit ==
  /\ hideNotRunning \in BOOLEAN
  /\ service \in {[runs |-> FALSE, games |-> 0]} \cup {[runs |-> TRUE, games |-> n] : n \in 0..MaxGames}
  /\ gameInbox = <<IF service.runs THEN "appear" ELSE "disappear">>
  /\ gamemodeRunning = FALSE /\ gameCount = 0 /\ gameDp = TRUE
  /\ gameShown = [visible |-> TRUE, count |-> 0] /\ gameNews = 0 /\ gamesMissed = FALSE

GameNext ==
  \/ \E n \in 0..MaxGames : GamesChange(n)
  \/ \E n \in 0..MaxGames : ServiceStarts(n)
  \/ ServiceStops \/ SystemResumes
  \/ \E what \in {"changed", "resume"}, reads \in BOOLEAN : NotifyCbGame(what, reads)
  \/ \E reads \in BOOLEAN : Appear(reads)
  \/ Disappear \/ GameToggle \/ GameUpdate

GameSpec == GameInit /\ [][GameNext]_gameVars

-----------------------------------------------------------------------------
GameTypeOK ==
  /\ {hideNotRunning, gamemodeRunning, gameDp, gamesMissed} \subseteq BOOLEAN
  /\ gameCount \in 0..MaxGames /\ gameNews \in 0..MaxGameNews

\* Once every signal is dispatched and every update done, the module is shown exactly if the
\* service runs and has games, or is to be shown without, and it shows their number, also
\* after it was hidden while an update was due, unless the last count could not be read
\* (gamemode.cpp:115-189).
GamesAgree ==
  gameInbox = <<>> /\ ~gameDp /\ ~gamesMissed =>
    /\ gameShown.visible = (service.runs /\ (service.games > 0 \/ ~hideNotRunning))
    /\ gameShown.visible => gameShown.count = service.games
=============================================================================
