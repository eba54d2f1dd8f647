---------------------------------- MODULE Mpris ----------------------------------
(***************************************************************************)
(* src/modules/mpris/mpris.cpp: the label of a media player, either the one   *)
(* named by the config or, for "playerctld", the one to be shown of all.      *)
(*                                                                         *)
(* A named player's object is made when its name appears; the module keeps    *)
(* player, and last_active_player_, which only update() and clicks set.        *)
(* Signals of any object that still lives reach the module.                  *)
(***************************************************************************)
EXTENDS Naturals, Sequences, SequencesExt, FiniteSets

CONSTANTS Player,
          Proxy,           \* playerctld: the name, not a player's
          MprisConfigs,    \* [player, ignored: players, interval: BOOLEAN, dynamicLen, order, prio]
          MprisTracks,     \* [ok: metadata can be read, artist, album, title, length, position: widths]
          SeparatorLen,
          MaxMprisNews

ASSUME MprisAssumption ==
  /\ IsFiniteSet(Player) /\ Proxy \notin Player /\ MaxMprisNews \in Nat
  /\ \A c \in MprisConfigs : c.player \in Player \cup {Proxy} /\ c.interval \in BOOLEAN
  /\ \A t \in MprisTracks : t.ok \in BOOLEAN

VARIABLES mprisConfig,
          apps,           \* the players' status and track
          recency,        \* the players there are, the last active first (external: playerctld)
          mprisAlive,
          player, lastActive,   \* objects of a named player, 0: null
          mprisHandlers,  \* the objects that live and are connected
          mprisDp,
          justUpdated,    \* the last update was less than the interval ago
          mprisShown,
          mprisNews,
          mprisDropped,   \* history: an update came too soon, and none since
          mprisLost,      \* history: an object was lost with its handlers
          mprisTouched    \* history: a signal reached a module that is gone

mprisObjects == <<player, lastActive, mprisHandlers>>
mprisVars == <<mprisConfig, apps, recency, mprisAlive, mprisObjects, mprisDp, justUpdated, mprisShown, mprisNews,
               mprisDropped, mprisLost, mprisTouched>>

-----------------------------------------------------------------------------
(* getDynamicStr(): the tags that fit, by importance, and the text.            *)

\* Each tag counts with a separator; the title's is counted with the album, and the time's
\* second half needs two less.
Counted(track, shows) ==
  LET sep(tag) == IF tag \in shows THEN SeparatorLen ELSE 0 IN
  [track EXCEPT !.artist = @ + sep("artist"), !.album = @ + sep("album") + sep("title"),
                !.length = @ + sep("length"), !.position = @ + sep("position")]

TagsThatFit(c, track) ==
  LET shows == {tag \in ToSet(c.order) : track[tag] # 0}
      less(n) == IF n < 2 THEN 0 ELSE n - 2
      shorter(w, tag) == CASE tag = "length" -> [w EXCEPT !.position = less(@)]
                           [] tag = "position" -> [w EXCEPT !.length = less(@)]
                           [] OTHER -> w
      take(acc, tag) ==
        IF acc.total + acc.w[tag] > c.dynamicLen + SeparatorLen THEN [acc EXCEPT !.shows = @ \ {tag}]
        ELSE IF tag \notin acc.shows THEN acc
        ELSE [shows |-> acc.shows, total |-> acc.total + acc.w[tag], w |-> shorter(acc.w, tag)]
  IN FoldLeft(take, [shows |-> shows, total |-> 0, w |-> Counted(track, shows)], c.prio).shows

Times == {"length", "position"}

\* The time is written once, where the first of its tags comes.
GetDynamicStr(c, track) ==
  LET shows == TagsThatFit(c, track)
      time(prev) == (IF prev THEN <<" ">> ELSE <<>>) \o <<"[">> \o
                    (IF "position" \in shows THEN <<"position">> ELSE <<>>) \o
                    (IF Times \subseteq shows THEN <<"/">> ELSE <<>>) \o
                    (IF "length" \in shows THEN <<"length">> ELSE <<>>) \o <<"]", " ">>
      write(acc, tag) ==
        [text |-> CASE tag \in Times -> IF ~acc.timed /\ shows \cap Times # {} THEN acc.text \o time(acc.prev) ELSE acc.text
                    [] tag \notin Times /\ tag \in shows ->
                         acc.text \o (IF acc.prev /\ acc.last \notin Times THEN <<"separator">> ELSE <<>>) \o <<tag>>
                    [] OTHER -> acc.text,
         prev |-> acc.prev \/ (tag \in shows \ Times), last |-> tag,
         timed |-> acc.timed \/ (tag \in Times /\ shows \cap Times # {})]
  IN FoldLeft(write, [text |-> <<>>, prev |-> FALSE, last |-> "", timed |-> FALSE], c.order).text

\* The width of a text; brackets and spaces count one each.
TextWidth(track, text) ==
  LET width(part) == IF part \in DOMAIN track \ {"ok"} THEN track[part] ELSE IF part = "separator" THEN SeparatorLen ELSE 1
  IN FoldLeft(LAMBDA n, part : n + width(part), 0, text)

-----------------------------------------------------------------------------
NamedPlayer == mprisConfig.player # Proxy

NobodyPlays == [who |-> Proxy]

\* Of all players the first that plays, else the first.
FirstActive(r, a) ==
  LET listed == SelectInSeq(r, LAMBDA p : p \notin mprisConfig.ignored)
      plays == SelectInSeq(r, LAMBDA p : p \notin mprisConfig.ignored /\ a[p].status = "playing")
      of(p) == [who |-> p, status |-> a[p].status, track |-> a[p].track]
  IN IF listed = 0 THEN NobodyPlays ELSE of(r[IF plays # 0 THEN plays ELSE listed])

\* getPlayerInfo()
PlayerInfo ==
  LET i == IF ~NamedPlayer THEN FirstActive(recency, apps)
           ELSE IF player = 0 \/ mprisConfig.player \in mprisConfig.ignored \/ mprisConfig.player \notin ToSet(recency) THEN NobodyPlays
           ELSE [who |-> mprisConfig.player, status |-> apps[mprisConfig.player].status, track |-> apps[mprisConfig.player].track]
  IN IF i # NobodyPlays /\ ~i.track.ok THEN NobodyPlays ELSE i

\* .. also releases the player that was shown before.
GetPlayerInfo ==
  IF player = 0 \/ ~NamedPlayer THEN UNCHANGED mprisObjects
  ELSE /\ lastActive' = IF mprisConfig.player \notin mprisConfig.ignored THEN player
                        ELSE IF lastActive = player THEN player ELSE 0
       /\ mprisHandlers' = mprisHandlers \ ({lastActive} \ {player})
       /\ UNCHANGED player

-----------------------------------------------------------------------------
(* Players, and what the module hears of them.                               *)

First(p) == <<p>> \o RemoveFirst(recency, p)

\* A signal of player p: the proxy's, or those of the objects that have its name.
Signalled(p) ==
  LET hears == IF NamedPlayer THEN mprisConfig.player = p /\ mprisHandlers # {} ELSE mprisHandlers # {} IN
  /\ mprisDp' = (mprisDp \/ (hears /\ mprisAlive))
  /\ mprisTouched' = (mprisTouched \/ (hears /\ ~mprisAlive))

News == mprisNews < MaxMprisNews /\ mprisNews' = mprisNews + 1

\* onPlayerNameAppeared()
AppAppears(p, s, t) ==
  /\ News /\ p \notin ToSet(recency)
  /\ apps' = [apps EXCEPT ![p] = [status |-> s, track |-> t]] /\ recency' = First(p)
  /\ IF NamedPlayer /\ p = mprisConfig.player /\ mprisAlive
     THEN LET kept == mprisHandlers \ {player}
              new == CHOOSE o \in 1..(MaxMprisNews + 1) : o \notin kept \cup {lastActive} IN
          /\ player' = new /\ mprisHandlers' = kept \cup {new}
          /\ lastActive' = IF lastActive = player THEN 0 ELSE lastActive
          /\ mprisDp' = TRUE /\ UNCHANGED mprisTouched
     ELSE UNCHANGED mprisObjects /\ Signalled(p)
  /\ UNCHANGED <<mprisConfig, mprisAlive, justUpdated, mprisShown, mprisDropped, mprisLost>>

\* onPlayerNameVanished(): the player is forgotten, not disconnected.
AppVanishes(p) ==
  /\ News /\ p \in ToSet(recency)
  /\ recency' = RemoveFirst(recency, p)
  /\ IF mprisAlive /\ NamedPlayer /\ p = mprisConfig.player
     THEN /\ player' = 0 /\ mprisDp' = TRUE
          /\ mprisLost' = (mprisLost \/ (player # 0 /\ lastActive # player))
     ELSE /\ mprisDp' = (mprisDp \/ (mprisAlive /\ ~NamedPlayer))
          /\ UNCHANGED <<player, mprisLost>>
  /\ UNCHANGED <<mprisConfig, apps, mprisAlive, lastActive, mprisHandlers, justUpdated, mprisShown, mprisDropped, mprisTouched>>

\* onPlayerPlay(), onPlayerPause(), onPlayerStop(), onPlayerMetadata()
AppChanges(p, s, t) ==
  /\ p \in ToSet(recency) /\ apps[p] # [status |-> s, track |-> t]
  /\ News
  /\ apps' = [apps EXCEPT ![p] = [status |-> s, track |-> t]] /\ recency' = First(p)
  /\ Signalled(p)
  /\ UNCHANGED <<mprisConfig, mprisAlive, justUpdated, mprisShown, mprisDropped, mprisLost>>

PlayerChanges(p, s, t) == AppChanges(p, s, t) /\ UNCHANGED mprisObjects

-----------------------------------------------------------------------------
\* handleToggle(): the player to be shown now is paused, or plays on.
MprisClicked ==
  /\ mprisAlive /\ PlayerInfo # NobodyPlays
  /\ GetPlayerInfo
  /\ LET i == PlayerInfo IN
     /\ News
     /\ apps' = [apps EXCEPT ![i.who].status = IF @ = "playing" THEN "paused" ELSE "playing"]
     /\ recency' = First(i.who)
     /\ mprisDp' = TRUE
  /\ UNCHANGED <<mprisConfig, mprisAlive, justUpdated, mprisShown, mprisDropped, mprisLost, mprisTouched>>

\* update(): a player that is stopped leaves what is shown.
MprisUpdate ==
  /\ mprisAlive /\ mprisDp /\ mprisDp' = FALSE
  /\ IF justUpdated
     THEN mprisDropped' = TRUE /\ UNCHANGED <<justUpdated, mprisObjects, mprisShown>>
     ELSE /\ justUpdated' = mprisConfig.interval /\ mprisDropped' = FALSE
          /\ GetPlayerInfo
          /\ LET i == PlayerInfo IN
             mprisShown' = IF i = NobodyPlays THEN [mprisShown EXCEPT !.visible = FALSE]
                           ELSE IF i.status = "stopped" THEN mprisShown
                           ELSE [visible |-> TRUE, who |-> i.who, status |-> i.status, track |-> i.track,
                                 text |-> GetDynamicStr(mprisConfig, i.track)]
  /\ UNCHANGED <<mprisConfig, apps, recency, mprisAlive, mprisNews, mprisLost, mprisTouched>>

\* thread_ updates again after each interval.
IntervalPasses ==
  /\ mprisConfig.interval /\ mprisAlive /\ justUpdated
  /\ justUpdated' = FALSE /\ mprisDp' = TRUE
  /\ UNCHANGED <<mprisConfig, apps, recency, mprisAlive, mprisObjects, mprisShown, mprisNews, mprisDropped, mprisLost, mprisTouched>>

\* The destructor disconnects the player, and releases the one that was shown.
MprisDestroyed ==
  /\ mprisAlive /\ mprisAlive' = FALSE /\ mprisDp' = FALSE
  /\ mprisHandlers' = mprisHandlers \ {player, lastActive} /\ player' = 0 /\ lastActive' = 0
  /\ UNCHANGED <<mprisConfig, apps, recency, justUpdated, mprisShown, mprisNews, mprisDropped, mprisLost, mprisTouched>>

-----------------------------------------------------------------------------
MprisInit ==
  /\ mprisConfig \in MprisConfigs
  /\ \E t \in MprisTracks : apps = [p \in Player |-> [status |-> "paused", track |-> t]]
  /\ \E here \in SUBSET Player : recency \in SetToSeqs(here)
  /\ mprisAlive = TRUE
  /\ LET there == mprisConfig.player = Proxy \/ mprisConfig.player \in ToSet(recency) IN
     player = (IF there THEN 1 ELSE 0) /\ mprisHandlers = (IF there THEN {1} ELSE {})
  /\ lastActive = 0 /\ mprisDp = TRUE /\ justUpdated = FALSE
  /\ mprisShown = [visible |-> FALSE]
  /\ mprisNews = 0 /\ mprisDropped = FALSE /\ mprisLost = FALSE /\ mprisTouched = FALSE

MprisNext ==
  \/ \E p \in Player, t \in MprisTracks, s \in {"playing", "paused", "stopped"} : AppAppears(p, s, t)
  \/ \E p \in Player : AppVanishes(p)
  \/ \E p \in Player, t \in MprisTracks, s \in {"playing", "paused", "stopped"} : PlayerChanges(p, s, t)
  \/ MprisClicked
  \/ MprisUpdate \/ IntervalPasses
  \/ MprisDestroyed

MprisSpec == MprisInit /\ [][MprisNext]_mprisVars

-----------------------------------------------------------------------------
MprisTypeOK ==
  /\ mprisConfig \in MprisConfigs /\ ToSet(recency) \subseteq Player
  /\ {mprisAlive, mprisDp, justUpdated, mprisDropped, mprisLost, mprisTouched} \subseteq BOOLEAN
  /\ {player, lastActive} \cup mprisHandlers \subseteq 0..(MaxMprisNews + 1) /\ mprisNews \in 0..MaxMprisNews

\* A signal reaches no module that is gone, unless a player vanished before it was ever shown
\* (its handlers are lost with it); and once no update is due, the module is hidden if there
\* is no player, and else shows the status and track of the one that plays, of those there
\* are, unless it is stopped (mpris.cpp:372-449, 451-622, 673-785).
MprisAgrees ==
  /\ mprisTouched => mprisLost
  /\ mprisAlive /\ ~mprisDp /\ ~mprisDropped =>
       LET playing == {p \in ToSet(recency) : apps[p].status = "playing"} \ mprisConfig.ignored
           shows == mprisShown.visible
           one == mprisConfig.player
           candidates == IF NamedPlayer THEN {one} \cap ToSet(recency) ELSE ToSet(recency)
       IN /\ candidates \subseteq mprisConfig.ignored => ~shows
          /\ ~NamedPlayer /\ playing # {} /\ (\A p \in playing : apps[p].track.ok) =>
                shows /\ mprisShown.who \in playing /\ mprisShown.status = "playing"
          /\ shows /\ mprisShown.who \in ToSet(recency) /\ apps[mprisShown.who].status # "stopped" =>
                LET who == mprisShown.who IN
                \/ mprisShown.status = apps[who].status /\ mprisShown.track = apps[who].track
                \/ ~NamedPlayer /\ FirstActive(recency, apps).status = "stopped"

\* man/waybar-mpris.5.scd:62-66: dynamic-len is the "Maximum length of the Dynamic tag".
DynamicFits ==
  mprisShown.visible /\ mprisConfig.order = <<"title", "artist", "album">> =>
    TextWidth(mprisShown.track, mprisShown.text) <= mprisConfig.dynamicLen
=============================================================================
