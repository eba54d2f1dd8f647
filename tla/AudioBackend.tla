------------------------------ MODULE AudioBackend ------------------------------
(***************************************************************************)
(* src/util/audio_backend.cpp with src/modules/pulseaudio.cpp and              *)
(* src/modules/pulseaudio_slider.cpp.                                        *)
(*                                                                         *)
(* The callbacks run on PulseAudio's thread under its mainloop lock: an event  *)
(* has the backend ask for what changed, and the answer, in the order the      *)
(* requests were made, changes the fields.  update() and clicks read the       *)
(* fields on the main thread without the lock.                               *)
(***************************************************************************)
EXTENDS Naturals, Sequences, SequencesExt

CONSTANTS PaSink, PaSource,
          PaConfigs,   \* [slider, zeroOnMute, unmute: unmute-on-volume-change, ignored: sinks,
                       \* mapping: a function from default sinks to sinks]
          MaxVolume,
          MaxPaNews, MaxPaSets   \* bounds on changes and lost connections, and on volumes the
                                 \* module sets

\* Sinks and sources are finitely many and have different names; sinks are mapped to sinks.
ASSUME PaAssumption ==
  /\ IsFiniteSet(PaSink) /\ IsFiniteSet(PaSource)
  /\ PaSink \cap PaSource = {} /\ "server" \notin PaSink \cup PaSource
  /\ \A c \in PaConfigs : \A d \in DOMAIN c.mapping : c.mapping[d] \in PaSink
  /\ MaxVolume \in Nat \ {0} /\ MaxPaNews \in Nat /\ MaxPaSets \in Nat

VARIABLES paConfig,
          pulse,        \* what the server has: defaults, volumes, muted and running sinks
          paState,      \* of context_: "connecting", "ready", "dead"
          paAsked,      \* the requests to the server
          paSaid,       \* its events and answers
          paSubscribed,
          backend,      \* the fields
          paDp, paReading,
          paShown, scale,
          paNews, paSets,
          paMissed,     \* history: the default changed before the server had subscribed us
          paMoved, paUnmuted   \* history: how often the user moved the slider, and it unmuted

paWire == <<paState, paAsked, paSaid, paSubscribed>>
paView == <<paDp, paReading, paShown, scale>>
paPast == <<paNews, paSets, paMissed, paMoved, paUnmuted>>
paVars == <<paConfig, pulse, paWire, backend, paView, paPast>>

PaNodes == PaSink \cup PaSource
Mapped(d) == IF d \in DOMAIN paConfig.mapping THEN paConfig.mapping[d] ELSE d

-----------------------------------------------------------------------------
(* The server.                                                             *)
Event(of) == IF paSubscribed THEN <<[kind |-> "changed", of |-> of]>> ELSE <<>>
InfoOf(p, n) == [kind |-> "info", of |-> n, volume |-> p.volume[n], muted |-> n \in p.muted, running |-> n \in p.running]

PulseChange(p, of) ==
  /\ paNews < MaxPaNews /\ paNews' = paNews + 1
  /\ p # pulse /\ pulse' = p /\ paSaid' = paSaid \o Event(of)
  /\ UNCHANGED <<paConfig, paState, paAsked, paSubscribed, backend, paView, paSets, paMoved, paUnmuted>>

Toggled(set, s) == IF s \in set THEN set \ {s} ELSE set \cup {s}

SinkChanges(s, p) == PulseChange(p, s) /\ UNCHANGED paMissed
VolumeChanges(s, v) == SinkChanges(s, [pulse EXCEPT !.volume[s] = v])
MuteChanges(s) == SinkChanges(s, [pulse EXCEPT !.muted = Toggled(@, s)])
RunningChanges(s) == SinkChanges(s, [pulse EXCEPT !.running = Toggled(@, s)])
SourceChanges(m, v) == PulseChange([pulse EXCEPT !.volume[m] = v], m) /\ UNCHANGED paMissed

DefaultsChange(s, m) ==
  /\ PulseChange([pulse EXCEPT !.default = s, !.source = m], "server")
  /\ paMissed' = (paMissed \/ (~paSubscribed /\ paState = "ready"))

\* The server answers the first request.
PulseAnswers ==
  /\ paAsked # <<>> /\ paState = "ready"
  /\ LET r == Head(paAsked)
         answer == CASE r.kind = "server" -> <<[kind |-> "defaults", sink |-> pulse.default, source |-> pulse.source]>>
                     [] r.kind = "info" -> <<InfoOf(pulse, r.of)>>
                     [] r.kind = "sinks" -> SetToSeq({InfoOf(pulse, s) : s \in PaSink})
                     [] r.kind = "sources" -> SetToSeq({InfoOf(pulse, s) : s \in PaSource})
                     [] OTHER -> <<>>
         next == CASE r.kind = "volume" -> [pulse EXCEPT !.volume[r.of] = r.to]
                   [] r.kind = "mute" -> [pulse EXCEPT !.muted = @ \ {r.of}]
                   [] OTHER -> pulse
         event == IF next # pulse THEN Event(r.of) ELSE <<>>
         done == IF r.kind = "volume" THEN <<[kind |-> "modified"]>> ELSE <<>>
     IN /\ pulse' = next
        /\ paSaid' = paSaid \o answer \o event \o done
        /\ paSubscribed' = (paSubscribed \/ r.kind = "subscribe")
  /\ paAsked' = Tail(paAsked)
  /\ UNCHANGED <<paConfig, paState, backend, paView, paPast>>

\* contextStateCb(): the server went away, and the context failed; a new context waits for it,
\* unless it cannot be made.
ContextFails(again) ==
  /\ paState # "dead" /\ paNews < MaxPaNews /\ paNews' = paNews + 1
  /\ paState' = IF again THEN "connecting" ELSE "dead"
  /\ paAsked' = <<>> /\ paSaid' = <<>> /\ paSubscribed' = FALSE
  /\ UNCHANGED <<paConfig, pulse, backend, paView, paSets, paMissed, paMoved, paUnmuted>>

ContextReady ==
  /\ paState = "connecting" /\ paState' = "ready"
  /\ paAsked' = <<[kind |-> "server"], [kind |-> "subscribe"]>>
  /\ paMissed' = FALSE
  /\ UNCHANGED <<paConfig, pulse, paSaid, paSubscribed, backend, paView, paNews, paSets, paMoved, paUnmuted>>

-----------------------------------------------------------------------------
(* The callbacks.                                                          *)

\* sinkInfoCb(): the sink to show is the default's mapping or, without one, the default.
Current(b, i) ==
  LET sounds == i.running IN
  IF b.default \in DOMAIN paConfig.mapping
  THEN IF i.of # Mapped(b.default) THEN b ELSE [b EXCEPT !.current = i.of, !.running = sounds]
  ELSE IF i.of \notin {b.default, b.current} THEN b
       ELSE LET r == IF b.current = i.of THEN sounds ELSE b.running IN
            IF ~r /\ sounds THEN [b EXCEPT !.current = i.of, !.running = TRUE] ELSE [b EXCEPT !.running = r]

SkipsSink(b, i) ==
  \/ i.of \in paConfig.ignored
  \/ b.default \in DOMAIN paConfig.mapping /\ i.of # Mapped(b.default)
  \/ b.default \notin DOMAIN paConfig.mapping /\ i.of \notin {b.default, b.current}

SinkInfoUnmapped(b, i) == \* mutant: the mapping is overlooked
  IF i.of \notin {b.default, b.current} \cup paConfig.ignored
  THEN b ELSE [b EXCEPT !.idx = i.of, !.volume = i.volume, !.muted = i.muted, !.current = i.of]

SinkInfo(b, i) ==
  IF i.of \in paConfig.ignored THEN [b EXCEPT !.running = @ /\ i.of # b.current]
  ELSE LET c == Current(b, i) IN
       IF ~SkipsSink(b, i) /\ c.current = i.of
       THEN [c EXCEPT !.idx = i.of, !.volume = i.volume, !.muted = i.muted] ELSE c

\* sourceInfoCb()
SourceInfo(b, i) == IF i.of = b.source THEN [b EXCEPT !.sourceVolume = i.volume] ELSE b

CallbackRuns ==
  /\ paSaid # <<>>
  /\ LET m == Head(paSaid)
         asks == CASE m.kind = "changed" -> <<IF m.of = "server" THEN [kind |-> "server"] ELSE [kind |-> "info", of |-> m.of]>>
                   [] m.kind = "modified" -> <<[kind |-> "info", of |-> backend.idx]>>
                   [] m.kind = "defaults" -> <<[kind |-> "sinks"], [kind |-> "sources"]>>
                   [] OTHER -> <<>>
         now == CASE m.kind = "defaults" -> [backend EXCEPT !.current = m.sink, !.default = m.sink, !.source = m.source]
                  [] m.kind = "info" /\ m.of \in PaSink -> SinkInfo(backend, m)
                  [] m.kind = "info" /\ m.of \in PaSource -> SourceInfo(backend, m)
                  [] OTHER -> backend
     IN /\ backend' = now
        /\ paAsked' = paAsked \o asks
        /\ paDp' = (paDp \/ (m.kind = "info" /\ (IF m.of \in PaSink THEN ~SkipsSink(backend, m) ELSE m.of = backend.source)))
  /\ paSaid' = Tail(paSaid)
  /\ UNCHANGED <<paConfig, pulse, paState, paSubscribed, paReading, paShown, scale, paPast>>

-----------------------------------------------------------------------------
(* The main thread.                                                        *)
Nothing == [volume |-> MaxVolume + 1]
MainFree == paReading = Nothing

\* PulseaudioSlider::onValueChanged(), which also the slider's own set_value() calls.
OnValueChanged(to, muted) ==
  LET acts == ~muted \/ to # 0
      unmutes == acts /\ paConfig.unmute
      ready == paState = "ready"
  IN /\ paSets < MaxPaSets
     /\ backend' = IF unmutes /\ ready THEN [backend EXCEPT !.muted = FALSE] ELSE backend
     /\ paAsked' = IF ~acts \/ ~ready THEN paAsked
                   ELSE paAsked \o (IF unmutes THEN <<[kind |-> "mute", of |-> backend.idx]>> ELSE <<>>)
                                \o <<[kind |-> "volume", of |-> backend.idx, to |-> to]>>
     /\ paUnmuted' = paUnmuted + (IF unmutes /\ ready /\ muted THEN 1 ELSE 0)
     /\ paSets' = paSets + (IF acts /\ ready THEN 1 ELSE 0)

\* update() reads the volume, and then the rest, while callbacks may run.
UpdateReads ==
  /\ MainFree /\ paDp /\ paDp' = FALSE
  /\ paReading' = [volume |-> backend.volume]
  /\ UNCHANGED <<paConfig, pulse, paWire, backend, paShown, scale, paPast>>

UpdateShows ==
  /\ ~MainFree /\ paReading' = Nothing
  /\ paShown' = [volume |-> paReading.volume, muted |-> backend.muted, source |-> backend.sourceVolume]
  /\ LET to == IF backend.muted /\ paConfig.zeroOnMute THEN 0 ELSE paReading.volume IN
     IF paConfig.slider /\ to # scale
     THEN scale' = to /\ OnValueChanged(to, backend.muted)
     ELSE UNCHANGED <<scale, backend, paAsked, paUnmuted, paSets>>
  /\ UNCHANGED <<paConfig, pulse, paState, paSaid, paSubscribed, paDp, paNews, paMissed, paMoved>>

UserMovesSlider(to) ==
  /\ MainFree /\ paConfig.slider /\ to # scale /\ scale' = to
  /\ paMoved < MaxPaSets /\ paMoved' = paMoved + 1
  /\ OnValueChanged(to, backend.muted)
  /\ UNCHANGED <<paConfig, pulse, paState, paSaid, paSubscribed, paDp, paReading, paShown, paNews, paMissed>>

ScrollBy(up) ==
  /\ MainFree /\ ~paConfig.slider /\ paState = "ready" /\ paSets < MaxPaSets
  /\ paSets' = paSets + 1
  /\ paAsked' = Append(paAsked, [kind |-> "volume", of |-> backend.idx, to |-> IF up THEN backend.volume + 1 ELSE backend.volume - 1])
  /\ UNCHANGED <<paConfig, pulse, paState, paSaid, paSubscribed, backend, paView, paNews, paMissed, paMoved, paUnmuted>>

PaScrollUnclamped(up) == (up \/ backend.volume > 0) /\ ScrollBy(up)   \* mutant: the maximum is overlooked

\* Pulseaudio::handleScroll(): changeVolume() by a step, within its limits.
PaHandleScroll(up) == (IF up THEN backend.volume < MaxVolume ELSE backend.volume > 0) /\ ScrollBy(up)

-----------------------------------------------------------------------------
\* The module exists and shows what it was told; no more than one sink is muted.
PaInit ==
  /\ paConfig \in PaConfigs
  /\ \E s \in PaSink, m \in PaSource, muted \in BOOLEAN :
       /\ s = Mapped(s) /\ s \notin paConfig.ignored
       /\ pulse = [default |-> s, source |-> m, volume |-> [n \in PaNodes |-> 1], muted |-> IF muted THEN {s} ELSE {}, running |-> {s}]
       /\ backend = [current |-> s, default |-> s, source |-> m, running |-> TRUE, idx |-> s,
                     volume |-> 1, muted |-> muted, sourceVolume |-> 1]
       /\ paShown = [volume |-> 1, muted |-> muted, source |-> 1]
       /\ scale = IF muted /\ paConfig.zeroOnMute THEN 0 ELSE 1
  /\ paState = "ready" /\ paAsked = <<>> /\ paSaid = <<>> /\ paSubscribed = TRUE
  /\ paDp = FALSE /\ paReading = Nothing
  /\ paNews = 0 /\ paSets = 0 /\ paMissed = FALSE /\ paMoved = 0 /\ paUnmuted = 0

PaNext ==
  \/ \E s \in PaSink, v \in 0..MaxVolume : VolumeChanges(s, v)
  \/ \E s \in PaSink : MuteChanges(s)
  \/ \E s \in PaSink : RunningChanges(s)
  \/ \E m \in PaSource, v \in 0..MaxVolume : SourceChanges(m, v)
  \/ \E s \in PaSink, m \in PaSource : DefaultsChange(s, m)
  \/ PulseAnswers
  \/ \E again \in BOOLEAN : ContextFails(again)
  \/ ContextReady
  \/ CallbackRuns
  \/ UpdateReads \/ UpdateShows
  \/ \E v \in 0..MaxVolume : UserMovesSlider(v)
  \/ \E up \in BOOLEAN : PaHandleScroll(up)

PaSpec == PaInit /\ [][PaNext]_paVars

-----------------------------------------------------------------------------
PaTypeOK ==
  /\ paConfig \in PaConfigs /\ paState \in {"connecting", "ready", "dead"}
  /\ {paSubscribed, paDp, paMissed} \subseteq BOOLEAN
  /\ pulse.volume \in [PaNodes -> 0..MaxVolume] /\ pulse.muted \subseteq PaSink
  /\ backend.volume \in 0..MaxVolume /\ backend.current \in PaSink /\ scale \in 0..MaxVolume
  /\ paNews \in 0..MaxPaNews /\ paSets \in 0..MaxPaSets

\* At rest, also after the server went and came back, the backend has the sink the default maps
\* to, unless it is ignored, and what is shown is that sink's volume and mute and the default
\* source's volume, however answers, changes and reads were ordered; excepted a default that
\* changed before the subscription (audio_backend.cpp:82-190, 215-345).
PaAgrees ==
  LET s == Mapped(pulse.default) IN
  paState = "ready" /\ paAsked = <<>> /\ paSaid = <<>> /\ ~paDp /\ MainFree /\ ~paMissed =>
    /\ paShown.source = pulse.volume[pulse.source]
    /\ s \notin paConfig.ignored =>
         /\ backend.idx = s
         /\ paShown.volume = pulse.volume[s] /\ paShown.muted = (s \in pulse.muted)
         /\ paConfig.slider =>
              \/ scale = IF s \in pulse.muted /\ paConfig.zeroOnMute THEN 0 ELSE pulse.volume[s]
              \/ s \in pulse.muted /\ scale = 0   \* where the user moved it: a muted sink ignores 0

\* man/waybar-pulseaudio-slider.5.scd:52: a muted sink is unmuted when its volume "is changed by
\* the user moving the slider".
UnmutesForTheUser == paUnmuted <= paMoved
=============================================================================
