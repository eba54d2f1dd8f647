-------------------------------- MODULE Backlight --------------------------------
(***************************************************************************)
(* src/util/backlight_backend.cpp, src/modules/backlight.cpp and               *)
(* src/modules/backlight_slider.cpp: a thread keeps a list of devices from     *)
(* udev's events and, when there are none for an interval, from sysfs; the      *)
(* main thread shows the best of them, and sets its brightness.               *)
(***************************************************************************)
EXTENDS Integers, Sequences, SequencesExt

CONSTANTS BlDevice,
          MaxBrightness, Screen,   \* a device's maximum, and the devices in the subsystem "backlight"
          BlConfigs,      \* [preferred: a device or "", slider, step, min, max: percent]
          MaxBlNews, MaxBlSets

VARIABLES blConfig,
          sysBl,          \* sysfs: [here, actual, powered] of each device
          blEvents,       \* udev's events: the devices they are about
          blDevices,      \* devices_: [name, actual, max, powered], in the order they were found
          blDp,
          previousBest, blVisible, blPercent,
          blScale,        \* the slider: it moves by whole percents
          blNews, blSets,
          blDue,          \* history: a device changed, or the slider moved, without an event, and
                          \* no poll came since
          blLost,         \* history: a device came before the monitor was there
          blPowerOnly     \* history: the device shown was switched, at the same brightness

blPast == <<blDue, blLost, blPowerOnly>>
blVars == <<blConfig, sysBl, blEvents, blDevices, blDp, previousBest, blVisible, blPercent, blScale, blNews, blSets, blPast>>

NoDevice == [name |-> ""]
Percent(n, of) == IF of = 0 THEN 0 ELSE (200 * n + of) \div (2 * of)     \* round(100 n / of)
FromPercent(p, of) == (2 * p * of + 100) \div 200                         \* round(p of / 100)

Tracked(ds) == {ds[i].name : i \in DOMAIN ds}

\* upsert_device(): of a device that is gone nothing can be read; it stays, or comes empty.
UpsertDevice(ds, d) ==
  LET s == sysBl[d]
      read == [name |-> d, actual |-> s.actual, max |-> MaxBrightness[d], powered |-> s.powered]
  IN IF d \in Tracked(ds)
     THEN [i \in DOMAIN ds |-> IF ds[i].name = d /\ s.here THEN read ELSE ds[i]]
     ELSE Append(ds, IF s.here THEN read ELSE [name |-> d, actual |-> 0, max |-> 0, powered |-> TRUE])

\* max_element(): the first of the largest.
Largest(ds, less(_, _)) == FoldLeft(LAMBDA best, e : IF best = NoDevice \/ less(best, e) THEN e ELSE best, NoDevice, ds)

Configured(ds) == SelectSeq(ds, LAMBDA e : e.name = blConfig.preferred)

\* best_device()
BestDevice(ds) ==
  IF Configured(ds) # <<>> THEN Configured(ds)[1]
  ELSE Largest(ds, LAMBDA l, r : IF (l.name \in Screen) # (r.name \in Screen) THEN r.name \in Screen ELSE l.max < r.max)

-----------------------------------------------------------------------------
(* Devices come, go and change; some changes make no event.                  *)

BlChanges(d, s, told) ==
  /\ blNews < MaxBlNews /\ blNews' = blNews + 1
  /\ s # sysBl[d] /\ (s.here # sysBl[d].here => told)
  /\ (s.here \/ sysBl[d].here) /\ s.actual <= MaxBrightness[d]
  /\ sysBl' = [sysBl EXCEPT ![d] = s]
  /\ blEvents' = IF told THEN Append(blEvents, d) ELSE blEvents
  /\ blDue' = (blDue \/ ~told)
  /\ UNCHANGED <<blConfig, blDevices, blDp, previousBest, blVisible, blPercent, blScale, blSets, blLost, blPowerOnly>>

\* udev_thread_: an event, and the update it asks for.
EventReceived ==
  /\ blEvents # <<>>
  /\ blDevices' = UpsertDevice(blDevices, Head(blEvents)) /\ blEvents' = Tail(blEvents)
  /\ blDp' = TRUE
  /\ UNCHANGED <<blConfig, sysBl, previousBest, blVisible, blPercent, blScale, blNews, blSets, blPast>>

\* .. or, with none for an interval, all devices in the list are read again.
PollTimesOut ==
  /\ blEvents = <<>>
  /\ blDevices' = FoldLeft(UpsertDevice, blDevices, [i \in DOMAIN blDevices |-> blDevices[i].name])
  /\ blDp' = TRUE /\ blDue' = FALSE
  /\ UNCHANGED <<blConfig, sysBl, blEvents, previousBest, blVisible, blPercent, blScale, blNews, blSets, blLost, blPowerOnly>>

-----------------------------------------------------------------------------
\* set_brightness_internal(), through logind, which does as it is told.
SetBrightness(best, value) ==
  LET d == best.name
      v == IF value < 0 THEN 0 ELSE IF value > best.max THEN best.max ELSE value
      acts == sysBl[d].here /\ sysBl[d].actual # v
  IN /\ blSets < MaxBlSets /\ blSets' = blSets + 1
     /\ sysBl' = IF acts THEN [sysBl EXCEPT ![d].actual = v] ELSE sysBl
     /\ blEvents' = IF acts THEN Append(blEvents, d) ELSE blEvents

\* BacklightSlider::onValueChanged(), which set_value() calls too: a brightness between two
\* percents, or outside of the slider's range, is set to one the slider can show.
OnValueSet(best, to) ==
  IF best = NoDevice \/ to = blScale THEN UNCHANGED <<sysBl, blEvents, blSets>>
  ELSE SetBrightness(best, FromPercent(to, best.max))

SameDevice(l, r) == l.name = r.name /\ (l # NoDevice => l.actual = r.actual /\ l.max = r.max)

\* Backlight::update(): a device that looks like the one before is not shown anew.
LabelUpdate ==
  /\ ~blConfig.slider /\ blDp /\ blDp' = FALSE
  /\ LET best == BestDevice(blDevices) IN
     IF SameDevice(best, previousBest)
     THEN /\ UNCHANGED <<previousBest, blVisible, blPercent>>
          /\ blPowerOnly' = (best # NoDevice /\ best.powered # previousBest.powered)
     ELSE /\ previousBest' = best /\ blPowerOnly' = FALSE
          /\ IF best = NoDevice THEN blPercent' = -1 /\ UNCHANGED blVisible
             ELSE /\ blVisible' = best.powered
                  /\ blPercent' = IF ~best.powered THEN blPercent
                                  ELSE IF best.max = 0 THEN 100 ELSE Percent(best.actual, best.max)
  /\ UNCHANGED <<blConfig, sysBl, blEvents, blDevices, blScale, blNews, blSets, blDue, blLost>>

\* The range of the adjustment.
InRange(p) == IF p < blConfig.min THEN blConfig.min ELSE IF p > blConfig.max THEN blConfig.max ELSE p

\* BacklightSlider::update()
SliderUpdate ==
  /\ blConfig.slider /\ blDp /\ blDp' = FALSE
  /\ LET best == BestDevice(blDevices)
         to == InRange(IF best = NoDevice THEN 0 ELSE Percent(best.actual, best.max))
     IN /\ blScale' = to
        /\ OnValueSet(best, to)
  /\ UNCHANGED <<blConfig, blDevices, previousBest, blVisible, blPercent, blNews, blPast>>

\* The user; a percent that makes no difference to the device makes no event either.
SliderMoved(to) ==
  /\ blConfig.slider /\ to # blScale /\ to = InRange(to) /\ blScale' = to
  /\ OnValueSet(BestDevice(blDevices), to)
  /\ blDue' = (blDue \/ sysBl' = sysBl)
  /\ UNCHANGED <<blConfig, blDevices, blDp, previousBest, blVisible, blPercent, blNews, blLost, blPowerOnly>>

\* handleScroll()
BlScrolled(up) ==
  /\ ~blConfig.slider
  /\ LET best == BestDevice(blDevices)
         step == FromPercent(blConfig.step, best.max)
         current == Percent(best.actual, best.max)
     IN /\ best # NoDevice /\ (up \/ current > blConfig.min)
        /\ SetBrightness(best, IF up THEN best.actual + step
                               ELSE IF current - blConfig.step < blConfig.min THEN FromPercent(blConfig.min, best.max)
                               ELSE best.actual - step)
  /\ UNCHANGED <<blConfig, blDevices, blDp, previousBest, blVisible, blPercent, blScale, blNews, blPast>>

-----------------------------------------------------------------------------
\* The constructor finds the devices there are; one may come before the thread has its monitor.
BlInit ==
  /\ blConfig \in BlConfigs
  /\ \E here \in SUBSET BlDevice, found \in SUBSET BlDevice :
       /\ found # {} /\ found \subseteq here
       /\ sysBl = [d \in BlDevice |-> [here |-> d \in here, actual |-> 1, powered |-> TRUE]]
       /\ blDevices = [i \in 1..Len(SetToSeq(found)) |->
                        LET d == SetToSeq(found)[i] IN [name |-> d, actual |-> 1, max |-> MaxBrightness[d], powered |-> TRUE]]
       /\ blLost = (found # here)
  /\ blEvents = <<>> /\ blDp = TRUE /\ previousBest = NoDevice
  /\ blVisible = TRUE /\ blPercent = -1 /\ blScale = 50
  /\ blNews = 0 /\ blSets = 0 /\ blDue = FALSE /\ blPowerOnly = FALSE

BlNext ==
  \/ \E d \in BlDevice : BlChanges(d, [sysBl[d] EXCEPT !.here = ~@], TRUE)
  \/ \E d \in BlDevice, v \in 0..3, told \in BOOLEAN : BlChanges(d, [sysBl[d] EXCEPT !.actual = v], told)
  \/ \E d \in BlDevice, told \in BOOLEAN : BlChanges(d, [sysBl[d] EXCEPT !.powered = ~@], told)
  \/ EventReceived \/ PollTimesOut
  \/ LabelUpdate \/ SliderUpdate
  \/ \E to \in {0, 50, 100} : SliderMoved(to)
  \/ \E up \in BOOLEAN : BlScrolled(up)

BlSpec == BlInit /\ [][BlNext]_blVars

-----------------------------------------------------------------------------
BlTypeOK ==
  /\ blConfig \in BlConfigs /\ Tracked(blDevices) \subseteq BlDevice
  /\ {blDp, blVisible, blDue, blLost, blPowerOnly} \subseteq BOOLEAN
  /\ blPercent \in -1..100 /\ blScale \in 0..100 /\ blNews \in 0..MaxBlNews /\ blSets \in 0..MaxBlSets

\* Every device is listed once.  Once events, polls and updates are done, and unless the device was
\* unplugged or only its power changed: the device shown is the one asked for or else a
\* screen if there is one, with its present brightness, hidden if it is off; the slider, which
\* answers every new value by setting it, also one it was given by an update, has come to rest
\* at the percent of the brightness there is, or at that end of its range
\* (backlight_backend.cpp:62-245, 299-345, backlight.cpp:27-83, backlight_slider.cpp:13-21).
BacklightAgrees ==
  /\ \A i, j \in DOMAIN blDevices : i # j => blDevices[i].name # blDevices[j].name
  /\ blEvents = <<>> /\ ~blDp /\ ~blDue /\ ~blLost =>
       LET best == BestDevice(blDevices)
           s == sysBl[best.name]
       IN best.name \in BlDevice /\ s.here =>
            /\ blConfig.preferred \in {d \in BlDevice : sysBl[d].here} => best.name = blConfig.preferred
            /\ blConfig.preferred \notin Tracked(blDevices) /\ (\E d \in Screen : sysBl[d].here) => best.name \in Screen
            /\ ~blConfig.slider /\ ~blPowerOnly =>
                 /\ blVisible = s.powered
                 /\ blVisible => blPercent = Percent(s.actual, MaxBrightness[best.name])
            /\ blConfig.slider => blScale = InRange(Percent(s.actual, MaxBrightness[best.name]))

\* What would have to hold for the slider to leave the brightness to others: it does not, for
\* it rounds what it cannot show, and sets again what the list, or itself, still has from before.
SliderKeepsBrightness == [][SliderUpdate => UNCHANGED sysBl]_blVars
=============================================================================
