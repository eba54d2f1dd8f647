--------------------------- MODULE SafeSignalOrder --------------------------
(***************************************************************************)
(* SafeSignal with the history that its correctness is about: the queued    *)
(* emissions are numbered in the order the mutex admits them, and the       *)
(* module records which number the slots saw last.                          *)
(***************************************************************************)
EXTENDS SafeSignal

CONSTANT MaxSent  \* bound: emissions of the worker threads together

ASSUME BoundAssumption == MaxSent \in Nat
ASSUME EventAssumption == NoEvent = 0

VARIABLES sent,      \* number of queued emissions so far
          delivered  \* number of the queued emission the slots saw last

vars == <<signalVars, sent, delivered>>

Init ==
  /\ SignalInit
  /\ sent = 0
  /\ delivered = 0

Emit(t) ==
  /\ sent < MaxSent
  /\ Push(t, sent + 1)
  /\ sent' = sent + 1
  /\ UNCHANGED delivered

AnnounceEmit(t) == Announce(t) /\ UNCHANGED <<sent, delivered>>

EmitDirect == EmitMain /\ UNCHANGED <<sent, delivered>>

Deliver == Take /\ delivered' = Head(queue) /\ UNCHANGED sent

Loop == (Wakeup \/ SlotReturns \/ Drained) /\ UNCHANGED <<sent, delivered>>

Resize(limit) == SetMaxQueuedEvents(limit) /\ UNCHANGED <<sent, delivered>>

Next ==
  \/ \E t \in Thread : Emit(t) \/ AnnounceEmit(t)
  \/ EmitDirect
  \/ Deliver
  \/ Loop
  \/ \E limit \in Limit : Resize(limit)

Spec == Init /\ [][Next]_vars

\* As SignalFairness, for the actions with history.
Fairness ==
  /\ WF_vars(Deliver)
  /\ WF_vars(Loop)
  /\ \A t \in Thread : WF_vars(AnnounceEmit(t))

FairSpec == Spec /\ Fairness

-----------------------------------------------------------------------------
TypeOK ==
  /\ queue \in Seq(Nat)
  /\ max_queued_events \in Limit \cup {InitialLimit}
  /\ wakeups \in 0..PipeCapacity
  /\ emitter \in [Thread -> EmitterPC]
  /\ main \in MainPC
  /\ args \in Nat
  /\ sent \in 0..MaxSent
  /\ delivered \in 0..MaxSent

\* The queue respects the limit in force, also right after the limit is lowered
\* while a burst is queued (emit and set_max_queued_events trim in two ways).
QueueBounded ==
  max_queued_events # 0 => Len(queue) <= max_queued_events

\* Nothing is stranded: an emission in the queue has somebody left to fetch it,
\* an announcement in the pipe, a thread about to write one, or a handle_event()
\* that will look at the queue again before it returns.
NoLostWakeup ==
  queue # <<>> =>
    \/ wakeups > 0
    \/ main # "loop"
    \/ \E t \in Thread : emitter[t] = "announce"

\* The queue is exactly the newest emissions, in the order they were made:
\* overflow and trimming take from the old end only and leave no hole.
NewestSuffix ==
  \A i \in DOMAIN queue : queue[i] = sent - Len(queue) + i

\* Everything the slots have seen is older than everything they will still see:
\* in order and never twice, although the mutex is released for every slot call.
InOrder ==
  \A i \in DOMAIN queue : delivered < queue[i]

\* A SafeSignal implements the lossy channel its listeners rely on.
Channel == INSTANCE LossyChannel WITH
  sent <- sent, first <- sent + 1 - Len(queue),
  delivered <- delivered, capacity <- max_queued_events

ChannelSpec == Channel!FairSpec
=============================================================================
