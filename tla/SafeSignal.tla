----------------------------- MODULE SafeSignal -----------------------------
(***************************************************************************)
(* include/util/SafeSignal.hpp: a sigc::signal that other threads may emit. *)
(*                                                                         *)
(* An emission by a worker thread is queued under mutex_ and announced     *)
(* through a Glib::Dispatcher after the mutex is released; the main loop    *)
(* answers an announcement with handle_event, which pops the queue until it *)
(* is empty and calls the slots with the mutex released.  An emission by    *)
(* the main thread calls the slots at once and never sees the queue.        *)
(*                                                                         *)
(* Every critical section of the class is straight-line code without a      *)
(* blocking call, so each one is a single step here; the interleavings are  *)
(* those between a critical section and what the same thread does next.     *)
(***************************************************************************)
EXTENDS Naturals, Sequences

CONSTANTS Thread,        \* the worker threads that emit
          NoEvent,       \* value of args when no slot runs
          Limit,         \* arguments of set_max_queued_events; 0 is "unlimited"
          InitialLimit,  \* max_queued_events_ of a new signal (4096 in the code)
          PipeCapacity   \* announcements the dispatcher holds before it blocks

ASSUME LimitAssumption == Limit \subseteq Nat /\ InitialLimit \in Nat
ASSUME PipeAssumption  == PipeCapacity \in Nat \ {0}

VARIABLES queue,              \* queue_
          max_queued_events,  \* max_queued_events_
          wakeups,            \* announcements written and not yet read
          emitter,            \* where each worker thread is in emit()
          main,               \* where the main thread is: see MainPC
          args                \* the tuple handle_event() popped last

signalVars == <<queue, max_queued_events, wakeups, emitter, main, args>>

EmitterPC == {"idle", "announce"}
\* "loop": in the GLib main loop; "scan": in handle_event, about to lock;
\* "slot": in handle_event, mutex released, the slots are running.
MainPC == {"loop", "scan", "slot"}

-----------------------------------------------------------------------------
\* Mutants, each a slip this code could have had.
TrimmedNewest(q, limit) == \* trims the wrong end
  IF limit = 0 \/ Len(q) <= limit THEN q ELSE SubSeq(q, 1, limit)

\* trim_queue_locked(): pop the oldest entries until the limit is respected.
Trimmed(q, limit) ==
  IF limit = 0 \/ Len(q) <= limit THEN q
  ELSE SubSeq(q, Len(q) - limit + 1, Len(q))

\* The queue after the locked part of emit(): at the limit the oldest entry goes.
Pushed(q, limit, e) ==
  IF limit # 0 /\ Len(q) >= limit THEN Append(Tail(q), e) ELSE Append(q, e)

-----------------------------------------------------------------------------
SignalInit ==
  /\ queue = <<>>
  /\ max_queued_events = InitialLimit
  /\ wakeups = 0
  /\ emitter = [t \in Thread |-> "idle"]
  /\ main = "loop"
  /\ args = NoEvent

\* emit() on a worker thread, the locked part.
Push(t, e) ==
  /\ emitter[t] = "idle"
  /\ queue' = Pushed(queue, max_queued_events, e)
  /\ emitter' = [emitter EXCEPT ![t] = "announce"]
  /\ UNCHANGED <<max_queued_events, wakeups, main, args>>

AnnounceIfFirst(t) == \* mutant: announces if the queue it sees now has one entry
  /\ emitter[t] = "announce"
  /\ wakeups < PipeCapacity
  /\ wakeups' = IF Len(queue) = 1 THEN wakeups + 1 ELSE wakeups
  /\ emitter' = [emitter EXCEPT ![t] = "idle"]
  /\ UNCHANGED <<queue, max_queued_events, main, args>>

AnnounceNonBlocking(t) == \* mutant: does not wait for room in the pipe
  /\ emitter[t] = "announce"
  /\ wakeups' = wakeups + 1
  /\ emitter' = [emitter EXCEPT ![t] = "idle"]
  /\ UNCHANGED <<queue, max_queued_events, main, args>>

\* emit() on a worker thread, dp_.emit(): a blocking write to the pipe.
Announce(t) ==
  /\ emitter[t] = "announce"
  /\ wakeups < PipeCapacity
  /\ wakeups' = wakeups + 1
  /\ emitter' = [emitter EXCEPT ![t] = "idle"]
  /\ UNCHANGED <<queue, max_queued_events, main, args>>

\* emit() on the main thread, from the loop or from inside a slot: no queue.
EmitMain ==
  /\ main \in {"loop", "slot"}
  /\ UNCHANGED signalVars

\* The main loop reads one announcement and calls handle_event().
Wakeup ==
  /\ main = "loop"
  /\ wakeups > 0
  /\ wakeups' = wakeups - 1
  /\ main' = "scan"
  /\ UNCHANGED <<queue, max_queued_events, emitter, args>>

TakeWithoutPop == \* mutant: front() without pop()
  /\ main = "scan"
  /\ queue # <<>>
  /\ args' = Head(queue)
  /\ main' = "slot"
  /\ UNCHANGED <<queue, max_queued_events, wakeups, emitter>>

\* handle_event(): one turn of the loop, up to lock.unlock().
Take ==
  /\ main = "scan"
  /\ queue # <<>>
  /\ args' = Head(queue)
  /\ queue' = Tail(queue)
  /\ main' = "slot"
  /\ UNCHANGED <<max_queued_events, wakeups, emitter>>

\* The slots return, args goes out of scope, and the loop locks the mutex again.
SlotReturns ==
  /\ main = "slot"
  /\ main' = "scan"
  /\ args' = NoEvent
  /\ UNCHANGED <<queue, max_queued_events, wakeups, emitter>>

\* handle_event() finds the queue empty and returns to the main loop.
Drained ==
  /\ main = "scan"
  /\ queue = <<>>
  /\ main' = "loop"
  /\ UNCHANGED <<queue, max_queued_events, wakeups, emitter, args>>

\* set_max_queued_events(), called by the owner on the main thread.
SetMaxQueuedEvents(limit) ==
  /\ main \in {"loop", "slot"}
  /\ max_queued_events' = limit
  /\ queue' = Trimmed(queue, limit)
  /\ UNCHANGED <<wakeups, emitter, main, args>>

=============================================================================
