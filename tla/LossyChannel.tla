---------------------------- MODULE LossyChannel ----------------------------
(***************************************************************************)
(* What a SafeSignal promises the code that listens to it, whatever the     *)
(* threads, the mutex and the dispatcher do.  Emissions are numbered in the *)
(* order they are made.  What is still to be delivered is always the window *)
(* first..sent of the newest emissions: an emission leaves the window at    *)
(* its old end only, because it is delivered or because the channel is full.*)
(* A channel that holds something is eventually read.                       *)
(***************************************************************************)
EXTENDS Naturals

CONSTANTS Limit, InitialLimit

VARIABLES sent,       \* number of emissions made
          first,      \* number of the oldest emission still held
          delivered,  \* number of the last emission delivered
          capacity    \* most emissions held at a time; 0 is "no limit"

vars == <<sent, first, delivered, capacity>>

Held == sent + 1 - first

\* The oldest number a window ending at s may start with.
Oldest(f, s, c) == IF c # 0 /\ f + c <= s THEN s + 1 - c ELSE f

Init == sent = 0 /\ first = 1 /\ delivered = 0 /\ capacity = InitialLimit

Send ==
  /\ sent' = sent + 1
  /\ first' = Oldest(first, sent', capacity)
  /\ UNCHANGED <<delivered, capacity>>

Deliver ==
  /\ first <= sent
  /\ delivered' = first
  /\ first' = first + 1
  /\ UNCHANGED <<sent, capacity>>

Resize(limit) ==
  /\ capacity' = limit
  /\ first' = Oldest(first, sent, limit)
  /\ UNCHANGED <<sent, delivered>>

Next == Send \/ Deliver \/ \E limit \in Limit : Resize(limit)

Spec == Init /\ [][Next]_vars

FairSpec == Spec /\ WF_vars(Deliver)
=============================================================================
