-------------------------- MODULE SafeSignalProofs --------------------------
(***************************************************************************)
(* Proofs about SafeSignalOrder for every set of threads, every limit and   *)
(* every bound: its safety invariants, and that it implements LossyChannel. *)
(***************************************************************************)
EXTENDS SafeSignalOrder, SequenceTheorems, TLAPS

\* What the slots saw last is older than the whole queue: with NewestSuffix this
\* is the inductive form of InOrder.
Behind == delivered + Len(queue) <= sent

IInv == TypeOK /\ QueueBounded /\ NoLostWakeup /\ NewestSuffix /\ Behind

-----------------------------------------------------------------------------
\* The trimmed queue is the longest suffix of the queue that respects the limit.
LEMMA TrimmedSuffix ==
  ASSUME NEW q \in Seq(Nat), NEW limit \in Nat
  PROVE  /\ Trimmed(q, limit) \in Seq(Nat)
         /\ Len(Trimmed(q, limit)) =
              IF limit = 0 \/ Len(q) <= limit THEN Len(q) ELSE limit
         /\ \A i \in 1..Len(Trimmed(q, limit)) :
              Trimmed(q, limit)[i] = q[Len(q) - Len(Trimmed(q, limit)) + i]
<1>1. CASE limit = 0 \/ Len(q) <= limit
  <2>1. Trimmed(q, limit) = q /\ Len(q) \in Nat
    BY <1>1 DEF Trimmed
  <2>2. Len(Trimmed(q, limit)) = Len(q)
    BY <2>1
  <2>3. \A i \in 1..Len(q) : i = Len(q) - Len(q) + i
    BY <2>1
  <2> QED
    BY <1>1, <2>1, <2>2, <2>3
<1>2. CASE ~(limit = 0 \/ Len(q) <= limit)
  <2> DEFINE from == Len(q) - limit + 1
  <2>1. Len(q) \in Nat /\ from \in 1..Len(q)
    BY <1>2
  <2>2. \A i \in from..Len(q) : q[i] \in Nat
    BY <2>1
  <2>3. /\ SubSeq(q, from, Len(q)) \in Seq(Nat)
        /\ Len(SubSeq(q, from, Len(q))) = IF from <= Len(q) THEN Len(q) - from + 1 ELSE 0
        /\ \A i \in 1..Len(q) - from + 1 : SubSeq(q, from, Len(q))[i] = q[from + i - 1]
    <3> HIDE DEF from
    <3> QED BY <2>1, <2>2, SubSeqProperties
  <2>4. Trimmed(q, limit) = SubSeq(q, from, Len(q))
    BY <1>2 DEF Trimmed
  <2>5. Len(Trimmed(q, limit)) = limit
    BY <2>1, <2>3, <2>4
  <2> QED
    BY <1>2, <2>1, <2>3, <2>4, <2>5
<1> QED
  BY <1>1, <1>2

\* Pushing appends, and at the limit gives up the oldest entry.
LEMMA PushedSuffix ==
  ASSUME NEW q \in Seq(Nat), NEW limit \in Nat, NEW e \in Nat,
         limit # 0 => Len(q) <= limit, NEW p, p = Pushed(q, limit, e)
  PROVE  /\ p \in Seq(Nat)
         /\ Len(p) = IF limit # 0 /\ Len(q) = limit THEN Len(q) ELSE Len(q) + 1
         /\ p[Len(p)] = e
         /\ \A i \in 1..Len(p) - 1 : p[i] = q[Len(q) + 1 - Len(p) + i]
<1>1. CASE limit # 0 /\ Len(q) >= limit
  <2>1. Len(q) = limit /\ q # <<>>
    BY <1>1
  <2>2. Tail(q) \in Seq(Nat) /\ Len(Tail(q)) = Len(q) - 1
    BY <2>1, HeadTailProperties
  <2>3. \A i \in 1..Len(q)-1 : Tail(q)[i] = q[i+1]
    BY <2>1, <2>2, HeadTailProperties
  <2>4. Pushed(q, limit, e) = Append(Tail(q), e)
    BY <1>1 DEF Pushed
  <2>5. p = Append(Tail(q), e)
    BY <2>4
  <2> QED
    BY <1>1, <2>1, <2>2, <2>3, <2>5
<1>2. CASE ~(limit # 0 /\ Len(q) >= limit)
  <2>1. Pushed(q, limit, e) = Append(q, e)
    BY <1>2 DEF Pushed
  <2> QED
    BY <1>2, <2>1
<1> QED
  BY <1>1, <1>2

-----------------------------------------------------------------------------
LEMMA InitInvariant == Init => IInv
<1> SUFFICES ASSUME Init PROVE IInv
  OBVIOUS
<1>1. TypeOK
  BY LimitAssumption, PipeAssumption, BoundAssumption, EventAssumption
     DEF Init, SignalInit, TypeOK, EmitterPC, MainPC
<1>2. queue = <<>> /\ Len(queue) = 0 /\ DOMAIN queue = {} /\ sent = 0 /\ delivered = 0
  BY DEF Init, SignalInit
<1>3. max_queued_events \in Nat
  BY LimitAssumption DEF Init, SignalInit
<1> QED
  BY <1>1, <1>2, <1>3 DEF IInv, QueueBounded, NoLostWakeup, NewestSuffix, Behind

LEMMA NextInvariant == IInv /\ [Next]_vars => IInv'
<1> SUFFICES ASSUME IInv, [Next]_vars PROVE IInv'
  OBVIOUS
<1> USE DEF IInv
<1>0. /\ max_queued_events \in Nat
      /\ queue \in Seq(Nat) /\ Len(queue) \in Nat
      /\ sent \in Nat /\ delivered \in Nat /\ Len(queue) <= sent
  BY LimitAssumption, BoundAssumption DEF TypeOK, Behind
<1>1. ASSUME NEW t \in Thread, Emit(t) PROVE IInv'
  <2>1. /\ sent + 1 \in Nat /\ sent' = sent + 1 /\ sent' \in 0..MaxSent
        /\ queue' = Pushed(queue, max_queued_events, sent + 1)
        /\ emitter' = [emitter EXCEPT ![t] = "announce"]
        /\ UNCHANGED <<max_queued_events, wakeups, main, args, delivered>>
    BY <1>0, <1>1, BoundAssumption DEF Emit, Push, TypeOK
  <2>2. max_queued_events # 0 => Len(queue) <= max_queued_events
    BY DEF QueueBounded
  <2>3. /\ queue' \in Seq(Nat)
        /\ Len(queue') = IF max_queued_events # 0 /\ Len(queue) = max_queued_events
                         THEN Len(queue) ELSE Len(queue) + 1
        /\ queue'[Len(queue')] = sent + 1
        /\ \A i \in 1..Len(queue') - 1 :
             queue'[i] = queue[Len(queue) + 1 - Len(queue') + i]
    <3>1. PICK e \in Nat : e = sent + 1
      BY <2>1
    <3>2. PICK l \in Nat : l = max_queued_events
      BY <1>0
    <3>3. PICK p : p = queue'
      OBVIOUS
    <3>4. queue \in Seq(Nat) /\ (l # 0 => Len(queue) <= l) /\ p = Pushed(queue, l, e)
      BY <1>0, <2>1, <2>2, <3>1, <3>2, <3>3
    <3>5. /\ p \in Seq(Nat)
          /\ Len(p) = IF l # 0 /\ Len(queue) = l THEN Len(queue) ELSE Len(queue) + 1
          /\ p[Len(p)] = e
          /\ \A i \in 1..Len(p) - 1 : p[i] = queue[Len(queue) + 1 - Len(p) + i]
      BY <3>4, PushedSuffix
    <3> QED
      BY <3>1, <3>2, <3>3, <3>5
  <2>3a. /\ Len(queue') \in Nat \ {0}
         /\ Len(queue') = Len(queue) \/ Len(queue') = Len(queue) + 1
    BY <1>0, <2>3
  <2>4. TypeOK'
    BY <2>1, <2>3 DEF TypeOK, EmitterPC
  <2>5. QueueBounded'
    BY <1>0, <2>1, <2>2, <2>3 DEF QueueBounded
  <2>6. NoLostWakeup'
    BY <2>1 DEF NoLostWakeup, TypeOK
  <2>7. NewestSuffix'
    <3> SUFFICES ASSUME NEW i \in DOMAIN queue'
                 PROVE  queue'[i] = sent' - Len(queue') + i
      BY DEF NewestSuffix
    <3>1. i \in 1..Len(queue')
      BY <2>3
    <3>2. CASE i = Len(queue')
      <4>1. queue'[i] = sent + 1
        BY <2>3, <3>2
      <4> QED BY <1>0, <2>1, <2>3a, <3>2, <4>1
    <3>3. CASE i # Len(queue')
      <4>1. Len(queue) + 1 - Len(queue') + i \in DOMAIN queue
        BY <1>0, <2>3a, <3>1, <3>3
      <4>2. queue[Len(queue) + 1 - Len(queue') + i]
              = sent - Len(queue) + (Len(queue) + 1 - Len(queue') + i)
        BY <4>1 DEF NewestSuffix
      <4>3. queue'[i] = queue[Len(queue) + 1 - Len(queue') + i]
        <5>1. i \in 1..Len(queue') - 1
          BY <2>3a, <3>1, <3>3
        <5> QED BY <2>3, <5>1
      <4> QED BY <1>0, <2>1, <2>3a, <3>1, <4>2, <4>3
    <3> QED BY <3>2, <3>3
  <2>8. Behind'
    BY <1>0, <2>1, <2>3 DEF Behind
  <2> QED BY <2>4, <2>5, <2>6, <2>7, <2>8
<1>2. ASSUME NEW t \in Thread, AnnounceEmit(t) PROVE IInv'
  <2>1. TypeOK'
    BY <1>2, PipeAssumption DEF AnnounceEmit, Announce, TypeOK, EmitterPC
  <2>2. NoLostWakeup'
    BY <1>2 DEF AnnounceEmit, Announce, TypeOK, NoLostWakeup
  <2> QED
    BY <1>2, <2>1, <2>2
       DEF AnnounceEmit, Announce, QueueBounded, NewestSuffix, Behind
<1>3. ASSUME Deliver PROVE IInv'
  <2>1. /\ queue' \in Seq(Nat)
        /\ Len(queue') = Len(queue) - 1
        /\ \A i \in 1..Len(queue') : queue'[i] = queue[i + 1]
        /\ Head(queue) = queue[1] /\ 1 \in DOMAIN queue
    BY <1>0, <1>3, HeadTailProperties DEF Deliver, Take
  <2>2. Head(queue) = sent - Len(queue) + 1
    BY <1>0, <2>1 DEF NewestSuffix
  <2>3. TypeOK'
    BY <1>0, <1>3, <2>1, <2>2, BoundAssumption DEF Deliver, Take, TypeOK, MainPC
  <2>4. QueueBounded'
    BY <1>0, <1>3, <2>1 DEF Deliver, Take, QueueBounded
  <2>5. NoLostWakeup'
    BY <1>3 DEF Deliver, Take, NoLostWakeup
  <2>6. NewestSuffix'
    <3> SUFFICES ASSUME NEW i \in DOMAIN queue'
                 PROVE  queue'[i] = sent' - Len(queue') + i
      BY DEF NewestSuffix
    <3>1. i \in 1..Len(queue') /\ i + 1 \in DOMAIN queue
      <4>1. DOMAIN queue' = 1..Len(queue') /\ DOMAIN queue = 1..Len(queue)
        BY <1>0, <2>1
      <4> QED
        BY <1>0, <2>1, <4>1
    <3>2. queue'[i] = sent - Len(queue) + (i + 1)
      BY <1>0, <2>1, <3>1 DEF NewestSuffix
    <3> QED
      BY <1>0, <1>3, <2>1, <3>1, <3>2 DEF Deliver
  <2>7. Behind'
    BY <1>0, <1>3, <2>1, <2>2 DEF Deliver, Behind
  <2> QED BY <2>3, <2>4, <2>5, <2>6, <2>7
<1>4. ASSUME Loop PROVE IInv'
  <2>1. UNCHANGED <<queue, max_queued_events, emitter, sent, delivered>>
    BY <1>4 DEF Loop, Wakeup, SlotReturns, Drained
  <2>2. TypeOK'
    BY <1>4, PipeAssumption, EventAssumption DEF Loop, Wakeup, SlotReturns, Drained, TypeOK, MainPC
  <2>3. NoLostWakeup'
    BY <1>4 DEF Loop, Wakeup, SlotReturns, Drained, NoLostWakeup
  <2> QED
    BY <2>1, <2>2, <2>3 DEF QueueBounded, NewestSuffix, Behind
<1>5. ASSUME NEW limit \in Limit, Resize(limit) PROVE IInv'
  <2>0. limit \in Nat
    BY LimitAssumption
  <2>1. /\ max_queued_events' = limit
        /\ queue' = Trimmed(queue, limit)
        /\ UNCHANGED <<wakeups, emitter, main, args, sent, delivered>>
    BY <1>5 DEF Resize, SetMaxQueuedEvents
  <2>2. /\ queue' \in Seq(Nat)
        /\ Len(queue') = IF limit = 0 \/ Len(queue) <= limit THEN Len(queue) ELSE limit
        /\ \A i \in 1..Len(queue') : queue'[i] = queue[Len(queue) - Len(queue') + i]
    BY <1>0, <2>0, <2>1, TrimmedSuffix
  <2>3. TypeOK'
    BY <2>1, <2>2 DEF TypeOK
  <2>4. QueueBounded'
    BY <1>0, <2>0, <2>1, <2>2 DEF QueueBounded
  <2>5. NoLostWakeup'
    <3> SUFFICES ASSUME queue' # <<>> PROVE queue # <<>>
      BY <2>1 DEF NoLostWakeup
    <3> QED BY <1>0, <2>0, <2>2
  <2>6. NewestSuffix'
    <3> SUFFICES ASSUME NEW i \in DOMAIN queue'
                 PROVE  queue'[i] = sent' - Len(queue') + i
      BY DEF NewestSuffix
    <3>1. i \in 1..Len(queue') /\ Len(queue) - Len(queue') + i \in DOMAIN queue
      BY <1>0, <2>0, <2>2
    <3>2. queue'[i] = sent - Len(queue) + (Len(queue) - Len(queue') + i)
      BY <1>0, <2>2, <3>1 DEF NewestSuffix
    <3> QED BY <1>0, <2>1, <2>2, <3>1, <3>2
  <2>7. Behind'
    BY <1>0, <2>0, <2>1, <2>2 DEF Behind
  <2> QED BY <2>3, <2>4, <2>5, <2>6, <2>7
<1>6. CASE EmitDirect \/ UNCHANGED vars
  BY <1>6 DEF EmitDirect, EmitMain, vars, signalVars, TypeOK, QueueBounded,
              NoLostWakeup, NewestSuffix, Behind
<1> QED
  BY <1>1, <1>2, <1>3, <1>4, <1>5, <1>6 DEF Next

\* The inductive invariant holds throughout.
LEMMA Invariance == Spec => []IInv
BY InitInvariant, NextInvariant, PTL DEF Spec

-----------------------------------------------------------------------------
\* Every variable keeps its type.
THEOREM TypeCorrect == Spec => []TypeOK
<1>1. IInv => TypeOK
  BY DEF IInv
<1> QED
  BY <1>1, Invariance, PTL

\* The queue respects the limit in force, whatever emit() and
\* set_max_queued_events() do to it and in whichever order.
THEOREM Bounded == Spec => []QueueBounded
<1>1. IInv => QueueBounded
  BY DEF IInv
<1> QED
  BY <1>1, Invariance, PTL

\* dp_.emit() after the mutex is released never leaves a queued emission that
\* no announcement, no emitting thread and no running handle_event() covers.
THEOREM NothingStranded == Spec => []NoLostWakeup
<1>1. IInv => NoLostWakeup
  BY DEF IInv
<1> QED
  BY <1>1, Invariance, PTL

\* The slots see the queued emissions in the order the mutex admitted them, each
\* one at most once, and what waits is always the newest ones without a hole.
THEOREM OrderedNewest == Spec => [](NewestSuffix /\ InOrder)
<1>1. IInv => NewestSuffix /\ InOrder
  <2> SUFFICES ASSUME IInv, NEW i \in DOMAIN queue PROVE delivered < queue[i]
    BY DEF IInv, InOrder
  <2>1. queue[i] = sent - Len(queue) + i /\ i \in 1..Len(queue) /\ Len(queue) \in Nat
    BY DEF IInv, NewestSuffix, TypeOK
  <2> QED
    BY <2>1, BoundAssumption DEF IInv, Behind, TypeOK
<1> QED
  BY <1>1, Invariance, PTL

-----------------------------------------------------------------------------
LEMMA ChannelInit == Init => Channel!Init
BY DEF Init, SignalInit, Channel!Init

LEMMA ChannelStep == IInv /\ [Next]_vars => [Channel!Next]_(Channel!vars)
<1> SUFFICES ASSUME IInv, [Next]_vars PROVE [Channel!Next]_(Channel!vars)
  OBVIOUS
<1> USE DEF IInv
<1>0. /\ max_queued_events \in Nat
      /\ queue \in Seq(Nat) /\ Len(queue) \in Nat
      /\ sent \in Nat /\ delivered \in Nat /\ Len(queue) <= sent
  BY LimitAssumption, BoundAssumption DEF TypeOK, Behind
<1>1. ASSUME NEW t \in Thread, Emit(t) PROVE Channel!Send
  <2> DEFINE first == sent + 1 - Len(queue)
  <2>1. /\ sent + 1 \in Nat /\ sent' = sent + 1
        /\ queue' = Pushed(queue, max_queued_events, sent + 1)
        /\ UNCHANGED <<max_queued_events, delivered>>
    BY <1>0, <1>1 DEF Emit, Push
  <2>2. max_queued_events # 0 => Len(queue) <= max_queued_events
    BY DEF QueueBounded
  <2>3. Len(queue') = IF max_queued_events # 0 /\ Len(queue) = max_queued_events
                      THEN Len(queue) ELSE Len(queue) + 1
    <3>1. PICK e \in Nat : e = sent + 1
      BY <2>1
    <3>2. PICK p : p = queue' /\ p = Pushed(queue, max_queued_events, e)
      BY <2>1, <3>1
    <3>3. Len(p) = IF max_queued_events # 0 /\ Len(queue) = max_queued_events
                   THEN Len(queue) ELSE Len(queue) + 1
      BY <1>0, <2>2, <3>2, PushedSuffix
    <3> QED BY <3>2, <3>3
  <2>4. sent' + 1 - Len(queue') =
          IF max_queued_events # 0 /\ Len(queue) = max_queued_events
          THEN first + 1 ELSE first
    <3>1. CASE max_queued_events # 0 /\ Len(queue) = max_queued_events
      <4>1. Len(queue') = Len(queue)
        BY <2>3, <3>1
      <4> QED BY <1>0, <2>1, <3>1, <4>1
    <3>2. CASE ~(max_queued_events # 0 /\ Len(queue) = max_queued_events)
      <4>1. Len(queue') = Len(queue) + 1
        BY <2>3, <3>2
      <4>2. sent' = sent + 1
        BY <2>1
      <4>3. sent' + 1 - Len(queue') = first
        BY <1>0, <4>1, <4>2
      <4> QED BY <3>2, <4>3
    <3> QED BY <3>1, <3>2
  <2>5. Channel!Oldest(first, sent', max_queued_events) =
          IF max_queued_events # 0 /\ Len(queue) = max_queued_events
          THEN first + 1 ELSE first
    BY <1>0, <2>1, <2>2 DEF Channel!Oldest
  <2> QED
    BY <2>1, <2>4, <2>5 DEF Channel!Send
<1>2. ASSUME Deliver PROVE Channel!Deliver
  <2>1. /\ Len(queue') = Len(queue) - 1 /\ Len(queue) > 0
        /\ Head(queue) = sent - Len(queue) + 1
    <3>1. Head(queue) = queue[1] /\ 1 \in DOMAIN queue /\ Len(queue') = Len(queue) - 1
      BY <1>0, <1>2, HeadTailProperties DEF Deliver, Take
    <3> QED
      BY <1>0, <3>1 DEF NewestSuffix
  <2> QED
    BY <1>0, <1>2, <2>1 DEF Deliver, Take, Channel!Deliver
<1>3. ASSUME NEW limit \in Limit, Resize(limit) PROVE Channel!Resize(limit)
  <2>0. limit \in Nat
    BY LimitAssumption
  <2>1. /\ max_queued_events' = limit /\ queue' = Trimmed(queue, limit)
        /\ UNCHANGED <<sent, delivered>>
    BY <1>3 DEF Resize, SetMaxQueuedEvents
  <2>2. Len(queue') = IF limit = 0 \/ Len(queue) <= limit THEN Len(queue) ELSE limit
    BY <1>0, <2>0, <2>1, TrimmedSuffix
  <2>3. sent' + 1 - Len(queue') =
          IF limit = 0 \/ Len(queue) <= limit THEN sent + 1 - Len(queue)
                                             ELSE sent + 1 - limit
    BY <1>0, <2>0, <2>1, <2>2
  <2>4. Channel!Oldest(sent + 1 - Len(queue), sent, limit) =
          IF limit = 0 \/ Len(queue) <= limit THEN sent + 1 - Len(queue)
                                             ELSE sent + 1 - limit
    BY <1>0, <2>0 DEF Channel!Oldest
  <2> QED
    BY <2>1, <2>3, <2>4 DEF Channel!Resize
<1>4. CASE Loop \/ EmitDirect \/ UNCHANGED vars \/ \E t \in Thread : AnnounceEmit(t)
  BY <1>4 DEF Loop, Wakeup, SlotReturns, Drained, EmitDirect, EmitMain, AnnounceEmit,
              Announce, vars, signalVars, Channel!vars
<1> QED
  BY <1>1, <1>2, <1>3, <1>4 DEF Next, Channel!Next

\* The class implements the bounded, drop-oldest channel that its users assume.
THEOREM ImplementsChannel == Spec => Channel!Spec
BY ChannelInit, ChannelStep, Invariance, PTL DEF Spec, Channel!Spec
=============================================================================
