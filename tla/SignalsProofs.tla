---------------------------- MODULE SignalsProofs ----------------------------
(***************************************************************************)
(* For every number of bars, actions, children and sizes of pipe and queue:  *)
(* Signals is type correct, no child stays a zombie, and bars with one       *)
(* configuration stay alike.                                                *)
(*                                                                         *)
(* That the handler of a SIGCHLD collects all zombies there are rests on     *)
(* NoForkInHandler: the main thread handles signals between its forks, never *)
(* inside one, so that a zombie it meets is in the list.  BarsAgree needs     *)
(* FreshBars: bars no user signal has reached yet are as they were made, so   *)
(* that those of a later batch agree with the earlier ones they meet.        *)
(***************************************************************************)
EXTENDS Signals, SequenceTheorems, TLAPS

NoForkInHandler == main # "loop" => forking = NoChild

FreshBars == \A b \in fresh : visible[b] = (ConfigOf(b) \notin StartHidden)

SignalsInv == SignalsTypeOK /\ NoForkInHandler /\ ZombiesReaped /\ FreshBars /\ BarsAgree

\* A SIGCHLD is in the pipe or the queue.
HasChld(q) == \E i \in DOMAIN q : q[i] = "CHLD"

-----------------------------------------------------------------------------
\* What a pipe or queue of signals has after one more was appended.
LEMMA ChldAppended ==
  ASSUME NEW q \in Seq(Signum), NEW s \in Signum
  PROVE  /\ Append(q, s) \in Seq(Signum)
         /\ Len(Append(q, s)) = Len(q) + 1
         /\ HasChld(q) \/ s = "CHLD" => HasChld(Append(q, s))
<1>1. /\ Append(q, s) \in Seq(Signum)
      /\ Len(Append(q, s)) = Len(q) + 1
      /\ \A i \in 1..Len(q) : Append(q, s)[i] = q[i]
      /\ Append(q, s)[Len(q) + 1] = s
  BY AppendProperties
<1>2. DOMAIN q = 1..Len(q) /\ DOMAIN Append(q, s) = 1..(Len(q) + 1) /\ Len(q) \in Nat
  BY <1>1
<1>3. ASSUME HasChld(q) PROVE HasChld(Append(q, s))
  <2>1. PICK i \in 1..Len(q) : q[i] = "CHLD"
    BY <1>2, <1>3 DEF HasChld
  <2>2. i \in 1..(Len(q) + 1) /\ Append(q, s)[i] = "CHLD"
    BY <1>1, <1>2, <2>1
  <2> QED  BY <1>2, <2>2 DEF HasChld
<1>4. ASSUME s = "CHLD" PROVE HasChld(Append(q, s))
  <2>1. Len(q) + 1 \in 1..(Len(q) + 1)
    BY <1>2
  <2> QED  BY <1>1, <1>2, <1>4, <2>1 DEF HasChld
<1> QED  BY <1>1, <1>3, <1>4

\* A SIGCHLD that was there is the first, or is there still when the first has gone.
LEMMA ChldAfterTail ==
  ASSUME NEW q \in Seq(Signum), q # <<>>
  PROVE  /\ Tail(q) \in Seq(Signum) /\ Head(q) \in Signum
         /\ Len(Tail(q)) = Len(q) - 1 /\ Len(q) \in Nat \ {0}
         /\ HasChld(q) => Head(q) = "CHLD" \/ HasChld(Tail(q))
<1>1. /\ Tail(q) \in Seq(Signum) /\ Head(q) \in Signum /\ Head(q) = q[1]
      /\ Len(Tail(q)) = Len(q) - 1 /\ Len(q) \in Nat \ {0}
      /\ \A i \in 1..Len(Tail(q)) : Tail(q)[i] = q[i + 1]
  BY HeadTailProperties
<1>2. DOMAIN q = 1..Len(q) /\ DOMAIN Tail(q) = 1..(Len(q) - 1)
  BY <1>1
<1>3. ASSUME HasChld(q), Head(q) # "CHLD" PROVE HasChld(Tail(q))
  <2>1. PICK i \in 1..Len(q) : q[i] = "CHLD"
    BY <1>2, <1>3 DEF HasChld
  <2>2. i # 1
    BY <1>1, <1>3, <2>1
  <2>3. i - 1 \in 1..(Len(q) - 1) /\ (i - 1) + 1 = i
    BY <1>1, <2>1, <2>2
  <2>4. Tail(q)[i - 1] = "CHLD"
    BY <1>1, <2>1, <2>3
  <2> QED  BY <1>2, <2>3, <2>4 DEF HasChld
<1> QED  BY <1>1, <1>3

\* emit() of the signal thread: the queue has grown, or has dropped its oldest entry and
\* with it perhaps a SIGCHLD; then its length is the same.
LEMMA PushedSignal ==
  ASSUME NEW q \in Seq(Signum), NEW s \in Signum, NEW limit \in Nat
  PROVE  /\ Pushed(q, limit, s) \in Seq(Signum)
         /\ Len(Pushed(q, limit, s)) # Len(q) /\ (HasChld(q) \/ s = "CHLD") => HasChld(Pushed(q, limit, s))
<1>1. CASE limit # 0 /\ Len(q) >= limit
  <2>1. Pushed(q, limit, s) = Append(Tail(q), s)
    BY <1>1 DEF Pushed
  <2>2. q # <<>>
    <3>1. ASSUME q = <<>> PROVE FALSE
      <4>1. Len(q) = 0  BY <3>1
      <4> QED  BY <1>1, <4>1
    <3> QED  BY <3>1
  <2>3. Tail(q) \in Seq(Signum) /\ Len(Tail(q)) = Len(q) - 1 /\ Len(q) \in Nat
    BY <2>2, ChldAfterTail
  <2>4. Append(Tail(q), s) \in Seq(Signum) /\ Len(Append(Tail(q), s)) = Len(q)
    BY <2>3, ChldAppended
  <2> QED  BY <2>1, <2>4
<1>2. CASE ~(limit # 0 /\ Len(q) >= limit)
  BY <1>2, ChldAppended DEF Pushed
<1> QED  BY <1>1, <1>2

-----------------------------------------------------------------------------
\* The initial states satisfy the invariant.
LEMMA SignalsStart == Init => SignalsInv
<1> SUFFICES ASSUME Init PROVE SignalsInv
  OBVIOUS
<1> USE DEF Init, SignalInit
<1>1. SignalsTypeOK
  <2>1. queue \in Seq(Signum) /\ pipe \in Seq(Signum) /\ Len(pipe) <= PipeSize
    BY SignalPipeAssumption DEF SignalPipeAssumption
  <2>2. wakeups \in 0..PipeCapacity
    BY PipeAssumption DEF PipeAssumption
  <2>3. emitter \in [Thread -> EmitterPC] /\ main \in MainPC /\ main # "slot"
    BY DEF EmitterPC, MainPC
  <2>4. /\ visible \in [Bar -> BOOLEAN]
        /\ child \in [Child -> {"none", "running", "zombie", "reaped"}]
    OBVIOUS
  <2>5. /\ chldPending \in BOOLEAN /\ lost \in BOOLEAN /\ quit \in BOOLEAN /\ reload \in BOOLEAN
        /\ app \in {"setup", "run", "exited"} /\ args \in Signum \cup {NoEvent}
        /\ forking \in Child \cup {NoChild} /\ reap \subseteq Child
        /\ bars \subseteq Bar /\ fresh \subseteq bars /\ met \subseteq bars \X bars /\ pid_children \subseteq bars \X Child
        /\ max_queued_events = InitialLimit
    OBVIOUS
  <2> QED  BY <2>1, <2>2, <2>3, <2>4, <2>5 DEF SignalsTypeOK
<1>2. NoForkInHandler /\ ZombiesReaped  BY DEF NoForkInHandler, ZombiesReaped
<1>3. FreshBars /\ BarsAgree  BY DEF FreshBars, BarsAgree
<1> QED  BY <1>1, <1>2, <1>3 DEF SignalsInv

\* A signal on its way: pipe, queue and slot.  No step loses sight of a SIGCHLD, unless
\* pipe or queue drop a signal, which is what `lost' says.
LEMMA DeliveryKeeps ==
  ASSUME SignalsInv,
         (\E s \in Signum : Raise(s)) \/ RaiseChld \/ CatchSignal \/ AnnounceSignal \/ Dispatch \/ NextSignal
  PROVE  SignalsInv'
<1> USE DEF SignalsInv, SignalsTypeOK, NoForkInHandler, ZombiesReaped, FreshBars, BarsAgree, signalVars,
            appVars, barVars, childVars, MainPC, EmitterPC
<1>1. HasChld(pipe) <=> \E i \in DOMAIN pipe : pipe[i] = "CHLD"
  BY DEF HasChld
<1>2. HasChld(queue) <=> \E i \in DOMAIN queue : queue[i] = "CHLD"
  BY DEF HasChld
<1>3. ChldOnItsWay <=> chldPending \/ HasChld(pipe) \/ HasChld(queue) \/ (main = "slot" /\ args = "CHLD")
  BY DEF ChldOnItsWay, HasChld
<1>4. ChldOnItsWay' <=> chldPending' \/ HasChld(pipe') \/ HasChld(queue') \/ (main' = "slot" /\ args' = "CHLD")
  BY DEF ChldOnItsWay, HasChld
<1> HIDE DEF HasChld
<1>5. ASSUME NEW s \in Signum, WriteSignalToPipe(s)
      PROVE  /\ pipe' \in Seq(Signum) /\ Len(pipe') <= PipeSize /\ lost' \in BOOLEAN
             /\ lost => lost'
             /\ HasChld(pipe) \/ s = "CHLD" => lost' \/ HasChld(pipe')
  <2>1. PipeSize \in Nat /\ Len(pipe) \in Nat
    BY SignalPipeAssumption DEF SignalPipeAssumption
  <2>2. CASE Len(pipe) < PipeSize
    <3>1. pipe' = Append(pipe, s) /\ lost' = lost
      BY <1>5, <2>2 DEF WriteSignalToPipe
    <3>2. pipe' \in Seq(Signum) /\ Len(pipe') = Len(pipe) + 1 /\ (HasChld(pipe) \/ s = "CHLD" => HasChld(pipe'))
      BY <3>1, ChldAppended
    <3> QED  BY <2>1, <2>2, <3>1, <3>2
  <2>3. CASE ~(Len(pipe) < PipeSize)
    BY <1>5, <2>3 DEF WriteSignalToPipe
  <2> QED  BY <2>2, <2>3
<1>6. ASSUME NEW s \in Signum, Raise(s) PROVE SignalsInv'
  <2>1. UNCHANGED <<signalVars, chldPending, appVars, barVars, childVars>>
    BY <1>6 DEF Raise
  <2>2. /\ pipe' \in Seq(Signum) /\ Len(pipe') <= PipeSize /\ lost' \in BOOLEAN /\ (lost => lost')
        /\ HasChld(pipe) => lost' \/ HasChld(pipe')
    BY <1>5, <1>6 DEF Raise
  <2>3. SignalsTypeOK'
    BY <2>1, <2>2
  <2>4. ChldOnItsWay => lost' \/ ChldOnItsWay'
    <3>1. HasChld(queue') <=> HasChld(queue)
      BY <2>1
    <3> QED  BY <1>3, <1>4, <2>1, <2>2, <3>1
  <2>5. NoForkInHandler' /\ ZombiesReaped' /\ FreshBars' /\ BarsAgree'
    BY <2>1, <2>2, <2>4
  <2> QED  BY <2>3, <2>5
<1>7. CASE RaiseChld
  <2>1. /\ chldPending' = FALSE /\ "CHLD" \in Signum /\ WriteSignalToPipe("CHLD")
        /\ UNCHANGED <<signalVars, appVars, barVars, childVars>>
    BY <1>7 DEF RaiseChld, Signum
  <2>2. /\ pipe' \in Seq(Signum) /\ Len(pipe') <= PipeSize /\ lost' \in BOOLEAN /\ (lost => lost')
        /\ lost' \/ HasChld(pipe')
    BY <1>5, <2>1
  <2>3. SignalsTypeOK'
    BY <2>1, <2>2
  <2>4. lost' \/ ChldOnItsWay'
    BY <1>4, <2>2
  <2>5. NoForkInHandler' /\ ZombiesReaped' /\ FreshBars' /\ BarsAgree'
    BY <2>1, <2>2, <2>4
  <2> QED  BY <2>3, <2>5
<1>8. CASE CatchSignal
  <2> USE <1>8 DEF CatchSignal, Push
  <2>1. max_queued_events \in Nat
    BY LimitAssumption DEF LimitAssumption
  <2>2. pipe' \in Seq(Signum) /\ Len(pipe') <= PipeSize /\ Head(pipe) \in Signum
        /\ (HasChld(pipe) => Head(pipe) = "CHLD" \/ HasChld(pipe'))
    BY ChldAfterTail, SignalPipeAssumption DEF SignalPipeAssumption
  <2>3. queue' \in Seq(Signum)
        /\ (Len(queue') # Len(queue) /\ (HasChld(queue) \/ Head(pipe) = "CHLD") => HasChld(queue'))
    BY <2>1, <2>2, PushedSignal
  <2>4. lost' \in BOOLEAN /\ (~lost' => ~lost /\ Len(queue') # Len(queue))
    OBVIOUS
  <2> QED  BY <1>3, <1>4, <2>2, <2>3, <2>4, SignalThreadAssumption DEF SignalThreadAssumption
<1>9. CASE AnnounceSignal
  BY <1>3, <1>4, <1>9, PipeAssumption, SignalThreadAssumption
  DEF AnnounceSignal, Announce, PipeAssumption, SignalThreadAssumption
<1>10. CASE Dispatch
  BY <1>3, <1>4, <1>10, PipeAssumption DEF Dispatch, Wakeup, PipeAssumption
<1>11. CASE NextSignal
  <2>1. CASE Take
    <3>1. Head(queue) \in Signum /\ queue' \in Seq(Signum) /\ (HasChld(queue) => Head(queue) = "CHLD" \/ HasChld(queue'))
      BY <2>1, ChldAfterTail DEF Take
    <3> QED  BY <1>3, <1>4, <1>11, <2>1, <3>1 DEF NextSignal, Take
  <2>2. CASE Drained
    BY <1>3, <1>4, <1>11, <2>2 DEF NextSignal, Drained
  <2> QED  BY <1>11, <2>1, <2>2 DEF NextSignal
<1> QED  BY <1>6, <1>7, <1>8, <1>9, <1>10, <1>11

\* The handlers: a SIGCHLD collects every zombie there is, since none is between its fork
\* and the list; another signal leaves the SIGCHLDs that are on their way.
LEMMA HandlersKeep == SignalsInv /\ HandleSignal => SignalsInv'
<1> SUFFICES ASSUME SignalsInv, HandleSignal PROVE SignalsInv'
  OBVIOUS
<1> USE DEF SignalsInv, SignalsTypeOK, NoForkInHandler, ZombiesReaped, FreshBars, BarsAgree, signalVars,
            appVars, barVars, childVars, MainPC, SlotReturns, ChldOnItsWay
<1>2. CASE HandleUserSignal
  <2>1. /\ args \in {"USR1", "USR2"} /\ args # "CHLD" /\ fresh' = {}
        /\ UNCHANGED <<pipe, chldPending, lost, app, bars, met, childVars>>
    BY <1>2 DEF HandleUserSignal
  <2>2. PICK reached \in Reached(args) :
          /\ visible' = [b \in Bar |-> IF b \in reached THEN Applied(OnUser[ConfigOf(b)][args], visible[b])
                                       ELSE visible[b]]
          /\ IF reached = bars THEN UNCHANGED <<reload, quit>> ELSE reload' = TRUE /\ quit' = TRUE
    BY <1>2 DEF HandleUserSignal
  <2>3. visible' \in [Bar -> BOOLEAN]
    <3>1. \A b \in Bar : Applied(OnUser[ConfigOf(b)][args], visible[b]) \in BOOLEAN
      BY DEF Applied
    <3> QED  BY <2>2, <3>1
  <2>4. quit' \in BOOLEAN /\ reload' \in BOOLEAN
    BY <2>2
  <2>5. SignalsTypeOK' /\ NoForkInHandler' /\ ZombiesReaped' /\ FreshBars'
    BY <1>2, <2>1, <2>3, <2>4 DEF HandleUserSignal
  <2>6. ASSUME ~quit', NEW a \in bars, NEW b \in bars, <<a, b>> \in met,
               SameBehaviour(ConfigOf(a), ConfigOf(b))
        PROVE  visible'[a] = visible'[b]
    <3>1. ~quit /\ reached = bars
      BY <2>2, <2>6
    <3>2. visible[a] = visible[b]
      BY <2>6, <3>1
    <3>3. OnUser[ConfigOf(a)] = OnUser[ConfigOf(b)]
      BY <2>6 DEF SameBehaviour
    <3>4. a \in Bar /\ b \in Bar
      OBVIOUS
    <3> QED  BY <2>2, <3>1, <3>2, <3>3, <3>4
  <2>7. BarsAgree'
    <3> SUFFICES ASSUME ~quit', NEW p \in met, SameBehaviour(ConfigOf(p[1]), ConfigOf(p[2]))
                 PROVE  visible'[p[1]] = visible'[p[2]]
      BY <2>1
    <3>1. PICK a \in bars, b \in bars : p = <<a, b>>
      OBVIOUS
    <3> QED  BY <2>6, <3>1
  <2> QED  BY <2>5, <2>7
<1>3. CASE HandleSigint  BY <1>3 DEF HandleSigint
<1>4. CASE HandleSigchld
  <2> USE <1>4 DEF HandleSigchld
  <2> DEFINE dead == {c \in reap : child[c] = "zombie"}
  <2>1. child' = [c \in Child |-> IF c \in dead THEN "reaped" ELSE child[c]] /\ reap' = reap \ dead
    OBVIOUS
  <2>2. forking = NoChild /\ NoChild \notin Child
    BY DEF NoChild, Child
  <2>3. \A c \in Child : child[c] = "zombie" => c \in dead
    BY <2>2
  <2>4. \A c \in Child : child'[c] # "zombie"
    BY <2>1, <2>3
  <2>5. \A c \in Child : child'[c] = "running" => c \in reap'
    BY <2>1, <2>2
  <2>6. SignalsTypeOK'
    BY <2>1
  <2> QED  BY <2>2, <2>4, <2>5, <2>6
<1> QED  BY <1>2, <1>3, <1>4 DEF HandleSignal

\* The do { } while (reload) loop, and the monitors that come and go in a run: bars meet those
\* that no user signal has reached, and are like them.
LEMMA RunsKeep ==
  ASSUME SignalsInv,
         \/ StartRun \/ EndRun
         \/ \E m \in Monitor : RemoveBars(m) \/ \E n \in 1..Len(BarsOn[m]) : CreateBars(m, n)
  PROVE  SignalsInv'
<1> USE DEF SignalsInv, SignalsTypeOK, NoForkInHandler, ZombiesReaped, FreshBars, BarsAgree, signalVars,
            appVars, barVars, childVars, ChldOnItsWay, Idle
<1>1. CASE StartRun  BY <1>1 DEF StartRun
<1>2. ASSUME NEW m \in Monitor, NEW n \in 1..Len(BarsOn[m]), CreateBars(m, n) PROVE SignalsInv'
  <2> DEFINE new == {m} \X (1..n)
  <2>1. new \subseteq Bar
    BY BarAssumption DEF Bar, BarAssumption
  <2>2. /\ bars' = bars \cup new /\ fresh' = fresh \cup new /\ met' = met \cup (fresh' \X fresh')
        /\ visible' = [b \in Bar |-> IF b \in new THEN ConfigOf(b) \notin StartHidden ELSE visible[b]]
        /\ \A b \in bars : b[1] # m
        /\ UNCHANGED <<signalVars, pipe, chldPending, lost, app, quit, reload, childVars>>
    BY <1>2 DEF CreateBars
  <2>3. bars \cap new = {}
    BY <2>2
  <2> HIDE DEF new
  <2>4. visible' \in [Bar -> BOOLEAN]
    BY <2>2
  <2>5. bars' \subseteq Bar /\ fresh' \subseteq bars' /\ met' \subseteq bars' \X bars' /\ pid_children' \subseteq bars' \X Child
    BY <2>1, <2>2
  <2>6. \A b \in bars : visible'[b] = visible[b]
    BY <2>2, <2>3
  <2>7. FreshBars'
    BY <2>1, <2>2, <2>6
  <2>8. SignalsTypeOK' /\ NoForkInHandler' /\ ZombiesReaped'
    BY <2>2, <2>4, <2>5
  <2>9. BarsAgree'
    <3> SUFFICES ASSUME ~quit, NEW p \in met', SameBehaviour(ConfigOf(p[1]), ConfigOf(p[2]))
                 PROVE  visible'[p[1]] = visible'[p[2]]
      BY <2>2
    <3>1. CASE p \in met
      BY <2>6, <3>1
    <3>2. CASE p \in fresh' \X fresh'
      <4>1. p[1] \in fresh' /\ p[2] \in fresh'
        BY <3>2
      <4>2. ConfigOf(p[1]) \in StartHidden <=> ConfigOf(p[2]) \in StartHidden
        BY DEF SameBehaviour
      <4>3. visible'[p[1]] = (ConfigOf(p[1]) \notin StartHidden) /\ visible'[p[2]] = (ConfigOf(p[2]) \notin StartHidden)
        BY <2>7, <4>1
      <4> QED  BY <4>2, <4>3
    <3> QED  BY <2>2, <3>1, <3>2
  <2> QED  BY <2>7, <2>8, <2>9
<1>3. ASSUME NEW m \in Monitor, RemoveBars(m) PROVE SignalsInv'
  <2> DEFINE left == {b \in bars : b[1] # m}
  <2>1. /\ bars' = left /\ fresh' = fresh \cap left /\ met' = met \cap (left \X left)
        /\ visible' = [b \in Bar |-> b \in left => visible[b]]
        /\ pid_children' = pid_children \cap (left \X Child)
        /\ UNCHANGED <<signalVars, pipe, chldPending, lost, app, quit, reload, child, forking, reap>>
    BY <1>3 DEF RemoveBars
  <2>2. left \subseteq bars
    OBVIOUS
  <2> HIDE DEF left
  <2>3. visible' \in [Bar -> BOOLEAN]
    BY <2>1
  <2>4. \A b \in left : visible'[b] = visible[b]
    BY <2>1, <2>2
  <2>5. SignalsTypeOK' /\ NoForkInHandler' /\ ZombiesReaped'
    BY <2>1, <2>2, <2>3
  <2>6. FreshBars' /\ BarsAgree'
    BY <2>1, <2>4
  <2> QED  BY <2>5, <2>6
<1>4. CASE EndRun
  BY <1>4 DEF EndRun
<1> QED  BY <1>1, <1>2, <1>3, <1>4

\* Children: one that is forked is not listed yet, and the main thread handles nothing
\* until it is; one that exits has its SIGCHLD on the way.
LEMMA ChildrenKeep ==
  ASSUME SignalsInv, NEW c \in Child,
         Fork(c) \/ Exit(c) \/ \E b \in Bar : ListChild(b) \/ WorkerWaits(b, c)
  PROVE  SignalsInv'
<1> USE DEF SignalsInv, SignalsTypeOK, NoForkInHandler, ZombiesReaped, FreshBars, BarsAgree, signalVars,
            appVars, barVars, childVars, ChldOnItsWay, Idle
<1>1. CASE Fork(c)
  <2>1. \A d \in Child : d # NoChild
    BY DEF Child, NoChild
  <2> QED  BY <1>1, <2>1 DEF Fork
<1>2. ASSUME NEW b \in Bar, ListChild(b) PROVE SignalsInv'  BY <1>2 DEF ListChild
<1>3. CASE Exit(c)  BY <1>3 DEF Exit
<1>4. ASSUME NEW b \in Bar, WorkerWaits(b, c) PROVE SignalsInv'  BY <1>4 DEF WorkerWaits
<1> QED  BY <1>1, <1>2, <1>3, <1>4

\* The invariant that the theorems below rest on (main.cpp:30-240).
THEOREM SignalsInvariant == Spec => []SignalsInv
<1>1. SignalsInv /\ [Next]_vars => SignalsInv'
  <2> SUFFICES ASSUME SignalsInv, [Next]_vars PROVE SignalsInv'
    OBVIOUS
  <2>1. CASE UNCHANGED vars
    BY <2>1 DEF SignalsInv, SignalsTypeOK, NoForkInHandler, ZombiesReaped, FreshBars, BarsAgree, vars, signalVars,
                appVars, barVars, childVars, ChldOnItsWay
  <2>2. CASE Next
    <3>1. CASE Stop  BY <2>1, <3>1 DEF Stop
    <3>2. CASE (\E s \in Signum : Raise(s)) \/ RaiseChld \/ CatchSignal \/ AnnounceSignal \/ Dispatch \/ NextSignal
      BY <3>2, DeliveryKeeps
    <3>3. CASE HandleSignal  BY <3>3, HandlersKeep
    <3>4. CASE \/ StartRun \/ EndRun
               \/ \E m \in Monitor : RemoveBars(m) \/ \E n \in 1..Len(BarsOn[m]) : CreateBars(m, n)
      BY <3>4, RunsKeep
    <3>5. ASSUME NEW b \in Bar, ListChild(b) PROVE SignalsInv'
      <4>1. forking \in Child
        BY <3>5 DEF ListChild, SignalsInv, SignalsTypeOK
      <4> QED  BY <3>5, <4>1, ChildrenKeep
    <3>6. CASE \E c \in Child : Fork(c) \/ Exit(c) \/ \E b \in Bar : WorkerWaits(b, c)  BY <3>6, ChildrenKeep
    <3> QED  BY <2>2, <3>1, <3>2, <3>3, <3>4, <3>5, <3>6 DEF Next, HandleSignal
  <2> QED  BY <2>1, <2>2
<1> QED  BY SignalsStart, <1>1, PTL DEF Spec

\* Type correctness, the bounds of pipe and dispatcher included (main.cpp:30-240).
THEOREM SignalsTypeCorrect == Spec => []SignalsTypeOK
<1>1. SignalsInv => SignalsTypeOK  BY DEF SignalsInv
<1> QED  BY SignalsInvariant, <1>1, PTL

\* Whatever the sizes of pipe and queue: unless a signal was dropped a zombie is listed and has
\* a SIGCHLD on its way to the handler (main.cpp:155-170, command.hpp:160-180).
THEOREM NoZombieStays == Spec => []ZombiesReaped
<1>1. SignalsInv => ZombiesReaped  BY DEF SignalsInv
<1> QED  BY SignalsInvariant, <1>1, PTL

\* However many monitors come and go and whatever their bars: those that are configured alike and
\* had no user signal between their makings are alike (main.cpp:102-128, client.cpp:129-146).
THEOREM BarsStayAlike == Spec => []BarsAgree
<1>1. SignalsInv => BarsAgree  BY DEF SignalsInv
<1> QED  BY SignalsInvariant, <1>1, PTL
=============================================================================
