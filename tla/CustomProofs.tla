---------------------------- MODULE CustomProofs ----------------------------
(***************************************************************************)
(* For every set of wakers: SleeperThread is type correct, sleeps through   *)
(* nothing, and rests when paused.                                          *)
(*                                                                         *)
(* NoMissedWakeup speaks of the history variable asked, the code of         *)
(* signal_, which the worker clears without the mutex.  The link between    *)
(* them is Remembered: a request is in signal_ until the worker is bound to *)
(* run func again.  PausedRests needs the converse, Requested.              *)
(*                                                                         *)
(* For all texts and bounds: a custom module is type correct, its worker is  *)
(* a SleeperThread, its script's output is complete before its exit is      *)
(* reported, and at rest it shows what was read last, if that can be shown.   *)
(***************************************************************************)
EXTENDS Custom, SequenceTheorems, WellFoundedInduction, TLAPS

-----------------------------------------------------------------------------
(* SleeperThread.                                                           *)

\* A request that signal_ does not hold is answered by the run about to begin.
Remembered == asked => signal \/ (do_run /\ worker \in {"head", "clear"})

\* Once a worker exists signal_ means a request or the end.
Requested == signal /\ worker # "none" => asked \/ ~do_run

Running == worker = "none" => ~asked /\ quietRuns = 0

Resumed == ~is_paused => quietRuns = 0

\* After its one quiet run a paused worker is in func or asleep, unless it has
\* been asked to run or told to stop.
AfterQuietRun ==
  is_paused /\ quietRuns # 0 =>
    asked \/ worker \in {"none", "func", "pauseWait", "wait", "done"} \/ (worker = "head" /\ ~do_run)

SleeperInv ==
  /\ SleeperTypeOK
  /\ Remembered /\ Requested /\ Running
  /\ NoMissedWakeup
  /\ Resumed /\ AfterQuietRun /\ PausedRests

USE DEF WorkerPC, Asleep, OwnerPC, flags, Notify, TimedWait, Woken, Destroying

\* What the invariant says, for the leaves below.
LEMMA Initially == SleeperInit => SleeperInv
<1> SUFFICES ASSUME SleeperInit PROVE SleeperInv
  OBVIOUS
<1> USE DEF SleeperInit
<1>1. SleeperTypeOK  BY DEF SleeperTypeOK
<1>2. Remembered /\ Requested /\ Running  BY DEF Remembered, Requested, Running
<1>3. NoMissedWakeup  BY DEF NoMissedWakeup
<1>4. AfterQuietRun /\ PausedRests /\ Resumed  BY DEF AfterQuietRun, PausedRests, Resumed
<1> QED  BY <1>1, <1>2, <1>3, <1>4 DEF SleeperInv

\* The steps of the worker keep the invariant.
LEMMA WorkerKeeps == SleeperInv /\ (LoopStep \/ TimeUp \/ Func) => SleeperInv'
<1> SUFFICES ASSUME SleeperInv, LoopStep \/ TimeUp \/ Func PROVE SleeperInv'
  OBVIOUS
<1> USE DEF SleeperInv, SleeperTypeOK, Remembered, Requested, Running,
            NoMissedWakeup, Due, Notifying, Resumed, AfterQuietRun, PausedRests
<1>1. CASE TestDoRun  BY <1>1 DEF TestDoRun
<1>2. CASE ClearSignal
  <2> USE <1>2 DEF ClearSignal
  <2>1. asked' = FALSE /\ worker' = "func" /\ signal' = FALSE
    OBVIOUS
  <2>2. is_paused /\ ~asked => quietRuns = 0
    OBVIOUS
  <2>3. quietRuns' \in Nat /\ quietRuns' <= 1 /\ (~is_paused => quietRuns' = 0)
    <3>1. CASE is_paused /\ ~asked  BY <2>2, <3>1
    <3>2. CASE ~(is_paused /\ ~asked)  BY <3>2
    <3> QED  BY <3>1, <3>2
  <2>4. SleeperTypeOK'  BY <2>1, <2>3
  <2> QED  BY <2>1, <2>3, <2>4
<1>3. CASE Recheck  BY <1>3 DEF Recheck
<1>4. CASE TimeUp  BY <1>4 DEF TimeUp
<1>5. CASE Cancelled  BY <1>5 DEF Cancelled
<1>6. CASE SleepFor  BY <1>6 DEF SleepFor
<1>7. CASE Sleep  BY <1>7 DEF Sleep
<1>8. CASE SelfStop  BY <1>8 DEF SelfStop
<1> QED  BY <1>1, <1>2, <1>3, <1>4, <1>5, <1>6, <1>7, <1>8 DEF LoopStep, Func

\* The steps of the wakers keep the invariant: a request made to a worker asleep
\* leaves the waker about to notify, and the notification is seen.
LEMMA WakersKeep == SleeperInv /\ WakerStep => SleeperInv'
<1> SUFFICES ASSUME SleeperInv, NEW w \in Waker, WakeUp(w) \/ NotifyWorker(w) PROVE SleeperInv'
  BY DEF WakerStep
<1> USE DEF SleeperInv, SleeperTypeOK, Remembered, Requested, Running,
            NoMissedWakeup, Due, Notifying, Resumed, AfterQuietRun, PausedRests
<1>1. CASE WakeUp(w)
  <2>1. /\ signal' = TRUE /\ asked' = (worker # "none")
        /\ waker' \in [Waker -> {"idle", "notify"}] /\ waker'[w] = "notify"
        /\ UNCHANGED <<do_run, is_paused, worker, notified, cancelled, owner, quietRuns>>
    BY <1>1 DEF WakeUp
  <2>2. SleeperTypeOK'
    BY <2>1
  <2>3. Remembered' /\ Requested' /\ Running'
    BY <2>1
  <2>4. NoMissedWakeup'
    BY <2>1
  <2>5. Resumed' /\ AfterQuietRun' /\ PausedRests'
    BY <2>1
  <2> QED  BY <2>2, <2>3, <2>4, <2>5
<1>2. CASE NotifyWorker(w)
  <2>1. /\ waker[w] = "notify" /\ notified' = (notified \/ worker \in Asleep)
        /\ waker' = [waker EXCEPT ![w] = "idle"]
        /\ UNCHANGED <<flags, worker, cancelled, owner, asked, quietRuns>>
    BY <1>2 DEF NotifyWorker
  <2>2. notified' \in BOOLEAN /\ waker' \in [Waker -> {"idle", "notify"}]
    BY <2>1
  <2>3. SleeperTypeOK'
    BY <2>1, <2>2
  <2>4. Remembered' /\ Requested' /\ Running'
    BY <2>1
  <2>5. NoMissedWakeup'
    BY <2>1
  <2>6. Resumed' /\ AfterQuietRun' /\ PausedRests'
    BY <2>1
  <2> QED  BY <2>3, <2>4, <2>5, <2>6
<1> QED  BY <1>1, <1>2

\* The steps of the owner keep the invariant.
LEMMA OwnerKeeps == SleeperInv /\ OwnerStep => SleeperInv'
<1> SUFFICES ASSUME SleeperInv, OwnerStep PROVE SleeperInv'
  OBVIOUS
<1> USE DEF SleeperInv, SleeperTypeOK, Remembered, Requested, Running,
            NoMissedWakeup, Due, Notifying, Resumed, AfterQuietRun, PausedRests
<1>1. CASE Pause
  <2> USE <1>1 DEF Pause
  <2>1. quietRuns' \in Nat /\ quietRuns' <= 1
    OBVIOUS
  <2>2. (is_paused /\ quietRuns = quietRuns') \/ quietRuns' = 0
    OBVIOUS
  <2>3. AfterQuietRun'
    BY <2>2
  <2>4. NoMissedWakeup'
    OBVIOUS
  <2> QED  BY <2>1, <2>3, <2>4
<1>2. CASE Resume
  <2> USE <1>2 DEF Resume
  <2>1. quietRuns' = 0
    OBVIOUS
  <2>2. NoMissedWakeup'
    OBVIOUS
  <2>3. SleeperTypeOK'
    <3>1. notified' \in BOOLEAN /\ is_paused' \in BOOLEAN
      OBVIOUS
    <3> QED  BY <2>1, <3>1
  <2>4. Remembered' /\ Requested' /\ Running'
    OBVIOUS
  <2>5. Resumed' /\ AfterQuietRun' /\ PausedRests'
    BY <2>1
  <2> QED  BY <2>1, <2>2, <2>3, <2>4, <2>5
<1>3. CASE Start
  <2> USE <1>3 DEF Start
  <2>1. SleeperTypeOK'
    OBVIOUS
  <2>2. Remembered' /\ Requested' /\ Running'
    OBVIOUS
  <2>3. NoMissedWakeup'
    OBVIOUS
  <2>4. Resumed' /\ AfterQuietRun' /\ PausedRests'
    OBVIOUS
  <2> QED  BY <2>1, <2>2, <2>3, <2>4
<1>4. CASE Restart  BY <1>4 DEF Restart, Stop
<1>5. CASE Destroy  BY <1>5 DEF Destroy, Stop
<1>6. CASE StopNotify  BY <1>6 DEF StopNotify
<1>7. CASE StopCancel  BY <1>7 DEF StopCancel
<1>8. CASE JoinRestart
  <2> USE <1>8 DEF JoinRestart
  <2>1. quietRuns' = 0 /\ worker' = "head"
    OBVIOUS
  <2>2. SleeperTypeOK'
    <3>1. {do_run', signal', is_paused', notified', cancelled', asked'} \subseteq BOOLEAN
      OBVIOUS
    <3> QED  BY <2>1, <3>1
  <2>3. Remembered' /\ Requested' /\ Running'
    OBVIOUS
  <2>4. NoMissedWakeup'
    BY <2>1
  <2>5. Resumed' /\ AfterQuietRun' /\ PausedRests'
    BY <2>1
  <2> QED  BY <2>1, <2>2, <2>3, <2>4, <2>5
<1>9. CASE JoinDestroy  BY <1>9 DEF JoinDestroy
<1> QED  BY <1>1, <1>2, <1>3, <1>4, <1>5, <1>6, <1>7, <1>8, <1>9 DEF OwnerStep

LEMMA Invariant == SleeperSpec => []SleeperInv
<1>1. SleeperInit => SleeperInv
  BY Initially
<1>2. SleeperInv /\ [SleeperNext]_sleeperVars => SleeperInv'
  <2>1. SleeperInv /\ SleeperNext => SleeperInv'
    BY WorkerKeeps, WakersKeep, OwnerKeeps DEF SleeperNext
  <2>2. SleeperInv /\ UNCHANGED sleeperVars => SleeperInv'
    BY DEF sleeperVars, SleeperInv, SleeperTypeOK, Remembered, Requested, Running,
           NoMissedWakeup, Due, Notifying, Resumed, AfterQuietRun, PausedRests
  <2> QED  BY <2>1, <2>2
<1> QED  BY <1>1, <1>2, PTL DEF SleeperSpec

-----------------------------------------------------------------------------
\* Type invariant of the thread, and: the object is gone only after the worker.
THEOREM SleeperTypeCorrect == SleeperSpec => []SleeperTypeOK
<1>1. SleeperInv => SleeperTypeOK
  BY DEF SleeperInv
<1> QED  BY Invariant, <1>1, PTL

\* wake_up(), resume() and stop() reach a worker asleep, however they interleave
\* with its way into the wait and with each other.
THEOREM SleepsThroughNothing == SleeperSpec => []NoMissedWakeup
<1>1. SleeperInv => NoMissedWakeup
  BY DEF SleeperInv
<1> QED  BY Invariant, <1>1, PTL

\* After pause() func runs at most once more without a request.
THEOREM RestsWhenPaused == SleeperSpec => []PausedRests
<1>1. SleeperInv => PausedRests
  BY DEF SleeperInv
<1> QED  BY Invariant, <1>1, PTL


-----------------------------------------------------------------------------
\* The greatest of some numbers, and the last end of a line.

\* A set of numbers has a least one.
LEMMA LeastNumber ==
  ASSUME NEW S, S \subseteq Nat, S # {}
  PROVE  \E x \in S : \A y \in S : x <= y
<1>1. IsWellFoundedOn(OpToRel(<, Nat), Nat)
  BY NatLessThanWellFounded
<1>2. PICK x \in S : \A y \in S : ~(<<y, x>> \in OpToRel(<, Nat))
  BY <1>1, WFMin
<1>3. \A y \in S : ~(y < x)
  BY <1>2 DEF OpToRel
<1>4. x \in Nat /\ \A y \in S : y \in Nat
  OBVIOUS
<1>5. \A y \in S : x <= y
  BY <1>3, <1>4
<1> QED  BY <1>5

\* A bounded set of numbers has a greatest one, which is its Max.
LEMMA GreatestNumber ==
  ASSUME NEW n \in Nat, NEW S, S \subseteq 0..n, S # {}
  PROVE  Max(S) \in S /\ \A x \in S : x <= Max(S)
<1> DEFINE below == {n - x : x \in S}
<1>1. below \subseteq Nat /\ below # {}
  <2>1. \A x \in S : n - x \in Nat
    OBVIOUS
  <2> QED  BY <2>1
<1>2. PICK b \in below : \A y \in below : b <= y
  BY <1>1, LeastNumber
<1>3. PICK m \in S : b = n - m
  OBVIOUS
<1>4. \A x \in S : m >= x
  <2> TAKE x \in S
  <2>1. n - m <= n - x
    BY <1>2, <1>3
  <2>2. m \in Int /\ x \in Int
    OBVIOUS
  <2> QED  BY <2>1, <2>2
<1>5. \E x \in S : \A y \in S : x >= y
  BY <1>4
<1>6. Max(S) \in S /\ \A y \in S : Max(S) >= y
  BY <1>5 DEF Max
<1>7. \A x \in S : x \in Int
  OBVIOUS
<1>8. \A x \in S : x <= Max(S)
  BY <1>6, <1>7
<1> QED  BY <1>6, <1>8

Chunk == {"part", "end"}

\* What ends with a line is a part of what was written, and more so after another chunk.
LEMMA LineEnds ==
  ASSUME NEW w \in Seq(Chunk)
  PROVE  /\ LastLineEnd(w) \in 0..Len(w)
         /\ \A c \in Chunk : LastLineEnd(Append(w, c)) >= LastLineEnd(w)
<1> DEFINE ends(v) == {0} \cup {i \in 1..Len(v) : v[i] = "end"}
<1>1. ASSUME NEW v \in Seq(Chunk)
      PROVE  /\ LastLineEnd(v) \in ends(v) /\ LastLineEnd(v) \in 0..Len(v)
             /\ \A i \in ends(v) : i <= LastLineEnd(v)
  <2>1. Len(v) \in Nat /\ ends(v) \subseteq 0..Len(v) /\ ends(v) # {}
    OBVIOUS
  <2>2. Max(ends(v)) \in ends(v) /\ \A i \in ends(v) : i <= Max(ends(v))
    <3> HIDE DEF ends
    <3> QED  BY <2>1, GreatestNumber
  <2>3. Max(ends(v)) \in 0..Len(v)
    <3> HIDE DEF ends
    <3> QED  BY <2>1, <2>2
  <2> QED  BY <2>2, <2>3 DEF LastLineEnd
<1>2. LastLineEnd(w) \in 0..Len(w)
  BY <1>1
<1>3. ASSUME NEW c \in Chunk PROVE LastLineEnd(Append(w, c)) >= LastLineEnd(w)
  <2>1. /\ Append(w, c) \in Seq(Chunk) /\ Len(Append(w, c)) = Len(w) + 1
        /\ \A i \in 1..Len(w) : Append(w, c)[i] = w[i]
    BY AppendProperties
  <2>2. ends(w) \subseteq ends(Append(w, c))
    BY <2>1
  <2>3. LastLineEnd(w) \in ends(Append(w, c))
    BY <1>1, <2>2
  <2>4. LastLineEnd(w) <= LastLineEnd(Append(w, c))
    BY <1>1, <2>1, <2>3
  <2>5. LastLineEnd(w) \in 0..Len(w) /\ LastLineEnd(Append(w, c)) \in 0..Len(Append(w, c))
    <3> HIDE DEF ends
    <3> QED  BY <1>1, <2>1
  <2> QED  BY <2>4, <2>5
<1> QED  BY <1>2, <1>3

\* The greater of two numbers.
LEMMA GreaterOfTwo ==
  ASSUME NEW a \in Nat, NEW b \in Nat
  PROVE  Max({a, b}) \in {a, b} /\ Max({a, b}) >= a /\ Max({a, b}) >= b
<1>1. {a, b} \subseteq 0..(a + b) /\ {a, b} # {} /\ a + b \in Nat
  OBVIOUS
<1>2. Max({a, b}) \in {a, b} /\ \A x \in {a, b} : x <= Max({a, b})
  BY <1>1, GreatestNumber
<1> QED  BY <1>2

-----------------------------------------------------------------------------
\* The stream.

\* What holds of a stream besides its types: while stop() waits nothing is watched; what
\* is owed for a child that has exited ends with a line, or nobody can write any more; a
\* descriptor that was closed before the exit had been read to its end.
StreamInv ==
  /\ StreamTypeOK
  /\ stopping => ~stdoutWatch /\ ~childWatch
  /\ shell = "running" => owed = 0
  /\ shell = "exited" => owed <= LastLineEnd(written) \/ holders = {}
  /\ pid /\ ~open /\ ~stopping => holders = {} /\ delivered = Len(written)
  /\ OutputBeforeExit

\* Reading what is in the pipe.
LEMMA DrainReads ==
  ASSUME StreamTypeOK, NEW flush \in BOOLEAN, Drain(flush)
  PROVE  /\ taken' = Len(written) /\ delivered' \in delivered..Len(written)
         /\ delivered' >= LastLineEnd(written)
         /\ flush /\ holders = {} => delivered' = Len(written)
<1>1. /\ written \in Seq(Chunk) /\ Len(written) \in Nat
      /\ delivered \in 0..taken /\ taken \in 0..Len(written)
  BY DEF StreamTypeOK, Chunk
<1>2. LastLineEnd(written) \in 0..Len(written)
  BY <1>1, LineEnds
<1>3. CASE flush /\ holders = {}
  BY <1>1, <1>2, <1>3 DEF Drain
<1>4. CASE ~(flush /\ holders = {})
  <2>1. delivered' = Max({delivered, LastLineEnd(written)}) /\ taken' = Len(written)
    BY <1>4 DEF Drain
  <2>2. delivered \in Nat /\ LastLineEnd(written) \in Nat
    BY <1>1, <1>2
  <2>3. delivered' \in {delivered, LastLineEnd(written)} /\ delivered' >= delivered /\ delivered' >= LastLineEnd(written)
    BY <2>1, <2>2, GreaterOfTwo
  <2> QED  BY <1>1, <1>2, <1>4, <2>1, <2>3
<1> QED  BY <1>3, <1>4

\* What the child and its descendants do.
LEMMA ChildKeeps == StreamInv /\ ChildStep => StreamInv'
<1> SUFFICES ASSUME StreamInv, ChildStep PROVE StreamInv'
  OBVIOUS
<1>0. /\ StreamTypeOK /\ written \in Seq(Chunk) /\ Len(written) \in Nat
      /\ LastLineEnd(written) \in 0..Len(written)
  BY LineEnds DEF StreamInv, StreamTypeOK, Chunk
<1> USE DEF StreamInv, StreamTypeOK, OutputBeforeExit
<1>1. ASSUME NEW chunk \in Chunk, Write(chunk) PROVE StreamInv'
  <2>1. /\ written' = Append(written, chunk) /\ written' \in Seq(Chunk) /\ Len(written') = Len(written) + 1
        /\ LastLineEnd(written') >= LastLineEnd(written) /\ LastLineEnd(written') \in 0..Len(written')
    BY <1>0, <1>1, AppendProperties, LineEnds DEF Write
  <2>2. holders # {} /\ UNCHANGED <<pid, open, stdoutWatch, childWatch, stopping, taken, delivered, shell, status, holders, owed>>
    BY <1>1 DEF Write
  <2> QED  BY <1>0, <2>1, <2>2 DEF Chunk
<1>2. ASSUME NEW h \in {{}, {"heir"}, {"shell", "heir"}}, Hold(h) PROVE StreamInv'
  BY <1>0, <1>2 DEF Hold
<1>3. CASE HeirExits
  BY <1>0, <1>3 DEF HeirExits
<1>4. ASSUME NEW code \in {0, 1}, ShellExits(code) PROVE StreamInv'
  <2>1. /\ shell = "running" /\ shell' = "exited" /\ status' = code /\ holders' = holders \ {"shell"}
        /\ owed' \in 0..Len(written) /\ (owed' = LastLineEnd(written) \/ holders' = {})
        /\ UNCHANGED <<pid, open, stdoutWatch, childWatch, stopping, taken, delivered, written>>
    BY <1>0, <1>4 DEF ShellExits
  <2>2. owed' <= LastLineEnd(written') \/ holders' = {}
    BY <1>0, <2>1
  <2> QED  BY <1>0, <2>1, <2>2
<1> QED  BY <1>1, <1>2, <1>3, <1>4 DEF ChildStep, Chunk

\* What the main thread does with the stream.
LEMMA StreamKeeps ==
  StreamInv /\ (StreamStart \/ (\E hup \in BOOLEAN : HandleStdout(hup)) \/ HandleExit \/ StreamStop \/ StreamStopped) => StreamInv'
<1> SUFFICES ASSUME StreamInv,
                    StreamStart \/ (\E hup \in BOOLEAN : HandleStdout(hup)) \/ HandleExit \/ StreamStop \/ StreamStopped
             PROVE  StreamInv'
  OBVIOUS
<1>0. /\ StreamTypeOK /\ written \in Seq(Chunk) /\ Len(written) \in Nat
      /\ LastLineEnd(written) \in 0..Len(written)
  BY LineEnds DEF StreamInv, StreamTypeOK, Chunk
<1>1. CASE StreamStart
  <2>1. <<>> \in Seq(Chunk) /\ Len(<<>>) = 0
    BY EmptySeq
  <2> QED  BY <1>0, <1>1, <2>1 DEF StreamStart, StreamInv, StreamTypeOK, OutputBeforeExit, Chunk
<1>2. ASSUME NEW hup \in BOOLEAN, HandleStdout(hup) PROVE StreamInv'
  <2>1. /\ taken' = Len(written) /\ delivered' \in delivered..Len(written)
        /\ hup /\ holders = {} => delivered' = Len(written)
    BY <1>0, <1>2, DrainReads DEF HandleStdout
  <2>2. /\ pid /\ open /\ stdoutWatch /\ childWatch /\ ~stopping /\ shell # "none"
        /\ UNCHANGED <<pid, childWatch, stopping, shell, status, holders, written, owed>>
        /\ open' = ~hup /\ stdoutWatch' = ~hup /\ (hup => holders = {})
    BY <1>0, <1>2 DEF HandleStdout, StreamTypeOK
  <2>3. StreamTypeOK'
    BY <1>0, <2>1, <2>2 DEF StreamTypeOK
  <2> QED  BY <1>0, <2>1, <2>2, <2>3 DEF StreamInv, OutputBeforeExit
<1>3. CASE HandleExit
  <2>1. /\ taken' \in 0..Len(written) /\ delivered' \in 0..taken' /\ delivered' >= owed
    <3>1. CASE open
      <4>1. /\ taken' = Len(written) /\ delivered' \in delivered..Len(written)
            /\ delivered' >= LastLineEnd(written) /\ (holders = {} => delivered' = Len(written))
        BY <1>0, <1>3, <3>1, DrainReads DEF HandleExit
      <4>2. owed \in 0..Len(written) /\ (owed <= LastLineEnd(written) \/ holders = {})
        BY <1>3 DEF HandleExit, StreamInv, StreamTypeOK
      <4>3. delivered \in Nat
        BY <1>0 DEF StreamTypeOK
      <4> QED  BY <1>0, <4>1, <4>2, <4>3
    <3>2. CASE ~open
      <4>1. delivered = Len(written) /\ UNCHANGED <<taken, delivered>>
        BY <1>0, <1>3, <3>2 DEF HandleExit, StreamInv, StreamTypeOK
      <4> QED  BY <1>0, <4>1 DEF StreamTypeOK
    <3> QED  BY <3>1, <3>2
  <2>2. /\ ~pid' /\ ~open' /\ ~stdoutWatch' /\ ~childWatch' /\ ~stopping' /\ shell' = "none" /\ status' = 0
        /\ {pid', open', stdoutWatch', childWatch', stopping'} \subseteq BOOLEAN
        /\ UNCHANGED <<holders, written, owed>>
    BY <1>0, <1>3 DEF HandleExit, StreamTypeOK
  <2>3. StreamTypeOK'
    BY <1>0, <2>1, <2>2 DEF StreamTypeOK
  <2> QED  BY <2>1, <2>2, <2>3 DEF StreamInv, OutputBeforeExit
<1>4. CASE StreamStop
  BY <1>0, <1>4 DEF StreamStop, StreamInv, StreamTypeOK, OutputBeforeExit
<1>5. CASE StreamStopped
  <2>1. /\ ~pid' /\ ~open' /\ ~stdoutWatch' /\ ~childWatch' /\ ~stopping' /\ shell' = "none" /\ status' = 0
        /\ {pid', open', stdoutWatch', childWatch', stopping'} \subseteq BOOLEAN
        /\ UNCHANGED <<holders, written, delivered>> /\ taken' = delivered /\ owed' = 0
    BY <1>0, <1>5 DEF StreamStopped, StreamInv, StreamTypeOK
  <2>2. delivered \in 0..Len(written)
    BY <1>0 DEF StreamTypeOK
  <2>3. StreamTypeOK'
    BY <1>0, <2>1, <2>2 DEF StreamTypeOK
  <2> QED  BY <2>1, <2>2, <2>3 DEF StreamInv, OutputBeforeExit
<1> QED  BY <1>1, <1>2, <1>3, <1>4, <1>5

-----------------------------------------------------------------------------
\* The composition: what a step of Custom is to the thread and to the stream.
LEMMA StepOfThread == Next => SleeperNext \/ UNCHANGED sleeperVars
<1> USE MainAssumption DEF MainAssumption
<1>1. WorkerStep => SleeperNext \/ UNCHANGED sleeperVars
  BY DEF WorkerStep, Loop, RunExecIf, NoExecIf, RunExec, Assign, Announce, Rest, InFunc, SleeperNext, Func
<1>2. MainStep => SleeperNext \/ UNCHANGED sleeperVars
  BY DEF MainStep, Construct, Update, Request, RequestNotifies, ReadOutput, ScriptExits, RestartScript, RestartFails,
         DestroyCustom, StreamWaits, WorkerWaits, SleeperNext, OwnerStep, WakerStep
<1>3. IntervalOver \/ Child => SleeperNext \/ UNCHANGED sleeperVars
  BY DEF IntervalOver, Child, SleeperNext
<1> QED  BY <1>1, <1>2, <1>3 DEF Next

StreamStep ==
  ChildStep \/ StreamStart \/ (\E hup \in BOOLEAN : HandleStdout(hup)) \/ HandleExit \/ StreamStop \/ StreamStopped

LEMMA StepOfStream == Next => StreamStep \/ UNCHANGED streamVars
<1>1. WorkerStep => UNCHANGED streamVars
  BY DEF WorkerStep, Loop, RunExecIf, NoExecIf, RunExec, Assign, Announce, Rest, InFunc
<1>2. MainStep => StreamStep \/ UNCHANGED streamVars
  BY DEF MainStep, Construct, Update, Request, RequestNotifies, ReadOutput, ScriptExits, RestartScript, RestartFails,
         DestroyCustom, StreamWaits, WorkerWaits, StreamStep
<1>3. IntervalOver \/ Child => StreamStep \/ UNCHANGED streamVars
  BY DEF IntervalOver, Child, StreamStep
<1> QED  BY <1>1, <1>2, <1>3 DEF Next

-----------------------------------------------------------------------------
\* What each kind of module leaves alone, and where func starts.
Kinds ==
  /\ Polling => ~pid /\ ~open /\ ~stdoutWatch /\ ~childWatch /\ ~stopping /\ ~timer
  /\ ~Polling => worker = "none"
  /\ ~created => worker = "none" /\ ~pid /\ ~timer
  /\ worker \notin {"func", "done"} => stage = "start"

\* The worker has gone ahead of the last update(): it is between the start of an assignment
\* and its dp.emit(), or was cancelled there.
Ahead ==
  /\ Polling
  /\ \/ worker = "done"
     \/ worker = "func" /\ stage \in {"assignIf", "assignFailed", "allowed", "assign", "announce"}

Announced == created /\ ~dp => ShowsOutput \/ Ahead

\* The part of CustomTypeOK that is Custom's own.
OwnTypeOK ==
  /\ conf \in Configurations
  /\ stage \in {"start", "assignIf", "assignFailed", "allowed", "assign", "announce", "sleep"}
  /\ {output, shown, result} \subseteq Text \cup {Hidden}
  /\ {created, dp, timer} \subseteq BOOLEAN
  /\ requests \in 0..MaxRequests /\ intervals \in 0..MaxIntervals /\ failures \in 0..MaxFailures
  /\ fresh \subseteq {"output", "updated"}
  /\ timer => ~pid

OwnInv == OwnTypeOK /\ Kinds /\ Announced
CustomInv == SleeperInv /\ StreamInv /\ OwnInv

LEMMA RestartBoolean == ASSUME NEW c \in Configurations PROVE c.restart \in BOOLEAN
<1>1. CASE \E k \in {"delay", "wait"}, i \in BOOLEAN, e \in BOOLEAN :
             c = [kind |-> k, execIf |-> i, exec |-> e, restart |-> FALSE]
  <2>1. PICK k \in {"delay", "wait"}, i \in BOOLEAN, e \in BOOLEAN :
               c = [kind |-> k, execIf |-> i, exec |-> e, restart |-> FALSE]
    BY <1>1
  <2>2. c.restart = FALSE
    BY <2>1
  <2> QED  BY <2>2
<1>2. CASE \E r \in BOOLEAN : c = [kind |-> "continuous", execIf |-> FALSE, exec |-> TRUE, restart |-> r]
  <2>1. PICK r \in BOOLEAN : c = [kind |-> "continuous", execIf |-> FALSE, exec |-> TRUE, restart |-> r]
    BY <1>2
  <2>2. c.restart = r
    BY <2>1
  <2> QED  BY <2>2
<1> QED  BY <1>1, <1>2 DEF Configurations

LEMMA InvImplies == CustomInv => CustomTypeOK /\ OutputBeforeExit /\ ShownAtRest
<1> SUFFICES ASSUME CustomInv PROVE CustomTypeOK /\ OutputBeforeExit /\ ShownAtRest
  OBVIOUS
<1>1. CustomTypeOK
  BY DEF CustomInv, SleeperInv, StreamInv, OwnInv, OwnTypeOK, CustomTypeOK
<1>2. ShownAtRest
  BY DEF CustomInv, OwnInv, Kinds, Announced, Ahead, ShownAtRest, AtRest, Asleep
<1> QED  BY <1>1, <1>2 DEF CustomInv, StreamInv

LEMMA CustomStarts == Init => CustomInv
<1> SUFFICES ASSUME Init PROVE CustomInv
  OBVIOUS
<1>1. SleeperInv
  BY Initially DEF Init
<1>2. StreamInv
  <2>1. <<>> \in Seq(Chunk) /\ Len(<<>>) = 0
    BY EmptySeq
  <2>2. /\ ~pid /\ ~open /\ ~stdoutWatch /\ ~childWatch /\ ~stopping
        /\ {pid, open, stdoutWatch, childWatch, stopping} \subseteq BOOLEAN
        /\ taken = 0 /\ delivered = 0 /\ shell = "none" /\ status = 0 /\ holders = {} /\ written = <<>> /\ owed = 0
    BY DEF Init, StreamInit
  <2>3. StreamTypeOK
    BY <2>1, <2>2 DEF StreamTypeOK, Chunk
  <2> QED  BY <2>2, <2>3 DEF StreamInv, OutputBeforeExit
<1>3. OwnInv
  <2>1. /\ conf \in Configurations /\ stage = "start" /\ result = Hidden /\ output = Hidden /\ shown = Hidden
        /\ created = FALSE /\ dp = FALSE /\ timer = FALSE /\ fresh = {} /\ worker = "none"
        /\ ~pid /\ ~open /\ ~stdoutWatch /\ ~childWatch /\ ~stopping
    BY DEF Init, SleeperInit, StreamInit
  <2>2. requests \in 0..MaxRequests /\ intervals \in 0..MaxIntervals /\ failures \in 0..MaxFailures
    BY CustomBoundsAssumption DEF CustomBoundsAssumption, Init
  <2>3. OwnTypeOK
    BY <2>1, <2>2 DEF OwnTypeOK
  <2> QED  BY <2>1, <2>3 DEF OwnInv, Kinds, Announced, ShowsOutput
<1> QED  BY <1>1, <1>2, <1>3 DEF CustomInv

\* The worker: whoever assigns output_ is ahead until dp.emit().
LEMMA WorkerStepKeeps == CustomInv /\ (WorkerStep \/ IntervalOver) => OwnInv'
<1> SUFFICES ASSUME CustomInv, WorkerStep \/ IntervalOver PROVE OwnInv'
  OBVIOUS
<1> USE DEF OwnInv, OwnTypeOK, Kinds, Announced, ShowsOutput, Ahead, Polling
<1>0. OwnInv /\ worker # "none"
  BY DEF CustomInv, WorkerStep, IntervalOver, Loop, LoopStep, TestDoRun, ClearSignal, Recheck, Cancelled, TimeUp, RunExecIf, NoExecIf, RunExec,
         Assign, Announce, Rest, InFunc, SleepFor, Sleep, Asleep
<1>1. CASE Loop
  <2>1. UNCHANGED <<streamVars, customVars>>
    BY <1>1 DEF Loop
  <2>2. CASE TestDoRun  BY <1>0, <2>1, <2>2 DEF TestDoRun, streamVars, customVars, displayVars
  <2>3. CASE ClearSignal  BY <1>0, <2>1, <2>3 DEF ClearSignal, streamVars, customVars, displayVars
  <2>4. CASE Recheck
    <3>1. worker \notin {"func", "done"} /\ worker' \notin {"func", "done"} /\ worker' # "none"
      BY <2>4 DEF Recheck, Asleep, TimedWait
    <3> QED  BY <1>0, <2>1, <3>1 DEF streamVars, customVars, displayVars
  <2>5. CASE Cancelled  BY <1>0, <2>1, <2>5 DEF Cancelled, streamVars, customVars, displayVars
  <2> QED  BY <1>1, <2>2, <2>3, <2>4, <2>5 DEF Loop, LoopStep
<1>2. ASSUME NEW next \in {"assignIf", "assignFailed"}, RunExecIf(next) PROVE OwnInv'
  BY <1>0, <1>2 DEF RunExecIf, InFunc, streamVars, sleeperVars, displayVars
<1>3. CASE NoExecIf
  BY <1>0, <1>3 DEF NoExecIf, InFunc, streamVars, sleeperVars, displayVars
<1>4. CASE RunExec
  BY <1>0, <1>4 DEF RunExec, InFunc, streamVars, sleeperVars, displayVars
<1>5. ASSUME NEW s \in {"assignIf", "assignFailed", "assign"}, NEW next \in {"allowed", "announce"}, Assign(s, next)
      PROVE  OwnInv'
  BY <1>0, <1>5 DEF Assign, InFunc, streamVars, sleeperVars, displayVars
<1>6. CASE Announce
  BY <1>0, <1>6 DEF Announce, InFunc, streamVars, sleeperVars, displayVars
<1>7. CASE Rest
  <2>1. /\ worker = "func" /\ worker' \notin {"func", "done", "none"} /\ stage = "sleep" /\ stage' = "start"
        /\ UNCHANGED <<streamVars, conf, created, result, displayVars, timer, requests, intervals, failures, fresh>>
    BY <1>7 DEF Rest, SleepFor, Sleep, TimedWait
  <2> QED  BY <1>0, <2>1 DEF streamVars, displayVars
<1>8. CASE IntervalOver
  <2>1. intervals' \in 0..MaxIntervals
    BY <1>0, <1>8, CustomBoundsAssumption DEF IntervalOver, CustomBoundsAssumption
  <2>2. worker = "timedWait" /\ worker' = "head"
    BY <1>8 DEF IntervalOver, TimeUp
  <2> QED  BY <1>0, <1>8, <2>1, <2>2 DEF IntervalOver, streamVars, displayVars
<1> QED  BY <1>1, <1>2, <1>3, <1>4, <1>5, <1>6, <1>7, <1>8 DEF WorkerStep

\* The main thread: what update() has read is what is shown, unless it reads in the middle
\* of an assignment.
LEMMA MainStepKeeps == CustomInv /\ MainStep => OwnInv'
<1> SUFFICES ASSUME CustomInv, MainStep PROVE OwnInv'
  OBVIOUS
<1>0. OwnInv /\ StreamTypeOK /\ OwnTypeOK
  BY DEF CustomInv, OwnInv, StreamInv
<1> USE DEF OwnInv, OwnTypeOK, Kinds, Announced, ShowsOutput, Ahead, Polling, displayVars
<1>1. CASE Construct
  <2>1. /\ ~created /\ created' = TRUE /\ dp' = TRUE /\ UNCHANGED <<conf, stage, result, output, shown, timer, requests, intervals, failures, fresh>>
        /\ worker = "none" /\ ~pid /\ ~timer /\ stage = "start"
    BY <1>0, <1>1 DEF Construct
  <2>2. CASE Polling
    BY <1>0, <1>1, <2>1, <2>2 DEF Construct, Start, streamVars
  <2>3. CASE ~Polling
    BY <1>0, <1>1, <2>1, <2>3 DEF Construct, sleeperVars
  <2> QED  BY <2>2, <2>3
<1>2. CASE Update
  <2>1. created /\ dp' = FALSE /\ UNCHANGED <<sleeperVars, streamVars, conf, created, stage, result, output, timer, requests, intervals, failures>>
    BY <1>2 DEF Update, MainFree
  <2>2. shown' \in Text \cup {Hidden} /\ fresh' \subseteq {"output", "updated"}
    <3>1. PICK text \in Text \cup {Hidden} : shown' = Displayed(text)
      BY <1>0, <1>2 DEF Update
    <3> QED  BY <1>0, <1>2, <3>1 DEF Update, Displayed
  <2>3. OwnTypeOK' /\ Kinds'
    BY <1>0, <2>1, <2>2 DEF sleeperVars, streamVars
  <2>4. CASE Assigning
    <3>1. worker # "none" /\ Polling
      BY <1>0, <2>4 DEF Assigning
    <3> QED  BY <2>1, <2>3, <2>4, <3>1 DEF Assigning, sleeperVars
  <2>5. CASE ~Assigning
    BY <1>2, <2>1, <2>3, <2>5 DEF Update, Displayed
  <2> QED  BY <2>4, <2>5
<1>3. ASSUME NEW click \in BOOLEAN, Request(click) PROVE OwnInv'
  <2>1. requests' \in 0..MaxRequests
    BY <1>0, <1>3, CustomBoundsAssumption DEF Request, CustomBoundsAssumption
  <2>2. dp' = (dp \/ click) /\ dp' \in BOOLEAN
    BY <1>3 DEF Request
  <2>3. UNCHANGED <<worker, streamVars, conf, created, stage, result, output, shown, timer, intervals, failures>> /\ fresh' = {}
    BY <1>3 DEF Request, WakeUp
  <2>4. OwnTypeOK' /\ Kinds'
    BY <1>0, <2>1, <2>2, <2>3 DEF streamVars
  <2> QED  BY <1>0, <2>2, <2>3, <2>4
<1>4. CASE RequestNotifies
  BY <1>0, <1>4 DEF RequestNotifies, NotifyWorker, streamVars, customVars
<1>5. CASE ReadOutput
  <2>1. PICK hup \in BOOLEAN : HandleStdout(hup)
    BY <1>5 DEF ReadOutput
  <2>2. stdoutWatch /\ UNCHANGED <<pid, childWatch, stopping, shell, status, holders, written, owed>>
    BY <2>1 DEF HandleStdout
  <2>3. ~Polling /\ pid /\ ~timer
    <3>1. ~stopping
      BY <2>1 DEF HandleStdout
    <3>2. open
      BY <1>0, <2>2, <3>1 DEF StreamTypeOK
    <3>3. pid
      BY <1>0, <3>2 DEF StreamTypeOK
    <3> QED  BY <1>0, <3>3
  <2>4. /\ UNCHANGED <<sleeperVars, conf, created, stage, result, shown, timer, requests, intervals, failures, fresh>>
        /\ OutputLines /\ created
    BY <1>5 DEF ReadOutput, MainFree
  <2>5. output' \in Text \cup {Hidden} /\ dp' \in BOOLEAN /\ (dp' \/ UNCHANGED <<output, dp>>)
    BY <1>0, <2>4 DEF OutputLines
  <2>6. OwnTypeOK' /\ Kinds'
    BY <1>0, <2>2, <2>3, <2>4, <2>5 DEF sleeperVars
  <2> QED  BY <1>0, <2>3, <2>4, <2>5, <2>6
<1>6. CASE ScriptExits
  <2>1. childWatch /\ ~pid' /\ UNCHANGED <<sleeperVars, conf, created, stage, result, shown, requests, intervals, failures, fresh>> /\ created
    BY <1>6 DEF ScriptExits, HandleExit, MainFree
  <2>2. output' \in Text \cup {Hidden} /\ dp' \in BOOLEAN /\ (dp' \/ UNCHANGED <<output, dp>>)
    BY <1>0, <1>6 DEF ScriptExits, OutputLines
  <2>3. ~Polling /\ timer' \in BOOLEAN
    <3>1. conf.restart \in BOOLEAN
      BY <1>0, RestartBoolean
    <3> QED  BY <1>0, <1>6, <2>1, <3>1 DEF ScriptExits, ScheduleRestart
  <2> QED  BY <1>0, <2>1, <2>2, <2>3 DEF sleeperVars
<1>7. CASE RestartScript
  <2>1. timer /\ ~Polling /\ created
    BY <1>0, <1>7 DEF RestartScript, MainFree
  <2> QED  BY <1>0, <1>7, <2>1 DEF RestartScript, sleeperVars
<1>8. CASE RestartFails
  <2>1. timer /\ ~Polling /\ created /\ ~pid
    BY <1>0, <1>8 DEF RestartFails, MainFree
  <2>2. failures' \in 0..MaxFailures
    BY <1>0, <1>8, CustomBoundsAssumption DEF RestartFails, CustomBoundsAssumption
  <2>3. timer' \in BOOLEAN
    <3>1. conf.restart \in BOOLEAN
      BY <1>0, RestartBoolean
    <3> QED  BY <1>8, <3>1 DEF RestartFails, ScheduleRestart
  <2> QED  BY <1>0, <1>8, <2>1, <2>2, <2>3 DEF RestartFails, sleeperVars, streamVars
<1>9. CASE DestroyCustom
  <2>1. worker' = worker /\ timer' = FALSE /\ UNCHANGED <<conf, created, stage, result, displayVars, requests, intervals, failures, fresh, pid, open>>
    BY <1>9 DEF DestroyCustom, Destroy, Stop, StreamStop, streamVars
  <2>2. Polling => UNCHANGED streamVars
    BY <1>9 DEF DestroyCustom
  <2>3. OwnTypeOK'
    BY <1>0, <2>1
  <2>4. Kinds'
    <3>1. CASE Polling
      BY <1>0, <2>1, <2>2, <3>1 DEF streamVars
    <3>2. CASE ~Polling
      BY <1>0, <2>1, <3>2
    <3> QED  BY <3>1, <3>2
  <2>5. Announced'
    BY <1>0, <2>1
  <2> QED  BY <2>3, <2>4, <2>5
<1>10. CASE StreamWaits
  <2>1. stopping /\ ~pid' /\ UNCHANGED <<sleeperVars, customVars>>
    BY <1>10 DEF StreamWaits, StreamStopped
  <2> QED  BY <1>0, <2>1 DEF sleeperVars, customVars
<1>11. CASE WorkerWaits
  BY <1>0, <1>11 DEF WorkerWaits, StopNotify, StopCancel, JoinDestroy, streamVars, customVars
<1> QED  BY <1>1, <1>2, <1>3, <1>4, <1>5, <1>6, <1>7, <1>8, <1>9, <1>10, <1>11 DEF MainStep

\* A child may write and exit at any time; only the main thread notices.
LEMMA ChildStepKeeps == CustomInv /\ Child => OwnInv'
<1> SUFFICES ASSUME CustomInv, Child PROVE OwnInv'
  OBVIOUS
<1>1. UNCHANGED <<sleeperVars, customVars, pid, open, stdoutWatch, childWatch, stopping>>
  BY DEF Child, ChildStep, Write, Hold, HeirExits, ShellExits
<1> QED  BY <1>1 DEF CustomInv, OwnInv, OwnTypeOK, Kinds, Announced, ShowsOutput, Ahead, Polling, sleeperVars, customVars, displayVars

LEMMA CustomKeeps == CustomInv /\ [Next]_vars => CustomInv'
<1>1. ASSUME CustomInv, Next PROVE CustomInv'
  <2>1. SleeperInv'
    <3>1. SleeperInv /\ (SleeperNext \/ UNCHANGED sleeperVars)
      BY <1>1, StepOfThread DEF CustomInv
    <3>2. SleeperInv /\ UNCHANGED sleeperVars => SleeperInv'
      BY DEF sleeperVars, flags, SleeperInv, SleeperTypeOK, Remembered, Requested, Running, NoMissedWakeup, Due, Notifying, Woken,
             Resumed, AfterQuietRun, PausedRests, Asleep, WorkerPC, OwnerPC
    <3> QED  BY <3>1, <3>2, WorkerKeeps, WakersKeep, OwnerKeeps DEF SleeperNext
  <2>2. StreamInv'
    <3>1. StreamInv /\ (StreamStep \/ UNCHANGED streamVars)
      BY <1>1, StepOfStream DEF CustomInv
    <3>2. StreamInv /\ UNCHANGED streamVars => StreamInv'
      BY DEF streamVars, StreamInv, StreamTypeOK, OutputBeforeExit
    <3> QED  BY <3>1, <3>2, ChildKeeps, StreamKeeps DEF StreamStep
  <2>3. OwnInv'
    BY <1>1, WorkerStepKeeps, MainStepKeeps, ChildStepKeeps DEF Next
  <2> QED  BY <2>1, <2>2, <2>3 DEF CustomInv
<1>2. ASSUME CustomInv, UNCHANGED vars PROVE CustomInv'
  <2>1. UNCHANGED sleeperVars /\ UNCHANGED streamVars /\ UNCHANGED customVars
    BY <1>2 DEF vars
  <2>2. SleeperInv'
    BY <1>2, <2>1
       DEF CustomInv, sleeperVars, flags, SleeperInv, SleeperTypeOK, Remembered, Requested, Running, NoMissedWakeup, Due, Notifying, Woken,
           Resumed, AfterQuietRun, PausedRests, Asleep, WorkerPC, OwnerPC
  <2>3. StreamInv'
    BY <1>2, <2>1 DEF CustomInv, streamVars, StreamInv, StreamTypeOK, OutputBeforeExit
  <2>4. OwnInv'
    BY <1>2, <2>1 DEF CustomInv, sleeperVars, streamVars, customVars, displayVars, OwnInv, OwnTypeOK, Kinds, Announced, ShowsOutput, Ahead, Polling
  <2> QED  BY <2>2, <2>3, <2>4 DEF CustomInv
<1> QED  BY <1>1, <1>2

LEMMA CustomInvariant == Spec => []CustomInv
<1> QED  BY CustomStarts, CustomKeeps, PTL DEF Spec

-----------------------------------------------------------------------------
\* A module with a worker uses its SleeperThread as that was specified: what is proved of
\* every SleeperThread holds of it (custom.cpp:53-95, thread_).
THEOREM CustomUsesSleeperThread == Spec => SleeperSpec
<1>1. Init => SleeperInit
  BY DEF Init
<1>2. [Next]_vars => [SleeperNext]_sleeperVars
  BY StepOfThread DEF vars
<1> QED  BY <1>1, <1>2, PTL DEF Spec, SleeperSpec

\* Types, and never a script that runs and another about to be started.
THEOREM CustomTypeCorrect == Spec => []CustomTypeOK
<1>1. CustomInv => CustomTypeOK
  BY InvImplies
<1> QED  BY <1>1, CustomInvariant, PTL

\* The exit of a script is reported after all it wrote, whatever process still holds the pipe.
THEOREM ExitReportedLast == Spec => []OutputBeforeExit
<1>1. CustomInv => OutputBeforeExit
  BY InvImplies
<1> QED  BY <1>1, CustomInvariant, PTL

\* At rest the module shows output_, although the worker assigns it without a lock, unless
\* just that output makes update() throw (custom.cpp:194-284, bar.cpp:619-625).
THEOREM ShowsWhatWasRead == Spec => []ShownAtRest
<1>1. CustomInv => ShownAtRest
  BY InvImplies
<1> QED  BY <1>1, CustomInvariant, PTL
=============================================================================
