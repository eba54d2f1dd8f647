----------------------------- MODULE LineStream -----------------------------
(***************************************************************************)
(* src/util/command_line_stream.cpp: a shell command whose standard output  *)
(* is read line by line on the main loop, and its exit reported after it.   *)
(*                                                                         *)
(* What the command writes is a sequence of chunks, each the end of a line  *)
(* or a part of one; the main loop takes them from the pipe, and counts     *)
(* stand for the contents: chunks 1..delivered have been given to           *)
(* on_output_, chunks delivered+1..taken are in buffer_, the others are in  *)
(* the pipe.  The write end is held by the shell and by whatever it leaves  *)
(* in the background ("heir").                                              *)
(***************************************************************************)
EXTENDS Naturals, Sequences, FiniteSetsExt

CONSTANT MaxWritten  \* bound on the chunks one child writes

VARIABLES pid,          \* pid_ # 0
          open,         \* stdout_fd_ # -1
          stdoutWatch,  \* stdout_connection_ is connected
          childWatch,   \* child_connection_ is connected
          stopping,     \* the main thread is in stop(), waiting for the child
          taken,        \* chunks read from the pipe
          delivered,    \* chunks given to on_output_
          shell,        \* the child: "none", "running" or "exited"
          status,       \* its exit code
          holders,      \* who holds the write end of the pipe
          written,      \* what has been written to the pipe
          owed          \* history: chunks that must be delivered before the exit report

streamVars == <<pid, open, stdoutWatch, childWatch, stopping, taken, delivered,
                shell, status, holders, written, owed>>

StreamInit ==
  /\ pid = FALSE /\ open = FALSE
  /\ stdoutWatch = FALSE /\ childWatch = FALSE /\ stopping = FALSE
  /\ taken = 0 /\ delivered = 0
  /\ shell = "none" /\ status = 0 /\ holders = {}
  /\ written = <<>> /\ owed = 0

\* The last chunk of w that ends a line.
LastLineEnd(w) == Max({0} \cup {i \in 1..Len(w) : w[i] = "end"})

-----------------------------------------------------------------------------
\* The child and its descendants.
Write(chunk) ==
  /\ holders # {}
  /\ Len(written) < MaxWritten
  /\ written' = Append(written, chunk)
  /\ UNCHANGED <<pid, open, stdoutWatch, childWatch, stopping, taken, delivered,
                 shell, status, holders, owed>>

\* The shell closes its output, or leaves a background process with it.
Hold(h) ==
  /\ shell = "running" /\ "shell" \in holders
  /\ holders' = h
  /\ UNCHANGED <<pid, open, stdoutWatch, childWatch, stopping, taken, delivered,
                 shell, status, written, owed>>

HeirExits ==
  /\ "heir" \in holders
  /\ holders' = holders \ {"heir"}
  /\ UNCHANGED <<pid, open, stdoutWatch, childWatch, stopping, taken, delivered,
                 shell, status, written, owed>>

ShellExits(code) ==
  /\ shell = "running"
  /\ shell' = "exited" /\ status' = code
  /\ holders' = holders \ {"shell"}
  /\ owed' = IF holders' = {} THEN Len(written) ELSE LastLineEnd(written)
  /\ UNCHANGED <<pid, open, stdoutWatch, childWatch, stopping, taken, delivered, written>>

-----------------------------------------------------------------------------
\* drainStdout() on an open descriptor.  End of file, where a trailing line is
\* flushed, is read only when nobody holds the write end: else read() fails with
\* EAGAIN and what follows the last line end stays in buffer_.
Drain(flush) ==
  /\ taken' = Len(written)
  /\ delivered' = IF flush /\ holders = {} THEN Len(written)
                  ELSE Max({delivered, LastLineEnd(written)})

\* start() of a stream that was never started, or whose child has been reported.
StreamStart ==
  /\ ~pid /\ ~open /\ ~stopping
  /\ pid' = TRUE /\ open' = TRUE
  /\ stdoutWatch' = TRUE /\ childWatch' = TRUE
  /\ taken' = 0 /\ delivered' = 0
  /\ shell' = "running" /\ holders' = {"shell"} /\ written' = <<>> /\ owed' = 0
  /\ UNCHANGED <<stopping, status>>

HandleStdoutClosing(hup) == \* mutant: the descriptor is closed before it is drained
  /\ ~stopping /\ stdoutWatch
  /\ IF hup THEN holders = {} ELSE taken < Len(written)
  /\ IF hup THEN UNCHANGED <<taken, delivered>> ELSE Drain(hup)
  /\ open' = ~hup
  /\ stdoutWatch' = ~hup
  /\ UNCHANGED <<pid, childWatch, stopping, shell, status, holders, written, owed>>

\* handleStdout(): poll() saw a hang-up, or it saw something to read and nobody
\* but the main thread can have taken it since.
HandleStdout(hup) ==
  /\ ~stopping /\ stdoutWatch
  /\ IF hup THEN holders = {} ELSE taken < Len(written)
  /\ Drain(hup)
  /\ open' = (pid /\ ~hup)
  /\ stdoutWatch' = (pid /\ ~hup)
  /\ UNCHANGED <<pid, childWatch, stopping, shell, status, holders, written, owed>>

HandleExitWatching == \* mutant: handleExit() leaves stdout_connection_
  /\ ~stopping /\ childWatch /\ shell = "exited"
  /\ childWatch' = FALSE
  /\ IF open THEN Drain(TRUE) ELSE UNCHANGED <<taken, delivered>>
  /\ open' = FALSE
  /\ pid' = FALSE
  /\ shell' = "none" /\ status' = 0
  /\ UNCHANGED <<stopping, stdoutWatch, holders, written, owed>>

\* handleExit(), up to the call of on_exit_(status).
HandleExit ==
  /\ ~stopping /\ childWatch /\ shell = "exited"
  /\ childWatch' = FALSE
  /\ IF open THEN Drain(TRUE) ELSE UNCHANGED <<taken, delivered>>
  /\ stdoutWatch' = FALSE /\ open' = FALSE
  /\ pid' = FALSE
  /\ shell' = "none" /\ status' = 0
  /\ UNCHANGED <<stopping, holders, written, owed>>

\* stop(): disconnect and signal the group ...
StreamStop ==
  /\ ~stopping
  /\ stopping' = TRUE
  /\ stdoutWatch' = FALSE /\ childWatch' = FALSE
  /\ UNCHANGED <<pid, open, taken, delivered, shell, status, holders, written, owed>>

\* ... wait for the child, and close and clear what is left.
StreamStopped ==
  /\ stopping
  /\ pid => shell = "exited"
  /\ stopping' = FALSE
  /\ pid' = FALSE /\ open' = FALSE
  /\ shell' = "none" /\ status' = 0
  /\ taken' = delivered
  /\ owed' = 0
  /\ UNCHANGED <<stdoutWatch, childWatch, delivered, holders, written>>

-----------------------------------------------------------------------------
ChildStep ==
  \/ \E chunk \in {"part", "end"} : Write(chunk)
  \/ \E h \in {{}, {"heir"}, {"shell", "heir"}} : Hold(h)
  \/ HeirExits
  \/ \E code \in {0, 1} : ShellExits(code)

\* Types, and how the descriptors go together: a descriptor is watched exactly
\* while it is open (a watch on a closed one spins the main loop), a child is
\* watched until it has been waited for, and no descriptor outlives its child.
StreamTypeOK ==
  /\ {pid, open, stdoutWatch, childWatch, stopping} \subseteq BOOLEAN
  /\ delivered \in 0..taken /\ taken \in 0..Len(written)
  /\ shell \in {"none", "running", "exited"} /\ status \in {0, 1}
  /\ holders \subseteq {"shell", "heir"}
  /\ written \in Seq({"part", "end"}) /\ owed \in 0..Len(written)
  /\ pid <=> shell # "none"
  /\ open => pid
  /\ ~stopping => (stdoutWatch <=> open) /\ (childWatch <=> pid)

\* The exit report comes after the output: when handleExit() is through, all the
\* shell had written has been given to on_output_, the hang-up seen before or
\* not, but for an unterminated line another process may go on with
\* (command_line_stream.cpp:140-170, tested by test/utils/command_line_stream.cpp:50).
OutputBeforeExit == ~pid /\ shell = "none" /\ ~stopping => delivered >= owed
=============================================================================
