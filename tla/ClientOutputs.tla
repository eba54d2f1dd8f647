---------------------------- MODULE ClientOutputs ---------------------------
(***************************************************************************)
(* src/client.cpp: from the monitors GDK announces to the bars on them.     *)
(*                                                                         *)
(* A monitor gets a waybar_output in outputs_ and a listener; when the      *)
(* listener has heard all about it, the output is pending, and an idle      *)
(* source creates the bars of all pending outputs in one batch.  A bar and  *)
(* pending_outputs_ hold plain pointers into outputs_.  The removal of a    *)
(* monitor is deferred to an idle source of its own.  A reload (SIGUSR2)    *)
(* leaves Client::main() and enters it again: outputs are made anew, while  *)
(* idle sources stay with the main context.                                 *)
(*                                                                         *)
(* Module and window constructors may make a round trip to the compositor:  *)
(* its events are then handled in the middle of a batch.                    *)
(***************************************************************************)
EXTENDS Naturals, Sequences, SequencesExt, Subsequences

CONSTANTS Address,    \* where the nodes of outputs_ may be allocated
          MaxPlugs,   \* bound on the monitors that ever appear
          MaxReloads  \* bound on the reloads

ASSUME ClientAssumption == MaxPlugs \in Nat /\ MaxReloads \in Nat

VARIABLES monitors,   \* GDK's monitors, numbered as they appear
          plugs,      \* how many have appeared
          connected,  \* monitor_added_connection_ and monitor_removed_connection_
          outputs,    \* outputs_; "done" when xdg_output has been reset
          pending,    \* pending_outputs_
          scheduled,  \* bars_scheduled_
          idles,      \* the idle sources, in the order they run: Batch, or the
                      \* monitor of a deferred removal
          bars,       \* the outputs that have their bars, in order
          phase,      \* "bind": in bindInterfaces(); "run": in the main loop;
                      \* "batch": in createBarsBatch()
          cursor,     \* the pending output the batch is at
          quitting,   \* gtk_app->quit() was called
          reloads,    \* how often Client::main() has been entered again
          failed      \* history: monitors whose bars threw in this run

clientVars == <<monitors, plugs, connected, outputs, pending, scheduled, idles, bars, phase,
          cursor, quitting, reloads, failed>>

\* A waybar_output.  The address alone is what pointers hold; the monitor and the
\* run tell an output from a later one at its address.
Output(a, m) == [addr |-> a, monitor |-> m, run |-> reloads, done |-> FALSE]
Same(o, p) == o.addr = p.addr /\ o.monitor = p.monitor /\ o.run = p.run
Addresses(s) == {s[i].addr : i \in DOMAIN s}
Batch == 0

-----------------------------------------------------------------------------
ClientInit ==
  /\ plugs \in 0..MaxPlugs
  /\ monitors = 1..plugs
  /\ connected = FALSE
  /\ outputs = <<>> /\ pending = <<>> /\ scheduled = FALSE
  /\ idles = <<>>
  /\ bars = <<>>
  /\ phase = "bind" /\ cursor = 1
  /\ quitting = FALSE /\ reloads = 0
  /\ failed = {}

\* A monitor appears.  handleMonitorAdded() appends an output and listens.
MonitorAdded ==
  /\ plugs < MaxPlugs
  /\ plugs' = plugs + 1
  /\ monitors' = monitors \cup {plugs'}
  /\ IF connected
     THEN \E a \in Address \ Addresses(outputs) : outputs' = Append(outputs, Output(a, plugs'))
     ELSE UNCHANGED outputs
  /\ UNCHANGED <<connected, pending, scheduled, idles, bars, phase, cursor, quitting, reloads, failed>>

\* A monitor disappears.  handleMonitorRemoved() defers the rest.
MonitorRemoved(m) ==
  /\ m \in monitors
  /\ monitors' = monitors \ {m}
  /\ idles' = IF connected THEN Append(idles, m) ELSE idles
  /\ UNCHANGED <<plugs, connected, outputs, pending, scheduled, bars, phase, cursor, quitting,
                 reloads, failed>>

Pend(o) ==
  /\ pending' = Append(pending, o)
  /\ scheduled' = TRUE
  /\ idles' = IF scheduled THEN idles ELSE Append(idles, Batch)

\* handleOutputDone(); later calls for the same output change nothing.  The
\* compositor says nothing more of a monitor after its removal.
OutputDone(i) ==
  /\ outputs[i].monitor \in monitors
  /\ ~outputs[i].done
  /\ outputs' = [outputs EXCEPT ![i].done = TRUE]
  /\ Pend(outputs[i])
  /\ UNCHANGED <<monitors, plugs, connected, bars, phase, cursor, quitting, reloads, failed>>

-----------------------------------------------------------------------------
\* createBarsBatch(): first the pending outputs that are no longer in outputs_ go;
\* addresses are compared.
BatchBegins ==
  /\ phase = "run"
  /\ idles # <<>> /\ Head(idles) = Batch
  /\ idles' = Tail(idles)
  /\ pending' = At(pending, {i \in DOMAIN pending : pending[i].addr \in Addresses(outputs)})
  /\ phase' = "batch" /\ cursor' = 1
  /\ UNCHANGED <<monitors, plugs, connected, outputs, scheduled, bars, quitting, reloads, failed>>

\* The bars of one output, the one that is now at the address.  Getting its
\* configurations or making a bar may throw, which is caught.
BatchCreates ==
  /\ phase = "batch" /\ cursor <= Len(pending)
  /\ \E i \in DOMAIN outputs :
       /\ outputs[i].addr = pending[cursor].addr
       /\ \/ bars' = Append(bars, outputs[i]) /\ UNCHANGED failed
          \/ failed' = failed \cup {outputs[i].monitor} /\ UNCHANGED bars
  /\ cursor' = cursor + 1
  /\ UNCHANGED <<monitors, plugs, connected, outputs, pending, scheduled, idles, phase, quitting, reloads>>

BatchEnds ==
  /\ phase = "batch" /\ cursor > Len(pending)
  /\ pending' = <<>> /\ scheduled' = FALSE
  /\ phase' = "run" /\ cursor' = 1
  /\ UNCHANGED <<monitors, plugs, connected, outputs, idles, bars, quitting, reloads, failed>>

Elsewhere(s, m) == At(s, {i \in DOMAIN s : s[i].monitor # m})

\* handleDeferredMonitorRemoval(): the bars on the monitor, then its output.
Removal ==
  /\ phase = "run"
  /\ idles # <<>> /\ Head(idles) # Batch
  /\ idles' = Tail(idles)
  /\ bars' = Elsewhere(bars, Head(idles))
  /\ outputs' = Elsewhere(outputs, Head(idles))
  /\ UNCHANGED <<monitors, plugs, connected, pending, scheduled, phase, cursor, quitting, reloads, failed>>

-----------------------------------------------------------------------------
\* Client::reset() on a SIGUSR2; sources that are ready may still be dispatched.
Quit ==
  /\ phase = "run" /\ ~quitting
  /\ reloads < MaxReloads
  /\ quitting' = TRUE
  /\ UNCHANGED <<monitors, plugs, connected, outputs, pending, scheduled, idles, bars, phase,
                 cursor, reloads, failed>>

\* run() returns, the bars are destroyed, Client::main() is entered again.
Leave ==
  /\ phase = "run" /\ quitting
  /\ bars' = <<>>
  /\ phase' = "bind" /\ quitting' = FALSE
  /\ reloads' = reloads + 1
  /\ failed' = {}
  /\ UNCHANGED <<monitors, plugs, connected, outputs, pending, scheduled, idles, cursor>>

\* The outputs of all monitors, in some order and wherever there is room.
NewOutputs ==
  {s \in [1..Cardinality(monitors) -> {Output(a, m) : a \in Address, m \in monitors}] :
     /\ \A i, j \in DOMAIN s : s[i].monitor = s[j].monitor \/ s[i].addr = s[j].addr => i = j}

BindKeepingPending == \* mutant: as before issue #4129 was fixed
  /\ phase = "bind"
  /\ outputs' \in NewOutputs
  /\ connected' = TRUE
  /\ phase' = "run"
  /\ UNCHANGED <<monitors, plugs, pending, scheduled, idles, bars, cursor, quitting, reloads, failed>>

BindKeepingOutputs == \* mutant: outputs_ is not cleared
  /\ phase = "bind"
  /\ \E s \in NewOutputs :
       /\ Addresses(s) \cap Addresses(outputs) = {}
       /\ outputs' = outputs \o s
  /\ pending' = <<>> /\ scheduled' = FALSE
  /\ connected' = TRUE
  /\ phase' = "run"
  /\ UNCHANGED <<monitors, plugs, idles, bars, cursor, quitting, reloads, failed>>

\* bindInterfaces() from its round trip on: disconnect, clear, add every monitor,
\* connect.
Bind ==
  /\ phase = "bind"
  /\ outputs' \in NewOutputs
  /\ pending' = <<>> /\ scheduled' = FALSE
  /\ connected' = TRUE
  /\ phase' = "run"
  /\ UNCHANGED <<monitors, plugs, idles, bars, cursor, quitting, reloads, failed>>

-----------------------------------------------------------------------------
ClientNext ==
  \/ MonitorAdded
  \/ \E m \in monitors : MonitorRemoved(m)
  \/ \E i \in DOMAIN outputs : OutputDone(i)
  \/ BatchBegins
  \/ BatchCreates
  \/ BatchEnds
  \/ Removal
  \/ Quit
  \/ Leave
  \/ Bind

ClientSpec == ClientInit /\ [][ClientNext]_clientVars

-----------------------------------------------------------------------------
IsOutput(o) ==
  /\ DOMAIN o = {"addr", "monitor", "run", "done"}
  /\ o.addr \in Address /\ o.monitor \in 1..plugs /\ o.run \in 0..reloads /\ o.done \in BOOLEAN

\* Types; outputs_ has a node per monitor and address.
ClientTypeOK ==
  /\ monitors \subseteq 1..plugs /\ plugs \in 0..MaxPlugs
  /\ {connected, scheduled, quitting} \subseteq BOOLEAN
  /\ \A o \in ToSet(outputs) \cup ToSet(pending) \cup ToSet(bars) : IsOutput(o)
  /\ \A i, j \in DOMAIN outputs :
       outputs[i].monitor = outputs[j].monitor \/ outputs[i].addr = outputs[j].addr => i = j
  /\ ToSet(idles) \subseteq {Batch} \cup 1..plugs
  /\ phase \in {"bind", "run", "batch"} /\ cursor \in 1..(Len(pending) + 1)
  /\ reloads \in 0..MaxReloads
  /\ failed \subseteq 1..plugs

\* No bar outlives the output it points to: handleDeferredMonitorRemoval() and the
\* bar's own callbacks follow bar->output (client.cpp:192-205, 287, 393).
BarsOnOutputs == \A b \in ToSet(bars) : \E o \in ToSet(outputs) : Same(b, o)

\* createBarsBatch() takes no output for another one at its address, and makes
\* bars only for outputs that are known completely (client.cpp:129-137, 289-296).
BatchFollowsPointers ==
  phase = "batch" =>
    \A i \in cursor..Len(pending) : \E o \in ToSet(outputs) : Same(o, pending[i]) /\ o.done

\* A monitor never gets its bars twice, however often its listener is told that
\* all is said, and across reloads (client.cpp:110-114).
NoBarTwice == \A i, j \in DOMAIN bars : bars[i].monitor = bars[j].monitor => i = j

\* When no idle source is left, the bars are those of the monitors there are: one
\* set for each that is known completely, but for those that threw, and none for
\* a monitor that is gone.
Barred == {b.monitor : b \in ToSet(bars)}
BarsSettled ==
  phase = "run" /\ idles = <<>> =>
    /\ {o.monitor : o \in ToSet(outputs)} = monitors
    /\ Barred \cup failed = {o.monitor : o \in {p \in ToSet(outputs) : p.done}} \cup failed
    /\ failed \cap Barred = {}
=============================================================================
