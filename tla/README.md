# TLA+ models of Waybar

Waybar is a single GTK process that draws bars on a Wayland compositor's monitors.
A bar holds modules; a module learns something from the outside (a socket, a bus, a
file, a script) and shows it in a widget. Nearly everything that is hard in it comes
from that: widgets belong to the main thread, while the news arrive on worker threads,
signals, child processes and connections that break. The models below are of that
core; formatting, drawing and the parsing of replies are left out.

All source paths are relative to `src/`, the repository.

## 1. Inventory

| Component | Its state | Operations | Talks to | What must be true of it |
|---|---|---|---|---|
| `include/util/SafeSignal.hpp` | `queue_`, `max_queued_events_`, `mutex_`, a `Glib::Dispatcher` | `emit` (worker: queue and announce; main thread: call at once), `handle_event`, `set_max_queued_events` | worker threads, main loop | nothing stranded, order kept, only the oldest dropped |
| `include/util/sleeper_thread.hpp` | `do_run_`, `signal_`, `is_paused_`, `condvar_`, the thread | start by `operator=`, `sleep`, `sleep_for`, `wake_up`, `pause`, `resume`, `stop`, destructor | almost every polling module | no request slept through, hidden modules rest, destructors return |
| `src/main.cpp`, `include/util/command.hpp` | signal pipe, `reload`, `reap` | signal handler, `catchSignals`, `handleSignalMainThread`, `forkExec`, the reload loop | kernel, SafeSignal, every bar | zombies collected, SIGINT answered, bars agree |
| `src/util/command_line_stream.cpp` | pid, pipe, two watches, `buffer_` | `start`, `stop`, `handleStdout`, `handleExit` | a shell command, main loop | output complete before the exit is reported |
| `src/modules/custom.cpp` | `output_`, worker or stream, restart timer | three kinds of worker, `refresh`, clicks, `update` | SleeperThread, LineStream | what is shown is what was read last; scripts come back |
| `src/client.cpp` | `outputs_`, `pending_outputs_`, `bars_scheduled_`, `bars` | monitors added, described, removed; batches of bars; reload | GDK, xdg-output, Bar | a set of bars per monitor, no stale pointer |
| `src/bar.cpp`, `src/modules/sway/bar.cpp` | visibility, mode, module lists, sway's flags | `setVisible`, `setMode`, suspend on unmap; a worker's `onIpcEvent` and `onCmd`, and through four SafeSignals `onConfigUpdate`, `onModeUpdate`, `onVisibilityUpdate`, `onUrgencyUpdate` on the main thread | Client, modules, sway | suspended exactly while unmapped; a hidden bar shows for a reason |
| `src/group.cpp`, `src/AModule.cpp` | drawer, who is outside of it, timers | reveal, hide, class gained or lost | its modules, the pointer | the drawer hides no module that is to be visible |
| `src/modules/mpd` | statechart, `connection_`, `state_`, `status_`, timer and watch | five states, commands from clicks, `update` | MPD | never stuck, in step with MPD, label right |
| `src/modules/hyprland` | listener thread, callbacks, workspaces | register, events, `doUpdate` with deferred creations and removals | Hyprland sockets | no call into a freed module; workspaces converge |
| `src/modules/sway` | two sockets, subscriptions | commands, events, reconnection | sway | subscriptions survive a lost socket; modules converge |
| `src/modules/niri` | mirror under `dataMutex_` | events, update, reconnection | niri | mirror and modules converge |
| `src/modules/wlr/taskbar.cpp`, `src/modules/ext` | toplevel and workspace handles | events and `done`, update | compositor | buttons and handles consistent |
| `src/modules/sni` | watcher's and host's items, retry timer | register, vanish, proxies made asynchronously | session bus | tray = registered items, no use of a freed item |
| `src/modules/network.cpp` | interface, addresses, dump in progress | events, dumps, scans, two threads | kernel | the label is the kernel's state |
| `src/modules/wireplumber.cpp`, `src/util/audio_backend.cpp` with pulseaudio and its slider | connection in steps, default nodes, volumes | callbacks, reconnection, scrolling, slider | PipeWire, PulseAudio | the default device is followed |
| `src/modules/mpris`, `src/modules/bluetooth.cpp`, `src/util/rfkill.cpp` | players; controller and connected devices | bus signals, update | session and system bus | player and devices shown are the ones there are |
| `src/modules/battery.cpp`, `src/modules/upower.cpp`, `src/modules/power_profiles_daemon.cpp` | lists of devices, states, profile | three threads; D-Bus callbacks; clicks | sysfs, udev, inotify, UPower | shown is what there is |
| `src/util/backlight_backend.cpp` with backlight and its slider | devices | udev events, polls, scrolling, slider | udev, sysfs, logind | shown is the best device's brightness |
| `src/modules/keyboard_state.cpp`, `src/modules/idle_inhibitor.cpp` | devices tracked; an inhibition shared by all bars | hot plugging, key releases; clicks, timers | inotify, libinput; compositor | all keyboards there are; bars agree, an inhibition ends |
| `src/modules/privacy`, `src/util/pipewire` | nodes and those in use, items with timers | PipeWire's events, timers | PipeWire, GeoClue | an item shows exactly while its kind is in use |
| `src/modules/gamemode.cpp`, `src/modules/systemd_failed_units.cpp` | counts | signals and calls | D-Bus | counts are the service's |
| other compositors, clock, cava, graph, image, cpu, ... | see `PROJECT.json` | timers | files, services | mostly reading and formatting |
| `src/config.cpp` | merged JSON | includes, merge, output matching | files | merge order, no endless include |

How they interact: a module's thread calls `dp.emit()` (a `Glib::Dispatcher`) and the
main loop answers with `update()`; SIGRTMIN+n reaches modules through the signal
pipe, the SafeSignal and `Bar::handleSignal`; a reload destroys every bar, and thereby
every module and thread, and enters `Client::main()` again while GLib sources and the
signal thread stay. The behaviours that are hard here: a thread between its predicate
and its wait; flags changed outside a mutex; pids listed after the fork; a queue full of
signals; sources that outlive what they point to; exceptions between two calls of a
handler; copies of somebody else's state that are kept by single changes, while
snapshots, losses and questions asked meanwhile are in another order.

## 2. Plan

Done: SafeSignal (with its abstract channel), Signals on top of it, SleeperThread,
LineStream and Custom on top of both, MpdState, all with proofs; then the modules that
mirror something, in four groups, each with one run: compositors (HyprlandWorkspaces,
HyprlandIpc, Sway, Niri, Taskbar, ExtWorkspaces; proofs of all but the last two), the
desktop (ClientOutputs, Bar, Group, Tray; proofs of all), services (Network, Wireplumber,
AudioBackend, Mpris, Bluetooth; proofs of all) and hardware (Battery, Upower, PowerProfiles,
Backlight, KeyboardState, IdleInhibitor, Gamemode, FailedUnits, Privacy; proofs of all but Backlight
and IdleInhibitor).

Next, theorems: `InputAgrees`, `ButtonsAgree`, with the type invariants of their two groups.
Each needs what was needed so far: the last message on the wire that decides a field, and who
is bound to ask. The rest of `InputAgrees` is stated with folds over sequences, of which
the provers know nothing: it needs a definition by positions first, as `Subsequences` is for
erasure. Then models: Config merging as functions against a reference definition; the
remaining operations of the parts that `PROJECT.json` calls partly modelled (Hyprland's active
and urgent workspaces, teardown of Network's threads).

## 3. The modules

**SafeSignal** has one step per critical section of the class: `Push` is the locked part
of `emit()`, `Announce` the `dp_.emit()` after the unlock, `Wakeup` the main loop reading
one announcement, `Take`, `SlotReturns` and `Drained` the loop of `handle_event()`, which
locks anew for every event. `EmitMain` is the direct call on the main thread. `LIMIT 0`
is "unlimited" as in the code. The dispatcher's pipe is external; it holds
`PipeCapacity` announcements and then blocks the writer.
**SafeSignalOrder** adds two history variables: emissions are numbered, and the number the
slots saw last is remembered. **LossyChannel** is what a listener is promised: what is
held is a window of the newest emissions, delivered oldest first.

**Signals** is `main.cpp` with SafeSignal's actions inside it: the kernel writes to a pipe
that drops when full, `CatchSignal` and `AnnounceSignal` are the signal thread,
`HandleUserSignal`, `HandleSigint` and `HandleSigchld` are the branches
of `handleSignalMainThread()`; a real-time signal, which only makes modules refresh, is to
this module a user signal whose action is NOOP. `StartRun` and `EndRun` are the
`do { } while (reload)` loop; in a run `CreateBars` adds the bars of a monitor to those there
are, whenever it is plugged in, and `RemoveBars` takes them away with the processes their
modules answer for. In which order `Client::bars` has them is left open: a reload stops at any
of those that do not reload. Children are forked and listed in two steps; the worker of a
polling custom module may wait for them first. Pids are not reused. `fresh` and `met` are
history: a bar that is made after SIGUSR1 hid the others is visible beside them, and does
not agree with them, so that `BarsAgree` speaks of bars with no user signal between their makings.

**SleeperThread** follows the worker through the loop, each wait and its predicate, the
wakers through "flag set" and "notified", the owner through stop (flag, notify, cancel,
join). A condition variable wakes only who waits. Spurious wake-ups are left out: they
could only hide a missing notification. Cancellation is allowed everywhere but in the
waits, as `CancellationGuard` has it. The constructor that takes a function, which the
program does not use, is not modelled.

**LineStream** counts chunks instead of copying text: written, taken from the pipe, given
to `on_output_`. The pipe's write end may be inherited by a background process, the child
watch may be dispatched before the readable pipe, `stop()` waits for the child.
A failing `fcntl` is not modelled.

**Custom** EXTENDS SleeperThread and LineStream and chooses one of the configurations
`delay`, `wait`, `continuous` (with or without `exec-if`, `exec`, restart). `stage` is
where `func` is between its commands; the assignment of `output_` by the worker is an
interval during which `Update` may read either value. `update()` is abstracted to what it
makes of `output_`: a text, or hidden. It may throw, which `Bar` logs: `Malformed` texts (invalid
JSON, a format that does not fit) leave all as it was, a `BadTooltip` changes the label and
leaves a hidden module hidden (`Displayed`). `ShownAtRest` excepts just those outputs; one that
follows them is shown.

**ClientOutputs** models addresses, because pointers are compared: a removed output's
address may be used again (`Address`), and an entry of `outputs_` is identified by address,
monitor and run. Idle sources are a queue that survives a reload. Module constructors may
make a round trip to the compositor, so monitors come, go and are described in the middle
of a batch. Getting the bars of one output may throw. Left out: what happens when some of
the bars of one output were made before a later configuration throws, and the registry.
Erasures (`std::erase_if`) are said by the positions that stay, with **Subsequences**.

**MpdState** writes each handler as an operator from a module record to the set of records
it may leave, because a handler makes several blocking calls that may each time out, be
refused or find the connection gone; `Then` and `Catch` are sequence and the `try` block.
`SetState` is `exit()` and `entry()`. An exception nobody catches, and a use of a null
`status_`, end the process (`fate`); such a run stops there. `news` is what MPD owes an
`idle`. The label is `known`, `hidden`, or what it was. Assumption: the dispatcher
delivers an update before the timer with which Paused and Stopped ask again 200 ms later (`RestOnTimer`
waits for `emits = 0`): its pipe was written first, and GLib serves sources of one priority that are
ready at once in their order. That Idle's blank `update()` swallows a later announcement is therefore not found here. `HandlePlayPause` is allowed on every click; whether GTK calls it
after `AModule::handleToggle` has returned true does not matter for what is claimed.

### Modules that mirror something

The other modules keep a copy of what a compositor, a daemon or the kernel has. Their
models share a form: the truth (an external actor changes it), the wire (messages in order,
sometimes lost), the copy, a flag for an emitted `dp`, and what the label shows since the
last `update()`. Each handler of the code is one action; which thread runs it, and which
locks it holds, decides what may come between. The property says that once the wire is
empty and the updates are made the copy and the label are the truth, *whatever the order
before*; besides, what must hold at every moment (no freed object is used, no device is
listed twice). Where the code lets go of something for good, a history variable remembers
exactly that event and the property excepts it by name; section 7 lists those exceptions,
since each is a statement about the code.

| Module | What is particular in it |
|---|---|
| HyprlandIpc | one listener thread calls modules under `callbackMutex_`; a module unregisters, then takes its own mutex, then is freed. `window` holds the global `windowIpcSmtx` while it waits for `callbackMutex_`, and shares it in `update()`. `hyprland/workspaces` takes its `m_mutex` as `language` takes its `mutex_` (`workspaces.cpp:45-47`, 142, 300), so that the lock order speaks of it too. `window` and `windowcount` ask in `update()`, `language` and `submap` hear |
| HyprlandWorkspaces | a snapshot, then events that queue creations, removals and windows, worked off by `doUpdate()`; answers to questions may be ahead of the events still on the wire |
| Sway | subscriptions, a dropped event socket, `reconnectEvent()`; one of five modules at a time; persistent workspaces are merged into sway's order |
| Niri | the mirror and three modules reading it; a stream that ends begins anew with everything |
| Taskbar, ExtWorkspaces | protocol objects in any order of output, state, done and closed; ignore, squash and replace lists; sorting on demand |
| ClientOutputs | as above |
| Bar | modules made one by one, map, unmap and destruction; visibility by signal or by sway. BarIpcClient's worker reads the wire, puts what it reads in four queues, and itself reads `visible_by_urgency_` and clears `modifier_no_action_`; the main thread takes from the queues in any order |
| Group | the widget kept outside the drawer, reveal and cursor timers |
| Tray | watcher, host and item as three parties on the bus; proxies in flight, retries, names that vanish. The answer to a cancelled call stays on the wire, and its handler returns at once |
| Network | netlink messages, one dump at a time, an overrun, the timer thread's scan |
| Wireplumber | a connection in six asynchronous steps, generations, a module or a daemon that goes between any two |
| AudioBackend | requests answered in order, `ignored-sinks`, sink mapping, the slider that sets what it is told |
| Mpris | a named player or the most recent; throttled updates; the lengths that go into `{dynamic}` |
| Bluetooth | controllers, devices, batteries (Battery1 or GATT), rfkill |
| Battery | udev, inotify and timer threads on one list; every file may be there or not, and what is derived from which is kept (`Known`), a 32 bit subtraction included |
| Upower, PowerProfiles, Gamemode, FailedUnits | services that come and go, sleep, calls that fail, several reads of what changes meanwhile |
| Backlight | udev events and polls, best device, brightness set by scroll and slider; the slider has a range and moves by whole percents, and what `set_value()` rounds is written back |
| KeyboardState | the constructor's scan, then a thread that only later has its watch and may end, up to ten tries for a device's mode, devices that cannot be opened, LEDs read on updates |
| IdleInhibitor | static state shared by all bars, timers that outlive their module, time in half minutes |
| Privacy | PipeWire's thread destructs a node before the module is told; items, box and location each with a timer |

## 4. The runs

| Run | Asks | Bounds |
|---|---|---|
| `safe_signal` | Is any emission stranded, reordered, delivered twice; does the class implement LossyChannel, liveness included? | 2 threads, limits 0, 1, 2, pipe of 2, `MaxSent` = 5: more than limit plus pipe, so overflow, trimming and blocking all happen |
| `signals` | Is every zombie reaped in the end, does SIGINT end the program, do bars of one configuration agree if no signal came between them, does the main thread get back to its loop? | signal pipe of 1, queue of 1 (a third signal is in the slot, so that one is handled in the drain of another), 2 children, 2 monitors with a bar each that come and go |
| `signals_quit` | **violated**: `man/waybar.5.scd.in` says SIGINT quits the bar; a SIGUSR2 handled in the same drain sets `reload`, and the program starts again | as `signals` |
| `sleeper_thread` | Is a request ever slept through, does a paused module rest, do stop and destruction return? | 2 wakers, no other bound |
| `custom` | Does a module at rest show what was read last, is every request followed by a full run, is output complete before the exit, does a script come back? | 3 texts, of which 1 is malformed and 1 has a bad tooltip, 2 requests, 1 interval, 1 failed start, 3 chunks |
| `mpd` | Has each state its timer and watch, is the idle protocol in step (`StateFits`), does the label settle? | 2 updates counted in the dispatcher; nothing else is bounded |
| `mpd_retried` | **violated**: `man/waybar-mpd.5.scd` says a lost connection is retried; `Idle::on_io()` calls `fetchState()` outside its `try` | no clicks |
| `compositors` | Do Hyprland's, sway's, niri's, ext-workspace's and the taskbar's mirrors agree with the compositor at rest, are subscriptions held after a loss, do workspaces keep sway's order, is no freed module called? | 2 to 3 workspaces, 1 or 2 windows, 3 or 4 changes, 1 lost connection |
| `desktop` | Do bars follow outputs, is a hidden bar shown for a reason, does the drawer follow the pointer and the class, is the tray what is registered? | 3 monitors at 3 addresses (so each is used again) and a reload; 2 modules on a bar; 3 things that sway, signals or the window do, which fill two queues and leave an event on the wire; 3 in a group; 1 item, 2 retries |
| `services` | Do network, audio, players and bluetooth agree with their services at rest, whatever was asked, lost or restarted? | 2 links, one with default routes of metric 1 or 2, the other of 1, so that a route may be better, worse or take another's place; 1 lost message, 2 generations of PipeWire, 2 sinks, 2 players, 2 controllers with 3 devices |
| `hardware` | Do battery, power, backlight, keyboards, inhibitors and privacy agree with the machine at rest? | 2 batteries with different files, 2 devices each, 2 bars, integers of 8 bits; one backlight of 255 steps, whose brightnesses 1 to 3 are between two percents, and one of 3, slider ranges 0 to 100 and 20 to 90 |
| `inhibitor_signal` | **violated**: `man/waybar-idle-inhibitor.5.scd` says the signal toggles the inhibitor; with a bar on each of two monitors it is toggled once per bar, back to what it was | as `hardware` |

`custom`, `sleeper_thread` and `mpd` run the component's module itself, whose cfg gives the
constants their values. The last four passing runs hold several components each. Those share no variable and
none of them calls another, so that a state of all of them is nothing but a state of each:
`part` says which one runs while the others rest in one of their initial states. Every
state and step of each component is explored, only their product, which would say nothing
more, is not. A property of such a run is the conjunction of the components' own, named in
its MC module; `...TypeOK` conjoins their type invariants.

The bounds count news: what the outside does (`Max...News`), how often it loses a connection
or message (`Max...Drops`), what the user sets (`Max...Sets`). Three or four changes let one
come before a snapshot or question, one while it is answered and one after; a third
generation or drop only repeats the second. Collections have two members where order or
identity matters, three where a middle does (controllers' devices, modules of a group,
monitors). `MaxIntervals` bounds the intervals that end because otherwise the worker of
`custom` is always in the middle of a run; `MaxRequests`, `MaxFailures`, `MaxWritten`,
`MaxPlugs`, `MaxReloads`, `MaxSent` and `MaxChildren` bound counters. `UintSize` stands for
2^32. `CHECK_DEADLOCK FALSE` is set where the system really stops: a destroyed object, a
compositor, bus or MPD with nothing to say, a process that has ended.

What MpdState showed besides its findings, and `LabelSettles` therefore excepts by name:
a click whose command changes nothing, sent while the answer to an `idle` is unread,
discards that news, and Idle's blank `update()` then leaves the old label until MPD speaks
again; and when MPD refused a command and is lost afterwards, `Disconnected::on_timer()`
notices without updating the label. With a refused `status` the connection is kept and
`status_` is null, and `setLabel()` reads through it (`mpd.cpp:159`).

## 5. Fairness

Weak fairness, on three grounds: the operating system schedules every thread
(worker, signal thread, wakers that have set their flag); GLib's main loop dispatches
every source that stays ready (announcements, timers, watches, idle sources); and
a join or wait returns when its condition stays true. Nothing is assumed of
signal senders, users, MPD, monitors, or scripts (`custom` assumes that the commands of a
polling worker end, which is why `RequestShown` may say so; a continuous script need not).
`LabelSettles` speaks only of runs in which MPD and the user come to rest (`calm`).
The mirrors need no fairness: what they promise is said of the states in which nothing is
left to be handled.
The dispatcher's writers are not assumed to get through a full pipe unless the main loop reads.

## 6. Proofs

Eight modules hold theorems. Each is of the component's own specification, for every value of
its constants; where the run checks the component inside a composition (`MC...`), the steps of
the composition are the component's while it is the component that runs.

The assumptions are those the modules name: bounds are natural numbers
(`BoundAssumption`, `MaxIpcNewsAssumption`, `CustomBoundsAssumption`, `GroupAssumption`, ...), the
pipes have room for one message (`PipeAssumption`, `SignalPipeAssumption`), limits are what
`max_queued_events_` can be (`LimitAssumption`), the main thread is one of those that wake
(`MainAssumption`), sets of modules and units are finite (`GroupAssumption`, `UnitAssumption`:
their members are counted), so are the sets of links, addresses, sinks, players and devices
(`NetAssumption`, `PaAssumption`, `MprisAssumption`, `BtAssumption`), sinks are not sources and a sink's
filter leads to a sink (`WpAssumption`), every device has one controller, a profile is listed once
(`PpAssumption`), a battery's full capacity is not 0 and the adapter is none (`BatAssumption`), UPower's summary and
"no keyboard" are no devices (`UpAssumption`, `KbdAssumption`), `NoWs`, `NoWin` and
`NoEvent` are no workspace, window or event, Hyprland's workspaces are finitely many and the persistent ones
among them (`HyprAssumption`), a Sway module is one of the five (`SwayAssumption`). TLC evaluates each
of them on the runs.

**SafeSignalProofs**, for all threads, limits and bounds. The invariant

    IInv == TypeOK /\ QueueBounded /\ NoLostWakeup /\ NewestSuffix /\ Behind

is inductive. `NewestSuffix` (the queue is exactly the newest emissions, numbered without
a hole) rests on two lemmas about the operators: `TrimmedSuffix` and `PushedSuffix` say that
trimming and pushing give a suffix of the old queue, position by position. `InOrder` is not
inductive; `Behind` (what was delivered plus what is queued is no more than was sent) is, and
with `NewestSuffix` gives it. `ImplementsChannel` maps a state to the window
`sent + 1 - Len(queue) .. sent` and shows that every step is a `Send`, a `Deliver`, a
`Resize` or a stutter of LossyChannel.

**SignalsProofs**, for any monitors, bars, actions, children and sizes of pipe and queue.

    SignalsInv == SignalsTypeOK /\ NoForkInHandler /\ ZombiesReaped /\ FreshBars /\ BarsAgree

A SIGCHLD's handler collects every zombie that is listed; that every zombie it can meet is
listed needs `NoForkInHandler`: the main thread forks between two handlers, never inside one.
`ChldAppended`, `ChldAfterTail` and `PushedSignal` follow a SIGCHLD through pipe and queue.
`ZombiesReaped` excepts, by its history variable, the states after a signal was dropped.
`BarsAgree` needs `FreshBars`: a bar that no user signal has reached yet is as it was made, and so
like those of a later batch.

**CustomProofs**, for every set of wakers, every text, malformed or not, and every bound.
*SleeperThread*: `NoMissedWakeup` speaks of requests, the code of `signal_`, which the worker
clears without the mutex. `Remembered` (a request is in `signal_` until the worker is bound to
run `func` again) and its converse `Requested` link them; `AfterQuietRun` says where a paused
worker can be after the one run it may still make, which makes `PausedRests` inductive.
*LineStream*: `StreamInv` says who still owes output: a shell that runs owes an exit, one that
exited has written up to its last line end or left the pipe to somebody, and a stream that
closed has delivered everything. `OutputBeforeExit` speaks of the last line end, a maximum; that
there is one (`LeastNumber`) comes from the well-founded order of the numbers instead of induction.
*Custom*: `CustomInv == SleeperInv /\ StreamInv /\ OwnInv`. `Announced` is the reason for
`ShownAtRest`: whatever was read and is not shown has an update announced, or a worker about to
announce it (`Ahead`). What is shown is the output or `ShowsOutput` says why not. `CustomUsesSleeperThread` shows that each step of the module is a step
of SleeperThread or leaves it alone, so that its theorems hold of the worker inside.

**MpdProofs**, for every use of the buttons. The handlers are sets of outcomes, so each operator
(`FetchState`, `SetState`, ...) has a lemma on what its outcomes may be, and the proof of a
step follows the handler. `MpdInv` says of a module at rest that it `Fits`: connection, idle
request, timer and watch are those of its state.

**CompositorsProofs**.
*HyprlandIpc*, for every set of layouts and submaps. `NoCallAfterFree` rests on who is in
`callbacks_` (`InCallbacks`), on `callbackMutex_` being held over all the calls for one event
(`CalledAreRegistered`), and on a handler locking only the mutex of the module it is called
for (`LockedForCall`). `NoLockCycle` says what each thread holds and waits for: with `MainHoldsAlone` and
`ExclusiveToRegister` (`windowIpcSmtx` is held exclusively by the main thread alone, to register and
unregister) what the listener waits for is held by a main thread that waits for nothing.
Its labels: the last event on the wire about what a module holds says what Hyprland has
(`LastSays`); a module holds that, or an event comes, or one was missed (`HeldOrTold`); one that asks
instead is right, has an update due, or an event that makes it ask is coming (`AskedOrTold`).
*HyprlandWorkspaces*, for all workspaces and windows. `HyprInv` has a half about the wire and a
half about the module. On the wire the last event about a workspace or a window says how it is now
(`WsWire`, `WinWire`), openings and closings of a window take turns, and a workspace that is created
was destroyed before: without these an event could not be told from a stale one. The module will
list a workspace after its next update exactly if it is here, once nothing about it is on the wire
(`WsDue`, where the three lists of the update count together). A window is at one place at most, in the
map, in a queued creation, in the queue of windows or among the orphans, and that place is where the
events that are left take it from (`Followed`); it is queued at most once (`QueuedOnce`). Places are
needed and not only the final ones: an event that moves a window which nothing finds would be lost.
*The composition*: a step of the group is a step of one component or leaves that one alone
(`StepsOfCompositors`), so that `HyprlandAgrees` holds of it.
*Niri*, for all workspaces and windows. The wire leads somewhere: there is a way of mirrors, one per
message, from the mirror there is to what niri has (`Leads`), each the one before with the message
applied (`OnTheWay`). A new message lengthens the way, a read one shortens it, and no induction over
the wire is needed. The window label follows once no window event is to come (`Settles`).
*Sway*, for all workspaces, modes and keymaps. `Replies`: at most one reply is on its way, and
none once the worker waits for events, so that a worker on a live socket holds every subscription.
A module that asks for the tree is right, or an event that will make it ask is on its way
(`TreeHeard`); one that believes events (mode, language) has the last event there is before it
(`WordHeard`), because its events are of one topic and nothing is subscribed twice; a layout that
it does not know is announced by an event after which it asks (`LayoutsKnown`). In all three cases
`swayMissed` is what remains. The order of workspaces (`SwayOrderKept`) is left to TLC.

**DesktopProofs**.
*Group*: `GroupInv`; once a module has updated it is `Settled`: outside if it has the class, inside if not,
unless it is the only one outside. Sizes of sets decide whether a drawer has something to hide.
*Bar*: `SuspendFollowsMap` becomes inductive with `AwakeAtFirst`, `OnlySleepers`, `FreedLate` and
`Unconnected`: the destructor disconnects the window's map and unmap before the first module is
freed. `BarAgrees` has an invariant of its own (`SwayInv`): for each of modifier, mode, urgency and
configuration the last event of that name on the wire, or the last entry of its queue when there is
none, or the flag when that is empty, is what sway means
(`ModifierKnown`, `ModeKnown`, `UrgencyKnown`, `ConfigKnown`). The four speak of different queues, which is why
the order in which the main thread takes from them makes no difference at rest, and the flags decide the
visibility (`FlagsDecide`). What crosses from one queue to another is left to `missed`: `UsedKnown` and
`QueuedKnown` say that a release which followed another use finds `modifier_no_action_` cleared, unless it
was cleared before the press was handled.
*ClientOutputs*, for any monitors, addresses and reloads. `Linked` relates every entry of
`outputs_`, every bar and every batch; `OutputsApart` keeps entries apart by address, monitor and
run; `GoneForGood` says that a removal which waits among the idle sources is of a monitor that is
gone. Erasing and making bars is
spoken of by positions (`Subsequences`): the lemmas about `At` say which entry of the old list each
entry of the new one is.
*Tray*, for any items and retries. Watcher, host and items speak over one wire, in order. The
watcher's name appears again only after it vanished (`NamesAlternate`): that tells which of the
two the host hears last. A call has at most one answer on the wire, and that finds the item that asked
or a cancelled call (`Owned`, `OneHostAnswer`). Once nothing about an item is to come, the host lists it
exactly if the watcher does (`ListKnown`); what the host has of its properties is what the item has,
or is being asked for, or a change is on the wire (`PropertiesKnown`). `ItemStates` says
which of its calls a listed item may be waiting for.

**ServicesProofs**, for any links, addresses, nodes, players and devices, and any number of changes.
Every one of its invariants has the same two halves: what the module has is so, or its
correction is coming or asked for; what the label shows is what the module has, or an update is due.
*Wireplumber*: `WpStages` says which callbacks of which generation may be pending and what they have
left to do; `WpRetried` that a lost connection has its timer; `WpChosen` that a complete one has the
node to show for each role, and `WpLabelled` that the label is that node's volume.
*AudioBackend*: `PaKnown` follows the subscription, the default sink and source, and each request
whose answer is not read (the server answers in order, so the last one decides); `PaReads` and `PaShows`
relate what the backend has to the labels and to the slider's scale.
*Mpris*: `ObjectsHear` says whose signals reach the module, `InfoShown` that the last update saw what
there is. *Bluetooth*: `ControllerFits`, `ListKept` and `ListShown` do so for the controller, the list
of connected devices and the label; that the list has each device once is said by positions.
*Network*: `NetInv` has three parts about netlink. `WireTells`: a message that
announces what is no longer so is followed by one that says so. `IfaceKnown`: each field of the selected
interface is so, or its end is coming. `IfaceChosen`: an interface that ought to be chosen is
chosen, or a message that will make it so is coming or its dump is asked for. They hold until a lost
message was a removal (`netLostRemoval`), from which the code does not recover; `IfaceLabelled` always
holds. Metrics are compared as numbers: the route that is kept is the best of all or a better one is
coming.
*The composition*: a step of the group is a step of one component or leaves that one alone
(`StepsOfAudio`, `StepsOfPlayers`, `StepsOfNetwork`), so that `AudioAgrees`, `PlayersAgree` and `NetAgrees`
hold of it too.

**HardwareProofs**, for any number of devices, batteries, profiles, keyboards, nodes, units and games.
*Gamemode*: the last appearance on the
wire says whether the service runs. *FailedUnits*: what is shown is current unless a manager has
signalled, a call is pending or a change was missed. *Privacy*: an item that does not fit its list has
an update, a timer or a removal due. *Upower*: until the service has been away, the devices listed and
the one displayed are the service's (`UpKept`). *PowerProfiles*: the last change on the wire, or the cache
when there is none, is the daemon's profile (`DaemonTold`); the module is there, or at what was clicked last
while the daemon is still to be asked (`ProfileKnown`). *Battery*: the list is that of the batteries there are
once the event is read (`ListFits`), and an update with none of them does not start (`ReadingFits`); of a status that
is the least of all, `LeastNumber` says that there is one. *KeyboardState*: in the events of one
device creation and deletion take turns (`Alternating`), so that the last one says whether it is there, and one
that is tracked is not created before it is deleted (`PluggedAgain`). Both are said of the devices that did not come
or go unheard (`kbdUntold`); while there is no watch there are no events (`Unwatched`).
*The composition*: a step of the group is a step of one component or leaves that one alone
(`StepsOfHardware`), so that `PowerAgrees` and `UseAgrees` hold of it.

Only model-checked, and why:

- all liveness (`StopReturns`, `SigintAnswered`, `HandlerReturns`, `RequestShown`,
  `ScriptRestarts`, `LabelSettles`, and the fairness half of `ChannelSpec`): the prover has no rule
  for weak fairness;
- `InputAgrees`, but for the keyboards (`KeyboardsAreShown`): what a fold over a list computes (the best
  backlight device, the bars that toggle one after the other) is known by induction only,
  which the provers cannot apply. The same holds of `SortSeq` and `SelectSeq`, and so of
  `SwayOrderKept` and of the sorted buttons in `ButtonsAgree`;
- `CompositorsTypeOK` and `HardwareTypeOK`, which include the components just named. The types of each
  component that has theorems are proved, as the first part of its invariant, and those of the other
  two groups are `DesktopTyped` and `ServicesTyped`.

Proving changed the models where they could not be reasoned about or said too little.
A `CASE` whose guards overlap may choose any of its values; four such (Niri, Bluetooth,
Network, Wireplumber), which TLC evaluates from the top, are now written so that the guards
exclude each other. niri's mirror ignores messages it does not know, as `parseIPC()` does. The
search for an invariant of the tray showed five changes, two more than its run allows,
after which an item's title is stale: it is excepted now (section 7). Its proof asked what becomes
of the answer to a cancelled call, which the model had taken off the wire: it stays there now and
finds a handler that returns. `wpEarly` is set for every role whose default comes too early. The
slider's clause of `PaAgrees` allows for a muted sink, which ignores that the slider goes to 0.
What `updateWindowsToCreate()` places and orphans
are sets, and what it keeps in the queue is said by positions (`StillWaiting`), for filters are known by
induction only. Mpris' first active player and bluetooth's preferred device are said by positions instead of folds, and recency may start in any
order; so is the least status of the batteries, which `StatusOf` took from a fold. A click changes nothing while the
list of profiles is empty (`power_profiles_daemon.cpp`), which the model had left out. Network's interface is cleared with EXCEPT, and the messages of a dump are a set
(`Dumped`) before they are put in line.

## 7. What the properties except

Each of these is behaviour of the code that the models have; the property named excepts it
by a condition or a history variable, and holds otherwise.

- **Hyprland workspaces** (`raced`, `dropped`): an event between `init()`'s snapshot and
  `registerIpc()` is never seen; a workspace that is moved away takes its windows with it
  (`workspaces.cpp:427`) instead of leaving them to the map that `workspaces.hpp:165`
  describes, and comes back without those that are not told of.
- **Sway** (`swayMissed`; `SwayRecovers` states what would have to hold otherwise): after a reconnection nobody
  asks for what was missed (`client.cpp:230`).
- **Niri** (`niriUntold`): the window label is not updated when the workspace is switched
  while no window has the keyboard.
- **Taskbar, ExtWorkspaces** (`xwLate`; `LateSorted` states what would have to hold otherwise): a workspace that
  comes onto the output is appended unsorted (`workspace_manager.cpp:244`, against
  `man/waybar-ext-workspaces.5.scd:27-30`); a task is squashed when it is named while
  another has its app id *or* its title (`taskbar.cpp:278`), and not looked at again, so that
  `man/waybar-wlr-taskbar.5.scd:114` (one button is shown per application) is not claimed.
- **Bar** (`missed`): the worker reads `visible_by_urgency_` (`sway/bar.cpp:113`) before the main thread has
  handled the urgency it queued, does not ask sway, and the bar stays shown for no workspace until the next
  event about one; it clears `modifier_no_action_` (119, 125, 129) before the main thread has handled the
  press, so that the release hides the bar although the key was used (against the comment at 194). Both are
  excused only in states where such an entry was queued. The configuration is asked for (17) before the
  subscription (50), and the modifier's state is not asked for at all: what changed before is not known until
  it changes again. Assumed: the connection to sway holds, the bar has both sway/mode and sway/workspaces;
  the destruction of BarIpcClient's signals while its worker runs is not modelled.
- **Group** (`EmptyClassAgrees` states what would have to hold otherwise): a module that `always-visible-class` moves
  into or out of the drawer does not make the group look whether it is empty
  (`man/waybar.5.scd.in:395`).
- **Tray** (`trayUnseen`): an item that is announced before the host listens or goes while its
  proxy is awaited, one the watcher or host turned away, and one that does not answer: a failed
  question drops what was signalled (`item.cpp:344`), and an item that is registered again while it
  is still listed is not asked anew.
- **Network** (`netLostRemoval`, `netForgot`): resynchronising after an overrun only adds
  (`network.cpp:286`); another address or matching link, once the present one went, is not
  asked for, nor are the addresses of a link selected late (`:695`).
- **Wireplumber** (`wpEarly`, `wpFailed`): a default that the object manager does not know yet
  is not resolved again; a component that failed to load is not retried.
- **AudioBackend** (`paMissed`; `UnmutesForTheUser` states what would have to hold otherwise): the slider sets what
  it is told, which unmutes (`man/waybar-pulseaudio-slider.5.scd:52`) and may revert somebody
  else's change; an ignored current sink stays.
- **Mpris** (`mprisLost`, `mprisDropped`; `DynamicFits` states what would have to hold otherwise): a vanished player's
  signals are not disconnected; throttled updates wait for the interval; the separator makes
  `{dynamic}` longer than `dynamic-len` (`man/waybar-mpris.5.scd:62-66`).
- **Bluetooth** (`btMissed`; `CountsItsConnections` states what would have to hold otherwise): devices of other
  controllers are listed (`man/waybar-bluetooth.5.scd:160`); a device that is added connected
  is missed; Battery1 removed loses the GATT level.
- **Upower** (`upMissed`): appearance and disappearance of the service do not update; a named
  device that is missing leaves an uninitialised state unless hidden.
- **Battery** (`batDue` and the conditions in `BatteryAgrees`): `energy_full - energy` is unsigned
  (`battery.cpp:622`); IN_IGNORED ends the inotify thread after any battery went; a battery's
  directory may be taken for the adapter's, and `online` is then uninitialised; the bar keeps the class
  of a battery that went.
- **Backlight** (`blLost`, `blPowerOnly`; `SliderKeepsBrightness` states what would have to hold otherwise): power
  alone does not count as a change; removed devices stay listed; a device between enumeration and monitor is
  lost. The slider sets what it is told: an update moves it to a whole percent within its range, and that,
  rounded (`backlight_backend.cpp:299-306`, 339-345), is written back, so that 1 of 255 becomes 0; one told
  of a brightness that has changed again reverts it. logind is assumed to do as it is told.
- **KeyboardState** (`kbdGivenUp`, `kbdUntold`, `kbdDue`): hot plugging asks for no update; a device whose mode is
  set after ten tries, or that cannot be opened when it is tried or scanned, is not tracked; one that comes or
  goes between the constructor's scan (`keyboard_state.cpp:194-203`) and the watch of the hotplug thread
  (240), or after that thread ended (235-247), is not heard of, unless it goes or comes again while it is
  watched; an LED set after the release is missed. A `device-path` is taken to be one in /dev/input.
- **IdleInhibitor** (`inhUntold`, `inhOrphaned`): scrolling and middle clicks do not tell other
  bars; the notification that ends an inhibition goes with its bar.
- **PowerProfiles** (`ppRefused`), **Gamemode** (`gamesMissed`), **FailedUnits** (`unitsMissed`): a
  refused change stays shown; a failed read counts 0; an unannounced change is not seen.
- **Privacy** (`privLate`): what ran before the module listened shows only at the next change;
  a tooltip reads a node that PipeWire's thread has just destructed
  (`pipewire_backend.cpp:152-162`).

## 8. Not modelled

What `PROJECT.json` lists as `not_modelled`, with the reason or its place in the plan. Of
modelled parts: the reuse of pids (`AModule::~AModule` signals process groups it started long
ago); the file descriptors and children a cancelled worker leaves inside `exec()`; a script
that writes faster than `drainStdout` reads; a child that ignores SIGTERM in
`LineStream::stop()`; destructors of Network, KeyboardState and niri's thread that run while
their threads still do, and torn reads of fields another thread writes without the reader's
lock (`battery.cpp`'s `update()`, audio labels), where a value is taken as read whole.
