# EnergyStarGo in TLA+

EnergyStarGo slows background processes down (EcoQoS and idle priority) and
gives the process in the foreground its normal speed back. Its hard part is
that many goroutines toggle the same Windows processes with unlocked Win32
calls, around a small amount of locked bookkeeping. This directory holds TLA+
models of that core, TLC instances of them, and TLAPS proofs.

## The system

| Component | State | Operations | Talks to |
|---|---|---|---|
| Throttle engine (`internal/throttle`) | `pendingPID`, `throttledPIDs`, `originalAffinity`, `paused`, `stopCh`, `msgThreadID`, GPU failure counter | `HandleForegroundEvent/PID`, `ThrottleAllUserBackgroundProcesses`, `RestoreAllProcesses`, `SetPaused`, `RunMessageLoop`, `Stop` | Windows processes, configuration, ETW monitor |
| Configuration (`internal/config`) | profile, bypass lists, resolved bypass set, under a lock | `SetProfile`, `ShouldBypass`, `AddBypassProcess` | read by the engine at each decision |
| ETW process monitor (`internal/etw`) | session and trace handles, `running`, `stopCh` | `Start`, `Stop`, `eventLoop` | started and stopped by the message loop |
| Run command (`cmd/energystar`) | `doneCh`, `stopHK`, a WaitGroup, one saved profile per watcher | housekeeping, idle, memory and schedule goroutines, shutdown, exit path | engine, configuration, tray, schedule |
| Tray (`internal/tray`) | window, `running`, notification handles | `Run`, `Stop`, menu callbacks (each on a goroutine of its own) | engine and configuration through callbacks |
| Schedule (`internal/scheduler`) | active profile, ticker | `Start`, `Stop`, `checkAt` | `SetProfile` |
| Windows service (`internal/service`) | service status, `paused` | `Execute` | engine, companion runtime |
| Companion runtime (`internal/service`) | `companionBySession` under a mutex, `stopCh`, `doneCh` | session events, monitor, pipe server, `Stop` | companion processes, engine |
| Companion command, `internal/foregroundipc` | pipe handle, `lastPID` | hook callback, `sendPID`, reconnect | the service's pipe |
| Power, winapi, logger, autostart, uac, config builder | none that outlives a call | queries, bindings, output | |

Threads. In run and tray mode the foreground handler and the exit path share
the main goroutine: Windows calls the event hook from `GetMessage` of the
message loop. In the service the hook cannot be installed (session 0), and the
pipe goroutine is the only one to handle foreground processes. In both modes
there is thus one foreground handler, next to any number of sweeps
(housekeeping, resume, power events, session changes, tray menu) and of
restores (tray menu, exit).

### What is hard, and what makes each part correct

* *Engine.* A sweep works on a snapshot of the process table and on a copy of
  `pendingPID` while the user switches; toggles are two unlocked calls followed
  by bookkeeping under the lock; either call may fail; process IDs are reused.
  Correct means: the engine knows of every process it has slowed down, never
  slows an exempt one, boosts the foreground process, obeys a pause, and leaves
  nothing throttled at exit.
* *Handles.* Windows gives a closed handle value out again at once. Correct
  means: a call made through a handle reaches the process it was opened for.
* *Crash.* A service that crashes is started again by Windows and has forgotten
  which processes are slow. Correct means: the user's process gets its speed back.
* *Affinity.* Check, query and capture of a mask are three steps between which
  others pin the same process. Correct means: what is captured is the process's
  own mask, and every pinned process can be given its own back.
* *GPU priority.* A circuit breaker is asked before, and told after a call that is
  made outside its mutex. Correct means: failures stop at the breaker.
* *Shutdown.* Three parties have to stop each other: the message loop (by
  `WM_QUIT`), the tray (by `WM_CLOSE`) and the ETW reader (by closing its trace).
  Correct means: a requested shutdown completes, and the ETW session is closed.
* *Companions.* Three goroutines spawn, replace and terminate processes with
  only the map under the mutex. Correct means: no handle leaks or is closed
  twice, one companion per session, none after the service, and recovery from
  missed events.
* *Profiles.* Two windows, two watchers, the schedule and the menu save, set and
  restore one profile and one pause. Correct means: each of them, alone, leads to
  the profile and pause it asks for, whatever the order of the two windows.
* *Foreground pipe.* A message that is not repeated can get lost with its pipe, its
  service or its companion, and a companion outlives a crash of the service.
  Correct means: the service hears of foreground processes in order, in the end of
  the one that stays, and of none after it has restored the processes.
* *Pause.* One flag is set by two windows, the memory watcher, the menu and the service
  manager. Correct means: nothing stays paused that none of them wants paused.

`PROJECT.json` lists each hazard with its line and the properties that watch it.

## Modules

| Module | Models | Checked by |
|---|---|---|
| `ThrottleEngine` | engine, the exempt names, the run command's sweeps and exit | `MCThrottleEngine`, `Engine_*.cfg` |
| `BoostForegroundOnly` | what the engine promises with `boost_foreground_only`, abstractly | as a property of `ThrottleEngine` |
| `ThrottleEngineProofs` | theorems about `ThrottleEngine`, the refinement of `BoostForegroundOnly` included | TLAPS |
| `UwpHandles` | handle values while a UWP frame host is resolved and a sweep runs | `Uwp_handles.cfg` |
| `UwpHandlesProofs` | what the finding of `UwpHandles` takes | TLAPS |
| `ToggleOptions` | affinity masks and GPU priority inside a toggle, the circuit breaker | `MCToggleOptions`, `Toggle_options.cfg` |
| `ToggleOptionsProofs` | theorems about `ToggleOptions` | TLAPS |
| `Lifecycle` | start and shutdown of `energystar run`, tray and ETW monitor included | `Lifecycle_*.cfg` |
| `LifecycleProofs` | theorems about `Lifecycle` | TLAPS |
| `Schedule` | which rule of the schedule applies at a time of day, and a reference | through `ProfileControl` |
| `ProfileControl` | who sets the profile and the pause of the run command and the service: power events in two windows, watchers, schedule, menu, controls and sessions | `MCProfileControl`, `Profile_*.cfg` |
| `ScheduleProofs` | theorems about `Schedule` and the scheduler in `ProfileControl` | TLAPS |
| `ProfileControlProofs` | theorems about the other writers in `ProfileControl` | TLAPS |
| `SessionCompanions` | what the service promises of its companions, abstractly | as a property of `Companion` |
| `Companion` | companion processes of the service | `MCCompanion`, `Companions.cfg` |
| `CompanionProofs` | theorems about `Companion`, the refinement of `SessionCompanions` included | TLAPS |
| `ForegroundFeed` | what the service expects of its companions, abstractly | as a property of `ForegroundPipe` |
| `ForegroundPipe` | the companion's loop, the pipe and the service's server and stop, with crashes and restarts | `Foreground_pipe.cfg` |
| `ForegroundPipeProofs` | theorems about `ForegroundPipe`, the safety half of the refinement of `ForegroundFeed` included | TLAPS |

A definition preceded by "Mutant:" is a plausible bug of the definition after
it. No specification uses it; substituted for that definition it must violate
the property `PROJECT.json` pairs it with.

### ThrottleEngine and BoostForegroundOnly

One step is what the code does without another goroutine getting in between:
one region under `Engine.mu` or one Win32 call. Processes are the environment:
they start, exit and take the foreground at any time.

* `pc[t]` is the place of goroutine `t`, `subj[t]` the process it has a handle
  to, `todo[t]` what is left of its snapshot (a sweep: process and name, as
  read; a restore: a copy of `throttledPIDs`).
* `ReceiveForegroundEvent`, `OpenForeground`, `TakeForeground`, `OpenPrevious`
  are `HandleForegroundEvent/PID` and `handleForegroundProcess`.
* `SetEcoQos`, `SetIdlePriority`, `ClearEcoQos`, `ClearIdlePriority` are the two
  calls of `toggleEfficiencyMode` that decide its result; `RecordThrottled` is
  the caller's bookkeeping. Its best-effort part (memory priority, threads, trimming)
  changes nothing the engine looks at; GPU priority and affinity have their own module.
* `StartSweep`, `TakeSnapshot`, `ReadPending`, `VisitEntry`, `FinishSweep` are
  `ThrottleAllUserBackgroundProcesses`; `CopyThrottled`, `VisitThrottled`,
  `ForgetThrottled` are `RestoreAllProcesses`; `EndMessageLoop`, `CloseStopHK`,
  `ExitMain` are the end of `cmdRun`.
* `tray`, chosen at the start, says whether there is a tray icon, and so tray
  restores. Without one the program may be a service, and `CrashAndRestart` is a
  crash of it and the restart by Windows (`Install` sets the recovery actions):
  everything the program knew is lost, what it did to the processes stays.
* A handle keeps the ID of its process from being reused (`Held`); the IDs in
  snapshots and in `prev` do not.
* `ShouldBypass` at the visit of a sweep entry and the opening of its process
  are one step: the process may exit or be replaced before, not between. The
  hazard of a name read earlier is in the snapshot itself.

UWP frame hosts are resolved to another process before the step modelled as
`OpenForeground`, which takes the process that is found.

`BoostForegroundOnly` is the promise of the option of that name: a process comes to the front
(`Notice`, `Decide`), is boosted or left alone, and then the one it has displaced is slowed
down; nothing else is, and the program exits when nothing is slow. The refinement `BoostOnly`
maps `slow` to the processes with either of the two settings, `front` to `pendingPID`, `seen`
and `coming` to the process main has in its hand before and during the boost, and `back` to `prev`
and then to the process main has in its hand while it throttles. `reliable` excuses the exit after a
crash and next to tray restores.

### UwpHandles

`ThrottleEngine` identifies a handle with its process. Here a handle is a value
that Windows may give out again when it is closed (`object` says what it stands
for), the handler opens, resolves and closes as `HandleForegroundEvent` and
`resolveUWPProcess` do, and a sweep opens, uses and closes next to it. `deferred` is
the argument of the `CloseHandle` that `defer` has evaluated at the beginning.

### ToggleOptions

The two options a configuration may add to a toggle, in the order of the code:
the GPU priority (`AskBreaker`, `SetGpuPriority`, `RecordGpuSuccess`, `RecordGpuFailure`),
then the affinity mask. `options` is chosen at the start.

Callers are reduced to which process they toggle in which direction, and are
more liberal than in `ThrottleEngine`: a sweep throttles any process that is not
pending, over and over. `CanQuery` says whose handles may read a mask: sweeps open
with `PROCESS_SET_INFORMATION`, the foreground handler with
`PROCESS_STATE_CHANGE_ACCESS`. `boostOnly` is chosen at the start and says whether
the configuration has sweeps; the properties that hold only without them name it.
`Refusing` are processes for which Windows may refuse the GPU call.

### Lifecycle

Main with the steps of `RunMessageLoop` (thread ID, window, ETW, foreground hook,
loop, and the deferred calls in their order), the shutdown goroutine, the tray,
the background goroutines, the ETW event loop and the goroutine inside
`ProcessTrace`. There is a tray or none, a shutdown may be requested at any time, and
`GetMessage` may fail in either message loop.

`ReturnFromTrace` may happen early, late or never. The code's comments say that
`ProcessTrace` blocks until the trace is closed (`process_monitor.go:156`, `:167`); at this
commit the bindings call `OpenTrace` with arguments for which it may also fail at once. So
nothing makes it return. If it does block, `ProcessMonitor.Stop` deadlocks: it waits for the event
loop (`:129`), the event loop for `ProcessTrace`, and that for the trace to be closed,
which `Stop` does last (`:133`). `ShutdownCompletes` is therefore a claim under premises that
are part of the property:

* `[]<>(trace # "processing")`: `ProcessTrace` does not stay in for ever;
* `QuitArrives`: `WM_QUIT` is posted to a thread that has a message queue;
* `CloseArrives`: `Tray.Stop` comes when the tray has set `running`, or has ended.

`SessionReleased` and `ExitIsOrderly` have no premise.

### ProfileControl and Schedule

The profile and the pause of the run command, and everybody who writes them. A
power event is posted to two windows, the engine's on the main thread
(`MainSource`, `MainPlan`, `MainDisplay`: `handlePowerBroadcast`) and the tray's on its
own (`TraySource`, `TrayPlan`, `TrayDisplay`: `trayWndProc` and the callbacks of
`cmdRun`); each window has a queue, and both start with the values Windows sends
at the registration, in the order in which the window registers. The menu
is built from the pause it reads (`OpenMenu`), and a chosen command runs later on a
goroutine of its own (`RunPauseJob`, `RunProfileJob`). `IdleTick`, `MemoryTick` and
`ScheduleTick` are one round of the background goroutines.

* Reading the profile and setting it are two steps (`Save`, `SetProfile`) where the
  code calls `GetProfile` and then `SetProfile`; `GiveBack` only sets.
* The two windows differ as in the code: the engine's window sets the
  profile of the power source as configured, the empty one included (which
  becomes balanced), the tray's fills in defaults; only the engine's handles
  the power plan without `respect_power_plan`; the tray copies 24 bytes of an event, so
  that most of a plan's GUID lies behind the copy. What is compared there is
  undefined, hence `SeenByTray`.
* A scenario is a set of options that are on and a set of inputs that change;
  it is chosen once. The sweeps and restores that some handlers start are those
  of `ThrottleEngine`, where `SetPaused` and `SetProfile` happen at any time.
* As a service (option `"service"`) the program has the engine's window and no tray,
  watcher or schedule. Instead, the service manager pauses and resumes it
  (`ServiceControl`), and a locked session sets the aggressive profile (`LockSession`). The
  status that Execute sends back is not modelled.
* `CheckAt` is `Scheduler.checkAt`: the first rule with `from <= t < to`, around midnight if
  `from > to`. `FirstRule` is the reference, by the time a clock needs from `from` to
  `t`. The two agree on `from = to`, which is never active.

It assumes that both windows can be created and their registrations succeed.

### Companion and SessionCompanions

Execute, the monitor and the pipe server, with the mutex regions `Lookup`,
`Record`, `TakeOut` as steps, and spawn, terminate and close outside of it. A
process and the service's handle to it are one identity; it is reused only when
the process has ended and the handle is closed. The variable `overlap`, chosen at
the start, says whether calls of different goroutines may interleave.

`SessionCompanions` has only the logged-on sessions, the companions that run in each
(`runs`) and whether the service is stopping or has left. The refinement `Promise` maps
`runs[s]` to the processes that run in `s`, and `left` to Execute's end. While calls do not
overlap, `PromiseKept` holds each step of `Companion` to it: a companion is started only in the session of
a user that has none, never after the stop, and Execute leaves when all have ended.

### ForegroundPipe and ForegroundFeed

One session. A companion (`place[c]`) connects, installs its hook, takes a snapshot
and loops over events; `sendPID` is `BeginSend`, `Connect` or `GiveUp`, `Write` or `WriteFails`.
The server (`server`) is `serveForegroundPipe` and `readForegroundPipe`, one step per
look at `stopCh` or call; `exec` is `Execute` and `companionRuntime.Stop`, with its nudge and its
two-second wait (`Restore`), which may be over however far the server is. Pipe messages and foreground processes are numbered in
the order in which they come (`shown`), so that a process that comes back is another
message with the same process ID.

`ForegroundFeed` is the promise: `Handle(k)` is in order, a `Restart` forgets, and `CatchesUp`
says that unless the user keeps switching the service always once more has
handled the latest process, or cannot be reached. The refinement `Feed` maps `latest` to
the length of `shown`. What the code does not promise is in the other two:

* `serving`: the service is up, no dead instance is left of its predecessor, and
  `missed < latest`. `missed` is the newest process when a companion left behind by
  a crash last ended, or lost the pipe twice over one report.
* `inOrder`: the message at hand is not overtaken. `ahead` is the newest process at the
  last step that lets reports come out of order, a snapshot that passes queued events
  or a report by a companion other than the tracked one; a message is overtaken when it is
  older than `ahead`.

`FeedOrdered` is the safety half of the refinement, and proved; `FeedImplemented` adds
`CatchesUp` and is left to TLC. `StopIsQuiet` is an action property: when the service goes on to
restore, the server has ended or is `Blocked` on nobody, neither a client nor a message, unless
a companion the service does not know holds the pipe. A server that is merely slow may still
handle the process it has in its hand after the two seconds; none waits there for more.

## Runs

All finish within five minutes on two cores.

| Run | Question | Answer |
|---|---|---|
| `engine_boost_only` | Without sweeps: base list, exit; boost, its liveness and the promise of `BoostForegroundOnly` also with tray restores and after a crash | hold |
| `engine_sweep` | A sweep, pauses, profile switches, a later process: is everything slowed down known, is the base list untouched, does a pause take effect, does main exit? | hold |
| `engine_exit_sweep` | Does the exit restore everything with a sweep in flight? | **no** |
| `engine_stale_pending` | Is the foreground process boosted with a sweep in flight? | **no** |
| `uwp_handles` | Is the base list untouched when a UWP application comes to the foreground during a sweep? | **no** |
| `toggle_options` | Handler alone: masks captured and given back, GPU priority given back; two sweeps: no left-over entry, failures stop at the breaker | hold |
| `lifecycle_up` | Is every exit in order, the ETW session closed and nobody left behind? Does a shutdown complete, if its messages arrive and `ProcessTrace` returns? | hold |
| `lifecycle_early` | Does `Engine.Stop` end a message loop that is starting? | **no** |
| `profile_control` | Do power source, plan, idle watcher and schedule lead to the profile and pause they ask for? With all its writers at work, does a pause end with the last reason for it? | hold; the former each on its own |
| `profile_display` | Is the profile restored when the display comes back on? | **no** |
| `companions` | Calls overlapping or not: handles owned; one at a time: the promise of `SessionCompanions` (one companion per session, none started after the stop, none left), missed events repaired | hold |
| `foreground_pipe` | Does the pipe implement the feed over crashes, stops and ends of companions, and does its server wait for nobody when the service restores? | holds |

The runs in bold answer with a counterexample; each checks what the README, a
comment or the code's documentation promises, quoted under `findings` in
`PROJECT.json`:

* `engine_exit_sweep`: the exit copies `throttledPIDs`; a sweep throttles one more
  process; the exit clears the map; the process stays throttled.
* `engine_stale_pending`: a sweep reads `pendingPID`, the user switches, the handler
  boosts the new process, and the sweep throttles it.
* `uwp_handles`: the handler closes the frame host's handle and takes the
  application's; a sweep opens an entry and is given the same value; the handler
  returns, and its deferred `CloseHandle` closes the sweep's handle; the next window opens
  its process with that value again, and the sweep throttles this one, whatever it is.
  Without frame hosts, or without sweeps, `BaseNeverThrottled` is proved (`BaseIsSpared`). The
  application's handle is never closed.
* `lifecycle_early`: `WM_QUIT` is posted before the thread can receive it, and the
  message loop never looks at `stopCh`.
* `profile_display`: the engine's window sets the aggressive profile before the tray's
  saves the present one, which is then what the tray restores.

The passing runs rest on constants and premises that say what they leave out, and changing
one shows why it is there (TLC finds each of these in seconds):

* `PidReuse = TRUE`: the ID of the previous foreground process, or of a snapshot's
  entry, is reused and a process of the base list is throttled.
* `Faults` with `"priority"`: `EcoQoS` is on when `SetPriorityClass` is refused; the
  process is not recorded, and `EcoTracked` and `ExitRestored` fail.
* `TitleBypass = TRUE` in boost-only mode: a throttled process whose title matches is
  exempt from then on, so it is not boosted, and `ForegroundBoosted` fails.
* `CanPause = TRUE` in boost-only mode: an event that comes during a pause is dropped, and
  `ForegroundEventuallyBoosted` fails. `~tray` and `crashes = 0` in `EcoTracked` and `ExitRestored` are
  needed, too: a tray restore drops what is recorded while it runs.
* `Restorers` in `ToggleOptions`: `RestoreAllProcesses` clears `originalAffinity`, entries
  captured since its copy of `throttledPIDs` included, and `PinnedIsRestorable` fails.
* `boostOnly` in `ToggleOptions`: a sweep pins a process without capturing its mask, as its
  handle cannot query; the process gets and loses the foreground, and the
  handler captures the pinned mask as the original one. `OriginalIsOwn` for sweeps
  as well fails, even if every handle can query.
* `GpuRestored` without `gpuSupported`: the open breaker refuses the call that would give the
  priority back as well, and what was idle then stays idle for good.
* `PowerSourceFollowed` with session events: a lock sets the aggressive profile, and nothing
  takes it back at the unlock ("let auto-profile handle it", `service_windows.go:126`) until
  the power source changes.
* The converse of `PausedForAReason`: a pause may end although a reason for it holds. Any power
  plan event but high performance, the one at the registration included, ends the
  pause of the service manager or of the memory watcher.
* `Scenarios` with two writers: `{"plan", "tray"}` (the tray misreads the plan and resumes)
  and `{"plan", "memory"}` (each resumes what the other has paused) leave the pause other
  than the plan's; with `{"idle", "display", "tray"}` one writer saves what the other has
  set and restores it for good; with `OnBattery = ""` the two windows set different
  profiles, and the last one stays.
* Each premise of `ShutdownCompletes` in `Lifecycle`: without `QuitArrives` the message loop
  never ends (`lifecycle_early`); without `CloseArrives` main waits for a tray that `Tray.Stop` has
  passed over, as it does nothing before `running` is set; without
  `[]<>(trace # "processing")` main stays in `ProcessMonitor.Stop`, as above.
* `overlap` in the properties of `Companion` (`OneCompanion`, `LiveIsOpen`, `NoneAfterStop`): two calls
  look up and both spawn, the second `Record` closes the first one's handle without
  ending the process; or a companion is spawned after the look at `stopCh` and
  survives the service.
* `missed` in `ForegroundPipe`, which takes `MaxFaults = 2`: a companion gives up an event
  twice while one left by a crash holds the pipe; that one ends without writing, and
  nobody repeats the event, although the snapshot is there so that "late
  companion/service starts do not wait for the next foreground-change event"
  (`main_windows.go:887`). Without `missed` in `serving`, `CatchesUp` fails.

### Bounds, and why they are enough

* Processes: two applications (every race is between one process losing and one
  gaining the foreground, or between two goroutines on one process), plus one of
  the base list or one that starts later where exemption matters. `toggle_options`
  has three: previous, next and a third for sweeps, which refuses GPU calls.
* Sweeps: one in `engine_*`, two in `toggle_options`, where sweeps share the map
  they check. The proofs of `ThrottleEngine` cover any number of sweeps, and refused
  calls, title matches and tray restores next to them.
* `MaxCrashes`: one. Everything the program knows starts anew with a crash, so that a
  state after a second one differs only in which processes are slow, and one
  crash already leaves any of them so.
* `Options`: one at a time, as the two share no state. `MaxFailures`: two instead of twelve, so
  that the breaker opens by one attempt with another under way.
* `Handle`: four values; two for what a goroutine has open, and two for applications' that
  are never closed.
* `ForegroundPipe`: two companions (the service's and one it has lost), three switches,
  so that one is read, one written and one in the queue, and one fault. The same
  properties have been checked once with two faults, which takes longer than a run may:
  two companions and three switches for safety (1.1 million states), three companions and
  two switches with liveness (1.7 million).
* `MaxInbox`: one or two unhandled foreground events, so that the foreground is
  at least one switch ahead of what the handler works on.
* `Companion`: one session with full overlap (calls for different sessions meet only
  in the map, whose entries are independent), two without; three processes, one
  per goroutine. `MaxChanges`: one session change, event or crash with overlap
  (the three goroutines start calls of their own, so all are inside one already
  without any change), four without.
* `Day`: four times, so that a rule can lie before, around and after midnight, be
  empty or cover all but one time; all schedules of up to two rules (one that
  decides and one it overrides), and a rule that does not parse.
* `MaxQueue`: three events per window, the ones of the registration or up to three
  changes that one window has handled and the other has not. `Scenarios`: each of the
  properties of one writer has that writer alone. Plan, memory watcher and tray, plan and
  service manager, and the writers of the profile meet in others, for `PausedForAReason`, the
  type invariant and the actions.
* Symmetry is used in runs without temporal properties only, over goroutines and
  processes that the initial state does not tell apart.

### Fairness

* Every goroutine that can take a step takes one in the end (weak fairness per
  goroutine): Go's scheduler is fair, and the Win32 calls return.
* Nothing obliges the environment: no fairness on switches, starting a sweep, a
  tray restore, a shutdown request, a crash, a failing `GetMessage`, the return of
  `ProcessTrace`, a power event or the clock. So that "completes" is not vacuous, the liveness properties start
  from the request, and `ScheduleFollowed` from a clock that stays in the rule.
* `ForegroundPipe`: the server, the stop and each companion go on, and the service starts
  a companion that is missing. Starts, crashes and switches of the user are not fair;
  `CatchesUp` is about a user who stays.
* `ProfileControl`: both message loops dispatch what is queued, and the scheduler's
  ticker ticks.
* `Companion` adds: the monitor's ticker ticks (weak), and Windows does not for
  ever refuse to list the sessions or to start a companion (strong; each attempt
  may fail, but not every one). `Recovers` is void without the latter.
* `engine_*`: `StartSweep` may happen again and again, and `ShutdownCompletes`
  holds nevertheless because the goroutines main waits for look at `stopHK`
  before they start another sweep.

## Proofs

Every invariant and action property of a passing run has a theorem, for all values
of the constants that satisfy the module's assumptions. Each proof of an
invariant has a step per action and closes with temporal logic; the larger
ones have a lemma that lists the actions of `Next` and a lemma per
invariant. TLC has checked the strengthenings before they were proved.

### ThrottleEngineProofs

For any processes, names, sweepers, restorers and options:

* `TypeCorrect`: from the invariant `Sound` (types, where each
  goroutine can be, that a goroutine which uses a process has one, and that only
  running processes are slow).
* `EcoIsTracked` if neither of the two calls is refused on
  a live process (`EcoTracked` itself is about runs without tray and crash, `ModeKept` says
  that the tray stays away). `EcoTracked` alone is
  not inductive: a sweep may hold a process between its calls and its record
  while main takes the same process out of the map. `EcoRecorded` follows the
  process through these places.
* `BaseIsNeverThrottled` if process IDs are not
  reused, with refused calls, tray restores, sweeps and crashes. `BaseClean` adds that whatever
  a goroutine remembers (pending, previous, snapshot, handle) still has the name it had
  when it was looked up, or none; it is `NamesClean` for the names of the base list.
* `ExitRestores` without sweeps and refused calls. `ExitTracked` follows a slow process to the
  end: it is in the map until main copies that, then on main's list (`Listed`),
  then in main's hand. `engine_exit_sweep` shows why there must be no sweep.
* `ForegroundIsBoosted` for one profile, without sweeps, refused calls, pauses, title matches
  and reuse of process IDs, but with any tray restores and crashes. `FgHandled` follows the
  foreground process: it is the last event of the queue, or the one at hand, or has its normal
  speed while main slows another one down (`PrevIsOther`). By `NamesClean` no slow
  process has an exempt name, so an exempt one need not be boosted.
* `PromiseIsKept` without sweeps and refused calls, with everything else (pauses, title matches,
  reused IDs, tray restores, crashes): each step of the engine is one of `BoostForegroundOnly` or
  changes nothing there. `Turn` says that main remembers a previous process only between its decision and
  the opening of that process, and that half a boost stays done; the exit needs `ExitTracked`.

The assumptions of these theorems are not conveniences: "Runs" says what
TLC finds without them.

### UwpHandlesProofs

* `BaseIsSpared`: `BaseNeverThrottled` if there is no frame host or no sweep. So the
  counterexample of `uwp_handles` takes both. `Own` says that a handle in use stands for the
  process it was opened for, `Apart` that the goroutines' handles differ; both fail
  once the deferred close meets a sweep.

### ToggleOptionsProofs

For any processes, sweepers, options and breaker limit:

* `TypeCorrect`, with tray restores. The invariant `Sound` adds where a
  goroutine has a process and a mask, and in which direction it toggles (`PlaceOK`).
* `EntriesArePinned` without tray restores, for any number of
  sweeps whose handles cannot read a mask, as in the code. Two facts make it
  inductive: a sweep never captures or unpins (`SweepersPin`), and what the handler is
  about to set is no longer in the map (`TakenIsGone`).
* `OriginalsAreOwn`, `PinnedAreRestorable`, `ForegroundIsUnpinned`, `ExitIsUnpinned`: in boost-only
  mode, without tray restores, a handler that can read masks captures only the
  processes' own, and gives every one back. These are projections of one
  invariant, `Alone`: what is or will be captured is the process's own mask
  (`Captured`), a pinned process has an entry or is being unpinned (`Restorable`),
  the handler boosts the pending process (`Boosting`), and at the end what is not
  yet visited is all that can be pinned (`Ending`).
* `BreakerHolds`: the failures stop at the limit plus the attempts that were under way when it was
  reached. The invariant `Breaker` counts both together: each failure is an attempt that
  has ended (`AttemptsShrink`), and no attempt begins at the limit. For finitely many goroutines.
* `GpuIsRestored`, where the call is supported: `GpuFollows` says at which places
  of the handler the process at hand has its priority back, and that at the end what
  is idle is still on the list.

### LifecycleProofs

For any background goroutines, whenever the shutdown comes, whatever fails and whether or not
`ProcessTrace` returns:

* `TypeCorrect`, `SessionIsReleased`, `ExitIsInOrder`. What main has cleaned up is told from its place: `EtwOK` (session and
  event loop), `HookOK`, `TrayOK`; `StopperOK` and `JoinedOK` say that main goes on after its
  wait only when the others have stopped. `Workers # {}`, as the run command always
  starts the housekeeping goroutine (`main_windows.go:398`).

### ProfileControlProofs and ScheduleProofs

For any scenario, queue length, schedule and day:

* `TypeCorrect`, `PowerSourceIsFollowed`, `PlanIsFollowed`, `IdleIsRestored`. Two invariants
  carry them: `Present`, the last message of a kind in a queue tells the present
  value; `Unused`, what a scenario does not have does not happen. With these
  `SourceLast` and `PlanLast` say that the last handler to come still leads to the
  profile and the pause wanted, and `IdleFollows` that the saved profile is the
  one from before the idle time.
* `PauseHasReason` (`PausedForAReason`), for every set of options: the pause has a reason, or an event
  that will end it is still in a queue (`ReasonLast`). A handler that pauses for an old plan
  leaves a later event of that window behind it (`PlanWaits`), which ends the pause, and
  a writer that gives up its reason ends the pause in the same step.
* `CheckAtIsFirstRule`: `CheckAt` answers as the reference `FirstRule` does. It rests on
  `ActiveIsCovers` (a range and a clock that starts at its beginning agree, by the
  cases of a difference modulo the day in `DayMod`) and on `NatMin` (the first of the
  rules that apply exists).
* `ScheduleIsSound`, as the clock stays within the day and
  no thread changes the schedule.

### CompanionProofs

For any sessions and processes:

* `TypeCorrect`, `HandlesOwned`, with and without overlapping calls. The strengthening (`SubjOK`,
  `HeldOK`) says that a goroutine at a place where it overwrites its local handles has
  none left, and looks after a session where it uses one.
* `CompanionIsSingle`, `LiveStaysOpen`, `NoneSurvives`: without overlap, from one invariant `Serial`. At most one
  goroutine is inside a call (`OneActive`); apart from its handles, what runs is what the
  map has (`LiveOpen`, `RunsWhereTracked`), which has nothing for the session a companion is
  being started in (`NoneTracked`); once the service has taken all out it tracks no more
  (`StopOK`).
* `PromiseIsKept`: without overlap each step of `Companion` is one of `SessionCompanions` or changes
  nothing there. `Spawn` is a `Start` as `Serial` leaves the session empty; the end of a
  companion empties its session as it was the only one.

### ForegroundPipeProofs

For any processes, companions and bounds:

* `TypeCorrect` and `StopEndsServer` (`StopIsQuiet`). `InstanceFits` relates the pipe to the place of
  the server, so that after the nudge one that listens has a client, and after `StopCompanions` no
  companion but a lost one can be that client.
* `FeedIsOrdered`: each step is one of `ForegroundFeed` or changes nothing there. `InOrder` says that
  on the way from queue to pipe to handler the messages that are not overtaken are
  sorted (`Sorted`), and newer than those before them (`Behind`, `BehindAll`).

### Only model-checked

What depends on fairness: `ForegroundEventuallyBoosted`, `PauseTakesEffect` and
`ShutdownCompletes` of the engine, `ShutdownCompletes` of `Lifecycle`, `Recovers`, `ScheduleFollowed`
and `CatchesUp` in `FeedImplemented`. Liveness, `ENABLED`, induction over data and modules
with `RECURSIVE` operators are out of the prover's reach. The violations are found by
TLC, by their nature.

## Not modelled

* Formatting, menus, icons, logging, statistics, registry and service installation,
  loading, saving and validating configuration files, the Windows bindings
  themselves, and the remaining best-effort parts of a toggle (memory priority,
  threads, working set).
* The processes are those of the user's session; the session filter of a sweep
  is not a step. Battery percentage events only suspend the machine and set nothing
  the models hold.
* `Config.BypassProcesses` and `CustomProfiles` are read from the file but `resolve` does not
  look at them, so the exempt names of `ThrottleEngine` do not depend on them.
* The status a service reports to Windows (a power event reports Running during a pause,
  `service_windows.go:106`), and the session events that only start a sweep.
* The tray's callbacks: each has a goroutine of its own, and nothing bounds its
  time (the repository's README, line 32, speaks of 1-second timeouts).
* UWP: each resolution makes a new Windows callback, of which a process has a
  limited number; `AddBypassProcess` appends a name each time it is called. Neither
  growth is followed.
* A second session on the one foreground pipe: `ForegroundPipe` has one session, and
  whose companion the pipe serves after a switch of users is not followed.

## Plan

Done: all modules above, and theorems for the safety of all of them. Left, in
this order:

1. The performance preset and its job, which pauses and restores, together with
   the engine's sweeps.
2. Two sessions on the foreground pipe.
