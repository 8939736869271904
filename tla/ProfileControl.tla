---------------------------- MODULE ProfileControl ---------------------------
(***************************************************************************)
(* Who sets the profile and the pause of `energystar run` and of the         *)
(* Windows service.  The profile has                                        *)
(* many writers: power source, display and schedule, the idle watcher and    *)
(* the tray menu; so has the pause: power plan, memory watcher and menu.    *)
(* Windows sends the power events to two windows, one of the engine (main    *)
(* thread) and one of the tray, and both threads act on them.  The service   *)
(* has the first window only, and takes controls and session events instead. *)
(*                                                                         *)
(* The sweeps and restores that some of these handlers start change neither *)
(* of the two and are those of ThrottleEngine.                              *)
(***************************************************************************)
EXTENDS Schedule

CONSTANTS
    Scenarios,   \* pairs of options that are on and inputs that change
    Schedules,   \* the schedules a configuration may have
    OnAC, OnBattery,  \* auto_profile's profiles; NoProfile if not given
    MaxQueue     \* bound: power events a window has not handled

\* auto: auto_profile.enabled, plan: respect_power_plan, display:
\* throttle_on_display_off, tray: --tray, service: run by Windows as a service;
\* the others are on if configured.
Option ==
    {"auto", "plan", "display", "idle", "memory", "schedule", "tray", "service"}
Input == {"source", "plan", "display", "idle", "memory", "time", "console", "menu",
          "control", "session"}

ASSUME ControlAssumption ==
    /\ Scenarios \subseteq (SUBSET Option) \X (SUBSET Input)
    /\ \A c \in Scenarios : "menu" \in c[2] => "tray" \in c[1]
    /\ \A c \in Scenarios : "service" \in c[1] => c[1] \subseteq {"service", "auto", "display"}
    /\ \A s \in Schedules : s \in Seq(Entry)
    /\ {OnAC, OnBattery} \subseteq Profile \cup {NoProfile}
    /\ MaxQueue \in Nat

Window == {"main", "tray"}
None == "none"

VARIABLES
    options, changing,  \* one of Scenarios, for the whole run
    entries,            \* one of Schedules
    configured,         \* the profile of the configuration
    \* Windows, the user and the clock
    onAC, highPerf, displayOn, userIdle, lowMemory, time,
    queue,              \* [Window -> power events it has not handled]
    shown,              \* commands of the tray's menu while it is open
    jobs,               \* goroutines a menu command has started
    \* the program
    profile, paused,
    saved,              \* profile the watcher ("idle") or the display callback
                        \* ("tray") will restore; None: not idle, not off
    memoryPaused,       \* the memory watcher has paused
    active,             \* the scheduler's active profile
    writing,            \* profile a thread is about to set, or None
    \* the service
    svcPaused           \* the service's own note that it is paused

scenario == <<options, changing, entries, configured>>
inputs == <<onAC, highPerf, displayOn, userIdle, lowMemory, time>>
memory == <<saved, memoryPaused, active>>
outside == <<inputs, queue, shown, jobs>>
vars == <<scenario, outside, profile, paused, memory, writing, svcPaused>>

-----------------------------------------------------------------------------
\* Mutant: an empty profile is not replaced.
KeepEmpty(p) == p

\* Config.resolve: no profile means balanced.
Resolve(p) == IF p = NoProfile THEN "balanced" ELSE p

\* Mutant: 0 is taken for battery.
SwappedProfile(ac) == IF ac THEN OnBattery ELSE OnAC

\* The profile of a power source in handlePowerBroadcast, ...
SourceProfile(ac) == IF ac THEN OnAC ELSE OnBattery

\* ... and with the defaults of the tray's callback and of the start.
DefaultedProfile(ac) ==
    IF SourceProfile(ac) # NoProfile THEN SourceProfile(ac)
    ELSE IF ac THEN "balanced" ELSE "aggressive"

Event(kind, value) == [kind |-> kind, value |-> value]

\* The initial value of an input that may change, or that does not.
Start(input, usual) == IF input \in changing THEN BOOLEAN ELSE {usual}

\* A window is told the present values when it registers for them.
Registered(w) ==
    LET display == <<Event("display", displayOn)>>
        others == <<Event("source", onAC), Event("plan", highPerf)>>
    IN IF w = "main" THEN others \o display
       ELSE IF "display" \in options THEN display \o others
       ELSE others

Init ==
    /\ \E c \in Scenarios : options = c[1] /\ changing = c[2]
    /\ entries \in (IF "schedule" \in options THEN Schedules ELSE {<<>>})
    /\ configured \in Profile
    /\ onAC \in Start("source", TRUE) /\ highPerf \in Start("plan", FALSE)
    /\ displayOn = TRUE /\ userIdle = FALSE /\ lowMemory = FALSE
    /\ time \in (IF "time" \in changing THEN Time ELSE {0})
    /\ queue = [w \in Window |->
                  IF w = "main" \/ "tray" \in options THEN Registered(w) ELSE <<>>]
    /\ shown = {} /\ jobs = {}
    /\ profile = IF "auto" \in options /\ "service" \notin options THEN DefaultedProfile(onAC) ELSE configured
    /\ paused = ("plan" \in options /\ highPerf)
    /\ saved = [t \in {"idle", "tray"} |-> None]
    /\ memoryPaused = FALSE /\ active = NoProfile
    /\ writing = [t \in {"idle", "tray", "sched"} |-> None]
    /\ svcPaused = FALSE

-----------------------------------------------------------------------------
(* The environment.                                                         *)

\* Both windows get the event, in the order in which Windows posts them.
Post(kind, value) ==
    /\ kind \in changing
    /\ \A w \in Window : Len(queue[w]) < MaxQueue
    /\ queue' = [w \in Window |->
          IF \/ w = "main"
             \/ "tray" \in options /\ (kind = "display" => "display" \in options)
          THEN Append(queue[w], Event(kind, value)) ELSE queue[w]]
    /\ UNCHANGED <<scenario, userIdle, lowMemory, time, shown, jobs, profile,
                   paused, memory, writing>>

ChangeSource ==
    /\ onAC' = ~onAC /\ Post("source", ~onAC)
    /\ UNCHANGED <<highPerf, displayOn>>

ChangePlan ==
    /\ highPerf' = ~highPerf /\ Post("plan", ~highPerf)
    /\ UNCHANGED <<onAC, displayOn>>

ChangeDisplay ==
    /\ displayOn' = ~displayOn /\ Post("display", ~displayOn)
    /\ UNCHANGED <<onAC, highPerf>>

\* What the watchers poll, and the clock.
ChangePolled ==
    /\ \/ /\ "idle" \in changing /\ userIdle' = ~userIdle
          /\ UNCHANGED <<lowMemory, time>>
       \/ /\ "memory" \in changing /\ lowMemory' = ~lowMemory
          /\ UNCHANGED <<userIdle, time>>
       \/ /\ "time" \in changing /\ time' = (time + 1) % Day
          /\ UNCHANGED <<userIdle, lowMemory>>
    /\ UNCHANGED <<scenario, onAC, highPerf, displayOn, queue, shown, jobs,
                   profile, paused, memory, writing>>

\* The menu offers Pause or Resume by the pause it reads; the performance
\* preset pauses as well.
Offered(isPaused) ==
    Profile \cup {"pause"} \cup (IF isPaused THEN {"resume"} ELSE {})

OpenMenu ==
    /\ "menu" \in changing /\ shown = {}
    /\ shown' = Offered(paused)
    /\ UNCHANGED <<scenario, inputs, queue, jobs, profile, paused, memory, writing>>

\* The callback of the command that is chosen, if any, is a goroutine.
Choose(commands) ==
    /\ shown # {} /\ commands \subseteq shown
    /\ shown' = {}
    /\ jobs' = jobs \cup commands
    /\ UNCHANGED <<scenario, inputs, queue, profile, paused, memory, writing>>

RunPauseJob(command) ==
    /\ command \in jobs \cap {"pause", "resume"}
    /\ paused' = (command = "pause")
    /\ jobs' = jobs \ {command}
    /\ UNCHANGED <<scenario, inputs, queue, shown, profile, memory, writing>>

RunProfileJob(command) ==
    /\ command \in jobs \cap Profile
    /\ profile' = Resolve(command)
    /\ jobs' = jobs \ {command}
    /\ UNCHANGED <<scenario, inputs, queue, shown, paused, memory, writing>>

-----------------------------------------------------------------------------
(* The windows.                                                             *)

\* Mutant: a plan other than high performance does not resume.
PauseOnly(high) == paused \/ high

\* The pause after a power plan event in the engine's window, ...
PlanPause(high) == high

\* ... and what the tray takes for it: it copies 24 bytes of the event, and
\* compares the 16 of the plan, of which 12 lie behind the copy.
SeenByTray(high) == IF high THEN BOOLEAN ELSE {FALSE}

Take(w, kind) ==
    /\ queue[w] # <<>> /\ Head(queue[w]).kind = kind
    /\ queue' = [queue EXCEPT ![w] = Tail(@)]
    /\ UNCHANGED <<scenario, inputs, shown, jobs>>

\* The tray's thread runs one callback after the other.
TrayTake(kind) == writing["tray"] = None /\ Take("tray", kind)

\* handlePowerBroadcast.
MainSource ==
    /\ Take("main", "source")
    /\ profile' = IF "auto" \in options
                  THEN Resolve(SourceProfile(Head(queue["main"]).value)) ELSE profile
    /\ UNCHANGED <<paused, memory, writing>>

MainPlan ==
    /\ Take("main", "plan")
    /\ paused' = PlanPause(Head(queue["main"]).value)
    /\ UNCHANGED <<profile, memory, writing>>

\* A display that comes on is not looked at here.
MainDisplay ==
    /\ Take("main", "display")
    /\ profile' = IF "display" \in options /\ ~Head(queue["main"]).value
                  THEN "aggressive" ELSE profile
    /\ UNCHANGED <<paused, memory, writing>>

\* trayWndProc with the callbacks of cmdRun.
TraySource ==
    /\ TrayTake("source")
    /\ profile' = IF "auto" \in options
                  THEN DefaultedProfile(Head(queue["tray"]).value) ELSE profile
    /\ UNCHANGED <<paused, memory, writing>>

TrayPlan ==
    /\ TrayTake("plan")
    /\ IF "plan" \in options
       THEN paused' \in SeenByTray(Head(queue["tray"]).value)
       ELSE UNCHANGED paused
    /\ UNCHANGED <<profile, memory, writing>>

\* t notes the profile and goes on to set the aggressive one.
Save(t) ==
    /\ saved' = [saved EXCEPT ![t] = profile]
    /\ writing' = [writing EXCEPT ![t] = "aggressive"]
    /\ UNCHANGED profile

GiveBack(t) ==
    /\ profile' = saved[t]
    /\ saved' = [saved EXCEPT ![t] = None]
    /\ UNCHANGED writing

\* Ignored while no session has the console.
TrayDisplay ==
    /\ TrayTake("display")
    /\ LET on == Head(queue["tray"]).value IN
       \/ ~on /\ saved["tray"] = None /\ Save("tray")
       \/ on /\ saved["tray"] # None /\ GiveBack("tray")
       \/ /\ (on <=> saved["tray"] = None) \/ "console" \in changing
          /\ UNCHANGED <<profile, saved, writing>>
    /\ UNCHANGED <<paused, memoryPaused, active>>

-----------------------------------------------------------------------------
(* The background goroutines.                                               *)

\* Mutant: the profile is saved at every tick of an idle user.
IdleTickForgetful ==
    /\ "idle" \in options /\ writing["idle"] = None
    /\ \/ userIdle /\ Save("idle")
       \/ ~userIdle /\ saved["idle"] # None /\ GiveBack("idle")
    /\ UNCHANGED <<scenario, outside, paused, memoryPaused, active>>

IdleTick ==
    /\ "idle" \in options /\ writing["idle"] = None
    /\ \/ userIdle /\ saved["idle"] = None /\ Save("idle")
       \/ ~userIdle /\ saved["idle"] # None /\ GiveBack("idle")
    /\ UNCHANGED <<scenario, outside, paused, memoryPaused, active>>

MemoryTick ==
    /\ "memory" \in options /\ lowMemory # memoryPaused
    /\ memoryPaused' = lowMemory
    /\ paused' = lowMemory
    /\ UNCHANGED <<scenario, outside, profile, saved, active, writing>>

\* Mutant: onChange is told the profile that was active before.
ScheduleTickLate ==
    /\ "schedule" \in options /\ writing["sched"] = None
    /\ CheckAt(entries, time) # active
    /\ active' = CheckAt(entries, time)
    /\ writing' = [writing EXCEPT !["sched"] = active]
    /\ UNCHANGED <<scenario, outside, profile, paused, saved, memoryPaused>>

\* Scheduler.check: a change is noted under its mutex, onChange called after.
ScheduleTick ==
    /\ "schedule" \in options /\ writing["sched"] = None
    /\ CheckAt(entries, time) # active
    /\ active' = CheckAt(entries, time)
    /\ writing' = [writing EXCEPT !["sched"] = active']
    /\ UNCHANGED <<scenario, outside, profile, paused, saved, memoryPaused>>

\* SetProfile of a profile that t has determined before.
SetProfile(t) ==
    /\ writing[t] # None
    /\ profile' = Resolve(writing[t])
    /\ writing' = [writing EXCEPT ![t] = None]
    /\ UNCHANGED <<scenario, outside, paused, memory>>

\* The onChange of cmdRun.
SwitchProfile == SetProfile("sched")

-----------------------------------------------------------------------------
(* The service: Execute handles one request after the other.                *)

Request(kind) ==
    /\ "service" \in options /\ kind \in changing
    /\ UNCHANGED <<scenario, outside, memory, writing>>

\* Mutant: Continue does not tell the engine.
ServiceControlNoted(pause) ==
    /\ Request("control") /\ svcPaused # pause
    /\ svcPaused' = pause /\ paused' = (pause \/ paused)
    /\ UNCHANGED profile

\* Pause and Continue; one that repeats the last is ignored.
ServiceControl(pause) ==
    /\ Request("control") /\ svcPaused # pause
    /\ svcPaused' = pause /\ paused' = pause
    /\ UNCHANGED profile

\* Of the session changes only a lock sets the profile.
LockSession ==
    /\ Request("session")
    /\ profile' = "aggressive"
    /\ UNCHANGED <<paused, svcPaused>>

-----------------------------------------------------------------------------
MainStep == (MainSource \/ MainPlan \/ MainDisplay) /\ UNCHANGED svcPaused

TrayStep ==
    (TraySource \/ TrayPlan \/ TrayDisplay \/ SetProfile("tray")) /\ UNCHANGED svcPaused

ScheduleStep == (ScheduleTick \/ SwitchProfile) /\ UNCHANGED svcPaused

Watchers == IdleTick \/ SetProfile("idle") \/ MemoryTick

\* The power source, plan and display, what is polled, and the user.
Environment ==
    \/ ChangeSource \/ ChangePlan \/ ChangeDisplay \/ ChangePolled
    \/ OpenMenu
    \/ Choose({}) \/ \E c \in shown : Choose({c})

MenuJobs == \E c \in jobs : RunPauseJob(c) \/ RunProfileJob(c)

ServiceStep ==
    \/ \E pause \in BOOLEAN : ServiceControl(pause)
    \/ LockSession

Command == Profile \cup {"pause", "resume"}

Next ==
    \/ (Environment \/ MenuJobs \/ Watchers) /\ UNCHANGED svcPaused
    \/ MainStep \/ TrayStep \/ ScheduleStep
    \/ ServiceStep

\* The message loops and the scheduler go on; the user and Windows need not.
Fairness ==
    /\ WF_vars(MainStep) /\ WF_vars(TrayStep)
    /\ WF_vars(ScheduleStep)

Spec == Init /\ [][Next]_vars /\ Fairness

-----------------------------------------------------------------------------
(* Properties.                                                              *)

TypeOK ==
    /\ <<options, changing>> \in Scenarios
    /\ {onAC, highPerf, displayOn, userIdle, lowMemory} \subseteq BOOLEAN
    /\ time \in Time
    /\ queue \in [Window -> Seq([kind : {"source", "plan", "display"},
                                 value : BOOLEAN])]
    /\ shown \subseteq Command /\ jobs \subseteq Command
    /\ profile \in Profile /\ paused \in BOOLEAN
    /\ saved \in [{"idle", "tray"} -> Profile \cup {None}]
    /\ memoryPaused \in BOOLEAN
    /\ active \in Profile \cup {NoProfile}
    /\ writing \in [{"idle", "tray", "sched"} -> Profile \cup {NoProfile, None}]
    /\ svcPaused \in BOOLEAN

\* w is the only option that sets the profile; menu and session lock do not.
OnlyWriter(w) ==
    /\ options \cap {"auto", "display", "idle", "schedule"} = {w}
    /\ changing \cap {"menu", "session"} = {}

Settled == /\ \A w \in Window : queue[w] = <<>>
           /\ \A t \in DOMAIN writing : writing[t] = None

\* Two threads act on each change of the power source, at their own pace;
\* when both have handled all changes the profile is that of the present one.
PowerSourceFollowed ==
    OnlyWriter("auto") /\ NoProfile \notin {OnAC, OnBattery} /\ Settled =>
        profile = IF onAC THEN OnAC ELSE OnBattery

\* The idle watcher gives back the profile it has found, over any number of
\* idle times.
IdleRestored ==
    OnlyWriter("idle") /\ writing["idle"] = None =>
        profile = IF saved["idle"] = None THEN configured ELSE "aggressive"

\* Without a tray the pause is that of the power plan when the events are
\* handled (high performance disables the throttling).
PlanFollowed ==
    options \cap {"plan", "memory", "tray"} = {"plan"} /\ Settled =>
        paused = highPerf

\* The pause has up to four writers: both windows with the power plan, the memory
\* watcher, and the service manager. However their writes fall together, when all
\* events are handled nothing stays paused that none of them wants paused.
PausedForAReason ==
    "menu" \notin changing /\ Settled =>
        (paused => highPerf \/ memoryPaused \/ svcPaused)

\* The first rule whose range, midnight or not, holds the time decides.
ScheduleSound == FirstRule(entries, time, CheckAt(entries, time))

\* A rule takes effect: while its time lasts the program comes to use its
\* profile.
ScheduleFollowed ==
    OnlyWriter("schedule") =>
        \A t \in Time : <>[](time = t) =>
            <>[](CheckAt(entries, t) \in {NoProfile, profile})

\* throttle_on_display_off "restores the previous profile when it comes back
\* on" (config.go): with the display on and all events handled the profile is
\* the configured one.
DisplayRestored ==
    OnlyWriter("display") /\ Settled /\ displayOn => profile = configured
=============================================================================
