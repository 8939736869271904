--------------------------- MODULE ThrottleEngine ---------------------------
(***************************************************************************)
(* The throttle engine of `energystar run` (internal/throttle) with the    *)
(* goroutines of cmd/energystar that call it: one foreground handler and    *)
(* exit path (the main goroutine), any number of background sweeps, and     *)
(* any number of restores started from the tray.                           *)
(*                                                                         *)
(* A step is what the code does without another goroutine being able to     *)
(* get in between: one region under Engine.mu, or one Win32 call.  The      *)
(* processes of the session are the environment: they start, take the       *)
(* foreground and exit at any time.                                         *)
(***************************************************************************)
EXTENDS Naturals, Sequences

CONSTANTS
    Pid,         \* process IDs of the user's session
    Name,        \* executable names
    Base,        \* names every profile exempts (AggressiveBypassProcesses)
    Balanced,    \* names the balanced profile exempts on top of Base
    Initial,     \* the process table when the engine starts
    Main,        \* the main goroutine: message loop, then the exit path
    Sweepers,    \* goroutines that run ThrottleAllUserBackgroundProcesses
    Joined,      \* the sweepers main waits for at exit (sync.WaitGroup)
    Restorers,   \* goroutines that run RestoreAllProcesses (tray "Restore")
    Profiles,    \* profiles the program may switch to while it runs
    CanPause,    \* whether somebody pauses and resumes the engine
    TitleBypass, \* whether bypass_window_titles is configured
    PidReuse,    \* whether Windows reuses the ID of an exited process
    Faults,      \* Win32 calls that may fail on a live process
    MaxInbox,    \* bound: foreground events not handled yet
    MaxCrashes,  \* bound: crashes of the program
    NoPid, Unborn, Gone

Thread == {Main} \cup Sweepers \cup Restorers

ASSUME ProcessAssumption ==
    /\ NoPid \notin Pid
    /\ Unborn \notin Name /\ Gone \notin Name /\ Unborn # Gone
    /\ Base \subseteq Name /\ Balanced \subseteq Name
    /\ Initial \in [Pid -> Name \cup {Unborn}]

ASSUME ThreadAssumption ==
    /\ Main \notin Sweepers /\ Main \notin Restorers
    /\ Sweepers \cap Restorers = {}
    /\ Joined \subseteq Sweepers

ASSUME OptionAssumption ==
    /\ Profiles \subseteq {"balanced", "aggressive"}
    /\ CanPause \in BOOLEAN /\ TitleBypass \in BOOLEAN /\ PidReuse \in BOOLEAN
    /\ Faults \subseteq {"open", "qos", "priority"}
    /\ MaxInbox \in Nat /\ MaxCrashes \in Nat

VARIABLES
    \* Windows
    proc,          \* [Pid -> name of the running process, Unborn or Gone]
    ecoQos,        \* processes with EcoQoS power throttling on
    idlePri,       \* processes of IDLE_PRIORITY_CLASS
    fg,            \* the process the user works with
    inbox,         \* foreground events the message loop has not handled
    \* Engine and Config
    pendingPID,    \* the last process boosted as foreground
    throttledPIDs, \* processes the engine remembers having throttled
    paused,
    profile,
    extra,         \* names added by AddBypassProcess
    \* goroutines
    stage,         \* of main: "running", "restoring" or "exited"
    stopHK,        \* whether the background goroutines saw stopHK closed
    pc,            \* where each goroutine is
    subj,          \* the process each goroutine holds a handle of
    todo,          \* the processes a sweep or a restore has yet to visit
    skip,          \* the pendingPID a sweep read
    fgName,        \* main: name of the new foreground process
    prev,          \* main: the previous foreground process, to be throttled
    \* how the program runs
    tray,          \* with a tray icon: not as a service
    crashes        \* crashes of the program so far

windows == <<proc, ecoQos, idlePri, fg, inbox>>
engine == <<pendingPID, throttledPIDs, paused, profile, extra>>
locals == <<stage, stopHK, pc, subj, todo, skip, fgName, prev>>
mode == <<tray, crashes>>
vars == <<windows, engine, locals, mode>>

-----------------------------------------------------------------------------
(* The configuration's bypass set and what the goroutines look at.          *)

Exempt ==
    Base \cup extra \cup (IF profile = "balanced" THEN Balanced ELSE {})

Alive(p) == proc[p] \in Name

Eco == ecoQos \cup idlePri

\* Program counters in which a goroutine holds an open handle on subj.
Holding == {"lock", "boostQos", "boostPriority",
            "ecoQos", "ecoPriority", "record"}

Held == {subj[t] : t \in {u \in Thread : pc[u] \in Holding}}

\* A call on the process p, and whether it may fail: Windows may refuse
\* it, and the process may have exited under the handle.
MayFail(call, p) == call \in Faults \/ ~Alive(p)

Go(t, where) == pc' = [pc EXCEPT ![t] = where]

-----------------------------------------------------------------------------
Init ==
    /\ proc = Initial
    /\ ecoQos = {} /\ idlePri = {}
    /\ fg \in {p \in Pid : Alive(p)}
    /\ inbox = <<fg>>           \* RunMessageLoop handles GetForegroundWindow
    /\ pendingPID = NoPid
    /\ throttledPIDs = {}
    /\ paused = FALSE
    /\ profile \in Profiles
    /\ extra = {}
    /\ stage = "running" /\ stopHK = FALSE
    /\ pc = [t \in Thread |-> "wait"]
    /\ subj = [t \in Thread |-> NoPid]
    /\ todo = [t \in Thread |-> {}]
    /\ skip = [t \in Thread |-> NoPid]
    /\ fgName = Unborn
    /\ prev = NoPid
    /\ tray \in {FALSE, Restorers # {}} /\ crashes = 0

-----------------------------------------------------------------------------
(* The environment: processes and their user, and the callers of            *)
(* SetPaused and SetProfile (tray menu, idle and memory watchers, power      *)
(* events, schedule).                                                        *)

\* A process starts.  An ID is reused only when its process has exited and
\* no handle on it is left open.
StartProcess(p, n) ==
    /\ \/ proc[p] = Unborn
       \/ PidReuse /\ proc[p] = Gone /\ p \notin Held
    /\ proc' = [proc EXCEPT ![p] = n]
    /\ UNCHANGED <<ecoQos, idlePri, fg, inbox, engine, locals>>

ExitProcess(p) ==
    /\ Alive(p)
    /\ proc' = [proc EXCEPT ![p] = Gone]
    /\ ecoQos' = ecoQos \ {p}
    /\ idlePri' = idlePri \ {p}
    /\ fg' = IF fg = p THEN NoPid ELSE fg
    /\ UNCHANGED <<inbox, engine, locals>>

\* The user switches to p; the event waits in the message queue.
Focus(p) ==
    /\ stage = "running"
    /\ Alive(p) /\ p # fg
    /\ Len(inbox) < MaxInbox
    /\ fg' = p
    /\ inbox' = Append(inbox, p)
    /\ UNCHANGED <<proc, ecoQos, idlePri, engine, locals>>

\* A service crashes and Windows starts it again: nothing it knew is left,
\* what it did to the processes is.
CrashAndRestart ==
    /\ ~tray /\ crashes < MaxCrashes
    /\ crashes' = crashes + 1
    /\ inbox' = IF fg = NoPid THEN <<>> ELSE <<fg>>
    /\ pendingPID' = NoPid /\ throttledPIDs' = {}
    /\ paused' = FALSE /\ profile' \in Profiles /\ extra' = {}
    /\ stage' = "running" /\ stopHK' = FALSE
    /\ pc' = [t \in Thread |-> "wait"] /\ subj' = [t \in Thread |-> NoPid]
    /\ todo' = [t \in Thread |-> {}] /\ skip' = [t \in Thread |-> NoPid]
    /\ fgName' = Unborn /\ prev' = NoPid
    /\ UNCHANGED <<proc, ecoQos, idlePri, fg, tray>>

SetPaused(b) ==
    /\ CanPause /\ paused # b
    /\ paused' = b
    /\ UNCHANGED <<windows, pendingPID, throttledPIDs, profile, extra, locals>>

\* The bypass set is resolved again; processes throttled so far stay so.
SetProfile(f) ==
    /\ profile # f
    /\ profile' = f
    /\ UNCHANGED <<windows, pendingPID, throttledPIDs, paused, extra, locals>>

-----------------------------------------------------------------------------
(* toggleEfficiencyMode: two calls whose failure ends the toggle, then       *)
(* best-effort ones that change neither the result nor the engine.           *)

AfterBoost(t) ==
    IF t = Main /\ stage = "running"
    THEN IF prev = NoPid THEN "wait" ELSE "prevOpen"
    ELSE "restore"

AfterEco(t) == IF t = Main THEN "wait" ELSE "scan"

\* A goroutine is through with its handle and closes it.
Release(t, where) ==
    /\ Go(t, where)
    /\ subj' = [subj EXCEPT ![t] = NoPid]

SetEcoQos(t) ==
    /\ pc[t] = "ecoQos"
    /\ \/ /\ ecoQos' = IF Alive(subj[t]) THEN ecoQos \cup {subj[t]} ELSE ecoQos
          /\ Go(t, "ecoPriority")
          /\ UNCHANGED subj
       \/ /\ MayFail("qos", subj[t])
          /\ Release(t, AfterEco(t))
          /\ UNCHANGED ecoQos
    /\ UNCHANGED <<proc, idlePri, fg, inbox, engine,
                   stage, stopHK, todo, skip, fgName, prev>>

SetIdlePriority(t) ==
    /\ pc[t] = "ecoPriority"
    /\ \/ /\ idlePri' = IF Alive(subj[t]) THEN idlePri \cup {subj[t]} ELSE idlePri
          /\ Go(t, "record")
          /\ UNCHANGED subj
       \/ /\ MayFail("priority", subj[t])
          /\ Release(t, AfterEco(t))
          /\ UNCHANGED idlePri
    /\ UNCHANGED <<proc, ecoQos, fg, inbox, engine,
                   stage, stopHK, todo, skip, fgName, prev>>

\* Mutant: the handle is closed first and the cleared variable recorded.
RecordReleased(t) ==
    /\ pc[t] = "record"
    /\ Release(t, AfterEco(t))
    /\ throttledPIDs' = throttledPIDs \cup {subj'[t]}
    /\ UNCHANGED <<windows, pendingPID, paused, profile, extra,
                   stage, stopHK, todo, skip, fgName, prev>>

\* Mutant: only sweeps record what they throttle.
RecordSweepsOnly(t) ==
    /\ pc[t] = "record"
    /\ throttledPIDs' = IF t = Main THEN throttledPIDs ELSE throttledPIDs \cup {subj[t]}
    /\ Release(t, AfterEco(t))
    /\ UNCHANGED <<windows, pendingPID, paused, profile, extra,
                   stage, stopHK, todo, skip, fgName, prev>>

\* The toggle succeeded: the caller records the process under the lock.
RecordThrottled(t) ==
    /\ pc[t] = "record"
    /\ throttledPIDs' = throttledPIDs \cup {subj[t]}
    /\ Release(t, AfterEco(t))
    /\ UNCHANGED <<windows, pendingPID, paused, profile, extra,
                   stage, stopHK, todo, skip, fgName, prev>>

ClearEcoQos(t) ==
    /\ pc[t] = "boostQos"
    /\ \/ /\ ecoQos' = ecoQos \ {subj[t]}
          /\ Go(t, "boostPriority")
          /\ UNCHANGED subj
       \/ /\ MayFail("qos", subj[t])
          /\ Release(t, AfterBoost(t))
          /\ UNCHANGED ecoQos
    /\ UNCHANGED <<proc, idlePri, fg, inbox, engine,
                   stage, stopHK, todo, skip, fgName, prev>>

ClearIdlePriority(t) ==
    /\ pc[t] = "boostPriority"
    /\ \/ idlePri' = idlePri \ {subj[t]}
       \/ MayFail("priority", subj[t]) /\ UNCHANGED idlePri
    /\ Release(t, AfterBoost(t))
    /\ UNCHANGED <<proc, ecoQos, fg, inbox, engine,
                   stage, stopHK, todo, skip, fgName, prev>>

-----------------------------------------------------------------------------
(* The foreground handler, on the goroutine of the message loop.            *)

ReceiveForegroundEvent ==
    /\ stage = "running" /\ pc[Main] = "wait" /\ inbox # <<>>
    /\ inbox' = Tail(inbox)
    /\ IF paused
       THEN UNCHANGED <<pc, subj>>
       ELSE /\ Go(Main, "open")
            /\ subj' = [subj EXCEPT ![Main] = Head(inbox)]
    /\ UNCHANGED <<proc, ecoQos, idlePri, fg, engine,
                   stage, stopHK, todo, skip, fgName, prev>>

\* Opens the process and reads its name; a matching window title adds the
\* name to the bypass set before the bypass check.
OpenForeground ==
    /\ pc[Main] = "open"
    /\ \/ /\ Alive(subj[Main])
          /\ fgName' = proc[subj[Main]]
          /\ \E match \in {FALSE, TitleBypass} :
                extra' = IF match THEN extra \cup {fgName'} ELSE extra
          /\ Go(Main, "lock")
          /\ UNCHANGED subj
       \/ /\ MayFail("open", subj[Main])
          /\ Release(Main, "wait")
          /\ UNCHANGED <<extra, fgName>>
    /\ UNCHANGED <<windows, pendingPID, throttledPIDs, paused, profile,
                   stage, stopHK, todo, skip, prev>>

\* Mutant: a bypassed process becomes the pending one, too.
TakeForegroundAnyPending ==
    /\ pc[Main] = "lock"
    /\ prev' = IF pendingPID \in {NoPid, subj[Main]} THEN NoPid ELSE pendingPID
    /\ fgName' = Unborn
    /\ pendingPID' = subj[Main]
    /\ IF fgName \in Exempt
       THEN /\ Release(Main, IF prev' = NoPid THEN "wait" ELSE "prevOpen")
            /\ UNCHANGED throttledPIDs
       ELSE /\ throttledPIDs' = throttledPIDs \ {subj[Main]}
            /\ Go(Main, "boostQos")
            /\ UNCHANGED subj
    /\ UNCHANGED <<windows, paused, profile, extra, stage, stopHK, todo, skip>>

\* Mutant: an event for the pending process is taken for a repetition.
TakeForegroundOnce ==
    /\ pc[Main] = "lock"
    /\ fgName' = Unborn
    /\ prev' = IF pendingPID \in {NoPid, subj[Main]} THEN NoPid ELSE pendingPID
    /\ IF fgName \in Exempt \/ pendingPID = subj[Main]
       THEN /\ Release(Main, IF prev' = NoPid THEN "wait" ELSE "prevOpen")
            /\ UNCHANGED <<pendingPID, throttledPIDs>>
       ELSE /\ pendingPID' = subj[Main]
            /\ throttledPIDs' = throttledPIDs \ {subj[Main]}
            /\ Go(Main, "boostQos")
            /\ UNCHANGED subj
    /\ UNCHANGED <<windows, paused, profile, extra, stage, stopHK, todo, skip>>

\* Mutant: a process that comes to the front again displaces itself.
TakeForegroundAgain ==
    /\ pc[Main] = "lock"
    /\ prev' = pendingPID
    /\ fgName' = Unborn
    /\ \/ /\ fgName \in Exempt
          /\ Release(Main, IF prev' = NoPid THEN "wait" ELSE "prevOpen")
          /\ UNCHANGED <<pendingPID, throttledPIDs>>
       \/ /\ fgName \notin Exempt
          /\ pendingPID' = subj[Main]
          /\ throttledPIDs' = throttledPIDs \ {subj[Main]}
          /\ Go(Main, "boostQos")
          /\ UNCHANGED subj
    /\ UNCHANGED <<windows, paused, profile, extra, stage, stopHK, todo, skip>>

\* The region of handleForegroundProcess under Engine.mu.
TakeForeground ==
    /\ pc[Main] = "lock"
    /\ prev' = IF pendingPID \in {NoPid, subj[Main]} THEN NoPid ELSE pendingPID
    /\ fgName' = Unborn
    /\ \/ /\ fgName \in Exempt
          /\ Release(Main, IF prev' = NoPid THEN "wait" ELSE "prevOpen")
          /\ UNCHANGED <<pendingPID, throttledPIDs>>
       \/ /\ fgName \notin Exempt
          /\ pendingPID' = subj[Main]
          /\ throttledPIDs' = throttledPIDs \ {subj[Main]}
          /\ Go(Main, "boostQos")
          /\ UNCHANGED subj
    /\ UNCHANGED <<windows, paused, profile, extra, stage, stopHK, todo, skip>>

\* Opens the previous foreground process, to throttle it.
OpenPrevious ==
    /\ pc[Main] = "prevOpen"
    /\ \/ /\ Alive(prev)
          /\ subj' = [subj EXCEPT ![Main] = prev]
          /\ Go(Main, "ecoQos")
       \/ /\ MayFail("open", prev)
          /\ Go(Main, "wait")
          /\ UNCHANGED subj
    /\ prev' = NoPid
    /\ UNCHANGED <<windows, engine, stage, stopHK, todo, skip, fgName>>

-----------------------------------------------------------------------------
(* ThrottleAllUserBackgroundProcesses.                                      *)

\* Mutant: a sweep does not look at paused.
StartSweepPaused(s) ==
    /\ pc[s] = "wait" /\ stage # "exited"
    /\ ~(s \in Joined /\ stopHK)
    /\ Go(s, "snapshot")
    /\ UNCHANGED <<windows, engine,
                   stage, stopHK, subj, todo, skip, fgName, prev>>

\* Mutant: the housekeeping goroutine never looks at stopHK.
StartSweepForever(s) ==
    /\ pc[s] = "wait" /\ stage # "exited"
    /\ ~paused
    /\ Go(s, "snapshot")
    /\ UNCHANGED <<windows, engine,
                   stage, stopHK, subj, todo, skip, fgName, prev>>

\* A goroutine starts a sweep: the only look the sweep takes at paused.
StartSweep(s) ==
    /\ pc[s] = "wait" /\ stage # "exited"
    /\ ~(s \in Joined /\ stopHK)
    /\ ~paused
    /\ Go(s, "snapshot")
    /\ UNCHANGED <<windows, engine,
                   stage, stopHK, subj, todo, skip, fgName, prev>>

TakeSnapshot(s) ==
    /\ pc[s] = "snapshot"
    /\ todo' = [todo EXCEPT ![s] = {<<p, proc[p]>> : p \in {q \in Pid : Alive(q)}}]
    /\ Go(s, "pending")
    /\ UNCHANGED <<windows, engine, stage, stopHK, subj, skip, fgName, prev>>

ReadPending(s) ==
    /\ pc[s] = "pending"
    /\ skip' = [skip EXCEPT ![s] = pendingPID]
    /\ Go(s, "scan")
    /\ UNCHANGED <<windows, engine, stage, stopHK, subj, todo, fgName, prev>>

\* Mutant: the bypass list is not consulted in a sweep.
VisitAnyEntry(s) ==
    /\ pc[s] = "scan"
    /\ \E e \in todo[s] :
        /\ todo' = [todo EXCEPT ![s] = @ \ {e}]
        /\ \/ /\ e[1] # skip[s] /\ Alive(e[1])
              /\ Go(s, "ecoQos")
              /\ subj' = [subj EXCEPT ![s] = e[1]]
           \/ /\ e[1] = skip[s] \/ MayFail("open", e[1])
              /\ UNCHANGED <<pc, subj>>
    /\ UNCHANGED <<windows, engine, stage, stopHK, skip, fgName, prev>>

\* The next entry of the snapshot: passed over, or opened and throttled.
VisitEntry(s) ==
    /\ pc[s] = "scan"
    /\ \E e \in todo[s] :
        /\ todo' = [todo EXCEPT ![s] = @ \ {e}]
        /\ \/ /\ e[1] # skip[s] /\ e[2] \notin Exempt
              /\ Alive(e[1])
              /\ Go(s, "ecoQos")
              /\ subj' = [subj EXCEPT ![s] = e[1]]
           \/ /\ e[1] = skip[s] \/ e[2] \in Exempt \/ MayFail("open", e[1])
              /\ UNCHANGED <<pc, subj>>
    /\ UNCHANGED <<windows, engine, stage, stopHK, skip, fgName, prev>>

FinishSweep(s) ==
    /\ pc[s] = "scan" /\ todo[s] = {}
    /\ Go(s, "wait")
    /\ skip' = [skip EXCEPT ![s] = NoPid]
    /\ UNCHANGED <<windows, engine, stage, stopHK, subj, todo, fgName, prev>>

-----------------------------------------------------------------------------
(* RestoreAllProcesses, from the tray or on main's exit path.               *)

CopyThrottled(r) ==
    /\ \/ r \in Restorers /\ tray /\ pc[r] = "wait" /\ stage # "exited"
       \/ r = Main /\ pc[r] = "copy"
    /\ todo' = [todo EXCEPT ![r] = throttledPIDs]
    /\ Go(r, "restore")
    /\ UNCHANGED <<windows, engine, stage, stopHK, subj, skip, fgName, prev>>

VisitThrottled(r) ==
    /\ pc[r] = "restore"
    /\ \E p \in todo[r] :
        /\ todo' = [todo EXCEPT ![r] = @ \ {p}]
        /\ \/ /\ Alive(p)
              /\ Go(r, "boostQos")
              /\ subj' = [subj EXCEPT ![r] = p]
           \/ MayFail("open", p) /\ UNCHANGED <<pc, subj>>
    /\ UNCHANGED <<windows, engine, stage, stopHK, skip, fgName, prev>>

\* Mutant: the map is cleared before every copied entry was visited.
ForgetEarly(r) ==
    /\ pc[r] = "restore"
    /\ throttledPIDs' = {}
    /\ todo' = [todo EXCEPT ![r] = {}]
    /\ Go(r, IF r = Main THEN "join" ELSE "wait")
    /\ UNCHANGED <<windows, pendingPID, paused, profile, extra,
                   stage, stopHK, subj, skip, fgName, prev>>

ForgetThrottled(r) ==
    /\ pc[r] = "restore" /\ todo[r] = {}
    /\ throttledPIDs' = {}
    /\ Go(r, IF r = Main THEN "join" ELSE "wait")
    /\ UNCHANGED <<windows, pendingPID, paused, profile, extra,
                   stage, stopHK, subj, todo, skip, fgName, prev>>

-----------------------------------------------------------------------------
(* The exit path of cmdRun (with restore_on_exit, its default).             *)

\* WM_QUIT ends RunMessageLoop; events not handled yet are never handled.
EndMessageLoop ==
    /\ stage = "running" /\ pc[Main] = "wait"
    /\ stage' = "restoring"
    /\ inbox' = <<>>
    /\ Go(Main, "copy")
    /\ UNCHANGED <<proc, ecoQos, idlePri, fg, engine,
                   stopHK, subj, todo, skip, fgName, prev>>

\* The shutdown goroutine closes stopHK and the background goroutines see it.
CloseStopHK ==
    /\ stage = "restoring" /\ ~stopHK
    /\ stopHK' = TRUE
    /\ UNCHANGED <<windows, engine, stage, pc, subj, todo, skip, fgName, prev>>

\* wg.Wait returns and the process ends, with every goroutine left in it.
ExitMain ==
    /\ pc[Main] = "join" /\ stopHK
    /\ \A s \in Joined : pc[s] = "wait"
    /\ stage' = "exited"
    /\ Go(Main, "done")
    /\ UNCHANGED <<windows, engine, stopHK, subj, todo, skip, fgName, prev>>

Exited == stage = "exited" /\ UNCHANGED vars

-----------------------------------------------------------------------------
Environment ==
    \/ \E p \in Pid : ExitProcess(p) \/ Focus(p) \/ \E n \in Name : StartProcess(p, n)
    \/ \E b \in BOOLEAN : SetPaused(b)
    \/ \E f \in Profiles : SetProfile(f)

Toggle(t) ==
    \/ SetEcoQos(t) \/ SetIdlePriority(t) \/ RecordThrottled(t)
    \/ ClearEcoQos(t) \/ ClearIdlePriority(t)

Restore(r) == VisitThrottled(r) \/ ForgetThrottled(r)

MainStep ==
    \/ ReceiveForegroundEvent \/ OpenForeground \/ TakeForeground \/ OpenPrevious
    \/ Toggle(Main)
    \/ CopyThrottled(Main) \/ Restore(Main) \/ ExitMain

SweepStep(s) ==
    TakeSnapshot(s) \/ ReadPending(s) \/ VisitEntry(s) \/ Toggle(s) \/ FinishSweep(s)

RestoreStep(r) == Restore(r) \/ Toggle(r)

\* After the exit nothing of the program runs any more.
Next ==
    \/ /\ stage # "exited" /\ UNCHANGED mode
       /\ \/ Environment
          \/ MainStep
          \/ \E s \in Sweepers : StartSweep(s) \/ SweepStep(s)
          \/ \E r \in Restorers : CopyThrottled(r) \/ RestoreStep(r)
          \/ EndMessageLoop
          \/ CloseStopHK
    \/ stage # "exited" /\ CrashAndRestart
    \/ Exited

Running(A) == stage # "exited" /\ A /\ UNCHANGED mode

\* Every goroutine that has something to do keeps running; nobody has to
\* start a sweep, a restore or a shutdown.
Fairness ==
    /\ WF_vars(Running(MainStep)) /\ WF_vars(Running(CloseStopHK))
    /\ \A s \in Sweepers : WF_vars(Running(SweepStep(s)))
    /\ \A r \in Restorers : WF_vars(Running(RestoreStep(r)))

Spec == Init /\ [][Next]_vars /\ Fairness

-----------------------------------------------------------------------------
(* Properties.                                                              *)

PC == {"wait", "open", "lock", "prevOpen", "snapshot", "pending", "scan",
       "copy", "restore", "boostQos", "boostPriority",
       "ecoQos", "ecoPriority", "record", "join", "done"}

\* The type of every variable; a sweep's list holds process and name, a
\* restore's list processes.
TypeOK ==
    /\ proc \in [Pid -> Name \cup {Unborn, Gone}]
    /\ ecoQos \subseteq Pid /\ idlePri \subseteq Pid
    /\ fg \in Pid \cup {NoPid}
    /\ inbox \in Seq(Pid)
    /\ pendingPID \in Pid \cup {NoPid}
    /\ throttledPIDs \subseteq Pid
    /\ paused \in BOOLEAN
    /\ profile \in {"balanced", "aggressive"}
    /\ extra \subseteq Name
    /\ stage \in {"running", "restoring", "exited"}
    /\ stopHK \in BOOLEAN
    /\ pc \in [Thread -> PC]
    /\ subj \in [Thread -> Pid \cup {NoPid}]
    /\ DOMAIN todo = Thread
    /\ \A s \in Sweepers : todo[s] \subseteq Pid \X Name
    /\ \A r \in Restorers \cup {Main} : todo[r] \subseteq Pid
    /\ skip \in [Thread -> Pid \cup {NoPid}]
    /\ fgName \in Name \cup {Unborn}
    /\ prev \in Pid \cup {NoPid}
    /\ tray \in BOOLEAN /\ crashes \in 0..MaxCrashes

\* A process some goroutine is about to record as throttled, or that main
\* took out of throttledPIDs and is about to boost.
InFlight(p) ==
    \/ \E t \in {Main} \cup Sweepers :
          subj[t] = p /\ pc[t] \in {"ecoPriority", "record"}
    \/ subj[Main] = p /\ pc[Main] \in {"boostQos", "boostPriority"}

\* While the program runs, the engine knows of every process it slowed down:
\* each is in throttledPIDs, which Restore goes by, or on its way in or out.
\* A tray restore drops what is recorded during it; a crash drops everything.
\* The hazard is the order of the unlocked Win32 calls and the two regions
\* under the lock in concurrent sweeps and foreground switches.
EcoTracked ==
    stage = "running" /\ ~tray /\ crashes = 0 => \A p \in Eco : p \in throttledPIDs \/ InFlight(p)

\* No process whose name is in the base bypass list is ever slowed down,
\* whichever profile is active ("never throttled", README).  A check is made
\* of a name read earlier than the process is opened.
BaseNeverThrottled == \A p \in Eco : proc[p] \notin Base

\* Once main has handled all foreground events, the process the user works
\* with runs at normal speed, also if a crashed run had slowed it down.
ForegroundBoosted ==
    stage = "running" /\ pc[Main] = "wait" /\ inbox = <<>> => fg \notin Eco

\* With restore_on_exit the program leaves no process throttled behind, unless
\* an earlier run of it has crashed or a tray restore has dropped some.
ExitRestored == stage = "exited" /\ ~tray /\ crashes = 0 => Eco = {}

\* Pausing takes effect: a sweep or a foreground switch may be under way when
\* SetPaused(TRUE) is called, but an engine that stays paused comes to stop
\* issuing calls that slow a process down.
PauseTakesEffect ==
    <>[]paused => <>[](\A t \in Thread : pc[t] \notin {"ecoQos", "ecoPriority"})

\* A process the user switches to gets its normal speed back, unless the user
\* leaves it or the program shuts down before, crashes or not.
ForegroundEventuallyBoosted ==
    \A p \in Pid : fg = p ~> (p \notin Eco \/ fg # p \/ stage # "running")

\* Once the message loop has ended the program exits, with sweeps and tray
\* restores still at work.
ShutdownCompletes == stage = "restoring" ~> stage = "exited"

-----------------------------------------------------------------------------
(* The promise.                                                             *)

\* Main has a process to slow down, in prev and then in its hand.
BoostOnly == INSTANCE BoostForegroundOnly WITH
    slow <- Eco,
    seen <- IF pc[Main] = "lock" THEN subj[Main] ELSE NoPid,
    front <- pendingPID,
    coming <- IF stage = "running" /\ pc[Main] \in {"boostQos", "boostPriority"}
              THEN subj[Main] ELSE NoPid,
    back <- IF prev = NoPid /\ pc[Main] \in {"ecoQos", "ecoPriority", "record"}
            THEN subj[Main] ELSE prev,
    reliable <- ~tray /\ crashes = 0,
    up <- stage # "exited"

\* Without sweeps the engine does what boost_foreground_only promises: it slows
\* down one process at a time, only the one that has lost the foreground, and
\* not before the new one is boosted; it exits when none is left slow.
\* Handler, restores and exit work on the same processes meanwhile.
BoostsForegroundOnly == BoostOnly!Spec

=============================================================================
