------------------------------ MODULE Lifecycle -----------------------------
(***************************************************************************)
(* Start and shutdown of `energystar run`: the main goroutine through       *)
(* RunMessageLoop and the clean-up after it, the shutdown goroutine with     *)
(* Engine.Stop and Tray.Stop, the tray goroutine, the background goroutines  *)
(* that wait for stopHK, and the ETW process monitor that the message loop   *)
(* starts and stops.                                                        *)
(***************************************************************************)
EXTENDS Naturals

CONSTANT
    Workers  \* goroutines of main's WaitGroup that end with stopHK; the one that
             \* does housekeeping is always there

ASSUME LifecycleAssumption == Workers # {}

VARIABLES
    doneCh, stopCh, stopHK,  \* whether each channel is closed
    main,                    \* where the main goroutine is
    msgThreadID,             \* whether it is stored
    msgQueue,                \* whether main's thread has a message queue
    quit,                    \* whether WM_QUIT is in that queue
    stopper,                 \* where the shutdown goroutine is
    tray, running, wmClose,  \* the tray: its place, t.running, WM_CLOSE posted
    worker,                  \* the background goroutines
    etwLoop, etwStopCh,      \* the monitor's event loop and its stop channel
    trace,                   \* the goroutine inside ProcessTrace
    session,                 \* whether the ETW session exists
    hook                     \* whether foreground events reach the engine

channels == <<doneCh, stopCh, stopHK>>
queue == <<msgThreadID, msgQueue, quit>>
trayVars == <<tray, running, wmClose>>
etw == <<etwLoop, etwStopCh, trace, session>>
vars == <<channels, main, queue, stopper, trayVars, worker, etw, hook>>

Init ==
    /\ doneCh = FALSE /\ stopCh = FALSE /\ stopHK = FALSE
    /\ main = "start"
    /\ msgThreadID = FALSE /\ msgQueue = FALSE /\ quit = FALSE
    /\ stopper = "wait"
    /\ tray \in {"start", "end"}   \* "end": the program runs without --tray
    /\ running = FALSE /\ wmClose = FALSE
    /\ worker = [w \in Workers |-> "run"]
    /\ etwLoop = "none" /\ etwStopCh = FALSE /\ trace = "none" /\ session = FALSE
    /\ hook = FALSE

-----------------------------------------------------------------------------
\* Ctrl+C, the console handler or the tray's Exit, at any time, also while the
\* program starts; sync.Once makes it one close.
TriggerShutdown ==
    /\ ~doneCh
    /\ doneCh' = TRUE
    /\ UNCHANGED <<stopCh, stopHK, main, queue, stopper, trayVars, worker, etw, hook>>

-----------------------------------------------------------------------------
(* The main goroutine: RunMessageLoop and its deferred calls.               *)

StoreThreadID ==
    /\ main = "start"
    /\ msgThreadID' = TRUE
    /\ main' = "window"
    /\ UNCHANGED <<channels, msgQueue, quit, stopper, trayVars, worker, etw, hook>>

\* The first window gives the thread its message queue.
CreateHiddenWindow ==
    /\ main = "window"
    /\ msgQueue' = TRUE
    /\ main' = "etwStart"
    /\ UNCHANGED <<channels, msgThreadID, quit, stopper, trayVars, worker, etw, hook>>

\* ProcessMonitor.Start: the session may be refused, given up again because
\* the provider or the trace fails, or be read by an event loop.
StartEtw ==
    /\ main = "etwStart"
    /\ \/ UNCHANGED etw
       \/ /\ session' = TRUE /\ etwLoop' = "select" /\ trace' = "processing"
          /\ UNCHANGED etwStopCh
    /\ main' = "hook"
    /\ UNCHANGED <<channels, queue, stopper, trayVars, worker, hook>>

\* SetWinEventHook, which is refused in session 0.
InstallHook ==
    /\ main = "hook"
    /\ hook' \in BOOLEAN
    /\ main' = "loop"
    /\ UNCHANGED <<channels, queue, stopper, trayVars, worker, etw>>

\* The loop ends; of the deferred calls the one that unhooks comes first.
EndLoop ==
    /\ main = "loop"
    /\ hook' = FALSE
    /\ main' = "etwStop"
    /\ UNCHANGED <<channels, queue, stopper, trayVars, worker, etw>>

\* GetMessage returns WM_QUIT, ...
LeaveLoop == quit /\ EndLoop

\* ... or fails, which nothing makes happen.
FailLoop == EndLoop

\* ProcessMonitor.Stop, up to its wait for the event loop.
StopEtw ==
    /\ main = "etwStop"
    /\ IF etwLoop = "none"
       THEN main' = "restore" /\ UNCHANGED etwStopCh
       ELSE main' = "etwWait" /\ etwStopCh' = TRUE
    /\ UNCHANGED <<channels, queue, stopper, trayVars, worker, etwLoop, trace, session, hook>>

\* Mutant: only the trace is closed, not the session.
CloseTraceOnly ==
    /\ main = "etwWait" /\ etwLoop = "end"
    /\ main' = "restore"
    /\ UNCHANGED <<channels, queue, stopper, trayVars, worker, etw, hook>>

\* ... and from there: CloseTrace and ControlTrace.
CloseEtw ==
    /\ main = "etwWait" /\ etwLoop = "end"
    /\ session' = FALSE
    /\ main' = "restore"
    /\ UNCHANGED <<channels, queue, stopper, trayVars, worker, etwLoop, etwStopCh, trace, hook>>

\* The message loop has returned: RestoreAllProcesses.
RestoreProcesses ==
    /\ main = "restore"
    /\ main' = "join"
    /\ UNCHANGED <<channels, queue, stopper, trayVars, worker, etw, hook>>

\* Mutant: main does not wait for its goroutines.
ExitAtOnce ==
    /\ main = "join"
    /\ main' = "exited"
    /\ UNCHANGED <<channels, queue, stopper, trayVars, worker, etw, hook>>

JoinAll ==
    /\ main = "join"
    /\ tray = "end" /\ \A w \in Workers : worker[w] = "end"
    /\ main' = "exited"
    /\ UNCHANGED <<channels, queue, stopper, trayVars, worker, etw, hook>>

-----------------------------------------------------------------------------
(* The shutdown goroutine.                                                  *)

SeeDone ==
    /\ stopper = "wait" /\ doneCh
    /\ stopper' = "close"
    /\ UNCHANGED <<channels, main, queue, trayVars, worker, etw, hook>>

CloseStopCh ==
    /\ stopper = "close"
    /\ stopCh' = TRUE
    /\ stopper' = "post"
    /\ UNCHANGED <<doneCh, stopHK, main, queue, trayVars, worker, etw, hook>>

\* PostThreadMessage fails for a thread that has no message queue yet; the
\* result is ignored.
PostQuit ==
    /\ stopper = "post"
    /\ quit' = (quit \/ (msgThreadID /\ msgQueue))
    /\ stopper' = "tray"
    /\ UNCHANGED <<channels, main, msgThreadID, msgQueue, trayVars, worker, etw, hook>>

\* Mutant: Tray.Stop only marks the tray as stopped.
StopTrayQuietly ==
    /\ stopper = "tray"
    /\ running' = FALSE
    /\ stopper' = "hk"
    /\ UNCHANGED <<channels, main, queue, tray, wmClose, worker, etw, hook>>

StopTray ==
    /\ stopper = "tray"
    /\ wmClose' = (wmClose \/ running)
    /\ stopper' = "hk"
    /\ UNCHANGED <<channels, main, queue, tray, running, worker, etw, hook>>

CloseStopHK ==
    /\ stopper = "hk"
    /\ stopHK' = TRUE
    /\ stopper' = "end"
    /\ UNCHANGED <<doneCh, stopCh, main, queue, trayVars, worker, etw, hook>>

-----------------------------------------------------------------------------
(* The tray goroutine, the background goroutines, the ETW monitor.          *)

\* Mutant: a tray that cannot be created keeps a place of its own.
CreateTrayOrFail ==
    /\ tray = "start"
    /\ tray' \in {"icon", "failed"}
    /\ UNCHANGED <<channels, main, queue, stopper, running, wmClose, worker, etw, hook>>

CreateTray ==
    /\ tray = "start"
    /\ tray' \in {"icon", "end"}   \* "end": the window or the icon failed
    /\ UNCHANGED <<channels, main, queue, stopper, running, wmClose, worker, etw, hook>>

SetRunning ==
    /\ tray = "icon"
    /\ running' = TRUE
    /\ tray' = "loop"
    /\ UNCHANGED <<channels, main, queue, stopper, wmClose, worker, etw, hook>>

\* The loop of Tray.Run ends and the icon is removed.
EndTray ==
    /\ tray = "loop"
    /\ running' = FALSE
    /\ tray' = "end"
    /\ UNCHANGED <<channels, main, queue, stopper, wmClose, worker, etw, hook>>

CloseTray == wmClose /\ EndTray

FailTray == EndTray

EndWorker(w) ==
    /\ worker[w] = "run" /\ stopHK
    /\ worker' = [worker EXCEPT ![w] = "end"]
    /\ UNCHANGED <<channels, main, queue, stopper, trayVars, etw, hook>>

\* The select of eventLoop, and its wait for ProcessTrace after a stop.
EventLoop ==
    /\ \/ etwLoop = "select" /\ etwStopCh /\ etwLoop' = "drain"
       \/ etwLoop \in {"select", "drain"} /\ trace = "returned" /\ etwLoop' = "end"
    /\ UNCHANGED <<channels, main, queue, stopper, trayVars, worker,
                   etwStopCh, trace, session, hook>>

\* ProcessTrace returns at once or later on an error, or not before its trace is
\* closed: then never, as main closes it when the event loop has ended.
ReturnFromTrace ==
    /\ trace = "processing"
    /\ trace' = "returned"
    /\ UNCHANGED <<channels, main, queue, stopper, trayVars, worker,
                   etwLoop, etwStopCh, session, hook>>

-----------------------------------------------------------------------------
MainStep ==
    \/ StoreThreadID \/ CreateHiddenWindow \/ StartEtw \/ InstallHook \/ LeaveLoop
    \/ StopEtw \/ CloseEtw \/ RestoreProcesses \/ JoinAll

StopperStep == SeeDone \/ CloseStopCh \/ PostQuit \/ StopTray \/ CloseStopHK

TrayStep == CreateTray \/ SetRunning \/ CloseTray

Exited == main = "exited" /\ UNCHANGED vars

Next ==
    \/ /\ main # "exited"
       /\ \/ TriggerShutdown \/ MainStep \/ StopperStep \/ TrayStep
          \/ EventLoop \/ ReturnFromTrace
          \/ FailLoop \/ FailTray
          \/ \E w \in Workers : EndWorker(w)
    \/ Exited

\* Every goroutine that can go on does so; nobody has to ask for a shutdown, no
\* message loop has to fail, and nothing makes ProcessTrace return.
Fairness ==
    /\ WF_vars(MainStep) /\ WF_vars(main # "exited" /\ StopperStep)
    /\ WF_vars(main # "exited" /\ TrayStep) /\ WF_vars(main # "exited" /\ EventLoop)
    /\ \A w \in Workers : WF_vars(main # "exited" /\ EndWorker(w))

Spec == Init /\ [][Next]_vars /\ Fairness

-----------------------------------------------------------------------------
(* Properties.                                                              *)

TypeOK ==
    /\ {doneCh, stopCh, stopHK, msgThreadID, msgQueue, quit,
        running, wmClose, etwStopCh, session, hook} \subseteq BOOLEAN
    /\ main \in {"start", "window", "etwStart", "hook", "loop", "etwStop", "etwWait",
                 "restore", "join", "exited"}
    /\ stopper \in {"wait", "close", "post", "tray", "hk", "end"}
    /\ tray \in {"start", "icon", "loop", "end"}
    /\ worker \in [Workers -> {"run", "end"}]
    /\ etwLoop \in {"none", "select", "drain", "end"}
    /\ trace \in {"none", "processing", "returned"}

\* What an orderly shutdown takes: that WM_QUIT is posted to a thread which has a
\* message queue, that Tray.Stop finds a tray which is up, ...
QuitArrives == stopper \in {"tray", "hk", "end"} => msgQueue
CloseArrives == stopper \in {"hk", "end"} => tray \in {"loop", "end"}

\* ... and that ProcessTrace does not stay in for ever. Given these, a shutdown that
\* is asked for completes, at whatever time: the message loop ends, the ETW
\* monitor stops, main restores, and all goroutines join.
ShutdownCompletes ==
    [](QuitArrives /\ CloseArrives) /\ []<>(trace # "processing") =>
        (doneCh ~> main = "exited")

\* Engine.Stop ends the message loop whenever it is called ("without races",
\* README): WM_QUIT is not lost.
StopEndsLoop == stopper = "hk" ~> main \notin {"start", "window", "etwStart", "hook", "loop"}

\* An ETW session outlives its process, so none is left when main goes on to
\* restore and exit; and none is closed while the event loop still reads it.
\* No foreground event throttles a process after it has been restored.
SessionReleased ==
    /\ main \in {"restore", "join", "exited"} => ~session /\ ~hook
    /\ etwLoop \in {"select", "drain"} => session

\* Whatever ends the message loop, main exits only after a shutdown was asked
\* for and with none of its goroutines or windows left behind.
ExitIsOrderly ==
    main = "exited" => /\ doneCh /\ stopCh
                       /\ tray = "end" /\ ~running
                       /\ etwLoop \in {"none", "end"}
=============================================================================
