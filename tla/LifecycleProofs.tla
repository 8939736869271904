--------------------------- MODULE LifecycleProofs --------------------------
(***************************************************************************)
(* Theorems about Lifecycle for any number of background goroutines, with    *)
(* and without a tray, shutdowns at any time, and message loops and traces   *)
(* that fail or block.                                                      *)
(***************************************************************************)
EXTENDS Lifecycle, TLAPS

\* The places of main before its message loop.
Starting == {"start", "window", "etwStart", "hook"}

\* The monitor: no session before main starts it or after main has closed it,
\* and in between one that is read until main has asked the event loop to end.
EtwOK ==
    /\ main \in {"start", "window", "etwStart"} => etwLoop = "none"
    /\ etwLoop = "none" => ~session
    /\ etwLoop \in {"select", "drain"} => session
    /\ main \in {"restore", "join", "exited"} => ~session
    /\ main = "etwWait" => etwLoop # "none"

\* Foreground events reach the engine in the message loop only.
HookOK == hook => main = "loop"

TrayOK == running <=> tray = "loop"

\* The shutdown goroutine closes the channels in this order, and what a
\* background goroutine has seen closed has been closed.
StopperOK ==
    /\ stopper # "wait" => doneCh
    /\ stopper \notin {"wait", "close"} => stopCh
    /\ stopHK => stopper = "end"
    /\ \A w \in Workers : worker[w] = "end" => stopHK

\* Main has waited for tray and goroutines.
JoinedOK ==
    main = "exited" => tray = "end" /\ \A w \in Workers : worker[w] = "end"

IInv == TypeOK /\ EtwOK /\ HookOK /\ TrayOK /\ StopperOK /\ JoinedOK

-----------------------------------------------------------------------------
\* Every step is one of the actions; the two ways out of a loop are one, and
\* while a step is taken main has not exited.
LEMMA NextCases ==
    ASSUME [Next]_vars
    PROVE  \/ UNCHANGED vars
           \/ /\ main # "exited"
              /\ \/ TriggerShutdown \/ StoreThreadID \/ CreateHiddenWindow
                 \/ StartEtw \/ InstallHook \/ EndLoop \/ StopEtw \/ CloseEtw
                 \/ RestoreProcesses \/ JoinAll
                 \/ SeeDone \/ CloseStopCh \/ PostQuit \/ StopTray \/ CloseStopHK
                 \/ CreateTray \/ SetRunning \/ EndTray
                 \/ \E w \in Workers : EndWorker(w)
                 \/ EventLoop \/ ReturnFromTrace
BY Zenon DEF Next, MainStep, StopperStep, TrayStep, Exited, LeaveLoop,
   FailLoop, CloseTray, FailTray

\* Every step keeps the types.
LEMMA StepTypeOK == TypeOK /\ [Next]_vars => TypeOK'
<1> SUFFICES ASSUME TypeOK, [Next]_vars PROVE TypeOK'
  OBVIOUS
<1> USE DEF TypeOK, vars, channels, queue, trayVars, etw
<1>1. ASSUME TriggerShutdown PROVE TypeOK'
  BY <1>1 DEF TriggerShutdown
<1>2. ASSUME StoreThreadID PROVE TypeOK'
  BY <1>2 DEF StoreThreadID
<1>3. ASSUME CreateHiddenWindow PROVE TypeOK'
  BY <1>3 DEF CreateHiddenWindow
<1>4. ASSUME StartEtw PROVE TypeOK'
  BY <1>4 DEF StartEtw
<1>5. ASSUME InstallHook PROVE TypeOK'
  BY <1>5 DEF InstallHook
<1>6. ASSUME EndLoop PROVE TypeOK'
  BY <1>6 DEF EndLoop
<1>7. ASSUME StopEtw PROVE TypeOK'
  BY <1>7 DEF StopEtw
<1>8. ASSUME CloseEtw PROVE TypeOK'
  BY <1>8 DEF CloseEtw
<1>9. ASSUME RestoreProcesses PROVE TypeOK'
  BY <1>9 DEF RestoreProcesses
<1>10. ASSUME JoinAll PROVE TypeOK'
  BY <1>10 DEF JoinAll
<1>11. ASSUME SeeDone PROVE TypeOK'
  BY <1>11 DEF SeeDone
<1>12. ASSUME CloseStopCh PROVE TypeOK'
  BY <1>12 DEF CloseStopCh
<1>13. ASSUME PostQuit PROVE TypeOK'
  BY <1>13 DEF PostQuit
<1>14. ASSUME StopTray PROVE TypeOK'
  BY <1>14 DEF StopTray
<1>15. ASSUME CloseStopHK PROVE TypeOK'
  BY <1>15 DEF CloseStopHK
<1>16. ASSUME CreateTray PROVE TypeOK'
  BY <1>16 DEF CreateTray
<1>17. ASSUME SetRunning PROVE TypeOK'
  BY <1>17 DEF SetRunning
<1>18. ASSUME EndTray PROVE TypeOK'
  BY <1>18 DEF EndTray
<1>19. ASSUME NEW w \in Workers, EndWorker(w) PROVE TypeOK'
  BY <1>19 DEF EndWorker
<1>20. ASSUME EventLoop PROVE TypeOK'
  BY <1>20 DEF EventLoop
<1>21. ASSUME ReturnFromTrace PROVE TypeOK'
  BY <1>21 DEF ReturnFromTrace
<1>22. CASE UNCHANGED vars
  BY <1>22
<1> QED
  BY NextCases, <1>1, <1>2, <1>3, <1>4, <1>5, <1>6, <1>7, <1>8, <1>9, <1>10, <1>11, <1>12, <1>13, <1>14, <1>15, <1>16, <1>17, <1>18, <1>19, <1>20, <1>21, <1>22

\* Every step keeps the invariant.
LEMMA StepIInv == IInv /\ [Next]_vars => IInv'
<1> SUFFICES ASSUME IInv, [Next]_vars PROVE IInv'
  OBVIOUS
<1>t. TypeOK'
  BY StepTypeOK DEF IInv
<1> USE <1>t DEF IInv, TypeOK, EtwOK, HookOK, TrayOK, StopperOK, JoinedOK,
    vars, channels, queue, trayVars, etw
<1>1. ASSUME main # "exited", TriggerShutdown PROVE IInv'
  BY <1>1 DEF TriggerShutdown
<1>2. ASSUME main # "exited", StoreThreadID PROVE IInv'
  BY <1>2 DEF StoreThreadID
<1>3. ASSUME main # "exited", CreateHiddenWindow PROVE IInv'
  BY <1>3 DEF CreateHiddenWindow
<1>4. ASSUME main # "exited", StartEtw PROVE IInv'
  BY <1>4 DEF StartEtw
<1>5. ASSUME main # "exited", InstallHook PROVE IInv'
  BY <1>5 DEF InstallHook
<1>6. ASSUME main # "exited", EndLoop PROVE IInv'
  BY <1>6 DEF EndLoop
<1>7. ASSUME main # "exited", StopEtw PROVE IInv'
  BY <1>7 DEF StopEtw
<1>8. ASSUME main # "exited", CloseEtw PROVE IInv'
  BY <1>8 DEF CloseEtw
<1>9. ASSUME main # "exited", RestoreProcesses PROVE IInv'
  BY <1>9 DEF RestoreProcesses
<1>10. ASSUME main # "exited", JoinAll PROVE IInv'
  BY <1>10 DEF JoinAll
<1>11. ASSUME main # "exited", SeeDone PROVE IInv'
  BY <1>11 DEF SeeDone
<1>12. ASSUME main # "exited", CloseStopCh PROVE IInv'
  BY <1>12 DEF CloseStopCh
<1>13. ASSUME main # "exited", PostQuit PROVE IInv'
  BY <1>13 DEF PostQuit
<1>14. ASSUME main # "exited", StopTray PROVE IInv'
  BY <1>14 DEF StopTray
<1>15. ASSUME main # "exited", CloseStopHK PROVE IInv'
  BY <1>15 DEF CloseStopHK
<1>16. ASSUME main # "exited", CreateTray PROVE IInv'
  BY <1>16 DEF CreateTray
<1>17. ASSUME main # "exited", SetRunning PROVE IInv'
  BY <1>17 DEF SetRunning
<1>18. ASSUME main # "exited", EndTray PROVE IInv'
  BY <1>18 DEF EndTray
<1>19. ASSUME main # "exited", NEW w \in Workers, EndWorker(w) PROVE IInv'
  BY <1>19 DEF EndWorker
<1>20. ASSUME main # "exited", EventLoop PROVE IInv'
  BY <1>20 DEF EventLoop
<1>21. ASSUME main # "exited", ReturnFromTrace PROVE IInv'
  BY <1>21 DEF ReturnFromTrace
<1>22. CASE UNCHANGED vars
  BY <1>22
<1> HIDE DEF IInv, TypeOK, EtwOK, HookOK, TrayOK, StopperOK, JoinedOK,
         vars, channels, queue, trayVars, etw
<1> QED
  BY NextCases, <1>1, <1>2, <1>3, <1>4, <1>5, <1>6, <1>7, <1>8, <1>9, <1>10, <1>11, <1>12, <1>13, <1>14, <1>15, <1>16, <1>17, <1>18, <1>19, <1>20, <1>21, <1>22

LEMMA IInvHolds == Spec => []IInv
<1>1. Init => IInv
  BY LifecycleAssumption
  DEF Init, IInv, TypeOK, EtwOK, HookOK, TrayOK, StopperOK, JoinedOK
<1> QED
  BY <1>1, StepIInv, PTL DEF Spec

-----------------------------------------------------------------------------
\* The types of all variables, for any set of background goroutines.
THEOREM TypeCorrect == Spec => []TypeOK
<1>1. IInv => TypeOK
  BY DEF IInv
<1> QED
  BY IInvHolds, <1>1, PTL

\* Whatever ends the message loop and whenever a shutdown is asked for, main
\* restores the processes with the ETW session closed and without the hook that
\* would bring it further events; nothing reads a session that is closed.
THEOREM SessionIsReleased == Spec => []SessionReleased
<1>1. IInv => SessionReleased
  BY DEF IInv, EtwOK, HookOK, SessionReleased
<1> QED
  BY IInvHolds, <1>1, PTL

\* Main exits only when a shutdown was asked for, and leaves no goroutine or
\* window behind: a background goroutine that has ended, and there is one, has
\* seen stopHK, which the shutdown goroutine closes last.
THEOREM ExitIsInOrder == Spec => []ExitIsOrderly
<1>1. IInv => ExitIsOrderly
  BY LifecycleAssumption
  DEF IInv, TypeOK, EtwOK, TrayOK, StopperOK, JoinedOK, ExitIsOrderly
<1> QED
  BY IInvHolds, <1>1, PTL
=============================================================================
