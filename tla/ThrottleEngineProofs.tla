------------------------ MODULE ThrottleEngineProofs ------------------------
(* Theorems about ThrottleEngine for any number of processes, names, sweeps *)
(* and restores.                                                            *)
EXTENDS ThrottleEngine, TLAPS, SequenceTheorems

\* Where each goroutine can be; main only leaves the handler for good, and
\* without a tray nobody restores.
PlaceOK ==
    /\ \A s \in Sweepers : pc[s] \in {"wait", "snapshot", "pending", "scan",
                                     "ecoQos", "ecoPriority", "record"}
    /\ \A r \in Restorers : pc[r] \in IF tray
            THEN {"wait", "restore", "boostQos", "boostPriority"} ELSE {"wait"}
    /\ pc[Main] \in IF stage = "running"
                    THEN {"wait", "open", "lock", "prevOpen", "boostQos", "boostPriority",
                          "ecoQos", "ecoPriority", "record"}
                    ELSE {"copy", "restore", "boostQos", "boostPriority", "join", "done"}

\* A goroutine at a place where it uses a process has one.
HandleOK ==
    /\ \A t \in Thread : pc[t] \in Holding \cup {"open"} => subj[t] \in Pid
    /\ pc[Main] = "prevOpen" => prev \in Pid

\* Only running processes are slowed down.
EcoAlive == \A p \in Eco : Alive(p)

Sound == TypeOK /\ PlaceOK /\ HandleOK /\ EcoAlive

-----------------------------------------------------------------------------
(* Every step is one of the actions, with its goroutine.                    *)

LEMMA NextCases ==
    ASSUME Next
    PROVE  \/ \E p \in Pid : ExitProcess(p) \/ Focus(p)
           \/ \E p \in Pid, n \in Name : StartProcess(p, n)
           \/ \E b \in BOOLEAN : SetPaused(b)
           \/ \E f \in Profiles : SetProfile(f)
           \/ ReceiveForegroundEvent \/ OpenForeground
           \/ TakeForeground \/ OpenPrevious
           \/ \E t \in Thread : \/ SetEcoQos(t) \/ SetIdlePriority(t)
                               \/ RecordThrottled(t)
                               \/ ClearEcoQos(t) \/ ClearIdlePriority(t)
           \/ \E s \in Sweepers : \/ StartSweep(s) \/ TakeSnapshot(s) \/ ReadPending(s)
                                 \/ VisitEntry(s) \/ FinishSweep(s)
           \/ \E r \in Restorers \cup {Main} :
                 CopyThrottled(r) \/ VisitThrottled(r) \/ ForgetThrottled(r)
           \/ EndMessageLoop \/ CloseStopHK \/ ExitMain
           \/ CrashAndRestart
           \/ UNCHANGED vars
BY Zenon DEF Next, Environment, MainStep, SweepStep, RestoreStep, Restore, Toggle,
   Exited, Thread

\* Crashes are counted, and nothing else touches the count or the tray.
LEMMA ModeKept ==
    ASSUME tray \in BOOLEAN, crashes \in 0..MaxCrashes, [Next]_vars
    PROVE  /\ UNCHANGED tray
           /\ crashes' \in 0..MaxCrashes /\ (crashes' = 0 => crashes = 0)
<1>1. crashes' = crashes \/ (crashes < MaxCrashes /\ crashes' = crashes + 1)
  BY Zenon DEF Next, CrashAndRestart, Exited, vars, mode
<1>2. UNCHANGED tray
  BY Zenon DEF Next, CrashAndRestart, Exited, vars, mode
<1> QED
  BY <1>1, <1>2, OptionAssumption

-----------------------------------------------------------------------------
(* Types and handles.                                                       *)

\* The initial states have the types, and nobody uses a process yet.
LEMMA InitSound == Init => Sound
<1> SUFFICES ASSUME Init PROVE Sound
  OBVIOUS
<1> USE ProcessAssumption, ThreadAssumption, OptionAssumption DEF Init
<1>1. inbox \in Seq(Pid)
  OBVIOUS
<1>2. /\ DOMAIN todo = Thread
      /\ \A s \in Sweepers : todo[s] \subseteq Pid \X Name
      /\ \A r \in Restorers \cup {Main} : todo[r] \subseteq Pid
  BY DEF Thread
<1>c. crashes \in 0..MaxCrashes
  OBVIOUS
<1>p. pc \in [Thread -> PC] /\ stopHK \in BOOLEAN
  BY DEF PC
<1>3. TypeOK
  BY <1>1, <1>2, <1>c, <1>p DEF TypeOK
<1>4. PlaceOK /\ HandleOK
  BY DEF PlaceOK, HandleOK, Holding, Thread
<1>5. EcoAlive
  BY DEF EcoAlive, Eco
<1> QED
  BY <1>3, <1>4, <1>5 DEF Sound

\* Every step keeps them.
LEMMA StepSound == Sound /\ [Next]_vars => Sound'
<1> SUFFICES ASSUME Sound, [Next]_vars PROVE Sound'
  OBVIOUS
<1>0. crashes' \in 0..MaxCrashes
  BY ModeKept DEF Sound, TypeOK
<1>t. UNCHANGED tray
  BY ModeKept DEF Sound, TypeOK
<1> USE ProcessAssumption, ThreadAssumption, OptionAssumption, <1>t
    DEF Sound, TypeOK, vars, windows, engine, locals, mode
<1>1. ASSUME NEW p \in Pid, ExitProcess(p) PROVE Sound'
  <2>1. TypeOK'
    BY <1>0, <1>1 DEF ExitProcess, PC, Thread, Alive, HandleOK, Holding
  <2>2. PlaceOK' /\ HandleOK'
    BY <1>1 DEF ExitProcess, PlaceOK, HandleOK, Holding, Thread, Alive
  <2>3. EcoAlive'
    BY <1>1 DEF ExitProcess, EcoAlive, Eco, Alive
  <2> QED
    BY <2>1, <2>2, <2>3 DEF Sound
<1>2. ASSUME NEW p \in Pid, Focus(p) PROVE Sound'
  <2>1. TypeOK'
    BY <1>0, <1>2 DEF Focus, PC, Thread, Alive, HandleOK, Holding
  <2>2. PlaceOK' /\ HandleOK'
    BY <1>2 DEF Focus, PlaceOK, HandleOK, Holding, Thread, Alive
  <2>3. EcoAlive'
    BY <1>2 DEF Focus, EcoAlive, Eco, Alive
  <2> QED
    BY <2>1, <2>2, <2>3 DEF Sound
<1>3. ASSUME NEW p \in Pid, NEW n \in Name, StartProcess(p, n) PROVE Sound'
  <2>1. TypeOK'
    BY <1>0, <1>3 DEF StartProcess, PC, Thread, Alive, HandleOK, Holding
  <2>2. PlaceOK' /\ HandleOK'
    BY <1>3 DEF StartProcess, PlaceOK, HandleOK, Holding, Thread, Alive
  <2>3. EcoAlive'
    BY <1>3 DEF StartProcess, EcoAlive, Eco, Alive
  <2> QED
    BY <2>1, <2>2, <2>3 DEF Sound
<1>4. ASSUME NEW b \in BOOLEAN, SetPaused(b) PROVE Sound'
  <2>1. TypeOK'
    BY <1>0, <1>4 DEF SetPaused, PC, Thread, Alive, HandleOK, Holding
  <2>2. PlaceOK' /\ HandleOK'
    BY <1>4 DEF SetPaused, PlaceOK, HandleOK, Holding, Thread, Alive
  <2>3. EcoAlive'
    BY <1>4 DEF SetPaused, EcoAlive, Eco, Alive
  <2> QED
    BY <2>1, <2>2, <2>3 DEF Sound
<1>5. ASSUME NEW f \in Profiles, SetProfile(f) PROVE Sound'
  <2>1. TypeOK'
    BY <1>0, <1>5 DEF SetProfile, PC, Thread, Alive, HandleOK, Holding
  <2>2. PlaceOK' /\ HandleOK'
    BY <1>5 DEF SetProfile, PlaceOK, HandleOK, Holding, Thread, Alive
  <2>3. EcoAlive'
    BY <1>5 DEF SetProfile, EcoAlive, Eco, Alive
  <2> QED
    BY <2>1, <2>2, <2>3 DEF Sound
<1>6. ASSUME ReceiveForegroundEvent PROVE Sound'
  <2>1. TypeOK'
    BY <1>0, <1>6 DEF ReceiveForegroundEvent, Go, PC, Thread, Alive, HandleOK,
       Holding
  <2>2. PlaceOK' /\ HandleOK'
    <3>1. /\ stage = "running" /\ pc[Main] = "wait" /\ Head(inbox) \in Pid
          /\ UNCHANGED <<stage, prev>>
      BY <1>6 DEF ReceiveForegroundEvent
    <3>2. \/ UNCHANGED <<pc, subj>>
          \/ /\ pc' = [pc EXCEPT ![Main] = "open"]
             /\ subj' = [subj EXCEPT ![Main] = Head(inbox)]
      BY <1>6 DEF ReceiveForegroundEvent, Go
    <3>3. PlaceOK'
      BY <3>1, <3>2 DEF PlaceOK, Thread
    <3>4. HandleOK'
      BY <3>1, <3>2 DEF HandleOK, Holding, Thread
    <3> QED
      BY <3>3, <3>4
  <2>3. EcoAlive'
    BY <1>6 DEF ReceiveForegroundEvent, EcoAlive, Eco, Alive
  <2> QED
    BY <2>1, <2>2, <2>3 DEF Sound
<1>7. ASSUME OpenForeground PROVE Sound'
  <2>1. TypeOK'
    BY <1>0, <1>7 DEF OpenForeground, Go, Release, PC, Thread, Alive, HandleOK,
       Holding
  <2>2. PlaceOK' /\ HandleOK'
    BY <1>7 DEF OpenForeground, Go, Release, PlaceOK, HandleOK, Holding,
       Thread, Alive
  <2>3. EcoAlive'
    BY <1>7 DEF OpenForeground, EcoAlive, Eco, Alive
  <2> QED
    BY <2>1, <2>2, <2>3 DEF Sound
<1>8. ASSUME TakeForeground PROVE Sound'
  <2>1. TypeOK'
    BY <1>0, <1>8 DEF TakeForeground, Go, Release, PC, Thread, Alive, HandleOK,
       Holding
  <2>2. PlaceOK' /\ HandleOK'
    BY <1>8 DEF TakeForeground, Go, Release, PlaceOK, HandleOK, Holding,
       Thread, Alive
  <2>3. EcoAlive'
    BY <1>8 DEF TakeForeground, EcoAlive, Eco, Alive
  <2> QED
    BY <2>1, <2>2, <2>3 DEF Sound
<1>9. ASSUME OpenPrevious PROVE Sound'
  <2>1. TypeOK'
    BY <1>0, <1>9 DEF OpenPrevious, Go, PC, Thread, Alive, HandleOK, Holding
  <2>2. PlaceOK' /\ HandleOK'
    BY <1>9 DEF OpenPrevious, Go, PlaceOK, HandleOK, Holding, Thread, Alive
  <2>3. EcoAlive'
    BY <1>9 DEF OpenPrevious, EcoAlive, Eco, Alive
  <2> QED
    BY <2>1, <2>2, <2>3 DEF Sound
<1>10. ASSUME NEW t \in Thread, SetEcoQos(t) PROVE Sound'
  <2>1. TypeOK'
    BY <1>0, <1>10 DEF SetEcoQos, Go, Release, AfterEco, PC, Thread, Alive,
       HandleOK, Holding
  <2>2. PlaceOK' /\ HandleOK'
    <3>1. /\ pc[t] = "ecoQos" /\ t \in {Main} \cup Sweepers
          /\ t = Main => stage = "running"
      BY <1>10 DEF SetEcoQos, PlaceOK, Thread
    <3>2. \/ pc' = [pc EXCEPT ![t] = "ecoPriority"] /\ UNCHANGED subj
          \/ /\ pc' = [pc EXCEPT ![t] = AfterEco(t)]
             /\ subj' = [subj EXCEPT ![t] = NoPid]
      BY <1>10 DEF SetEcoQos, Go, Release
    <3>3. /\ AfterEco(t) \in {"wait", "scan"} /\ UNCHANGED <<stage, prev>>
          /\ t = Main => AfterEco(t) = "wait"
          /\ t # Main => AfterEco(t) = "scan"
      BY <1>10 DEF SetEcoQos, AfterEco
    <3>4. PlaceOK'
      BY <3>1, <3>2, <3>3 DEF PlaceOK, Thread
    <3>5. HandleOK'
      BY <3>1, <3>2, <3>3 DEF HandleOK, Holding, Thread
    <3> QED
      BY <3>4, <3>5
  <2>3. EcoAlive'
    BY <1>10 DEF SetEcoQos, EcoAlive, Eco, Alive
  <2> QED
    BY <2>1, <2>2, <2>3 DEF Sound
<1>11. ASSUME NEW t \in Thread, SetIdlePriority(t) PROVE Sound'
  <2>1. TypeOK'
    BY <1>0, <1>11 DEF SetIdlePriority, Go, Release, AfterEco, PC, Thread, Alive,
       HandleOK, Holding
  <2>2. PlaceOK' /\ HandleOK'
    <3>1. /\ pc[t] = "ecoPriority" /\ t \in {Main} \cup Sweepers
          /\ t = Main => stage = "running"
      BY <1>11 DEF SetIdlePriority, PlaceOK, Thread
    <3>2. \/ pc' = [pc EXCEPT ![t] = "record"] /\ UNCHANGED subj
          \/ /\ pc' = [pc EXCEPT ![t] = AfterEco(t)]
             /\ subj' = [subj EXCEPT ![t] = NoPid]
      BY <1>11 DEF SetIdlePriority, Go, Release
    <3>3. /\ AfterEco(t) \in {"wait", "scan"} /\ UNCHANGED <<stage, prev>>
          /\ t = Main => AfterEco(t) = "wait"
          /\ t # Main => AfterEco(t) = "scan"
      BY <1>11 DEF SetIdlePriority, AfterEco
    <3>4. PlaceOK'
      BY <3>1, <3>2, <3>3 DEF PlaceOK, Thread
    <3>5. HandleOK'
      BY <3>1, <3>2, <3>3 DEF HandleOK, Holding, Thread
    <3> QED
      BY <3>4, <3>5
  <2>3. EcoAlive'
    BY <1>11 DEF SetIdlePriority, EcoAlive, Eco, Alive
  <2> QED
    BY <2>1, <2>2, <2>3 DEF Sound
<1>12. ASSUME NEW t \in Thread, RecordThrottled(t) PROVE Sound'
  <2>1. TypeOK'
    BY <1>0, <1>12 DEF RecordThrottled, Go, Release, AfterEco, PC, Thread, Alive,
       HandleOK, Holding
  <2>2. PlaceOK' /\ HandleOK'
    BY <1>12 DEF RecordThrottled, Go, Release, AfterEco, PlaceOK, HandleOK,
       Holding, Thread, Alive
  <2>3. EcoAlive'
    BY <1>12 DEF RecordThrottled, EcoAlive, Eco, Alive
  <2> QED
    BY <2>1, <2>2, <2>3 DEF Sound
<1>13. ASSUME NEW t \in Thread, ClearEcoQos(t) PROVE Sound'
  <2>1. TypeOK'
    BY <1>0, <1>13 DEF ClearEcoQos, Go, Release, AfterBoost, PC, Thread, Alive,
       HandleOK, Holding
  <2>2. PlaceOK' /\ HandleOK'
    BY <1>13 DEF ClearEcoQos, Go, Release, AfterBoost, PlaceOK, HandleOK,
       Holding, Thread, Alive
  <2>3. EcoAlive'
    BY <1>13 DEF ClearEcoQos, EcoAlive, Eco, Alive
  <2> QED
    BY <2>1, <2>2, <2>3 DEF Sound
<1>14. ASSUME NEW t \in Thread, ClearIdlePriority(t) PROVE Sound'
  <2>1. TypeOK'
    BY <1>0, <1>14 DEF ClearIdlePriority, Go, Release, AfterBoost, PC, Thread,
       Alive, HandleOK, Holding
  <2>2. PlaceOK' /\ HandleOK'
    BY <1>14 DEF ClearIdlePriority, Go, Release, AfterBoost, PlaceOK,
       HandleOK, Holding, Thread, Alive
  <2>3. EcoAlive'
    BY <1>14 DEF ClearIdlePriority, EcoAlive, Eco, Alive
  <2> QED
    BY <2>1, <2>2, <2>3 DEF Sound
<1>15. ASSUME NEW s \in Sweepers, StartSweep(s) PROVE Sound'
  <2>1. TypeOK'
    BY <1>0, <1>15 DEF StartSweep, Go, PC, Thread, Alive, HandleOK, Holding
  <2>2. PlaceOK' /\ HandleOK'
    BY <1>15 DEF StartSweep, Go, PlaceOK, HandleOK, Holding, Thread, Alive
  <2>3. EcoAlive'
    BY <1>15 DEF StartSweep, EcoAlive, Eco, Alive
  <2> QED
    BY <2>1, <2>2, <2>3 DEF Sound
<1>16. ASSUME NEW s \in Sweepers, TakeSnapshot(s) PROVE Sound'
  <2>1. TypeOK'
    BY <1>0, <1>16 DEF TakeSnapshot, Go, PC, Thread, Alive, HandleOK, Holding
  <2>2. PlaceOK' /\ HandleOK'
    BY <1>16 DEF TakeSnapshot, Go, PlaceOK, HandleOK, Holding, Thread, Alive
  <2>3. EcoAlive'
    BY <1>16 DEF TakeSnapshot, EcoAlive, Eco, Alive
  <2> QED
    BY <2>1, <2>2, <2>3 DEF Sound
<1>17. ASSUME NEW s \in Sweepers, ReadPending(s) PROVE Sound'
  <2>1. TypeOK'
    BY <1>0, <1>17 DEF ReadPending, Go, PC, Thread, Alive, HandleOK, Holding
  <2>2. PlaceOK' /\ HandleOK'
    BY <1>17 DEF ReadPending, Go, PlaceOK, HandleOK, Holding, Thread, Alive
  <2>3. EcoAlive'
    BY <1>17 DEF ReadPending, EcoAlive, Eco, Alive
  <2> QED
    BY <2>1, <2>2, <2>3 DEF Sound
<1>18. ASSUME NEW s \in Sweepers, VisitEntry(s) PROVE Sound'
  <2>1. TypeOK'
    BY <1>0, <1>18 DEF VisitEntry, Go, PC, Thread, Alive, HandleOK, Holding
  <2>2. PlaceOK' /\ HandleOK'
    <3>1. PICK e \in todo[s] :
            \/ pc' = [pc EXCEPT ![s] = "ecoQos"] /\ subj' = [subj EXCEPT ![s] = e[1]]
            \/ UNCHANGED <<pc, subj>>
      BY <1>18 DEF VisitEntry, Go
    <3>2. e[1] \in Pid /\ pc[s] = "scan" /\ UNCHANGED <<stage, prev>>
      BY <1>18, <3>1 DEF VisitEntry
    <3> QED
      BY <3>1, <3>2 DEF PlaceOK, HandleOK, Holding, Thread
  <2>3. EcoAlive'
    BY <1>18 DEF VisitEntry, EcoAlive, Eco, Alive
  <2> QED
    BY <2>1, <2>2, <2>3 DEF Sound
<1>19. ASSUME NEW s \in Sweepers, FinishSweep(s) PROVE Sound'
  <2>1. TypeOK'
    BY <1>0, <1>19 DEF FinishSweep, Go, PC, Thread, Alive, HandleOK, Holding
  <2>2. PlaceOK' /\ HandleOK'
    BY <1>19 DEF FinishSweep, Go, PlaceOK, HandleOK, Holding, Thread, Alive
  <2>3. EcoAlive'
    BY <1>19 DEF FinishSweep, EcoAlive, Eco, Alive
  <2> QED
    BY <2>1, <2>2, <2>3 DEF Sound
<1>20. ASSUME NEW r \in Restorers \cup {Main}, CopyThrottled(r) PROVE Sound'
  <2>1. TypeOK'
    BY <1>0, <1>20 DEF CopyThrottled, Go, PC, Thread, Alive, HandleOK, Holding
  <2>2. PlaceOK' /\ HandleOK'
    BY <1>20 DEF CopyThrottled, Go, PlaceOK, HandleOK, Holding, Thread, Alive
  <2>3. EcoAlive'
    BY <1>20 DEF CopyThrottled, EcoAlive, Eco, Alive
  <2> QED
    BY <2>1, <2>2, <2>3 DEF Sound
<1>21. ASSUME NEW r \in Restorers \cup {Main}, VisitThrottled(r) PROVE Sound'
  <2>1. TypeOK'
    BY <1>0, <1>21 DEF VisitThrottled, Go, PC, Thread, Alive, HandleOK, Holding
  <2>2. PlaceOK' /\ HandleOK'
    BY <1>21 DEF VisitThrottled, Go, PlaceOK, HandleOK, Holding, Thread, Alive
  <2>3. EcoAlive'
    BY <1>21 DEF VisitThrottled, EcoAlive, Eco, Alive
  <2> QED
    BY <2>1, <2>2, <2>3 DEF Sound
<1>22. ASSUME NEW r \in Restorers \cup {Main}, ForgetThrottled(r) PROVE Sound'
  <2>1. TypeOK'
    BY <1>0, <1>22 DEF ForgetThrottled, Go, PC, Thread, Alive, HandleOK, Holding
  <2>2. PlaceOK' /\ HandleOK'
    BY <1>22 DEF ForgetThrottled, Go, PlaceOK, HandleOK, Holding, Thread, Alive
  <2>3. EcoAlive'
    BY <1>22 DEF ForgetThrottled, EcoAlive, Eco, Alive
  <2> QED
    BY <2>1, <2>2, <2>3 DEF Sound
<1>23. ASSUME EndMessageLoop PROVE Sound'
  <2>1. TypeOK'
    BY <1>0, <1>23 DEF EndMessageLoop, Go, PC, Thread, Alive, HandleOK, Holding
  <2>2. PlaceOK' /\ HandleOK'
    BY <1>23 DEF EndMessageLoop, Go, PlaceOK, HandleOK, Holding, Thread, Alive
  <2>3. EcoAlive'
    BY <1>23 DEF EndMessageLoop, EcoAlive, Eco, Alive
  <2> QED
    BY <2>1, <2>2, <2>3 DEF Sound
<1>24. ASSUME CloseStopHK PROVE Sound'
  <2>1. TypeOK'
    BY <1>0, <1>24 DEF CloseStopHK, PC, Thread, Alive, HandleOK, Holding
  <2>2. PlaceOK' /\ HandleOK'
    BY <1>24 DEF CloseStopHK, PlaceOK, HandleOK, Holding, Thread, Alive
  <2>3. EcoAlive'
    BY <1>24 DEF CloseStopHK, EcoAlive, Eco, Alive
  <2> QED
    BY <2>1, <2>2, <2>3 DEF Sound
<1>25. ASSUME ExitMain PROVE Sound'
  <2>1. TypeOK'
    BY <1>0, <1>25 DEF ExitMain, Go, PC, Thread, Alive, HandleOK, Holding
  <2>2. PlaceOK' /\ HandleOK'
    BY <1>25 DEF ExitMain, Go, PlaceOK, HandleOK, Holding, Thread, Alive
  <2>3. EcoAlive'
    BY <1>25 DEF ExitMain, EcoAlive, Eco, Alive
  <2> QED
    BY <2>1, <2>2, <2>3 DEF Sound
<1>26. CASE UNCHANGED vars
  BY <1>26 DEF PlaceOK, HandleOK, EcoAlive, Eco, Alive
<1>27. ASSUME CrashAndRestart PROVE Sound'
  <2>1. /\ inbox' \in Seq(Pid)
        /\ todo' = [t \in Thread |-> {}]
        /\ UNCHANGED <<proc, ecoQos, idlePri, fg>>
    BY <1>27 DEF CrashAndRestart
  <2>2. /\ DOMAIN todo' = Thread
        /\ \A s \in Sweepers : todo'[s] \subseteq Pid \X Name
        /\ \A r \in Restorers \cup {Main} : todo'[r] \subseteq Pid
    BY <2>1 DEF Thread
  <2>3. TypeOK'
    <3>1. /\ pc' \in [Thread -> PC] /\ subj' \in [Thread -> Pid \cup {NoPid}]
          /\ skip' \in [Thread -> Pid \cup {NoPid}]
      BY <1>27 DEF CrashAndRestart, PC
    <3>2. /\ stopHK' \in BOOLEAN /\ paused' \in BOOLEAN
          /\ stage' \in {"running", "restoring", "exited"}
          /\ profile' \in {"balanced", "aggressive"}
      BY <1>27 DEF CrashAndRestart
    <3>3. /\ throttledPIDs' \subseteq Pid /\ extra' \subseteq Name
          /\ pendingPID' \in Pid \cup {NoPid} /\ prev' \in Pid \cup {NoPid}
          /\ fgName' \in Name \cup {Unborn}
      BY <1>27 DEF CrashAndRestart
    <3> QED
      BY <1>0, <2>1, <2>2, <3>1, <3>2, <3>3
  <2>4. PlaceOK' /\ HandleOK'
    BY <1>27 DEF CrashAndRestart, PlaceOK, HandleOK, Holding, Thread
  <2>5. EcoAlive'
    BY <2>1 DEF EcoAlive, Eco, Alive
  <2> QED
    BY <2>3, <2>4, <2>5 DEF Sound
<1> QED
  BY NextCases, <1>1, <1>2, <1>3, <1>4, <1>5, <1>6, <1>7, <1>8, <1>9, <1>10,
     <1>11, <1>12, <1>13, <1>14, <1>15, <1>16, <1>17, <1>18, <1>19, <1>20,
     <1>21, <1>22, <1>23, <1>24, <1>25, <1>26, <1>27
-----------------------------------------------------------------------------
\* The engine's variables keep their types, whatever the constants.
THEOREM TypeCorrect == Spec => []TypeOK
<1>1. Init => Sound
  BY InitSound
<1>2. Sound /\ [Next]_vars => Sound'
  BY StepSound
<1>3. Sound => TypeOK
  BY DEF Sound
<1> QED
  BY <1>1, <1>2, <1>3, PTL DEF Spec

-----------------------------------------------------------------------------
(* Whatever is slow is recorded, or about to be.                            *)

\* Some goroutine has slowed p down to the given point and goes on to record
\* it; main has taken p out of throttledPIDs and not come to the given point.
Recording(p, where) == \E t \in {Main} \cup Sweepers : subj[t] = p /\ pc[t] \in where
Boosting(p, where) == subj[Main] = p /\ pc[Main] \in where

\* EcoTracked is not inductive: which half of a toggle is done decides what
\* may still be on.  EcoRecorded says so for each of the two settings.
EcoRecorded ==
    stage = "running" /\ ~tray /\ crashes = 0 =>
      /\ \A p \in ecoQos : \/ p \in throttledPIDs
                           \/ Recording(p, {"ecoPriority", "record"})
                           \/ Boosting(p, {"boostQos"})
      /\ \A p \in idlePri : \/ p \in throttledPIDs
                            \/ Recording(p, {"record"})
                            \/ Boosting(p, {"boostQos", "boostPriority"})

\* If Windows lets the engine change the processes it can open, every step
\* keeps EcoRecorded.
LEMMA StepRecorded ==
    ASSUME "qos" \notin Faults, "priority" \notin Faults,
           Sound, EcoRecorded, [Next]_vars
    PROVE  EcoRecorded'
<1>0. (crashes' = 0 => crashes = 0) /\ UNCHANGED tray
  BY ModeKept DEF Sound, TypeOK
<1> USE ProcessAssumption, ThreadAssumption, <1>0
    DEF Sound, TypeOK, vars, windows, engine, locals, mode
<1>1. ASSUME NEW p \in Pid, ExitProcess(p) PROVE EcoRecorded'
  BY <1>1 DEF ExitProcess, EcoRecorded, Recording, Boosting
<1>2. ASSUME NEW p \in Pid, Focus(p) PROVE EcoRecorded'
  BY <1>2 DEF Focus, EcoRecorded, Recording, Boosting
<1>3. ASSUME NEW p \in Pid, NEW n \in Name, StartProcess(p, n) PROVE EcoRecorded'
  BY <1>3 DEF StartProcess, EcoRecorded, Recording, Boosting
<1>4. ASSUME NEW b \in BOOLEAN, SetPaused(b) PROVE EcoRecorded'
  BY <1>4 DEF SetPaused, EcoRecorded, Recording, Boosting
<1>5. ASSUME NEW f \in Profiles, SetProfile(f) PROVE EcoRecorded'
  BY <1>5 DEF SetProfile, EcoRecorded, Recording, Boosting
<1>6. ASSUME ReceiveForegroundEvent PROVE EcoRecorded'
  <2>1. \/ UNCHANGED <<pc, subj>>
        \/ \E p : /\ pc' = [pc EXCEPT ![Main] = "open"]
                 /\ subj' = [subj EXCEPT ![Main] = p]
    BY <1>6 DEF ReceiveForegroundEvent, Go
  <2>2. /\ pc[Main] = "wait"
        /\ UNCHANGED <<ecoQos, idlePri, throttledPIDs, stage>>
    BY <1>6 DEF ReceiveForegroundEvent
  <2> QED
    BY <2>1, <2>2 DEF EcoRecorded, Recording, Boosting, Thread
<1>7. ASSUME OpenForeground PROVE EcoRecorded'
  BY <1>7 DEF OpenForeground, Go, Release, EcoRecorded, Recording, Boosting,
      PlaceOK, Thread
<1>8. ASSUME TakeForeground PROVE EcoRecorded'
  BY <1>8 DEF TakeForeground, Go, Release, EcoRecorded, Recording, Boosting,
      PlaceOK, Thread
<1>9. ASSUME OpenPrevious PROVE EcoRecorded'
  BY <1>9 DEF OpenPrevious, Go, EcoRecorded, Recording, Boosting, PlaceOK,
      Thread
<1>10. ASSUME NEW t \in Thread, SetEcoQos(t) PROVE EcoRecorded'
  <2>1. /\ t \in {Main} \cup Sweepers /\ pc[t] = "ecoQos"
        /\ UNCHANGED <<idlePri, throttledPIDs, stage>>
    BY <1>10 DEF SetEcoQos, PlaceOK, Thread
  <2>2. CASE /\ ecoQos' = IF Alive(subj[t]) THEN ecoQos \cup {subj[t]} ELSE ecoQos
             /\ pc' = [pc EXCEPT ![t] = "ecoPriority"] /\ UNCHANGED subj
    BY <2>1, <2>2 DEF EcoRecorded, Recording, Boosting, Thread
  <2>3. CASE /\ pc' = [pc EXCEPT ![t] = AfterEco(t)]
             /\ subj' = [subj EXCEPT ![t] = NoPid] /\ UNCHANGED ecoQos
    BY <2>1, <2>3 DEF EcoRecorded, Recording, Boosting, Thread
  <2> QED
    BY <1>10, <2>2, <2>3 DEF SetEcoQos, Go, Release
<1>11. ASSUME NEW t \in Thread, SetIdlePriority(t) PROVE EcoRecorded'
  BY <1>11 DEF SetIdlePriority, Go, Release, AfterEco, EcoRecorded, Recording,
      Boosting, PlaceOK, Thread, EcoAlive, Eco, MayFail, Alive
<1>12. ASSUME NEW t \in Thread, RecordThrottled(t) PROVE EcoRecorded'
  BY <1>12 DEF RecordThrottled, Go, Release, AfterEco, EcoRecorded, Recording,
      Boosting, PlaceOK, Thread
<1>13. ASSUME NEW t \in Thread, ClearEcoQos(t) PROVE EcoRecorded'
  BY <1>13 DEF ClearEcoQos, Go, Release, AfterBoost, EcoRecorded, Recording,
      Boosting, PlaceOK, Thread, EcoAlive, Eco, MayFail, Alive
<1>14. ASSUME NEW t \in Thread, ClearIdlePriority(t) PROVE EcoRecorded'
  BY <1>14 DEF ClearIdlePriority, Go, Release, AfterBoost, EcoRecorded,
      Recording, Boosting, PlaceOK, Thread, EcoAlive, Eco, MayFail, Alive
<1>15. ASSUME NEW s \in Sweepers, StartSweep(s) PROVE EcoRecorded'
  BY <1>15 DEF StartSweep, Go, EcoRecorded, Recording, Boosting, PlaceOK,
      Thread
<1>16. ASSUME NEW s \in Sweepers, TakeSnapshot(s) PROVE EcoRecorded'
  BY <1>16 DEF TakeSnapshot, Go, EcoRecorded, Recording, Boosting, PlaceOK,
      Thread
<1>17. ASSUME NEW s \in Sweepers, ReadPending(s) PROVE EcoRecorded'
  BY <1>17 DEF ReadPending, Go, EcoRecorded, Recording, Boosting, PlaceOK,
      Thread
<1>18. ASSUME NEW s \in Sweepers, VisitEntry(s) PROVE EcoRecorded'
  <2>1. PICK e \in todo[s] :
          \/ pc' = [pc EXCEPT ![s] = "ecoQos"] /\ subj' = [subj EXCEPT ![s] = e[1]]
          \/ UNCHANGED <<pc, subj>>
    BY <1>18 DEF VisitEntry, Go
  <2>2. pc[s] = "scan" /\ UNCHANGED <<windows, engine, stage>>
    BY <1>18 DEF VisitEntry
  <2> QED
    BY <2>1, <2>2 DEF EcoRecorded, Recording, Boosting, PlaceOK, Thread
<1>19. ASSUME NEW s \in Sweepers, FinishSweep(s) PROVE EcoRecorded'
  BY <1>19 DEF FinishSweep, Go, EcoRecorded, Recording, Boosting, PlaceOK,
      Thread
<1>20. ASSUME NEW r \in Restorers \cup {Main}, CopyThrottled(r) PROVE EcoRecorded'
  BY <1>20 DEF CopyThrottled, Go, EcoRecorded, Recording, Boosting, PlaceOK,
      Thread
<1>21. ASSUME NEW r \in Restorers \cup {Main}, VisitThrottled(r) PROVE EcoRecorded'
  BY <1>21 DEF VisitThrottled, Go, EcoRecorded, Recording, Boosting, PlaceOK,
      Thread
<1>22. ASSUME NEW r \in Restorers \cup {Main}, ForgetThrottled(r) PROVE EcoRecorded'
  BY <1>22 DEF ForgetThrottled, Go, EcoRecorded, Recording, Boosting, PlaceOK,
      Thread
<1>23. ASSUME EndMessageLoop PROVE EcoRecorded'
  BY <1>23 DEF EndMessageLoop, Go, EcoRecorded, Recording, Boosting
<1>24. ASSUME CloseStopHK PROVE EcoRecorded'
  BY <1>24 DEF CloseStopHK, EcoRecorded, Recording, Boosting
<1>25. ASSUME ExitMain PROVE EcoRecorded'
  BY <1>25 DEF ExitMain, Go, EcoRecorded, Recording, Boosting
<1>26. CASE UNCHANGED vars
  BY <1>26 DEF EcoRecorded, Recording, Boosting
<1>27. ASSUME CrashAndRestart PROVE EcoRecorded'
  BY <1>27 DEF CrashAndRestart, EcoRecorded
<1> QED
  BY NextCases, <1>1, <1>2, <1>3, <1>4, <1>5, <1>6, <1>7, <1>8, <1>9, <1>10,
     <1>11, <1>12, <1>13, <1>14, <1>15, <1>16, <1>17, <1>18, <1>19, <1>20,
     <1>21, <1>22, <1>23, <1>24, <1>25, <1>26, <1>27

\* Until it crashes, and without tray restores, the engine knows of every
\* process it slowed down, with any number of sweeps at work next to the
\* foreground handler.
THEOREM EcoIsTracked ==
    ASSUME "qos" \notin Faults, "priority" \notin Faults
    PROVE  Spec => []EcoTracked
<1>1. Init => Sound /\ EcoRecorded
  BY InitSound DEF Init, EcoRecorded
<1>2. Sound /\ EcoRecorded /\ [Next]_vars => (Sound /\ EcoRecorded)'
  BY StepSound, StepRecorded
<1>3. EcoRecorded => EcoTracked
  BY DEF EcoRecorded, EcoTracked, Eco, InFlight, Recording, Boosting
<1> QED
  BY <1>1, <1>2, <1>3, PTL DEF Spec
-----------------------------------------------------------------------------
(* What a goroutine slows down has a name it checked.                       *)

\* The process of ID p has a name outside B, or had one.
Clean(B, p) == proc[p] \in (Name \ B) \cup {Gone}

\* No process with a name of B is slow now.  For the next step NamesClean(B)
\* takes what every goroutine goes by: the pending process, the one main is
\* about to throttle, the name main has read, the snapshots of the sweeps.
NamesClean(B) ==
    /\ \A p \in Eco : proc[p] \notin B
    /\ pendingPID # NoPid => Clean(B, pendingPID)
    /\ prev # NoPid => Clean(B, prev)
    /\ pc[Main] = "lock" => fgName \in Name /\ proc[subj[Main]] \in {fgName, Gone}
    /\ \A t \in Thread : pc[t] \in {"ecoQos", "ecoPriority", "record"} => Clean(B, subj[t])
    /\ \A s \in Sweepers : \A e \in todo[s] : proc[e[1]] \in {e[2], Gone}

\* Nothing is slow yet.
LEMMA InitClean == ASSUME NEW B PROVE Init => NamesClean(B)
BY ProcessAssumption, ThreadAssumption DEF Init, NamesClean, Clean, Eco, Thread

\* As long as Windows does not reuse process IDs, every step keeps a set of
\* names clean that is exempt before the step.
LEMMA StepClean ==
    ASSUME NEW B, B \subseteq Name, B \subseteq Exempt,
           PidReuse = FALSE, Sound, NamesClean(B), [Next]_vars
    PROVE  NamesClean(B)'
<1> USE ProcessAssumption, ThreadAssumption
    DEF Sound, TypeOK, vars, windows, engine, locals, mode
<1>1. ASSUME NEW p \in Pid, ExitProcess(p) PROVE NamesClean(B)'
  BY <1>1 DEF ExitProcess, NamesClean, Clean, Eco, Thread,
      Alive
<1>2. ASSUME NEW p \in Pid, Focus(p) PROVE NamesClean(B)'
  BY <1>2 DEF Focus, NamesClean, Clean, Eco, Thread
<1>3. ASSUME NEW p \in Pid, NEW n \in Name, StartProcess(p, n) PROVE NamesClean(B)'
  BY <1>3 DEF StartProcess, NamesClean, Clean, Eco, Thread,
      EcoAlive, Alive
<1>4. ASSUME NEW b \in BOOLEAN, SetPaused(b) PROVE NamesClean(B)'
  BY <1>4 DEF SetPaused, NamesClean, Clean, Eco, Thread
<1>5. ASSUME NEW f \in Profiles, SetProfile(f) PROVE NamesClean(B)'
  BY <1>5 DEF SetProfile, NamesClean, Clean, Eco, Thread
<1>6. ASSUME ReceiveForegroundEvent PROVE NamesClean(B)'
  BY <1>6 DEF ReceiveForegroundEvent, Go, NamesClean, Clean, Eco, Thread,
     PlaceOK, HandleOK, Holding
<1>7. ASSUME OpenForeground PROVE NamesClean(B)'
  BY <1>7 DEF OpenForeground, Go, Release, NamesClean, Clean, Eco, Thread,
     PlaceOK, HandleOK, Holding, Alive
<1>8. ASSUME TakeForeground PROVE NamesClean(B)'
  BY <1>8 DEF TakeForeground, Go, Release, NamesClean, Clean, Eco, Thread,
     PlaceOK, HandleOK, Holding, Exempt
<1>9. ASSUME OpenPrevious PROVE NamesClean(B)'
  BY <1>9 DEF OpenPrevious, Go, NamesClean, Clean, Eco,
      Thread, PlaceOK, HandleOK, Holding, Alive
<1>10. ASSUME NEW t \in Thread, SetEcoQos(t) PROVE NamesClean(B)'
  BY <1>10 DEF SetEcoQos, Go, Release, AfterEco, NamesClean, Clean, Eco, Thread,
     PlaceOK, HandleOK, Holding, Alive
<1>11. ASSUME NEW t \in Thread, SetIdlePriority(t) PROVE NamesClean(B)'
  BY <1>11 DEF SetIdlePriority, Go, Release, AfterEco, NamesClean, Clean, Eco,
     Thread, PlaceOK, HandleOK, Holding, Alive
<1>12. ASSUME NEW t \in Thread, RecordThrottled(t) PROVE NamesClean(B)'
  BY <1>12 DEF RecordThrottled, Go, Release, AfterEco, NamesClean, Clean, Eco,
     Thread, PlaceOK, HandleOK, Holding
<1>13. ASSUME NEW t \in Thread, ClearEcoQos(t) PROVE NamesClean(B)'
  BY <1>13 DEF ClearEcoQos, Go, Release, AfterBoost, NamesClean, Clean, Eco,
     Thread, PlaceOK, HandleOK, Holding, Alive
<1>14. ASSUME NEW t \in Thread, ClearIdlePriority(t) PROVE NamesClean(B)'
  BY <1>14 DEF ClearIdlePriority, Go, Release, AfterBoost, NamesClean, Clean,
     Eco, Thread, PlaceOK, HandleOK, Holding, Alive
<1>15. ASSUME NEW s \in Sweepers, StartSweep(s) PROVE NamesClean(B)'
  BY <1>15 DEF StartSweep, Go, NamesClean, Clean, Eco,
      Thread, PlaceOK, HandleOK, Holding
<1>16. ASSUME NEW s \in Sweepers, TakeSnapshot(s) PROVE NamesClean(B)'
  BY <1>16 DEF TakeSnapshot, Go, NamesClean, Clean, Eco,
      Thread, PlaceOK, HandleOK, Holding, Alive
<1>17. ASSUME NEW s \in Sweepers, ReadPending(s) PROVE NamesClean(B)'
  BY <1>17 DEF ReadPending, Go, NamesClean, Clean, Eco,
      Thread, PlaceOK, HandleOK, Holding
<1>18. ASSUME NEW s \in Sweepers, VisitEntry(s) PROVE NamesClean(B)'
  BY <1>18 DEF VisitEntry, Go, NamesClean, Clean, Eco,
      Thread, PlaceOK, HandleOK, Holding, Exempt
<1>19. ASSUME NEW s \in Sweepers, FinishSweep(s) PROVE NamesClean(B)'
  BY <1>19 DEF FinishSweep, Go, NamesClean, Clean, Eco,
      Thread, PlaceOK, HandleOK, Holding
<1>20. ASSUME NEW r \in Restorers \cup {Main}, CopyThrottled(r) PROVE NamesClean(B)'
  BY <1>20 DEF CopyThrottled, Go, NamesClean, Clean, Eco,
      Thread, PlaceOK, HandleOK, Holding
<1>21. ASSUME NEW r \in Restorers \cup {Main}, VisitThrottled(r) PROVE NamesClean(B)'
  BY <1>21 DEF VisitThrottled, Go, NamesClean, Clean, Eco,
      Thread, PlaceOK, HandleOK, Holding
<1>22. ASSUME NEW r \in Restorers \cup {Main}, ForgetThrottled(r) PROVE NamesClean(B)'
  BY <1>22 DEF ForgetThrottled, Go, NamesClean, Clean, Eco,
      Thread, PlaceOK, HandleOK, Holding
<1>23. ASSUME EndMessageLoop PROVE NamesClean(B)'
  BY <1>23 DEF EndMessageLoop, Go, NamesClean, Clean, Eco,
      Thread
<1>24. ASSUME CloseStopHK PROVE NamesClean(B)'
  BY <1>24 DEF CloseStopHK, NamesClean, Clean, Eco, Thread
<1>25. ASSUME ExitMain PROVE NamesClean(B)'
  BY <1>25 DEF ExitMain, Go, NamesClean, Clean, Eco, Thread
<1>26. CASE UNCHANGED vars
  BY <1>26 DEF NamesClean, Clean, Eco
<1>27. ASSUME CrashAndRestart PROVE NamesClean(B)'
  BY <1>27 DEF CrashAndRestart, NamesClean, Clean, Eco, Thread
<1> QED
  BY NextCases, <1>1, <1>2, <1>3, <1>4, <1>5, <1>6, <1>7, <1>8, <1>9, <1>10,
     <1>11, <1>12, <1>13, <1>14, <1>15, <1>16, <1>17, <1>18, <1>19, <1>20,
     <1>21, <1>22, <1>23, <1>24, <1>25, <1>26, <1>27

\* Without reuse of process IDs no process of the base bypass list is ever
\* slowed down, whatever is switched, paused, restored, refused or crashes
\* meanwhile.
THEOREM BaseIsNeverThrottled ==
    ASSUME PidReuse = FALSE
    PROVE  Spec => []BaseNeverThrottled
<1> DEFINE BaseClean == NamesClean(Base)
<1>1. Init => Sound /\ BaseClean
  BY InitSound, InitClean
<1>2. Sound /\ BaseClean /\ [Next]_vars => (Sound /\ BaseClean)'
  <2>1. Base \subseteq Name /\ Base \subseteq Exempt
    BY ProcessAssumption DEF Exempt
  <2> QED
    BY <2>1, StepSound, StepClean
<1>3. BaseClean => BaseNeverThrottled
  BY DEF NamesClean, BaseNeverThrottled
<1> HIDE DEF BaseClean
<1> QED
  BY <1>1, <1>2, <1>3, PTL DEF Spec
-----------------------------------------------------------------------------
(* The exit path restores what the engine knows of.                         *)

\* When main's restore has come to the given point, p is still on its list.
Listed(p, where) == p \in todo[Main] /\ pc[Main] \in where
Restoring == {"restore", "boostQos", "boostPriority"}

\* ExitRestored says what the end leaves.  ExitTracked follows the way there:
\* what is slow is recorded until main has copied the map, then on main's
\* list, then in main's hand, and so nothing is slow when main joins.
ExitTracked ==
    /\ stage = "exited" => pc[Main] = "done"
    /\ stage # "running" /\ ~tray /\ crashes = 0 =>
         /\ \A p \in ecoQos : \/ pc[Main] = "copy" /\ p \in throttledPIDs
                              \/ Listed(p, Restoring)
                              \/ Boosting(p, {"boostQos"})
         /\ \A p \in idlePri : \/ pc[Main] = "copy" /\ p \in throttledPIDs
                               \/ Listed(p, Restoring)
                               \/ Boosting(p, {"boostQos", "boostPriority"})

\* Without sweeps every step keeps ExitTracked, if Windows lets the engine
\* open and change the processes.
LEMMA StepExit ==
    ASSUME Sweepers = {}, Faults = {},
           Sound, EcoRecorded, ExitTracked, [Next]_vars
    PROVE  ExitTracked'
<1>0. (crashes' = 0 => crashes = 0) /\ UNCHANGED tray
  BY ModeKept DEF Sound, TypeOK
<1> USE ProcessAssumption, ThreadAssumption, <1>0
    DEF Sound, TypeOK, vars, windows, engine, locals, mode
<1>1. ASSUME NEW p \in Pid, ExitProcess(p) PROVE ExitTracked'
  BY <1>1 DEF ExitProcess, ExitTracked, Listed, Restoring, Boosting, PlaceOK,
     Thread
<1>2. ASSUME NEW p \in Pid, Focus(p) PROVE ExitTracked'
  BY <1>2 DEF Focus, ExitTracked, Listed, Restoring, Boosting, PlaceOK, Thread
<1>3. ASSUME NEW p \in Pid, NEW n \in Name, StartProcess(p, n) PROVE ExitTracked'
  BY <1>3 DEF StartProcess, ExitTracked, Listed, Restoring, Boosting, PlaceOK,
     Thread
<1>4. ASSUME NEW b \in BOOLEAN, SetPaused(b) PROVE ExitTracked'
  BY <1>4 DEF SetPaused, ExitTracked, Listed, Restoring, Boosting, PlaceOK,
     Thread
<1>5. ASSUME NEW f \in Profiles, SetProfile(f) PROVE ExitTracked'
  BY <1>5 DEF SetProfile, ExitTracked, Listed, Restoring, Boosting, PlaceOK,
     Thread
<1>6. ASSUME ReceiveForegroundEvent PROVE ExitTracked'
  BY <1>6 DEF ReceiveForegroundEvent, Go, ExitTracked, Listed, Restoring,
     Boosting, PlaceOK, Thread
<1>7. ASSUME OpenForeground PROVE ExitTracked'
  BY <1>7 DEF OpenForeground, Go, Release, ExitTracked, Listed, Restoring,
     Boosting, PlaceOK, Thread
<1>8. ASSUME TakeForeground PROVE ExitTracked'
  BY <1>8 DEF TakeForeground, Go, Release, ExitTracked, Listed, Restoring,
     Boosting, PlaceOK, Thread
<1>9. ASSUME OpenPrevious PROVE ExitTracked'
  BY <1>9 DEF OpenPrevious, Go, ExitTracked, Listed, Restoring, Boosting,
     PlaceOK, Thread
<1>10. ASSUME NEW t \in Thread, SetEcoQos(t) PROVE ExitTracked'
  BY <1>10 DEF SetEcoQos, Go, Release, AfterEco, ExitTracked, Listed,
     Restoring, Boosting, PlaceOK, Thread, EcoAlive
<1>11. ASSUME NEW t \in Thread, SetIdlePriority(t) PROVE ExitTracked'
  BY <1>11 DEF SetIdlePriority, Go, Release, AfterEco, ExitTracked, Listed,
     Restoring, Boosting, PlaceOK, Thread
<1>12. ASSUME NEW t \in Thread, RecordThrottled(t) PROVE ExitTracked'
  BY <1>12 DEF RecordThrottled, Go, Release, AfterEco, ExitTracked, Listed,
     Restoring, Boosting, PlaceOK, Thread
<1>13. ASSUME NEW t \in Thread, ClearEcoQos(t) PROVE ExitTracked'
  BY <1>13 DEF ClearEcoQos, Go, Release, AfterBoost, ExitTracked, Listed,
     Restoring, Boosting, PlaceOK, Thread, EcoAlive, Eco, MayFail, Alive
<1>14. ASSUME NEW t \in Thread, ClearIdlePriority(t) PROVE ExitTracked'
  BY <1>14 DEF ClearIdlePriority, Go, Release, AfterBoost, ExitTracked,
     Listed, Restoring, Boosting, PlaceOK, Thread, EcoAlive, Eco, MayFail,
     Alive
<1>20. ASSUME NEW r \in Restorers \cup {Main}, CopyThrottled(r) PROVE ExitTracked'
  BY <1>20 DEF CopyThrottled, Go, ExitTracked, Listed, Restoring, Boosting,
     PlaceOK, Thread
<1>21. ASSUME NEW r \in Restorers \cup {Main}, VisitThrottled(r) PROVE ExitTracked'
  BY <1>21 DEF VisitThrottled, Go, ExitTracked, Listed, Restoring, Boosting,
     PlaceOK, Thread, EcoAlive, Eco, MayFail, Alive
<1>22. ASSUME NEW r \in Restorers \cup {Main}, ForgetThrottled(r) PROVE ExitTracked'
  BY <1>22 DEF ForgetThrottled, Go, ExitTracked, Listed, Restoring, Boosting,
     PlaceOK, Thread
<1>23. ASSUME EndMessageLoop PROVE ExitTracked'
  BY <1>23 DEF EndMessageLoop, Go, ExitTracked, Listed, Restoring, Boosting,
     PlaceOK, Thread, EcoRecorded, Recording
<1>24. ASSUME CloseStopHK PROVE ExitTracked'
  BY <1>24 DEF CloseStopHK, ExitTracked, Listed, Restoring, Boosting, PlaceOK,
     Thread
<1>25. ASSUME ExitMain PROVE ExitTracked'
  BY <1>25 DEF ExitMain, Go, ExitTracked, Listed, Restoring, Boosting,
     PlaceOK, Thread
<1>26. CASE UNCHANGED vars
  BY <1>26 DEF ExitTracked, Listed, Restoring, Boosting, PlaceOK, Thread
<1>27. ASSUME CrashAndRestart PROVE ExitTracked'
  BY <1>27 DEF CrashAndRestart, ExitTracked, Listed, Restoring, Boosting,
     PlaceOK, Thread
<1> QED
  BY NextCases, <1>1, <1>2, <1>3, <1>4, <1>5, <1>6, <1>7, <1>8, <1>9, <1>10,
     <1>11, <1>12, <1>13, <1>14, <1>20,
     <1>21, <1>22, <1>23, <1>24, <1>25, <1>26, <1>27

\* In boost_foreground_only mode the program leaves no process throttled
\* behind: neither processes that start, exit or reuse an ID meanwhile nor
\* the point at which the message loop ends make the exit miss one.
THEOREM ExitRestores ==
    ASSUME Sweepers = {}, Faults = {}
    PROVE  Spec => []ExitRestored
<1>1. Init => Sound /\ EcoRecorded /\ ExitTracked
  BY InitSound DEF Init, EcoRecorded, ExitTracked
<1>2. Sound /\ EcoRecorded /\ ExitTracked /\ [Next]_vars
        => (Sound /\ EcoRecorded /\ ExitTracked)'
  BY StepSound, StepRecorded, StepExit
<1>3. Sound /\ ExitTracked => ExitRestored
  BY DEF Sound, ExitTracked, ExitRestored, Eco, Listed, Restoring, Boosting, PlaceOK
<1> QED
  BY <1>1, <1>2, <1>3, PTL DEF Spec

-----------------------------------------------------------------------------
(* The foreground handler catches up with the user.                         *)

\* Only one profile is ever active, and nobody pauses the engine or adds a
\* name to the bypass list.
OneSetting == profile \in Profiles /\ ~paused /\ extra = {}

\* The foreground process runs.
FgAlive == fg # NoPid => Alive(fg)

\* Main throttles another process than the one it boosts first.
PrevIsOther ==
    stage = "running" /\ pc[Main] \in {"boostQos", "boostPriority"} => prev # subj[Main]

\* ForegroundBoosted says what holds when main waits.  FgHandled says which
\* half of the way there main has gone: the foreground process is the last
\* event of the queue, or the one at hand, or runs at normal speed with main
\* about to throttle another one.
FgHandled ==
    stage = "running" /\ fg # NoPid =>
      IF inbox # <<>> THEN inbox[Len(inbox)] = fg
      ELSE \/ subj[Main] = fg /\ pc[Main] \in {"open", "lock", "boostQos"}
           \/ subj[Main] = fg /\ pc[Main] = "boostPriority" /\ fg \notin ecoQos
           \/ fg \notin Eco /\ pc[Main] = "wait"
           \/ fg \notin Eco /\ pc[Main] = "prevOpen" /\ prev # fg
           \/ /\ fg \notin Eco /\ subj[Main] # fg
              /\ pc[Main] \in {"ecoQos", "ecoPriority", "record"}

\* What the foreground handler goes by when nothing is configured to change
\* under it.
Allow == OneSetting /\ FgAlive /\ PrevIsOther

\* Every step keeps it.
LEMMA StepAllow ==
    ASSUME NEW f0, Profiles = {f0},
           Sweepers = {}, CanPause = FALSE, TitleBypass = FALSE,
           Sound, Allow, [Next]_vars
    PROVE  Allow'
<1> USE ProcessAssumption, ThreadAssumption
    DEF Sound, TypeOK, vars, windows, engine, locals, mode
<1>1. ASSUME NEW p \in Pid, ExitProcess(p) PROVE Allow'
  BY <1>1 DEF ExitProcess, Allow, OneSetting, FgAlive, Alive, PrevIsOther,
     PlaceOK, HandleOK, Holding, Thread
<1>2. ASSUME NEW p \in Pid, Focus(p) PROVE Allow'
  BY <1>2 DEF Focus, Allow, OneSetting, FgAlive, Alive, PrevIsOther, PlaceOK,
     HandleOK, Holding, Thread
<1>3. ASSUME NEW p \in Pid, NEW n \in Name, StartProcess(p, n) PROVE Allow'
  BY <1>3 DEF StartProcess, Allow, OneSetting, FgAlive, Alive, PrevIsOther,
     PlaceOK, HandleOK, Holding, Thread
<1>4. ASSUME NEW b \in BOOLEAN, SetPaused(b) PROVE Allow'
  BY <1>4 DEF SetPaused, Allow, OneSetting, FgAlive, Alive, PrevIsOther,
     PlaceOK, HandleOK, Holding, Thread
<1>5. ASSUME NEW f \in Profiles, SetProfile(f) PROVE Allow'
  BY <1>5 DEF SetProfile, Allow, OneSetting, FgAlive, Alive, PrevIsOther,
     PlaceOK, HandleOK, Holding, Thread
<1>6. ASSUME ReceiveForegroundEvent PROVE Allow'
  BY <1>6 DEF ReceiveForegroundEvent, Go, Allow, OneSetting, FgAlive, Alive,
     PrevIsOther, PlaceOK, HandleOK, Holding, Thread
<1>7. ASSUME OpenForeground PROVE Allow'
  BY <1>7 DEF OpenForeground, Go, Release, Allow, OneSetting, FgAlive, Alive,
     PrevIsOther, PlaceOK, HandleOK, Holding, Thread, MayFail
<1>8. ASSUME TakeForeground PROVE Allow'
  BY <1>8 DEF TakeForeground, Go, Release, Allow, OneSetting, FgAlive, Alive,
     PrevIsOther, PlaceOK, HandleOK, Holding, Thread
<1>9. ASSUME OpenPrevious PROVE Allow'
  BY <1>9 DEF OpenPrevious, Go, Allow, OneSetting, FgAlive, Alive,
     PrevIsOther, PlaceOK, HandleOK, Holding, Thread
<1>10. ASSUME NEW t \in Thread, SetEcoQos(t) PROVE Allow'
  BY <1>10 DEF SetEcoQos, Go, Release, AfterEco, Allow, OneSetting, FgAlive,
     Alive, PrevIsOther, PlaceOK, HandleOK, Holding, Thread
<1>11. ASSUME NEW t \in Thread, SetIdlePriority(t) PROVE Allow'
  BY <1>11 DEF SetIdlePriority, Go, Release, AfterEco, Allow, OneSetting,
     FgAlive, Alive, PrevIsOther, PlaceOK, HandleOK, Holding, Thread
<1>12. ASSUME NEW t \in Thread, RecordThrottled(t) PROVE Allow'
  BY <1>12 DEF RecordThrottled, Go, Release, AfterEco, Allow, OneSetting,
     FgAlive, Alive, PrevIsOther, PlaceOK, HandleOK, Holding, Thread
<1>13. ASSUME NEW t \in Thread, ClearEcoQos(t) PROVE Allow'
  BY <1>13 DEF ClearEcoQos, Go, Release, AfterBoost, Allow, OneSetting,
     FgAlive, Alive, PrevIsOther, PlaceOK, HandleOK, Holding, Thread
<1>14. ASSUME NEW t \in Thread, ClearIdlePriority(t) PROVE Allow'
  BY <1>14 DEF ClearIdlePriority, Go, Release, AfterBoost, Allow, OneSetting,
     FgAlive, Alive, PrevIsOther, PlaceOK, HandleOK, Holding, Thread
<1>20. ASSUME NEW r \in Restorers \cup {Main}, CopyThrottled(r) PROVE Allow'
  BY <1>20 DEF CopyThrottled, Go, Allow, OneSetting, FgAlive, Alive,
     PrevIsOther, PlaceOK, HandleOK, Holding, Thread
<1>21. ASSUME NEW r \in Restorers \cup {Main}, VisitThrottled(r) PROVE Allow'
  BY <1>21 DEF VisitThrottled, Go, Allow, OneSetting, FgAlive, Alive,
     PrevIsOther, PlaceOK, HandleOK, Holding, Thread
<1>22. ASSUME NEW r \in Restorers \cup {Main}, ForgetThrottled(r) PROVE Allow'
  BY <1>22 DEF ForgetThrottled, Go, Allow, OneSetting, FgAlive, Alive,
     PrevIsOther, PlaceOK, HandleOK, Holding, Thread
<1>23. ASSUME EndMessageLoop PROVE Allow'
  BY <1>23 DEF EndMessageLoop, Go, Allow, OneSetting, FgAlive, Alive,
     PrevIsOther, PlaceOK, HandleOK, Holding, Thread
<1>24. ASSUME CloseStopHK PROVE Allow'
  BY <1>24 DEF CloseStopHK, Allow, OneSetting, FgAlive, Alive, PrevIsOther,
     PlaceOK, HandleOK, Holding, Thread
<1>25. ASSUME ExitMain PROVE Allow'
  BY <1>25 DEF ExitMain, Go, Allow, OneSetting, FgAlive, Alive, PrevIsOther,
     PlaceOK, HandleOK, Holding, Thread
<1>26. CASE UNCHANGED vars
  BY <1>26 DEF Allow, OneSetting, FgAlive, Alive, PrevIsOther, PlaceOK,
     HandleOK, Holding, Thread
<1>27. ASSUME CrashAndRestart PROVE Allow'
  BY <1>27 DEF CrashAndRestart, Allow, OneSetting, FgAlive, Alive,
     PrevIsOther, PlaceOK, HandleOK, Holding, Thread
<1> QED
  BY NextCases, <1>1, <1>2, <1>3, <1>4, <1>5, <1>6, <1>7, <1>8, <1>9, <1>10,
     <1>11, <1>12, <1>13, <1>14, <1>20,
     <1>21, <1>22, <1>23, <1>24, <1>25, <1>26, <1>27

\* Every step takes main on the way FgHandled describes, if Windows lets the
\* engine open and change the processes and no exempt process is slow.
LEMMA StepHandled ==
    ASSUME Sweepers = {}, Faults = {},
           Sound, Allow, NamesClean(Exempt), FgHandled, [Next]_vars
    PROVE  FgHandled'
<1> USE ProcessAssumption, ThreadAssumption
    DEF Sound, TypeOK, vars, windows, engine, locals, mode, Allow
<1>1. ASSUME NEW p \in Pid, ExitProcess(p) PROVE FgHandled'
  BY <1>1 DEF ExitProcess, FgHandled, PlaceOK, Thread, Eco, FgAlive, Alive,
     HandleOK, Holding
<1>2. ASSUME NEW p \in Pid, Focus(p) PROVE FgHandled'
  <2>1. fg' = p /\ inbox' = Append(inbox, p)
    BY <1>2 DEF Focus
  <2>2. inbox' # <<>> /\ inbox'[Len(inbox')] = p
    BY <2>1, AppendProperties
  <2> QED
    BY <2>1, <2>2 DEF FgHandled
<1>3. ASSUME NEW p \in Pid, NEW n \in Name, StartProcess(p, n) PROVE FgHandled'
  BY <1>3 DEF StartProcess, FgHandled, PlaceOK, Thread, Eco, EcoAlive, Alive
<1>4. ASSUME NEW b \in BOOLEAN, SetPaused(b) PROVE FgHandled'
  BY <1>4 DEF SetPaused, FgHandled, PlaceOK, Thread, Eco
<1>5. ASSUME NEW f \in Profiles, SetProfile(f) PROVE FgHandled'
  BY <1>5 DEF SetProfile, FgHandled, PlaceOK, Thread, Eco
<1>6. ASSUME ReceiveForegroundEvent PROVE FgHandled'
  <2>1. /\ stage = "running" /\ inbox # <<>> /\ inbox' = Tail(inbox)
        /\ pc' = [pc EXCEPT ![Main] = "open"]
        /\ subj' = [subj EXCEPT ![Main] = inbox[1]]
        /\ UNCHANGED <<fg, stage>>
    BY <1>6 DEF ReceiveForegroundEvent, Go, OneSetting
  <2>2. /\ inbox' \in Seq(Pid) /\ Len(inbox') = Len(inbox) - 1 /\ Len(inbox) > 0
        /\ \A i \in 1..Len(inbox') : inbox'[i] = inbox[i + 1]
    BY <2>1, HeadTailProperties, EmptySeq
  <2>3. CASE inbox' = <<>>
    <3>1. Len(inbox) = 1
      BY <2>2, <2>3
    <3> QED
      BY <2>1, <2>3, <3>1 DEF FgHandled, Thread
  <2>4. CASE inbox' # <<>>
    <3>1. Len(inbox') \in 1..Len(inbox')
      BY <2>2, <2>4, EmptySeq
    <3>2. inbox'[Len(inbox')] = inbox[Len(inbox)]
      BY <2>2, <3>1
    <3> QED
      BY <2>1, <2>4, <3>2 DEF FgHandled
  <2> QED
    BY <2>3, <2>4
<1>7. ASSUME OpenForeground PROVE FgHandled'
  BY <1>7 DEF OpenForeground, Go, Release, FgHandled, PlaceOK, Thread,
     MayFail, Alive, FgAlive, Eco
<1>8. ASSUME TakeForeground PROVE FgHandled'
  <2>1. /\ pc[Main] = "lock" /\ prev' # subj[Main]
        /\ UNCHANGED <<inbox, fg, ecoQos, idlePri, stage>>
    BY <1>8 DEF TakeForeground, HandleOK, Holding, Thread
  <2>2. CASE inbox # <<>> \/ stage # "running" \/ fg = NoPid
    BY <2>1, <2>2 DEF FgHandled
  <2>3. CASE inbox = <<>> /\ stage = "running" /\ fg # NoPid
    <3>1. subj[Main] = fg /\ proc[fg] = fgName
      BY <2>1, <2>3 DEF FgHandled, NamesClean, FgAlive, Alive
    <3>2. CASE fgName \in Exempt
      <4>1. fg \notin Eco
        BY <3>1, <3>2 DEF NamesClean
      <4>2. pc' = [pc EXCEPT ![Main] = IF prev' = NoPid THEN "wait" ELSE "prevOpen"]
        BY <1>8, <3>2 DEF TakeForeground, Release, Go
      <4> QED
        BY <2>1, <2>3, <3>1, <4>1, <4>2 DEF FgHandled, Eco, Thread
    <3>3. CASE fgName \notin Exempt
      BY <1>8, <2>1, <2>3, <3>1, <3>3 DEF TakeForeground, Go, FgHandled, Thread
    <3> QED
      BY <3>2, <3>3
  <2> QED
    BY <2>2, <2>3
<1>9. ASSUME OpenPrevious PROVE FgHandled'
  BY <1>9 DEF OpenPrevious, Go, FgHandled, PlaceOK, Thread, Eco, MayFail
<1>10. ASSUME NEW t \in Thread, SetEcoQos(t) PROVE FgHandled'
  BY <1>10 DEF SetEcoQos, Go, Release, AfterEco, FgHandled, PlaceOK, Thread,
     Eco
<1>11. ASSUME NEW t \in Thread, SetIdlePriority(t) PROVE FgHandled'
  BY <1>11 DEF SetIdlePriority, Go, Release, AfterEco, FgHandled, PlaceOK,
     Thread, Eco
<1>12. ASSUME NEW t \in Thread, RecordThrottled(t) PROVE FgHandled'
  BY <1>12 DEF RecordThrottled, Go, Release, AfterEco, FgHandled, PlaceOK,
     Thread, Eco
<1>13. ASSUME NEW t \in Thread, ClearEcoQos(t) PROVE FgHandled'
  BY <1>13 DEF ClearEcoQos, Go, Release, AfterBoost, FgHandled, PlaceOK,
     Thread, Eco, MayFail, FgAlive, Alive, PrevIsOther
<1>14. ASSUME NEW t \in Thread, ClearIdlePriority(t) PROVE FgHandled'
  BY <1>14 DEF ClearIdlePriority, Go, Release, AfterBoost, FgHandled, PlaceOK,
     Thread, Eco, MayFail, FgAlive, Alive, PrevIsOther
<1>20. ASSUME NEW r \in Restorers \cup {Main}, CopyThrottled(r) PROVE FgHandled'
  BY <1>20 DEF CopyThrottled, Go, FgHandled, PlaceOK, Thread, Eco
<1>21. ASSUME NEW r \in Restorers \cup {Main}, VisitThrottled(r) PROVE FgHandled'
  BY <1>21 DEF VisitThrottled, Go, FgHandled, PlaceOK, Thread, Eco
<1>22. ASSUME NEW r \in Restorers \cup {Main}, ForgetThrottled(r) PROVE FgHandled'
  BY <1>22 DEF ForgetThrottled, Go, FgHandled, PlaceOK, Thread, Eco
<1>23. ASSUME EndMessageLoop PROVE FgHandled'
  BY <1>23 DEF EndMessageLoop, Go, FgHandled, PlaceOK, Thread, Eco
<1>24. ASSUME CloseStopHK PROVE FgHandled'
  BY <1>24 DEF CloseStopHK, FgHandled, PlaceOK, Thread
<1>25. ASSUME ExitMain PROVE FgHandled'
  BY <1>25 DEF ExitMain, Go, FgHandled, PlaceOK, Thread
<1>26. CASE UNCHANGED vars
  BY <1>26 DEF FgHandled, PlaceOK, Thread, Eco
<1>27. ASSUME CrashAndRestart PROVE FgHandled'
  BY <1>27 DEF CrashAndRestart, FgHandled, PlaceOK, Thread
<1> QED
  BY NextCases, <1>1, <1>2, <1>3, <1>4, <1>5, <1>6, <1>7, <1>8, <1>9, <1>10,
     <1>11, <1>12, <1>13, <1>14, <1>20,
     <1>21, <1>22, <1>23, <1>24, <1>25, <1>26, <1>27

\* In boost_foreground_only mode a process the user works with runs at normal
\* speed whenever main has nothing to do, however fast the user switches,
\* whatever exits meanwhile, next to any tray restores and after any crashes.
THEOREM ForegroundIsBoosted ==
    ASSUME NEW f0, Profiles = {f0},
           Sweepers = {}, Faults = {},
           CanPause = FALSE, TitleBypass = FALSE, PidReuse = FALSE
    PROVE  Spec => []ForegroundBoosted
<1> DEFINE B == Base \cup (IF f0 = "balanced" THEN Balanced ELSE {})
           BClean == NamesClean(B)
<1>b. Allow => B = Exempt
  BY DEF Allow, OneSetting, Exempt
<1>1. Init => Sound /\ Allow /\ BClean /\ FgHandled
  <2> SUFFICES ASSUME Init PROVE Allow /\ FgHandled
    BY InitSound, InitClean
  <2>1. Allow
    BY ProcessAssumption DEF Init, Allow, OneSetting, FgAlive, Alive,
       PrevIsOther, Thread
  <2>2. FgHandled
    BY DEF Init, FgHandled
  <2> QED
    BY <2>1, <2>2
<1>2. Sound /\ Allow /\ BClean /\ FgHandled /\ [Next]_vars
        => (Sound /\ Allow /\ BClean /\ FgHandled)'
  <2> SUFFICES ASSUME Sound, Allow, BClean, FgHandled, [Next]_vars
               PROVE  Allow' /\ BClean' /\ FgHandled'
    BY StepSound
  <2>1. Allow'
    BY StepAllow
  <2>2. BClean'
    <3>1. B \subseteq Name
      BY ProcessAssumption
    <3> QED
      BY <1>b, <3>1, StepClean
  <2>3. FgHandled'
    BY <1>b, StepHandled
  <2> QED
    BY <2>1, <2>2, <2>3
<1>3. Sound /\ FgHandled => ForegroundBoosted
  BY ProcessAssumption DEF Sound, TypeOK, EcoAlive, FgHandled,
     ForegroundBoosted, Eco
<1> HIDE DEF BClean
<1> QED
  BY <1>1, <1>2, <1>3, PTL DEF Spec

-----------------------------------------------------------------------------
(* The promise of boost_foreground_only.                                    *)

\* Main has a process to slow down only while it boosts another one, and the
\* first half of the boost lasts until the second one.
Turn ==
    /\ prev # NoPid => /\ stage = "running"
                       /\ pc[Main] \in {"boostQos", "boostPriority", "prevOpen"}
    /\ stage = "running" /\ pc[Main] = "boostPriority" => subj[Main] \notin ecoQos

\* Every step keeps it.
LEMMA StepTurn ==
    ASSUME Sweepers = {}, Faults = {}, Sound, Turn, [Next]_vars
    PROVE  Turn'
<1> USE ProcessAssumption, ThreadAssumption
    DEF Sound, TypeOK, vars, windows, engine, locals, mode
<1>1. ASSUME NEW p \in Pid, ExitProcess(p) PROVE Turn'
  BY <1>1 DEF ExitProcess, Turn, PlaceOK, Thread
<1>2. ASSUME NEW p \in Pid, Focus(p) PROVE Turn'
  BY <1>2 DEF Focus, Turn, PlaceOK, Thread
<1>3. ASSUME NEW p \in Pid, NEW n \in Name, StartProcess(p, n) PROVE Turn'
  BY <1>3 DEF StartProcess, Turn, PlaceOK, Thread
<1>4. ASSUME NEW b \in BOOLEAN, SetPaused(b) PROVE Turn'
  BY <1>4 DEF SetPaused, Turn, PlaceOK, Thread
<1>5. ASSUME NEW f \in Profiles, SetProfile(f) PROVE Turn'
  BY <1>5 DEF SetProfile, Turn, PlaceOK, Thread
<1>6. ASSUME ReceiveForegroundEvent PROVE Turn'
  BY <1>6 DEF ReceiveForegroundEvent, Go, Turn, PlaceOK, Thread
<1>7. ASSUME OpenForeground PROVE Turn'
  BY <1>7 DEF OpenForeground, Go, Release, Turn, PlaceOK, Thread
<1>8. ASSUME TakeForeground PROVE Turn'
  BY <1>8 DEF TakeForeground, Go, Release, Turn, PlaceOK, Thread
<1>9. ASSUME OpenPrevious PROVE Turn'
  BY <1>9 DEF OpenPrevious, Go, Turn, PlaceOK, Thread
<1>10. ASSUME NEW t \in Thread, SetEcoQos(t) PROVE Turn'
  BY <1>10 DEF SetEcoQos, Go, Release, AfterEco, Turn, PlaceOK, Thread
<1>11. ASSUME NEW t \in Thread, SetIdlePriority(t) PROVE Turn'
  BY <1>11 DEF SetIdlePriority, Go, Release, AfterEco, Turn, PlaceOK, Thread
<1>12. ASSUME NEW t \in Thread, RecordThrottled(t) PROVE Turn'
  BY <1>12 DEF RecordThrottled, Go, Release, AfterEco, Turn, PlaceOK, Thread
<1>13. ASSUME NEW t \in Thread, ClearEcoQos(t) PROVE Turn'
  BY <1>13 DEF ClearEcoQos, Go, Release, AfterBoost, Turn, PlaceOK, Thread
<1>14. ASSUME NEW t \in Thread, ClearIdlePriority(t) PROVE Turn'
  BY <1>14 DEF ClearIdlePriority, Go, Release, AfterBoost, Turn, PlaceOK, Thread
<1>20. ASSUME NEW r \in Restorers \cup {Main}, CopyThrottled(r) PROVE Turn'
  BY <1>20 DEF CopyThrottled, Go, Turn, PlaceOK, Thread
<1>21. ASSUME NEW r \in Restorers \cup {Main}, VisitThrottled(r) PROVE Turn'
  BY <1>21 DEF VisitThrottled, Go, Turn, PlaceOK, Thread
<1>22. ASSUME NEW r \in Restorers \cup {Main}, ForgetThrottled(r) PROVE Turn'
  BY <1>22 DEF ForgetThrottled, Go, Turn, PlaceOK, Thread
<1>23. ASSUME EndMessageLoop PROVE Turn'
  BY <1>23 DEF EndMessageLoop, Go, Turn, PlaceOK, Thread
<1>24. ASSUME CloseStopHK PROVE Turn'
  BY <1>24 DEF CloseStopHK, Turn, PlaceOK, Thread
<1>25. ASSUME ExitMain PROVE Turn'
  BY <1>25 DEF ExitMain, Go, Turn, PlaceOK, Thread
<1>26. CASE UNCHANGED vars
  BY <1>26 DEF Turn, PlaceOK, Thread
<1>27. ASSUME CrashAndRestart PROVE Turn'
  BY <1>27 DEF CrashAndRestart, Turn, PlaceOK, Thread
<1> QED
  BY NextCases, <1>1, <1>2, <1>3, <1>4, <1>5, <1>6, <1>7, <1>8, <1>9, <1>10,
     <1>11, <1>12, <1>13, <1>14, <1>20,
     <1>21, <1>22, <1>23, <1>24, <1>25, <1>26, <1>27

\* What the promise sees of the state.
Seen == <<Eco, pendingPID, prev, stage, pc[Main], subj[Main], tray, crashes>>

\* A step that changes none of it is a stutter of the promise.
LEMMA SameSeen == ASSUME UNCHANGED Seen PROVE UNCHANGED BoostOnly!vars
BY DEF Seen, BoostOnly!vars

\* Without sweeps and refused calls each step of the engine is one of the
\* promise or a stutter.
LEMMA StepPromise ==
    ASSUME Sweepers = {}, Faults = {},
           Sound, Turn, ExitTracked, ExitTracked', [Next]_vars
    PROVE  [BoostOnly!Next]_(BoostOnly!vars)
<1> DEFINE G == BoostOnly!Next \/ UNCHANGED BoostOnly!vars
<1> SUFFICES G
  OBVIOUS
<1>0. UNCHANGED tray /\ (CrashAndRestart \/ UNCHANGED crashes)
  BY Zenon DEF Next, CrashAndRestart, Exited, vars, mode
<1>u. stage # "exited" \/ UNCHANGED vars
  BY Zenon DEF Next, Exited
<1>s. ASSUME UNCHANGED Seen PROVE G
  BY <1>s, SameSeen
<1>26. ASSUME UNCHANGED vars PROVE G
  <2>1. UNCHANGED Seen
    BY <1>26 DEF vars, windows, engine, locals, mode, Seen, Eco
  <2> QED
    BY <1>s, <2>1
<1>27. ASSUME CrashAndRestart, stage # "exited" PROVE G
  <2>1. crashes' # 0
    BY <1>27, OptionAssumption DEF CrashAndRestart, Sound, TypeOK
  <2>2. /\ stage' = "running" /\ pc'[Main] = "wait" /\ prev' = NoPid
        /\ pendingPID' = NoPid /\ Eco' = Eco
    BY <1>27 DEF CrashAndRestart, Thread, Eco
  <2>3. BoostOnly!Crash
    BY <1>27, <2>1, <2>2 DEF BoostOnly!Crash
  <2> QED
    BY Zenon, <1>27, <2>3 DEF BoostOnly!Next
<1> SUFFICES ASSUME UNCHANGED <<tray, crashes>>, stage # "exited" PROVE G
  BY <1>0, <1>u, <1>26, <1>27
<1>n. /\ \A p \in Pid : BoostOnly!Notice(p) \/ BoostOnly!Ease(p) => G
      /\ BoostOnly!Decide \/ BoostOnly!Boost \/ BoostOnly!SlowDown \/ BoostOnly!Settle
           \/ BoostOnly!Exit => G
  BY Zenon DEF BoostOnly!Next
<1> HIDE DEF G
<1> USE ProcessAssumption, ThreadAssumption DEF Sound, TypeOK, windows, engine, locals
\* One setting of p is cleared, or p exits.
<1>e. ASSUME NEW p \in Pid,
             Eco' \in {Eco, Eco \ {p}},
             UNCHANGED <<pendingPID, prev, stage, pc[Main], subj[Main]>>
      PROVE  G
  <2>1. CASE Eco' = Eco
    BY <1>e, <1>s, <2>1 DEF Seen
  <2>2. CASE Eco' = Eco \ {p}
    BY <1>e, <1>n, <2>2 DEF BoostOnly!Ease
  <2> QED
    BY <1>e, <2>1, <2>2
<1>1. ASSUME NEW p \in Pid, ExitProcess(p) PROVE G
  BY <1>1, <1>e DEF ExitProcess, Eco
<1>2. ASSUME NEW p \in Pid, Focus(p) PROVE G
  BY <1>2, <1>s DEF Focus, Seen, Eco
<1>3. ASSUME NEW p \in Pid, NEW n \in Name, StartProcess(p, n) PROVE G
  BY <1>3, <1>s DEF StartProcess, Seen, Eco
<1>4. ASSUME NEW b \in BOOLEAN, SetPaused(b) PROVE G
  BY <1>4, <1>s DEF SetPaused, Seen, Eco
<1>5. ASSUME NEW f \in Profiles, SetProfile(f) PROVE G
  BY <1>5, <1>s DEF SetProfile, Seen, Eco
<1>6. ASSUME ReceiveForegroundEvent PROVE G
  <2>1. UNCHANGED BoostOnly!vars
    BY <1>6 DEF ReceiveForegroundEvent, Go, Turn, Thread, BoostOnly!vars, Eco
  <2> QED
    BY <2>1 DEF G
<1>7. ASSUME OpenForeground PROVE G
  <2>1. CASE pc' = [pc EXCEPT ![Main] = "lock"] /\ UNCHANGED subj
    <3>1. BoostOnly!Notice(subj[Main])
      BY <1>7, <2>1 DEF OpenForeground, Turn, Thread, BoostOnly!Notice, Eco
    <3> QED
      BY <1>7, <1>n, <3>1 DEF OpenForeground, HandleOK, Thread
  <2>2. CASE Release(Main, "wait")
    <3>1. UNCHANGED BoostOnly!vars
      BY <1>7, <2>2 DEF OpenForeground, Release, Go, Turn, Thread, BoostOnly!vars, Eco
    <3> QED
      BY <3>1 DEF G
  <2> QED
    BY <1>7, <2>1, <2>2 DEF OpenForeground, Go
<1>8. ASSUME TakeForeground PROVE G
  <2>1. subj[Main] \in Pid /\ stage = "running" /\ pc[Main] = "lock" /\ prev = NoPid
    BY <1>8 DEF TakeForeground, HandleOK, Holding, PlaceOK, Turn, Thread
  <2>2. BoostOnly!Decide
    BY <1>8, <2>1 DEF TakeForeground, Go, Release, Thread, BoostOnly!Decide, Eco
  <2> QED
    BY <1>n, <2>2
<1>9. ASSUME OpenPrevious PROVE G
  <2>1. prev \in Pid /\ prev' = NoPid /\ pc[Main] = "prevOpen" /\ stage = "running"
    BY <1>9 DEF OpenPrevious, HandleOK, PlaceOK
  <2>2. CASE /\ pc' = [pc EXCEPT ![Main] = "ecoQos"]
             /\ subj' = [subj EXCEPT ![Main] = prev]
    <3>1. UNCHANGED BoostOnly!vars
      BY <1>9, <2>1, <2>2 DEF OpenPrevious, Thread, BoostOnly!vars, Eco
    <3> QED
      BY <3>1 DEF G
  <2>3. CASE pc' = [pc EXCEPT ![Main] = "wait"] /\ UNCHANGED subj
    <3>1. BoostOnly!Settle
      BY <1>9, <2>1, <2>3 DEF OpenPrevious, Thread, BoostOnly!Settle, Eco
    <3> QED
      BY <1>n, <3>1
  <2> QED
    BY <1>9, <2>2, <2>3 DEF OpenPrevious, Go
\* Main's toggle of the process it has to slow down is over.
<1>t. ASSUME pc[Main] \in {"ecoQos", "ecoPriority", "record"}, Release(Main, AfterEco(Main)),
             UNCHANGED <<Eco, pendingPID, prev, stage>>
      PROVE  G
  <2>1. BoostOnly!Settle
    BY <1>t DEF Release, Go, AfterEco, Turn, Thread, BoostOnly!Settle
  <2> QED
    BY <1>n, <2>1
\* One of its two calls has an effect, or comes too late to have one.
<1>d. ASSUME pc[Main] \in {"ecoQos", "ecoPriority"},
             Eco' \in {Eco, Eco \cup {subj[Main]}},
             pc'[Main] \in {"ecoPriority", "record"},
             UNCHANGED <<pendingPID, prev, stage, subj>>
      PROVE  G
  <2>1. subj[Main] \in Pid /\ prev = NoPid
    BY <1>d DEF HandleOK, Holding, Turn, Thread
  <2>2. CASE Eco' = Eco
    <3>1. UNCHANGED BoostOnly!vars
      BY <1>d, <2>1, <2>2 DEF BoostOnly!vars
    <3> QED
      BY <3>1 DEF G
  <2>3. CASE Eco' = Eco \cup {subj[Main]}
    <3>1. BoostOnly!SlowDown
      BY <1>d, <2>1, <2>3 DEF BoostOnly!SlowDown
    <3> QED
      BY <1>n, <3>1
  <2> QED
    BY <1>d, <2>2, <2>3
<1>10. ASSUME NEW t \in Thread, SetEcoQos(t) PROVE G
  <2>1. t = Main
    BY <1>10 DEF SetEcoQos, PlaceOK, Thread
  <2> QED
    BY <1>10, <1>t, <1>d, <2>1 DEF SetEcoQos, Go, Thread, Eco
<1>11. ASSUME NEW t \in Thread, SetIdlePriority(t) PROVE G
  <2>1. t = Main
    BY <1>11 DEF SetIdlePriority, PlaceOK, Thread
  <2> QED
    BY <1>11, <1>t, <1>d, <2>1 DEF SetIdlePriority, Go, Thread, Eco
<1>12. ASSUME NEW t \in Thread, RecordThrottled(t) PROVE G
  <2>1. t = Main
    BY <1>12 DEF RecordThrottled, PlaceOK, Thread
  <2> QED
    BY <1>12, <1>t, <2>1 DEF RecordThrottled, Eco
\* The process that has come to the front has its normal speed.
<1>b. ASSUME stage = "running", pc[Main] \in {"boostQos", "boostPriority"},
             Eco' = Eco \ {subj[Main]}, Release(Main, AfterBoost(Main)),
             UNCHANGED <<pendingPID, prev, stage>>
      PROVE  G
  <2>1. subj[Main] \in Pid
    BY <1>b DEF HandleOK, Holding, Thread
  <2>2. BoostOnly!Boost
    BY <1>b, <2>1 DEF Release, Go, AfterBoost, Thread, BoostOnly!Boost
  <2> QED
    BY <1>n, <2>2
\* Another goroutine, or main on its way out, restores one.
<1>r. ASSUME NEW t \in Thread, NEW p \in Pid, t # Main \/ stage # "running",
             pc[t] \in {"boostQos", "boostPriority"},
             Eco' \in {Eco, Eco \ {p}},
             \/ Go(t, "boostPriority") /\ UNCHANGED subj
             \/ Release(t, "restore"),
             UNCHANGED <<pendingPID, prev, stage>>
      PROVE  G
  <2>1. CASE t # Main
    BY <1>r, <1>e, <2>1 DEF Go, Release, Thread
  <2>2. CASE t = Main
    <3>1. prev = NoPid
      BY <1>r, <2>2 DEF Turn
    <3>2. /\ pc[Main] \in {"boostQos", "boostPriority"} /\ pc'[Main] \in {"boostPriority", "restore"}
          /\ stage # "running"
      BY <1>r, <2>2 DEF Go, Release, Thread
    <3>3. CASE Eco' = Eco
      <4>1. UNCHANGED BoostOnly!vars
        BY <1>r, <3>1, <3>2, <3>3 DEF BoostOnly!vars
      <4> QED
        BY <4>1 DEF G
    <3>4. CASE Eco' = Eco \ {p}
      <4>1. BoostOnly!Ease(p)
        BY <1>r, <3>1, <3>2, <3>4 DEF BoostOnly!Ease
      <4> QED
        BY <1>n, <4>1
    <3> QED
      BY <1>r, <3>3, <3>4
  <2> QED
    BY <2>1, <2>2
<1>13. ASSUME NEW t \in Thread, ClearEcoQos(t) PROVE G
  <2>0. subj[t] \in Pid /\ pc[t] = "boostQos" /\ UNCHANGED <<pendingPID, prev, stage>>
    BY <1>13 DEF ClearEcoQos, HandleOK, Holding
  <2>1. Eco' \in {Eco, Eco \ {subj[t]}}
    BY <1>13 DEF ClearEcoQos, Eco
  <2>2. CASE t # Main \/ stage # "running"
    BY <1>13, <1>r, <2>0, <2>1, <2>2 DEF ClearEcoQos, AfterBoost
  <2>3. CASE t = Main /\ stage = "running"
    <3>1. CASE Go(Main, "boostPriority") /\ UNCHANGED subj
      <4>1. pc'[Main] = "boostPriority" /\ prev \in Pid \cup {NoPid}
        BY <3>1 DEF Go, Thread
      <4>2. CASE Eco' = Eco
        <5>1. UNCHANGED BoostOnly!vars
          BY <2>0, <2>3, <3>1, <4>1, <4>2 DEF BoostOnly!vars
        <5> QED
          BY <5>1 DEF G
      <4>3. CASE Eco' = Eco \ {subj[t]}
        <5>1. BoostOnly!Ease(subj[t])
          BY <2>0, <2>3, <3>1, <4>1, <4>3 DEF BoostOnly!Ease
        <5> QED
          BY <1>n, <2>0, <5>1
      <4> QED
        BY <2>1, <4>2, <4>3
    <3>2. CASE MayFail("qos", subj[t]) /\ Release(t, AfterBoost(t)) /\ UNCHANGED ecoQos
      <4>1. Eco' = Eco \ {subj[t]}
        BY <1>13, <3>2 DEF ClearEcoQos, MayFail, EcoAlive, Eco
      <4> QED
        BY <1>b, <2>0, <2>3, <3>2, <4>1
    <3> QED
      BY <1>13, <2>3, <3>1, <3>2 DEF ClearEcoQos
  <2> QED
    BY <2>2, <2>3
<1>14. ASSUME NEW t \in Thread, ClearIdlePriority(t) PROVE G
  <2>0. subj[t] \in Pid /\ pc[t] = "boostPriority" /\ UNCHANGED <<pendingPID, prev, stage>>
        /\ Release(t, AfterBoost(t))
    BY <1>14 DEF ClearIdlePriority, HandleOK, Holding
  <2>1. Eco' \in {Eco, Eco \ {subj[t]}}
    BY <1>14 DEF ClearIdlePriority, Eco
  <2>2. CASE t # Main \/ stage # "running"
    BY <1>r, <2>0, <2>1, <2>2 DEF AfterBoost
  <2>3. CASE t = Main /\ stage = "running"
    <3>1. Eco' = Eco \ {subj[t]}
      BY <1>14, <2>0, <2>3 DEF ClearIdlePriority, MayFail, EcoAlive, Turn, Eco
    <3> QED
      BY <1>b, <2>0, <2>3, <3>1
  <2> QED
    BY <2>2, <2>3
<1>20. ASSUME NEW r \in Restorers \cup {Main}, CopyThrottled(r) PROVE G
  <2>1. CASE r = Main
    <3>1. UNCHANGED BoostOnly!vars
      BY <1>20, <2>1 DEF CopyThrottled, Go, PlaceOK, Turn, Thread, BoostOnly!vars, Eco
    <3> QED
      BY <3>1 DEF G
  <2>2. CASE r # Main
    BY <1>20, <1>s, <2>2 DEF CopyThrottled, Go, Thread, Seen, Eco
  <2> QED
    BY <2>1, <2>2
<1>21. ASSUME NEW r \in Restorers \cup {Main}, VisitThrottled(r) PROVE G
  <2>1. CASE r = Main
    <3>1. UNCHANGED BoostOnly!vars
      BY <1>21, <2>1 DEF VisitThrottled, Go, PlaceOK, Turn, Thread, BoostOnly!vars, Eco
    <3> QED
      BY <3>1 DEF G
  <2>2. CASE r # Main
    BY <1>21, <1>s, <2>2 DEF VisitThrottled, Go, Thread, Seen, Eco
  <2> QED
    BY <2>1, <2>2
<1>22. ASSUME NEW r \in Restorers \cup {Main}, ForgetThrottled(r) PROVE G
  <2>1. CASE r = Main
    <3>1. UNCHANGED BoostOnly!vars
      BY <1>22, <2>1 DEF ForgetThrottled, Go, PlaceOK, Turn, Thread, BoostOnly!vars, Eco
    <3> QED
      BY <3>1 DEF G
  <2>2. CASE r # Main
    BY <1>22, <1>s, <2>2 DEF ForgetThrottled, Go, Thread, Seen, Eco
  <2> QED
    BY <2>1, <2>2
<1>23. ASSUME EndMessageLoop PROVE G
  <2>1. UNCHANGED BoostOnly!vars
    BY <1>23 DEF EndMessageLoop, Go, Turn, Thread, BoostOnly!vars, Eco
  <2> QED
    BY <2>1 DEF G
<1>24. ASSUME CloseStopHK PROVE G
  BY <1>24, <1>s DEF CloseStopHK, Seen, Eco
<1>25. ASSUME ExitMain PROVE G
  <2>1. stage' = "exited" /\ pc'[Main] = "done" /\ stage # "running" /\ prev = NoPid
    BY <1>25 DEF ExitMain, Go, PlaceOK, Turn, Thread
  <2>2. ~tray /\ crashes = 0 => Eco = {}
    BY <1>25, <2>1 DEF ExitMain, ExitTracked, Listed, Restoring, Boosting, Eco
  <2>3. BoostOnly!Exit
    BY <1>25, <2>1, <2>2 DEF ExitMain, BoostOnly!Exit, Eco
  <2> QED
    BY <1>n, <2>3
<1> QED
  BY NextCases, <1>1, <1>2, <1>3, <1>4, <1>5, <1>6, <1>7, <1>8, <1>9, <1>10,
     <1>11, <1>12, <1>13, <1>14, <1>20,
     <1>21, <1>22, <1>23, <1>24, <1>25, <1>26, <1>27

\* In boost_foreground_only mode the engine implements its abstract promise,
\* with reused process IDs, title matches, pauses and profile switches, tray
\* restores and crashes.
THEOREM PromiseIsKept ==
    ASSUME Sweepers = {}, Faults = {}
    PROVE  Spec => BoostsForegroundOnly
<1>1. Init => /\ Sound /\ EcoRecorded /\ ExitTracked /\ Turn
              /\ BoostOnly!Init
  <2> SUFFICES ASSUME Init
               PROVE  EcoRecorded /\ ExitTracked /\ Turn /\ BoostOnly!Init
    BY InitSound
  <2>1. EcoRecorded /\ ExitTracked
    BY DEF Init, EcoRecorded, ExitTracked
  <2>2. Turn /\ BoostOnly!Init
    BY DEF Init, Turn, BoostOnly!Init, Eco, Thread
  <2> QED
    BY <2>1, <2>2
<1>2. Sound /\ EcoRecorded /\ ExitTracked /\ Turn /\ [Next]_vars
        => /\ (Sound /\ EcoRecorded /\ ExitTracked /\ Turn)'
           /\ [BoostOnly!Next]_(BoostOnly!vars)
  BY StepSound, StepRecorded, StepExit, StepTurn, StepPromise
<1> QED
  BY <1>1, <1>2, PTL DEF Spec, BoostsForegroundOnly, BoostOnly!Spec

=============================================================================
