------------------------- MODULE ToggleOptionsProofs -------------------------
(* Theorems about ToggleOptions for any processes, sweeps and options.      *)
EXTENDS ToggleOptions, TLAPS, FiniteSetTheorems

\* The places inside toggleEfficiencyMode.
Capturing == {"check", "query", "capture", "pin"}
Restoring == {"take", "unpin"}
Toggling == {"gpu", "gpuSet", "gpuSucceeded", "gpuFailed"} \cup Capturing \cup Restoring

\* A goroutine in a toggle has a process, throttles or unthrottles it as its
\* place says, and has read a mask where it goes by one.
PlaceOK ==
    \A t \in Thread :
        /\ pc[t] \in Toggling => subj[t] \in Pid
        /\ pc[t] \in Capturing => enable[t]
        /\ pc[t] \in Restoring => ~enable[t]
        /\ pc[t] \in {"capture", "unpin"} => seen[t] \in Mask

\* TypeOK in two parts: what each goroutine has, and what they share.
LocalsOK ==
    /\ pc \in [Thread -> {"idle", "boosted", "restore", "exit"} \cup Toggling]
    /\ enable \in [Thread -> BOOLEAN]
    /\ subj \in [Thread -> Pid \cup {NoPid}]
    /\ seen \in [Thread -> Mask \cup {NoMask}]

SharedOK ==
    /\ boostOnly \in BOOLEAN /\ options \in Options
    /\ idleGpu \subseteq Pid /\ gpuSupported \in BOOLEAN /\ gpuFailureCount \in Nat
    /\ mask \in [Pid -> Mask]
    /\ originalAffinity \in [Pid -> Mask \cup {NoMask}]
    /\ pending \in Pid \cup {NoPid} /\ prev \in Pid \cup {NoPid}
    /\ ended \in BOOLEAN
    /\ todo \in [Thread -> SUBSET Pid]

Sound == LocalsOK /\ SharedOK /\ PlaceOK

-----------------------------------------------------------------------------
\* Every step is one of the actions, with its goroutine, and keeps the scenario.
LEMMA NextCases ==
    ASSUME [Next]_vars
    PROVE  \/ UNCHANGED vars
           \/ /\ UNCHANGED scenario
              /\ \/ \E p \in Pid : SwitchTo(p)
                 \/ SwitchToBypassed \/ ThrottlePrevious
                 \/ \E s \in Sweepers, p \in Pid : SweepProcess(s, p)
                 \/ \E t \in Thread :
                       \/ StartRestore(t) \/ RestoreProcess(t) \/ ForgetOriginals(t)
                       \/ AskBreaker(t) \/ SetGpuPriority(t)
                       \/ RecordGpuSuccess(t) \/ RecordGpuFailure(t)
                       \/ CheckTracked(t) \/ QueryMask(t) \/ CaptureMask(t)
                       \/ PinProcess(t) \/ TakeOriginal(t) \/ RestoreMask(t)
BY Zenon DEF Next, Toggle, Exited

\* A configuration asks for one of the two at least.
LEMMA SubsetOptions ==
    \A o \in Options : "gpu" \in o \/ "affinity" \in o
BY AffinityAssumption

-----------------------------------------------------------------------------
(* Types.                                                                   *)

\* Nobody toggles a process yet.
LEMMA InitSound == Init => Sound
<1> SUFFICES ASSUME Init PROVE Sound
  OBVIOUS
<1> USE AffinityAssumption DEF Init
<1>1. LocalsOK
  BY DEF LocalsOK
<1>2. SharedOK
  BY DEF SharedOK, Mask
<1>3. PlaceOK
  BY DEF PlaceOK, Toggling, Capturing, Restoring
<1> QED
  BY <1>1, <1>2, <1>3 DEF Sound

\* A toggle begins, goes on and ends with typed locals.
LEMMA EnterLocals ==
    ASSUME LocalsOK, NEW t \in Thread, NEW p \in Pid, NEW on \in BOOLEAN,
           EnterToggle(t, p, on), UNCHANGED seen
    PROVE  LocalsOK'
<1>1. (IF "gpu" \in options THEN "gpu" ELSE AffinityPlace(on)) \in Toggling
  BY DEF AffinityPlace, Toggling, Capturing, Restoring
<1> QED
  BY <1>1 DEF LocalsOK, EnterToggle

LEMMA DoneLocals ==
    ASSUME LocalsOK, NEW t \in Thread, Done(t)
    PROVE  LocalsOK'
<1>1. AfterToggle(t, enable[t]) \in {"idle", "boosted", "restore", "exit"}
  BY DEF AfterToggle
<1> QED
  BY <1>1 DEF LocalsOK, Done

LEMMA LeaveLocals ==
    ASSUME LocalsOK, NEW t \in Thread, LeaveGpu(t)
    PROVE  LocalsOK'
<1>1. AffinityPlace(enable[t]) \in Toggling
  BY DEF AffinityPlace, Toggling, Capturing, Restoring
<1> QED
  BY <1>1, DoneLocals DEF LocalsOK, LeaveGpu

\* Every step keeps the types and what a goroutine has at its place.
LEMMA StepSound ==
    ASSUME Sound, [Next]_vars
    PROVE  Sound'
<1> USE AffinityAssumption, SubsetOptions
    DEF Sound, vars, scenario, gpu, affinity, callers, Thread, Mask
<1>1. ASSUME NEW p \in Pid, SwitchTo(p), UNCHANGED scenario PROVE Sound'
  <2>1. LocalsOK'
    BY <1>1 DEF SwitchTo, EnterToggle, AffinityPlace, LocalsOK,
        Toggling, Capturing, Restoring, SharedOK, PlaceOK
  <2>2. SharedOK'
    BY <1>1 DEF SwitchTo, EnterToggle, AffinityPlace, SharedOK,
        LocalsOK, PlaceOK, Toggling, Capturing, Restoring
  <2>3. PlaceOK'
    BY <1>1 DEF SwitchTo, EnterToggle, AffinityPlace, LocalsOK,
        SharedOK, PlaceOK, Toggling, Capturing, Restoring
  <2> QED
    BY <2>1, <2>2, <2>3 DEF Sound
<1>2. ASSUME SwitchToBypassed, UNCHANGED scenario PROVE Sound'
  <2>1. LocalsOK'
    BY <1>2 DEF SwitchToBypassed, LocalsOK, Toggling, Capturing,
        Restoring, SharedOK, PlaceOK
  <2>2. SharedOK'
    BY <1>2 DEF SwitchToBypassed, SharedOK, LocalsOK, PlaceOK, Toggling,
        Capturing, Restoring
  <2>3. PlaceOK'
    BY <1>2 DEF SwitchToBypassed, LocalsOK, SharedOK, PlaceOK, Toggling,
        Capturing, Restoring
  <2> QED
    BY <2>1, <2>2, <2>3 DEF Sound
<1>3. ASSUME ThrottlePrevious, UNCHANGED scenario PROVE Sound'
  <2>1. LocalsOK'
    <3>1. CASE prev = NoPid
      BY <1>3, <3>1 DEF ThrottlePrevious, LocalsOK
    <3>2. CASE prev # NoPid
      BY <1>3, <3>2, EnterLocals DEF ThrottlePrevious, SharedOK
    <3> QED
      BY <3>1, <3>2
  <2>2. SharedOK'
    BY <1>3 DEF ThrottlePrevious, EnterToggle, AffinityPlace, SharedOK,
        LocalsOK, PlaceOK, Toggling, Capturing, Restoring
  <2>3. PlaceOK'
    BY <1>3 DEF ThrottlePrevious, EnterToggle, AffinityPlace, LocalsOK,
        SharedOK, PlaceOK, Toggling, Capturing, Restoring
  <2> QED
    BY <2>1, <2>2, <2>3 DEF Sound
<1>4. ASSUME NEW s \in Sweepers, NEW p \in Pid, SweepProcess(s, p), UNCHANGED scenario PROVE Sound'
  <2>1. LocalsOK'
    BY <1>4 DEF SweepProcess, EnterToggle, AffinityPlace, LocalsOK,
        Toggling, Capturing, Restoring, SharedOK, PlaceOK
  <2>2. SharedOK'
    BY <1>4 DEF SweepProcess, EnterToggle, AffinityPlace, SharedOK,
        LocalsOK, PlaceOK, Toggling, Capturing, Restoring
  <2>3. PlaceOK'
    BY <1>4 DEF SweepProcess, EnterToggle, AffinityPlace, LocalsOK,
        SharedOK, PlaceOK, Toggling, Capturing, Restoring
  <2> QED
    BY <2>1, <2>2, <2>3 DEF Sound
<1>5. ASSUME NEW t \in Thread, StartRestore(t), UNCHANGED scenario PROVE Sound'
  <2>1. LocalsOK'
    BY <1>5 DEF StartRestore, LocalsOK, Toggling, Capturing, Restoring,
        SharedOK, PlaceOK
  <2>2. SharedOK'
    BY <1>5 DEF StartRestore, SharedOK, LocalsOK, PlaceOK, Toggling,
        Capturing, Restoring
  <2>3. PlaceOK'
    BY <1>5 DEF StartRestore, LocalsOK, SharedOK, PlaceOK, Toggling,
        Capturing, Restoring
  <2> QED
    BY <2>1, <2>2, <2>3 DEF Sound
<1>6. ASSUME NEW t \in Thread, RestoreProcess(t), UNCHANGED scenario PROVE Sound'
  <2>1. LocalsOK'
    BY <1>6 DEF RestoreProcess, EnterToggle, AffinityPlace, LocalsOK,
        Toggling, Capturing, Restoring, SharedOK, PlaceOK
  <2>2. SharedOK'
    BY <1>6 DEF RestoreProcess, EnterToggle, AffinityPlace, SharedOK,
        LocalsOK, PlaceOK, Toggling, Capturing, Restoring
  <2>3. PlaceOK'
    BY <1>6 DEF RestoreProcess, EnterToggle, AffinityPlace, LocalsOK,
        SharedOK, PlaceOK, Toggling, Capturing, Restoring
  <2> QED
    BY <2>1, <2>2, <2>3 DEF Sound
<1>7. ASSUME NEW t \in Thread, ForgetOriginals(t), UNCHANGED scenario PROVE Sound'
  <2>1. LocalsOK'
    BY <1>7 DEF ForgetOriginals, LocalsOK, Toggling, Capturing,
        Restoring, SharedOK, PlaceOK
  <2>2. SharedOK'
    BY <1>7 DEF ForgetOriginals, SharedOK, LocalsOK, PlaceOK, Toggling,
        Capturing, Restoring
  <2>3. PlaceOK'
    BY <1>7 DEF ForgetOriginals, LocalsOK, SharedOK, PlaceOK, Toggling,
        Capturing, Restoring
  <2> QED
    BY <2>1, <2>2, <2>3 DEF Sound
<1>8. ASSUME NEW t \in Thread, AskBreaker(t), UNCHANGED scenario PROVE Sound'
  <2>1. LocalsOK'
    <3>1. CASE LeaveGpu(t)
      BY <3>1, LeaveLocals
    <3>2. CASE ~LeaveGpu(t)
      BY <1>8, <3>2 DEF AskBreaker, LocalsOK, Toggling
    <3> QED
      BY <3>1, <3>2
  <2>2. SharedOK'
    BY <1>8 DEF AskBreaker, LeaveGpu, Done, AfterToggle, AffinityPlace,
        SharedOK, LocalsOK, PlaceOK, Toggling, Capturing, Restoring
  <2>3. PlaceOK'
    BY <1>8 DEF AskBreaker, LeaveGpu, Done, AfterToggle, AffinityPlace,
        LocalsOK, SharedOK, PlaceOK, Toggling, Capturing, Restoring
  <2> QED
    BY <2>1, <2>2, <2>3 DEF Sound
<1>9. ASSUME NEW t \in Thread, SetGpuPriority(t), UNCHANGED scenario PROVE Sound'
  <2>1. LocalsOK'
    BY <1>9 DEF SetGpuPriority, LocalsOK, Toggling, Capturing,
        Restoring, SharedOK, PlaceOK
  <2>2. SharedOK'
    BY <1>9 DEF SetGpuPriority, SharedOK, LocalsOK, PlaceOK, Toggling,
        Capturing, Restoring
  <2>3. PlaceOK'
    BY <1>9 DEF SetGpuPriority, LocalsOK, SharedOK, PlaceOK, Toggling,
        Capturing, Restoring
  <2> QED
    BY <2>1, <2>2, <2>3 DEF Sound
<1>10. ASSUME NEW t \in Thread, RecordGpuSuccess(t), UNCHANGED scenario PROVE Sound'
  <2>1. LocalsOK'
    BY <1>10, LeaveLocals DEF RecordGpuSuccess
  <2>2. SharedOK'
    BY <1>10 DEF RecordGpuSuccess, LeaveGpu, Done, AfterToggle,
        AffinityPlace, SharedOK, LocalsOK, PlaceOK, Toggling, Capturing,
        Restoring
  <2>3. PlaceOK'
    BY <1>10 DEF RecordGpuSuccess, LeaveGpu, Done, AfterToggle,
        AffinityPlace, LocalsOK, SharedOK, PlaceOK, Toggling, Capturing,
        Restoring
  <2> QED
    BY <2>1, <2>2, <2>3 DEF Sound
<1>11. ASSUME NEW t \in Thread, RecordGpuFailure(t), UNCHANGED scenario PROVE Sound'
  <2>1. LocalsOK'
    BY <1>11, LeaveLocals DEF RecordGpuFailure
  <2>2. SharedOK'
    BY <1>11 DEF RecordGpuFailure, LeaveGpu, Done, AfterToggle,
        AffinityPlace, SharedOK, LocalsOK, PlaceOK, Toggling, Capturing,
        Restoring
  <2>3. PlaceOK'
    BY <1>11 DEF RecordGpuFailure, LeaveGpu, Done, AfterToggle,
        AffinityPlace, LocalsOK, SharedOK, PlaceOK, Toggling, Capturing,
        Restoring
  <2> QED
    BY <2>1, <2>2, <2>3 DEF Sound
<1>12. ASSUME NEW t \in Thread, CheckTracked(t), UNCHANGED scenario PROVE Sound'
  <2>1. LocalsOK'
    BY <1>12 DEF CheckTracked, LocalsOK, Toggling, Capturing, Restoring,
        SharedOK, PlaceOK
  <2>2. SharedOK'
    BY <1>12 DEF CheckTracked, SharedOK, LocalsOK, PlaceOK, Toggling,
        Capturing, Restoring
  <2>3. PlaceOK'
    BY <1>12 DEF CheckTracked, LocalsOK, SharedOK, PlaceOK, Toggling,
        Capturing, Restoring
  <2> QED
    BY <2>1, <2>2, <2>3 DEF Sound
<1>13. ASSUME NEW t \in Thread, QueryMask(t), UNCHANGED scenario PROVE Sound'
  <2>1. LocalsOK'
    BY <1>13 DEF QueryMask, LocalsOK, Toggling, Capturing, Restoring,
        SharedOK, PlaceOK
  <2>2. SharedOK'
    BY <1>13 DEF QueryMask, SharedOK, LocalsOK, PlaceOK, Toggling,
        Capturing, Restoring
  <2>3. PlaceOK'
    BY <1>13 DEF QueryMask, LocalsOK, SharedOK, PlaceOK, Toggling,
        Capturing, Restoring
  <2> QED
    BY <2>1, <2>2, <2>3 DEF Sound
<1>14. ASSUME NEW t \in Thread, CaptureMask(t), UNCHANGED scenario PROVE Sound'
  <2>1. LocalsOK'
    BY <1>14 DEF CaptureMask, LocalsOK, Toggling, Capturing, Restoring,
        SharedOK, PlaceOK
  <2>2. SharedOK'
    BY <1>14 DEF CaptureMask, SharedOK, LocalsOK, PlaceOK, Toggling,
        Capturing, Restoring
  <2>3. PlaceOK'
    BY <1>14 DEF CaptureMask, LocalsOK, SharedOK, PlaceOK, Toggling,
        Capturing, Restoring
  <2> QED
    BY <2>1, <2>2, <2>3 DEF Sound
<1>15. ASSUME NEW t \in Thread, PinProcess(t), UNCHANGED scenario PROVE Sound'
  <2>1. LocalsOK'
    BY <1>15 DEF PinProcess, Done, AfterToggle, LocalsOK, Toggling,
        Capturing, Restoring, SharedOK, PlaceOK
  <2>2. SharedOK'
    BY <1>15 DEF PinProcess, Done, AfterToggle, SharedOK, LocalsOK,
        PlaceOK, Toggling, Capturing, Restoring
  <2>3. PlaceOK'
    BY <1>15 DEF PinProcess, Done, AfterToggle, LocalsOK, SharedOK,
        PlaceOK, Toggling, Capturing, Restoring
  <2> QED
    BY <2>1, <2>2, <2>3 DEF Sound
<1>16. ASSUME NEW t \in Thread, TakeOriginal(t), UNCHANGED scenario PROVE Sound'
  <2>1. LocalsOK'
    <3>1. CASE Done(t)
      BY <3>1, DoneLocals
    <3>2. CASE ~Done(t)
      BY <1>16, <3>2 DEF TakeOriginal, LocalsOK, Toggling, Restoring, SharedOK,
         PlaceOK
    <3> QED
      BY <3>1, <3>2
  <2>2. SharedOK'
    BY <1>16 DEF TakeOriginal, Done, AfterToggle, SharedOK, LocalsOK,
        PlaceOK, Toggling, Capturing, Restoring
  <2>3. PlaceOK'
    BY <1>16 DEF TakeOriginal, Done, AfterToggle, LocalsOK, SharedOK,
        PlaceOK, Toggling, Capturing, Restoring
  <2> QED
    BY <2>1, <2>2, <2>3 DEF Sound
<1>17. ASSUME NEW t \in Thread, RestoreMask(t), UNCHANGED scenario PROVE Sound'
  <2>1. LocalsOK'
    BY <1>17 DEF RestoreMask, Done, AfterToggle, LocalsOK, Toggling,
        Capturing, Restoring, SharedOK, PlaceOK
  <2>2. SharedOK'
    BY <1>17 DEF RestoreMask, Done, AfterToggle, SharedOK, LocalsOK,
        PlaceOK, Toggling, Capturing, Restoring
  <2>3. PlaceOK'
    BY <1>17 DEF RestoreMask, Done, AfterToggle, LocalsOK, SharedOK,
        PlaceOK, Toggling, Capturing, Restoring
  <2> QED
    BY <2>1, <2>2, <2>3 DEF Sound
<1>18. CASE UNCHANGED vars
  BY <1>18 DEF LocalsOK, Toggling, Capturing, Restoring, SharedOK,
      PlaceOK, SharedOK, LocalsOK, PlaceOK, Toggling, Capturing,
      Restoring, LocalsOK, SharedOK, PlaceOK, Toggling, Capturing,
      Restoring, Sound
<1> QED
  BY NextCases, <1>1, <1>2, <1>3, <1>4, <1>5, <1>6, <1>7, <1>8, <1>9,
      <1>10, <1>11, <1>12, <1>13, <1>14, <1>15, <1>16, <1>17, <1>18

\* The variables keep their types, whatever the constants.
THEOREM TypeCorrect == Spec => []TypeOK
<1>1. Init => Sound
  BY InitSound
<1>2. Sound /\ [Next]_vars => Sound'
  BY StepSound
<1>3. Sound => TypeOK
  BY DEF Sound, LocalsOK, SharedOK, TypeOK, Toggling, Capturing, Restoring
<1> QED
  BY <1>1, <1>2, <1>3, PTL DEF Spec

-----------------------------------------------------------------------------
(* An entry of originalAffinity says that its process is pinned.            *)

\* EntryMeansPinned is not inductive: a sweep never captures a mask, as its
\* handle cannot query one, and while the handler is about to set a mask that
\* it has taken out of the map nobody captures that process again.
SweepersPin ==
    \A s \in Sweepers : /\ pc[s] \notin {"capture", "restore"} \cup Restoring
                        /\ pc[s] \in Toggling => enable[s]
TakenIsGone == pc[Handler] = "unpin" => originalAffinity[subj[Handler]] = NoMask

Entries == EntryMeansPinned /\ SweepersPin /\ TakenIsGone

\* Without tray restores, and with sweeps that cannot query, every step keeps
\* Entries.
LEMMA StepEntries ==
    ASSUME Restorers = {}, CanQuery \subseteq {Handler}, Sound, Entries, [Next]_vars
    PROVE  Entries'
<1> USE AffinityAssumption, SubsetOptions
    DEF Entries, Sound, LocalsOK, SharedOK, PlaceOK, Toggling, Capturing, Restoring, vars, scenario, gpu, affinity, callers, Thread, Mask
<1>1. ASSUME NEW p \in Pid, SwitchTo(p), UNCHANGED scenario PROVE Entries'
  <2>1. EntryMeansPinned'
    BY <1>1 DEF SwitchTo, EnterToggle, AffinityPlace, EntryMeansPinned,
        At, TakenIsGone, SweepersPin
  <2>2. SweepersPin'
    BY <1>1 DEF SwitchTo, EnterToggle, AffinityPlace, SweepersPin
  <2>3. TakenIsGone'
    BY <1>1 DEF SwitchTo, EnterToggle, AffinityPlace, TakenIsGone,
        SweepersPin
  <2> QED
    BY <2>1, <2>2, <2>3 DEF Entries
<1>2. ASSUME SwitchToBypassed, UNCHANGED scenario PROVE Entries'
  <2>1. EntryMeansPinned'
    BY <1>2 DEF SwitchToBypassed, EntryMeansPinned, At, TakenIsGone,
        SweepersPin
  <2>2. SweepersPin'
    BY <1>2 DEF SwitchToBypassed, SweepersPin
  <2>3. TakenIsGone'
    BY <1>2 DEF SwitchToBypassed, TakenIsGone, SweepersPin
  <2> QED
    BY <2>1, <2>2, <2>3 DEF Entries
<1>3. ASSUME ThrottlePrevious, UNCHANGED scenario PROVE Entries'
  <2>1. EntryMeansPinned'
    BY <1>3 DEF ThrottlePrevious, EnterToggle, AffinityPlace,
        EntryMeansPinned, At, TakenIsGone, SweepersPin
  <2>2. SweepersPin'
    BY <1>3 DEF ThrottlePrevious, EnterToggle, AffinityPlace,
        SweepersPin
  <2>3. TakenIsGone'
    BY <1>3 DEF ThrottlePrevious, EnterToggle, AffinityPlace,
        TakenIsGone, SweepersPin
  <2> QED
    BY <2>1, <2>2, <2>3 DEF Entries
<1>4. ASSUME NEW s \in Sweepers, NEW p \in Pid, SweepProcess(s, p), UNCHANGED scenario PROVE Entries'
  <2>1. EntryMeansPinned'
    BY <1>4 DEF SweepProcess, EnterToggle, AffinityPlace,
        EntryMeansPinned, At, TakenIsGone, SweepersPin
  <2>2. SweepersPin'
    BY <1>4 DEF SweepProcess, EnterToggle, AffinityPlace, SweepersPin
  <2>3. TakenIsGone'
    BY <1>4 DEF SweepProcess, EnterToggle, AffinityPlace, TakenIsGone,
        SweepersPin
  <2> QED
    BY <2>1, <2>2, <2>3 DEF Entries
<1>5. ASSUME NEW t \in Thread, StartRestore(t), UNCHANGED scenario PROVE Entries'
  <2>1. EntryMeansPinned'
    BY <1>5 DEF StartRestore, EntryMeansPinned, At, TakenIsGone,
        SweepersPin
  <2>2. SweepersPin'
    BY <1>5 DEF StartRestore, SweepersPin
  <2>3. TakenIsGone'
    BY <1>5 DEF StartRestore, TakenIsGone, SweepersPin
  <2> QED
    BY <2>1, <2>2, <2>3 DEF Entries
<1>6. ASSUME NEW t \in Thread, RestoreProcess(t), UNCHANGED scenario PROVE Entries'
  <2>1. EntryMeansPinned'
    BY <1>6 DEF RestoreProcess, EnterToggle, AffinityPlace,
        EntryMeansPinned, At, TakenIsGone, SweepersPin
  <2>2. SweepersPin'
    BY <1>6 DEF RestoreProcess, EnterToggle, AffinityPlace, SweepersPin
  <2>3. TakenIsGone'
    BY <1>6 DEF RestoreProcess, EnterToggle, AffinityPlace, TakenIsGone,
        SweepersPin
  <2> QED
    BY <2>1, <2>2, <2>3 DEF Entries
<1>7. ASSUME NEW t \in Thread, ForgetOriginals(t), UNCHANGED scenario PROVE Entries'
  <2>1. EntryMeansPinned'
    BY <1>7 DEF ForgetOriginals, EntryMeansPinned, At, TakenIsGone,
        SweepersPin
  <2>2. SweepersPin'
    BY <1>7 DEF ForgetOriginals, SweepersPin
  <2>3. TakenIsGone'
    BY <1>7 DEF ForgetOriginals, TakenIsGone, SweepersPin
  <2> QED
    BY <2>1, <2>2, <2>3 DEF Entries
<1>8. ASSUME NEW t \in Thread, AskBreaker(t), UNCHANGED scenario PROVE Entries'
  <2>1. EntryMeansPinned'
    BY <1>8 DEF AskBreaker, LeaveGpu, Done, AfterToggle, AffinityPlace,
        EntryMeansPinned, At, TakenIsGone, SweepersPin
  <2>2. SweepersPin'
    BY <1>8 DEF AskBreaker, LeaveGpu, Done, AfterToggle, AffinityPlace,
        SweepersPin
  <2>3. TakenIsGone'
    BY <1>8 DEF AskBreaker, LeaveGpu, Done, AfterToggle, AffinityPlace,
        TakenIsGone, SweepersPin
  <2> QED
    BY <2>1, <2>2, <2>3 DEF Entries
<1>9. ASSUME NEW t \in Thread, SetGpuPriority(t), UNCHANGED scenario PROVE Entries'
  <2>1. EntryMeansPinned'
    BY <1>9 DEF SetGpuPriority, EntryMeansPinned, At, TakenIsGone,
        SweepersPin
  <2>2. SweepersPin'
    BY <1>9 DEF SetGpuPriority, SweepersPin
  <2>3. TakenIsGone'
    BY <1>9 DEF SetGpuPriority, TakenIsGone, SweepersPin
  <2> QED
    BY <2>1, <2>2, <2>3 DEF Entries
<1>10. ASSUME NEW t \in Thread, RecordGpuSuccess(t), UNCHANGED scenario PROVE Entries'
  <2>1. EntryMeansPinned'
    BY <1>10 DEF RecordGpuSuccess, LeaveGpu, Done, AfterToggle,
        AffinityPlace, EntryMeansPinned, At, TakenIsGone, SweepersPin
  <2>2. SweepersPin'
    BY <1>10 DEF RecordGpuSuccess, LeaveGpu, Done, AfterToggle,
        AffinityPlace, SweepersPin
  <2>3. TakenIsGone'
    BY <1>10 DEF RecordGpuSuccess, LeaveGpu, Done, AfterToggle,
        AffinityPlace, TakenIsGone, SweepersPin
  <2> QED
    BY <2>1, <2>2, <2>3 DEF Entries
<1>11. ASSUME NEW t \in Thread, RecordGpuFailure(t), UNCHANGED scenario PROVE Entries'
  <2>1. EntryMeansPinned'
    BY <1>11 DEF RecordGpuFailure, LeaveGpu, Done, AfterToggle,
        AffinityPlace, EntryMeansPinned, At, TakenIsGone, SweepersPin
  <2>2. SweepersPin'
    BY <1>11 DEF RecordGpuFailure, LeaveGpu, Done, AfterToggle,
        AffinityPlace, SweepersPin
  <2>3. TakenIsGone'
    BY <1>11 DEF RecordGpuFailure, LeaveGpu, Done, AfterToggle,
        AffinityPlace, TakenIsGone, SweepersPin
  <2> QED
    BY <2>1, <2>2, <2>3 DEF Entries
<1>12. ASSUME NEW t \in Thread, CheckTracked(t), UNCHANGED scenario PROVE Entries'
  <2>1. EntryMeansPinned'
    BY <1>12 DEF CheckTracked, EntryMeansPinned, At, TakenIsGone,
        SweepersPin
  <2>2. SweepersPin'
    BY <1>12 DEF CheckTracked, SweepersPin
  <2>3. TakenIsGone'
    BY <1>12 DEF CheckTracked, TakenIsGone, SweepersPin
  <2> QED
    BY <2>1, <2>2, <2>3 DEF Entries
<1>13. ASSUME NEW t \in Thread, QueryMask(t), UNCHANGED scenario PROVE Entries'
  <2>1. EntryMeansPinned'
    BY <1>13 DEF QueryMask, EntryMeansPinned, At, TakenIsGone,
        SweepersPin
  <2>2. SweepersPin'
    BY <1>13 DEF QueryMask, SweepersPin
  <2>3. TakenIsGone'
    BY <1>13 DEF QueryMask, TakenIsGone, SweepersPin
  <2> QED
    BY <2>1, <2>2, <2>3 DEF Entries
<1>14. ASSUME NEW t \in Thread, CaptureMask(t), UNCHANGED scenario PROVE Entries'
  <2>1. EntryMeansPinned'
    BY <1>14 DEF CaptureMask, EntryMeansPinned, At, TakenIsGone,
        SweepersPin
  <2>2. SweepersPin'
    BY <1>14 DEF CaptureMask, SweepersPin
  <2>3. TakenIsGone'
    BY <1>14 DEF CaptureMask, TakenIsGone, SweepersPin
  <2> QED
    BY <2>1, <2>2, <2>3 DEF Entries
<1>15. ASSUME NEW t \in Thread, PinProcess(t), UNCHANGED scenario PROVE Entries'
  <2>1. EntryMeansPinned'
    BY <1>15 DEF PinProcess, Done, AfterToggle, EntryMeansPinned, At,
        TakenIsGone, SweepersPin
  <2>2. SweepersPin'
    BY <1>15 DEF PinProcess, Done, AfterToggle, SweepersPin
  <2>3. TakenIsGone'
    BY <1>15 DEF PinProcess, Done, AfterToggle, TakenIsGone, SweepersPin
  <2> QED
    BY <2>1, <2>2, <2>3 DEF Entries
<1>16. ASSUME NEW t \in Thread, TakeOriginal(t), UNCHANGED scenario PROVE Entries'
  <2>1. EntryMeansPinned'
    BY <1>16 DEF TakeOriginal, Done, AfterToggle, EntryMeansPinned, At,
        TakenIsGone, SweepersPin
  <2>2. SweepersPin'
    BY <1>16 DEF TakeOriginal, Done, AfterToggle, SweepersPin
  <2>3. TakenIsGone'
    BY <1>16 DEF TakeOriginal, Done, AfterToggle, TakenIsGone,
        SweepersPin
  <2> QED
    BY <2>1, <2>2, <2>3 DEF Entries
<1>17. ASSUME NEW t \in Thread, RestoreMask(t), UNCHANGED scenario PROVE Entries'
  <2>1. EntryMeansPinned'
    BY <1>17 DEF RestoreMask, Done, AfterToggle, EntryMeansPinned, At,
        TakenIsGone, SweepersPin
  <2>2. SweepersPin'
    BY <1>17 DEF RestoreMask, Done, AfterToggle, SweepersPin
  <2>3. TakenIsGone'
    BY <1>17 DEF RestoreMask, Done, AfterToggle, TakenIsGone,
        SweepersPin
  <2> QED
    BY <2>1, <2>2, <2>3 DEF Entries
<1>18. CASE UNCHANGED vars
  BY <1>18 DEF EntryMeansPinned, At, TakenIsGone, SweepersPin,
      SweepersPin, TakenIsGone, SweepersPin, Entries
<1> QED
  BY NextCases, <1>1, <1>2, <1>3, <1>4, <1>5, <1>6, <1>7, <1>8, <1>9,
      <1>10, <1>11, <1>12, <1>13, <1>14, <1>15, <1>16, <1>17, <1>18

\* An entry in the map is that of a pinned process, or of one about to be, with
\* any number of sweeps.
THEOREM EntriesArePinned ==
    ASSUME Restorers = {}, CanQuery \subseteq {Handler}
    PROVE  Spec => []EntryMeansPinned
<1>1. Init => Sound /\ Entries
  BY InitSound, AffinityAssumption DEF Init, Entries, EntryMeansPinned, SweepersPin,
     TakenIsGone, Toggling, Capturing, Restoring, Thread
<1>2. Sound /\ Entries /\ [Next]_vars => (Sound /\ Entries)'
  BY StepSound, StepEntries
<1>3. Entries => EntryMeansPinned
  BY DEF Entries
<1> QED
  BY <1>1, <1>2, <1>3, PTL DEF Spec

-----------------------------------------------------------------------------
(* boost_foreground_only: the handler is alone.                             *)

SweepersIdle == \A s \in Sweepers : pc[s] = "idle"

\* What the handler has captured, or is about to, is the process's own mask.
Captured ==
    /\ \A p \in Pid : originalAffinity[p] # Pinned
    /\ pc[Handler] = "query" => /\ originalAffinity[subj[Handler]] = NoMask
                               /\ mask[subj[Handler]] = Own
    /\ pc[Handler] \in {"capture", "unpin"} => seen[Handler] = Own
    /\ pc[Handler] = "pin" => originalAffinity[subj[Handler]] = Own

Restorable ==
    \A p \in Pid : mask[p] = Pinned => originalAffinity[p] = Own \/ At(Handler, p, "unpin")

Unconfigured ==
    "affinity" \notin options =>
        /\ \A p \in Pid : mask[p] = Own
        /\ pc[Handler] \notin Capturing \cup Restoring

\* Before the end the handler unthrottles the process it has just made pending.
Boosting ==
    /\ pc[Handler] \in Toggling /\ ~enable[Handler] /\ ~ended => subj[Handler] = pending
    /\ pc[Handler] = "boosted" /\ pending # prev => mask[pending] = Own

\* At the end it visits every process.
Ending ==
    /\ pc[Handler] \in {"restore", "exit"} => ended
    /\ ended => pc[Handler] \in {"restore", "exit"} \cup Toggling
    /\ ended /\ pc[Handler] \in Toggling => ~enable[Handler]
    /\ ended => \A p \in Pid : \/ p \in todo[Handler]
                               \/ pc[Handler] \in Toggling /\ subj[Handler] = p
                               \/ mask[p] = Own
    /\ pc[Handler] = "exit" => todo[Handler] = {}

Alone == SweepersIdle /\ Captured /\ Restorable /\ Unconfigured /\ Boosting /\ Ending

\* Every step is then one of the handler.
LEMMA AloneCases ==
    ASSUME Restorers = {}, boostOnly, SweepersIdle, [Next]_vars
    PROVE  \/ UNCHANGED vars
           \/ /\ UNCHANGED scenario
              /\ \/ \E p \in Pid : SwitchTo(p)
                 \/ SwitchToBypassed \/ ThrottlePrevious
                 \/ StartRestore(Handler) \/ RestoreProcess(Handler)
                 \/ ForgetOriginals(Handler)
                 \/ AskBreaker(Handler) \/ SetGpuPriority(Handler)
                 \/ RecordGpuSuccess(Handler) \/ RecordGpuFailure(Handler)
                 \/ CheckTracked(Handler) \/ QueryMask(Handler) \/ CaptureMask(Handler)
                 \/ PinProcess(Handler) \/ TakeOriginal(Handler) \/ RestoreMask(Handler)
<1>1. \A s \in Sweepers, p \in Pid : ~SweepProcess(s, p)
  BY DEF SweepProcess
<1>2. ASSUME NEW t \in Thread,
             \/ StartRestore(t) \/ RestoreProcess(t) \/ ForgetOriginals(t)
             \/ AskBreaker(t) \/ SetGpuPriority(t)
             \/ RecordGpuSuccess(t) \/ RecordGpuFailure(t)
             \/ CheckTracked(t) \/ QueryMask(t) \/ CaptureMask(t)
             \/ PinProcess(t) \/ TakeOriginal(t) \/ RestoreMask(t)
      PROVE  t = Handler
  <2>1. t \in Sweepers => pc[t] = "idle" /\ ~StartRestore(t)
    BY AffinityAssumption DEF SweepersIdle, StartRestore
  <2>2. pc[t] = "idle" => StartRestore(t)
    BY <1>2 DEF RestoreProcess, ForgetOriginals, AskBreaker, SetGpuPriority,
       RecordGpuSuccess, RecordGpuFailure, CheckTracked, QueryMask, CaptureMask,
       PinProcess, TakeOriginal, RestoreMask
  <2> QED
    BY <2>1, <2>2 DEF Thread
<1> QED
  BY NextCases, <1>1, <1>2

\* If the handler is alone and may query masks, every step keeps Alone.
LEMMA StepAlone ==
    ASSUME Restorers = {}, Handler \in CanQuery, boostOnly, Sound, Alone, [Next]_vars
    PROVE  Alone'
<1> USE AffinityAssumption, SubsetOptions
    DEF Alone, Sound, LocalsOK, SharedOK, PlaceOK, Toggling, Capturing, Restoring, vars, scenario, gpu, affinity, callers, Thread, Mask
<1>1. ASSUME NEW p \in Pid, SwitchTo(p), UNCHANGED scenario PROVE Alone'
  <2>1. SweepersIdle'
    BY <1>1 DEF SwitchTo, EnterToggle, AffinityPlace, SweepersIdle
  <2>2. Captured'
    BY <1>1 DEF SwitchTo, EnterToggle, AffinityPlace, Captured,
        Restorable, At
  <2>3. Restorable'
    BY <1>1 DEF SwitchTo, EnterToggle, AffinityPlace, Restorable,
        Captured, At
  <2>4. Unconfigured'
    BY <1>1 DEF SwitchTo, EnterToggle, AffinityPlace, Unconfigured
  <2>5. Boosting'
    BY <1>1 DEF SwitchTo, EnterToggle, AffinityPlace, Boosting,
        Restorable, Captured, Unconfigured, Ending, At
  <2>6. Ending'
    BY <1>1 DEF SwitchTo, EnterToggle, AffinityPlace, Ending, Boosting,
        Restorable, Captured, Unconfigured, At
  <2> QED
    BY <2>1, <2>2, <2>3, <2>4, <2>5, <2>6 DEF Alone
<1>2. ASSUME SwitchToBypassed, UNCHANGED scenario PROVE Alone'
  <2>1. SweepersIdle'
    BY <1>2 DEF SwitchToBypassed, SweepersIdle
  <2>2. Captured'
    BY <1>2 DEF SwitchToBypassed, Captured, Restorable, At
  <2>3. Restorable'
    BY <1>2 DEF SwitchToBypassed, Restorable, Captured, At
  <2>4. Unconfigured'
    BY <1>2 DEF SwitchToBypassed, Unconfigured
  <2>5. Boosting'
    BY <1>2 DEF SwitchToBypassed, Boosting, Restorable, Captured,
        Unconfigured, Ending, At
  <2>6. Ending'
    BY <1>2 DEF SwitchToBypassed, Ending, Boosting, Restorable,
        Captured, Unconfigured, At
  <2> QED
    BY <2>1, <2>2, <2>3, <2>4, <2>5, <2>6 DEF Alone
<1>3. ASSUME ThrottlePrevious, UNCHANGED scenario PROVE Alone'
  <2>1. SweepersIdle'
    BY <1>3 DEF ThrottlePrevious, EnterToggle, AffinityPlace,
        SweepersIdle
  <2>2. Captured'
    BY <1>3 DEF ThrottlePrevious, EnterToggle, AffinityPlace, Captured,
        Restorable, At
  <2>3. Restorable'
    BY <1>3 DEF ThrottlePrevious, EnterToggle, AffinityPlace,
        Restorable, Captured, At
  <2>4. Unconfigured'
    BY <1>3 DEF ThrottlePrevious, EnterToggle, AffinityPlace,
        Unconfigured
  <2>5. Boosting'
    BY <1>3 DEF ThrottlePrevious, EnterToggle, AffinityPlace, Boosting,
        Restorable, Captured, Unconfigured, Ending, At
  <2>6. Ending'
    BY <1>3 DEF ThrottlePrevious, EnterToggle, AffinityPlace, Ending,
        Boosting, Restorable, Captured, Unconfigured, At
  <2> QED
    BY <2>1, <2>2, <2>3, <2>4, <2>5, <2>6 DEF Alone
<1>4. ASSUME StartRestore(Handler), UNCHANGED scenario PROVE Alone'
  <2>1. SweepersIdle'
    BY <1>4 DEF StartRestore, SweepersIdle
  <2>2. Captured'
    BY <1>4 DEF StartRestore, Captured, Restorable, At
  <2>3. Restorable'
    BY <1>4 DEF StartRestore, Restorable, Captured, At
  <2>4. Unconfigured'
    BY <1>4 DEF StartRestore, Unconfigured
  <2>5. Boosting'
    BY <1>4 DEF StartRestore, Boosting, Restorable, Captured,
        Unconfigured, Ending, At
  <2>6. Ending'
    BY <1>4 DEF StartRestore, Ending, Boosting, Restorable, Captured,
        Unconfigured, At
  <2> QED
    BY <2>1, <2>2, <2>3, <2>4, <2>5, <2>6 DEF Alone
<1>5. ASSUME RestoreProcess(Handler), UNCHANGED scenario PROVE Alone'
  <2>1. SweepersIdle'
    BY <1>5 DEF RestoreProcess, EnterToggle, AffinityPlace, SweepersIdle
  <2>2. Captured'
    BY <1>5 DEF RestoreProcess, EnterToggle, AffinityPlace, Captured,
        Restorable, At
  <2>3. Restorable'
    BY <1>5 DEF RestoreProcess, EnterToggle, AffinityPlace, Restorable,
        Captured, At
  <2>4. Unconfigured'
    BY <1>5 DEF RestoreProcess, EnterToggle, AffinityPlace, Unconfigured
  <2>5. Boosting'
    BY <1>5 DEF RestoreProcess, EnterToggle, AffinityPlace, Boosting,
        Restorable, Captured, Unconfigured, Ending, At
  <2>6. Ending'
    BY <1>5 DEF RestoreProcess, EnterToggle, AffinityPlace, Ending,
        Boosting, Restorable, Captured, Unconfigured, At
  <2> QED
    BY <2>1, <2>2, <2>3, <2>4, <2>5, <2>6 DEF Alone
<1>6. ASSUME ForgetOriginals(Handler), UNCHANGED scenario PROVE Alone'
  <2>1. SweepersIdle'
    BY <1>6 DEF ForgetOriginals, SweepersIdle
  <2>2. Captured'
    BY <1>6 DEF ForgetOriginals, Captured, Restorable, At
  <2>3. Restorable'
    <3>1. pc[Handler] = "restore" /\ todo[Handler] = {}
      BY <1>6 DEF ForgetOriginals
    <3>2. \A p \in Pid : mask[p] = Own
      BY <3>1 DEF Ending, Toggling, Capturing, Restoring
    <3>3. mask' = mask
      BY <1>6 DEF ForgetOriginals
    <3> QED
      BY <3>2, <3>3 DEF Restorable
  <2>4. Unconfigured'
    BY <1>6 DEF ForgetOriginals, Unconfigured
  <2>5. Boosting'
    BY <1>6 DEF ForgetOriginals, Boosting, Restorable, Captured,
        Unconfigured, Ending, At
  <2>6. Ending'
    BY <1>6 DEF ForgetOriginals, Ending, Boosting, Restorable, Captured,
        Unconfigured, At
  <2> QED
    BY <2>1, <2>2, <2>3, <2>4, <2>5, <2>6 DEF Alone
<1>7. ASSUME AskBreaker(Handler), UNCHANGED scenario PROVE Alone'
  <2>1. SweepersIdle'
    BY <1>7 DEF AskBreaker, LeaveGpu, Done, AfterToggle, AffinityPlace,
        SweepersIdle
  <2>2. Captured'
    BY <1>7 DEF AskBreaker, LeaveGpu, Done, AfterToggle, AffinityPlace,
        Captured, Restorable, At
  <2>3. Restorable'
    BY <1>7 DEF AskBreaker, LeaveGpu, Done, AfterToggle, AffinityPlace,
        Restorable, Captured, At
  <2>4. Unconfigured'
    BY <1>7 DEF AskBreaker, LeaveGpu, Done, AfterToggle, AffinityPlace,
        Unconfigured
  <2>5. Boosting'
    BY <1>7 DEF AskBreaker, LeaveGpu, Done, AfterToggle, AffinityPlace,
        Boosting, Restorable, Captured, Unconfigured, Ending, At
  <2>6. Ending'
    BY <1>7 DEF AskBreaker, LeaveGpu, Done, AfterToggle, AffinityPlace,
        Ending, Boosting, Restorable, Captured, Unconfigured, At
  <2> QED
    BY <2>1, <2>2, <2>3, <2>4, <2>5, <2>6 DEF Alone
<1>8. ASSUME SetGpuPriority(Handler), UNCHANGED scenario PROVE Alone'
  <2>1. SweepersIdle'
    BY <1>8 DEF SetGpuPriority, SweepersIdle
  <2>2. Captured'
    BY <1>8 DEF SetGpuPriority, Captured, Restorable, At
  <2>3. Restorable'
    BY <1>8 DEF SetGpuPriority, Restorable, Captured, At
  <2>4. Unconfigured'
    BY <1>8 DEF SetGpuPriority, Unconfigured
  <2>5. Boosting'
    BY <1>8 DEF SetGpuPriority, Boosting, Restorable, Captured,
        Unconfigured, Ending, At
  <2>6. Ending'
    BY <1>8 DEF SetGpuPriority, Ending, Boosting, Restorable, Captured,
        Unconfigured, At
  <2> QED
    BY <2>1, <2>2, <2>3, <2>4, <2>5, <2>6 DEF Alone
<1>9. ASSUME RecordGpuSuccess(Handler), UNCHANGED scenario PROVE Alone'
  <2>1. SweepersIdle'
    BY <1>9 DEF RecordGpuSuccess, LeaveGpu, Done, AfterToggle,
        AffinityPlace, SweepersIdle
  <2>2. Captured'
    BY <1>9 DEF RecordGpuSuccess, LeaveGpu, Done, AfterToggle,
        AffinityPlace, Captured, Restorable, At
  <2>3. Restorable'
    BY <1>9 DEF RecordGpuSuccess, LeaveGpu, Done, AfterToggle,
        AffinityPlace, Restorable, Captured, At
  <2>4. Unconfigured'
    BY <1>9 DEF RecordGpuSuccess, LeaveGpu, Done, AfterToggle,
        AffinityPlace, Unconfigured
  <2>5. Boosting'
    BY <1>9 DEF RecordGpuSuccess, LeaveGpu, Done, AfterToggle,
        AffinityPlace, Boosting, Restorable, Captured, Unconfigured,
        Ending, At
  <2>6. Ending'
    BY <1>9 DEF RecordGpuSuccess, LeaveGpu, Done, AfterToggle,
        AffinityPlace, Ending, Boosting, Restorable, Captured,
        Unconfigured, At
  <2> QED
    BY <2>1, <2>2, <2>3, <2>4, <2>5, <2>6 DEF Alone
<1>10. ASSUME RecordGpuFailure(Handler), UNCHANGED scenario PROVE Alone'
  <2>1. SweepersIdle'
    BY <1>10 DEF RecordGpuFailure, LeaveGpu, Done, AfterToggle,
        AffinityPlace, SweepersIdle
  <2>2. Captured'
    BY <1>10 DEF RecordGpuFailure, LeaveGpu, Done, AfterToggle,
        AffinityPlace, Captured, Restorable, At
  <2>3. Restorable'
    BY <1>10 DEF RecordGpuFailure, LeaveGpu, Done, AfterToggle,
        AffinityPlace, Restorable, Captured, At
  <2>4. Unconfigured'
    BY <1>10 DEF RecordGpuFailure, LeaveGpu, Done, AfterToggle,
        AffinityPlace, Unconfigured
  <2>5. Boosting'
    BY <1>10 DEF RecordGpuFailure, LeaveGpu, Done, AfterToggle,
        AffinityPlace, Boosting, Restorable, Captured, Unconfigured,
        Ending, At
  <2>6. Ending'
    BY <1>10 DEF RecordGpuFailure, LeaveGpu, Done, AfterToggle,
        AffinityPlace, Ending, Boosting, Restorable, Captured,
        Unconfigured, At
  <2> QED
    BY <2>1, <2>2, <2>3, <2>4, <2>5, <2>6 DEF Alone
<1>11. ASSUME CheckTracked(Handler), UNCHANGED scenario PROVE Alone'
  <2>1. SweepersIdle'
    BY <1>11 DEF CheckTracked, SweepersIdle
  <2>2. Captured'
    BY <1>11 DEF CheckTracked, Captured, Restorable, At
  <2>3. Restorable'
    BY <1>11 DEF CheckTracked, Restorable, Captured, At
  <2>4. Unconfigured'
    BY <1>11 DEF CheckTracked, Unconfigured
  <2>5. Boosting'
    BY <1>11 DEF CheckTracked, Boosting, Restorable, Captured,
        Unconfigured, Ending, At
  <2>6. Ending'
    BY <1>11 DEF CheckTracked, Ending, Boosting, Restorable, Captured,
        Unconfigured, At
  <2> QED
    BY <2>1, <2>2, <2>3, <2>4, <2>5, <2>6 DEF Alone
<1>12. ASSUME QueryMask(Handler), UNCHANGED scenario PROVE Alone'
  <2>1. SweepersIdle'
    BY <1>12 DEF QueryMask, SweepersIdle
  <2>2. Captured'
    BY <1>12 DEF QueryMask, Captured, Restorable, At
  <2>3. Restorable'
    BY <1>12 DEF QueryMask, Restorable, Captured, At
  <2>4. Unconfigured'
    BY <1>12 DEF QueryMask, Unconfigured
  <2>5. Boosting'
    BY <1>12 DEF QueryMask, Boosting, Restorable, Captured,
        Unconfigured, Ending, At
  <2>6. Ending'
    BY <1>12 DEF QueryMask, Ending, Boosting, Restorable, Captured,
        Unconfigured, At
  <2> QED
    BY <2>1, <2>2, <2>3, <2>4, <2>5, <2>6 DEF Alone
<1>13. ASSUME CaptureMask(Handler), UNCHANGED scenario PROVE Alone'
  <2>1. SweepersIdle'
    BY <1>13 DEF CaptureMask, SweepersIdle
  <2>2. Captured'
    BY <1>13 DEF CaptureMask, Captured, Restorable, At
  <2>3. Restorable'
    BY <1>13 DEF CaptureMask, Restorable, Captured, At
  <2>4. Unconfigured'
    BY <1>13 DEF CaptureMask, Unconfigured
  <2>5. Boosting'
    BY <1>13 DEF CaptureMask, Boosting, Restorable, Captured,
        Unconfigured, Ending, At
  <2>6. Ending'
    BY <1>13 DEF CaptureMask, Ending, Boosting, Restorable, Captured,
        Unconfigured, At
  <2> QED
    BY <2>1, <2>2, <2>3, <2>4, <2>5, <2>6 DEF Alone
<1>14. ASSUME PinProcess(Handler), UNCHANGED scenario PROVE Alone'
  <2>1. SweepersIdle'
    BY <1>14 DEF PinProcess, Done, AfterToggle, SweepersIdle
  <2>2. Captured'
    BY <1>14 DEF PinProcess, Done, AfterToggle, Captured, Restorable, At
  <2>3. Restorable'
    BY <1>14 DEF PinProcess, Done, AfterToggle, Restorable, Captured, At
  <2>4. Unconfigured'
    BY <1>14 DEF PinProcess, Done, AfterToggle, Unconfigured
  <2>5. Boosting'
    BY <1>14 DEF PinProcess, Done, AfterToggle, Boosting, Restorable,
        Captured, Unconfigured, Ending, At
  <2>6. Ending'
    BY <1>14 DEF PinProcess, Done, AfterToggle, Ending, Boosting,
        Restorable, Captured, Unconfigured, At
  <2> QED
    BY <2>1, <2>2, <2>3, <2>4, <2>5, <2>6 DEF Alone
<1>15. ASSUME TakeOriginal(Handler), UNCHANGED scenario PROVE Alone'
  <2>1. SweepersIdle'
    BY <1>15 DEF TakeOriginal, Done, AfterToggle, SweepersIdle
  <2>2. Captured'
    BY <1>15 DEF TakeOriginal, Done, AfterToggle, Captured, Restorable,
        At
  <2>3. Restorable'
    BY <1>15 DEF TakeOriginal, Done, AfterToggle, Restorable, Captured,
        At
  <2>4. Unconfigured'
    BY <1>15 DEF TakeOriginal, Done, AfterToggle, Unconfigured
  <2>5. Boosting'
    BY <1>15 DEF TakeOriginal, Done, AfterToggle, Boosting, Restorable,
        Captured, Unconfigured, Ending, At
  <2>6. Ending'
    BY <1>15 DEF TakeOriginal, Done, AfterToggle, Ending, Boosting,
        Restorable, Captured, Unconfigured, At
  <2> QED
    BY <2>1, <2>2, <2>3, <2>4, <2>5, <2>6 DEF Alone
<1>16. ASSUME RestoreMask(Handler), UNCHANGED scenario PROVE Alone'
  <2>1. SweepersIdle'
    BY <1>16 DEF RestoreMask, Done, AfterToggle, SweepersIdle
  <2>2. Captured'
    BY <1>16 DEF RestoreMask, Done, AfterToggle, Captured, Restorable,
        At
  <2>3. Restorable'
    BY <1>16 DEF RestoreMask, Done, AfterToggle, Restorable, Captured,
        At
  <2>4. Unconfigured'
    BY <1>16 DEF RestoreMask, Done, AfterToggle, Unconfigured
  <2>5. Boosting'
    BY <1>16 DEF RestoreMask, Done, AfterToggle, Boosting, Restorable,
        Captured, Unconfigured, Ending, At
  <2>6. Ending'
    BY <1>16 DEF RestoreMask, Done, AfterToggle, Ending, Boosting,
        Restorable, Captured, Unconfigured, At
  <2> QED
    BY <2>1, <2>2, <2>3, <2>4, <2>5, <2>6 DEF Alone
<1>17. CASE UNCHANGED vars
  BY <1>17 DEF SweepersIdle, Captured, Restorable, At, Restorable,
      Captured, At, Unconfigured, Boosting, Restorable, Captured,
      Unconfigured, Ending, At, Ending, Boosting, Restorable, Captured,
      Unconfigured, At, Alone
<1> QED
  BY AloneCases, <1>1, <1>2, <1>3, <1>4, <1>5, <1>6, <1>7, <1>8, <1>9,
      <1>10, <1>11, <1>12, <1>13, <1>14, <1>15, <1>16, <1>17

\* The runs without sweeps stay in Alone.
LEMMA AloneInvariant ==
    ASSUME Restorers = {}, Handler \in CanQuery
    PROVE  Spec => [](Sound /\ (boostOnly => Alone))
<1>1. Init => Sound /\ (boostOnly => Alone)
  <2> SUFFICES ASSUME Init PROVE Alone
    BY InitSound
  <2> USE AffinityAssumption DEF Init, Toggling, Capturing, Restoring, Thread, Mask
  <2>1. SweepersIdle /\ Captured /\ Restorable
    BY DEF SweepersIdle, Captured, Restorable
  <2>2. Unconfigured /\ Boosting /\ Ending
    BY DEF Unconfigured, Boosting, Ending
  <2> QED
    BY <2>1, <2>2 DEF Alone
<1>2. Sound /\ (boostOnly => Alone) /\ [Next]_vars => (Sound /\ (boostOnly => Alone))'
  <2> SUFFICES ASSUME Sound, boostOnly => Alone, [Next]_vars
               PROVE  (Sound /\ (boostOnly => Alone))'
    OBVIOUS
  <2>1. UNCHANGED boostOnly
    BY NextCases DEF vars, scenario
  <2> QED
    BY <2>1, StepSound, StepAlone
<1> QED
  BY <1>1, <1>2, PTL DEF Spec

\* Without sweeps the map holds only masks the processes had of their own.
THEOREM OriginalsAreOwn ==
    ASSUME Restorers = {}, Handler \in CanQuery
    PROVE  Spec => []OriginalIsOwn
<1>1. Sound /\ (boostOnly => Alone) => OriginalIsOwn
  BY AffinityAssumption DEF OriginalIsOwn, Alone, Captured
<1> QED
  BY <1>1, AloneInvariant, PTL

\* Without sweeps every pinned process can be given its mask back.
THEOREM PinnedAreRestorable ==
    ASSUME Restorers = {}, Handler \in CanQuery
    PROVE  Spec => []PinnedIsRestorable
<1>1. Sound /\ (boostOnly => Alone) => PinnedIsRestorable
  BY AffinityAssumption DEF PinnedIsRestorable, Alone, Captured, Restorable, At, Thread
<1> QED
  BY <1>1, AloneInvariant, PTL

\* Without sweeps a process that has been boosted runs on all its processors.
THEOREM ForegroundIsUnpinned ==
    ASSUME Restorers = {}, Handler \in CanQuery
    PROVE  Spec => []ForegroundUnpinned
<1>1. Sound /\ (boostOnly => Alone) => ForegroundUnpinned
  BY AffinityAssumption DEF ForegroundUnpinned, Alone, Boosting
<1> QED
  BY <1>1, AloneInvariant, PTL

\* Without sweeps no process is left pinned when the program has exited.
THEOREM ExitIsUnpinned ==
    ASSUME Restorers = {}, Handler \in CanQuery
    PROVE  Spec => []ExitUnpinned
<1>1. Sound /\ (boostOnly => Alone) => ExitUnpinned
  BY AffinityAssumption DEF ExitUnpinned, Alone, Ending, Toggling, Capturing, Restoring
<1> QED
  BY <1>1, AloneInvariant, PTL

-----------------------------------------------------------------------------
(* The circuit breaker.                                                     *)

\* The goroutines that asked the breaker and may yet report a failure.
Attempts == {t \in Thread : pc[t] \in {"gpuSet", "gpuFailed"}}

\* BreakerStops bounds the count; for the next step it takes who may still
\* raise it: once the breaker is open, each attempt under way, and no other.
Breaker ==
    /\ gpuSupported => gpuFailureCount < MaxFailures
    /\ ~gpuSupported =>
          gpuFailureCount + Cardinality(Attempts) < MaxFailures + Cardinality(Thread)

\* With finitely many goroutines, sets of them can be counted.
LEMMA AttemptsCounted ==
    ASSUME IsFiniteSet(Thread)
    PROVE  /\ Cardinality(Thread) \in Nat /\ IsFiniteSet(Attempts)
           /\ Cardinality(Attempts) \in 0..Cardinality(Thread)
<1>1. Attempts \subseteq Thread
  BY DEF Attempts
<1> QED
  BY <1>1, FS_Subset, FS_CardinalityType

\* Only who asks a closed breaker joins the attempts.
LEMMA AttemptsShrink ==
    ASSUME Sound, [Next]_vars, ~gpuSupported
    PROVE  Attempts' \subseteq Attempts
<1> SUFFICES ASSUME NEW u \in Thread, pc'[u] \in {"gpuSet", "gpuFailed"}
             PROVE  pc[u] \in {"gpuSet", "gpuFailed"}
  BY DEF Attempts
<1> USE AffinityAssumption
    DEF Sound, LocalsOK, SharedOK, Toggling, Capturing, Restoring,
        vars, scenario, gpu, affinity, callers, Thread
<1>1. ASSUME NEW p \in Pid, SwitchTo(p) PROVE pc[u] \in {"gpuSet", "gpuFailed"}
  BY <1>1 DEF SwitchTo, EnterToggle, AffinityPlace
<1>2. ASSUME SwitchToBypassed PROVE pc[u] \in {"gpuSet", "gpuFailed"}
  BY <1>2 DEF SwitchToBypassed
<1>3. ASSUME ThrottlePrevious PROVE pc[u] \in {"gpuSet", "gpuFailed"}
  BY <1>3 DEF ThrottlePrevious, EnterToggle, AffinityPlace
<1>4. ASSUME NEW s \in Sweepers, NEW p \in Pid, SweepProcess(s, p) PROVE pc[u] \in {"gpuSet", "gpuFailed"}
  BY <1>4 DEF SweepProcess, EnterToggle, AffinityPlace
<1>5. ASSUME NEW t \in Thread, StartRestore(t) PROVE pc[u] \in {"gpuSet", "gpuFailed"}
  BY <1>5 DEF StartRestore
<1>6. ASSUME NEW t \in Thread, RestoreProcess(t) PROVE pc[u] \in {"gpuSet", "gpuFailed"}
  BY <1>6 DEF RestoreProcess, EnterToggle, AffinityPlace
<1>7. ASSUME NEW t \in Thread, ForgetOriginals(t) PROVE pc[u] \in {"gpuSet", "gpuFailed"}
  BY <1>7 DEF ForgetOriginals
<1>8. ASSUME NEW t \in Thread, AskBreaker(t) PROVE pc[u] \in {"gpuSet", "gpuFailed"}
  BY <1>8 DEF AskBreaker, LeaveGpu, Done, AfterToggle, AffinityPlace
<1>9. ASSUME NEW t \in Thread, SetGpuPriority(t) PROVE pc[u] \in {"gpuSet", "gpuFailed"}
  BY <1>9 DEF SetGpuPriority
<1>10. ASSUME NEW t \in Thread, RecordGpuSuccess(t) PROVE pc[u] \in {"gpuSet", "gpuFailed"}
  BY <1>10 DEF RecordGpuSuccess, LeaveGpu, Done, AfterToggle,
      AffinityPlace
<1>11. ASSUME NEW t \in Thread, RecordGpuFailure(t) PROVE pc[u] \in {"gpuSet", "gpuFailed"}
  BY <1>11 DEF RecordGpuFailure, LeaveGpu, Done, AfterToggle,
      AffinityPlace
<1>12. ASSUME NEW t \in Thread, CheckTracked(t) PROVE pc[u] \in {"gpuSet", "gpuFailed"}
  BY <1>12 DEF CheckTracked
<1>13. ASSUME NEW t \in Thread, QueryMask(t) PROVE pc[u] \in {"gpuSet", "gpuFailed"}
  BY <1>13 DEF QueryMask
<1>14. ASSUME NEW t \in Thread, CaptureMask(t) PROVE pc[u] \in {"gpuSet", "gpuFailed"}
  BY <1>14 DEF CaptureMask
<1>15. ASSUME NEW t \in Thread, PinProcess(t) PROVE pc[u] \in {"gpuSet", "gpuFailed"}
  BY <1>15 DEF PinProcess, Done, AfterToggle
<1>16. ASSUME NEW t \in Thread, TakeOriginal(t) PROVE pc[u] \in {"gpuSet", "gpuFailed"}
  BY <1>16 DEF TakeOriginal, Done, AfterToggle
<1>17. ASSUME NEW t \in Thread, RestoreMask(t) PROVE pc[u] \in {"gpuSet", "gpuFailed"}
  BY <1>17 DEF RestoreMask, Done, AfterToggle
<1>18. CASE UNCHANGED vars
  BY <1>18
<1> QED
  BY NextCases, <1>1, <1>2, <1>3, <1>4, <1>5, <1>6, <1>7, <1>8, <1>9,
      <1>10, <1>11, <1>12, <1>13, <1>14, <1>15, <1>16, <1>17, <1>18

\* Apart from the two that report a result, no step moves the breaker.
LEMMA BreakerKept ==
    ASSUME [Next]_vars,
           \A t \in Thread : ~RecordGpuSuccess(t) /\ ~RecordGpuFailure(t)
    PROVE  UNCHANGED <<gpuSupported, gpuFailureCount>>
<1> USE DEF vars, gpu
<1>1. ASSUME NEW p \in Pid, SwitchTo(p) PROVE UNCHANGED <<gpuSupported, gpuFailureCount>>
  BY <1>1 DEF SwitchTo
<1>2. ASSUME SwitchToBypassed PROVE UNCHANGED <<gpuSupported, gpuFailureCount>>
  BY <1>2 DEF SwitchToBypassed
<1>3. ASSUME ThrottlePrevious PROVE UNCHANGED <<gpuSupported, gpuFailureCount>>
  BY <1>3 DEF ThrottlePrevious
<1>4. ASSUME NEW s \in Sweepers, NEW p \in Pid, SweepProcess(s, p) PROVE UNCHANGED <<gpuSupported, gpuFailureCount>>
  BY <1>4 DEF SweepProcess
<1>5. ASSUME NEW t \in Thread, StartRestore(t) PROVE UNCHANGED <<gpuSupported, gpuFailureCount>>
  BY <1>5 DEF StartRestore
<1>6. ASSUME NEW t \in Thread, RestoreProcess(t) PROVE UNCHANGED <<gpuSupported, gpuFailureCount>>
  BY <1>6 DEF RestoreProcess
<1>7. ASSUME NEW t \in Thread, ForgetOriginals(t) PROVE UNCHANGED <<gpuSupported, gpuFailureCount>>
  BY <1>7 DEF ForgetOriginals
<1>8. ASSUME NEW t \in Thread, AskBreaker(t) PROVE UNCHANGED <<gpuSupported, gpuFailureCount>>
  BY <1>8 DEF AskBreaker
<1>9. ASSUME NEW t \in Thread, SetGpuPriority(t) PROVE UNCHANGED <<gpuSupported, gpuFailureCount>>
  BY <1>9 DEF SetGpuPriority
<1>10. ASSUME NEW t \in Thread, CheckTracked(t) PROVE UNCHANGED <<gpuSupported, gpuFailureCount>>
  BY <1>10 DEF CheckTracked
<1>11. ASSUME NEW t \in Thread, QueryMask(t) PROVE UNCHANGED <<gpuSupported, gpuFailureCount>>
  BY <1>11 DEF QueryMask
<1>12. ASSUME NEW t \in Thread, CaptureMask(t) PROVE UNCHANGED <<gpuSupported, gpuFailureCount>>
  BY <1>12 DEF CaptureMask
<1>13. ASSUME NEW t \in Thread, PinProcess(t) PROVE UNCHANGED <<gpuSupported, gpuFailureCount>>
  BY <1>13 DEF PinProcess
<1>14. ASSUME NEW t \in Thread, TakeOriginal(t) PROVE UNCHANGED <<gpuSupported, gpuFailureCount>>
  BY <1>14 DEF TakeOriginal
<1>15. ASSUME NEW t \in Thread, RestoreMask(t) PROVE UNCHANGED <<gpuSupported, gpuFailureCount>>
  BY <1>15 DEF RestoreMask
<1>16. CASE UNCHANGED vars
  BY <1>16
<1> QED
  BY NextCases, <1>1, <1>2, <1>3, <1>4, <1>5, <1>6, <1>7, <1>8, <1>9,
      <1>10, <1>11, <1>12, <1>13, <1>14, <1>15, <1>16

\* Every step keeps Breaker: an attempt that fails leaves the attempts when it
\* raises the count, and one that succeeds resets the count.
LEMMA StepBreaker ==
    ASSUME IsFiniteSet(Thread), Sound, Breaker, [Next]_vars
    PROVE  Breaker'
<1> USE AffinityAssumption, AttemptsCounted
<1>0. /\ gpuFailureCount \in Nat /\ gpuSupported \in BOOLEAN /\ MaxFailures \in Nat \ {0}
      /\ pc \in [Thread -> {"idle", "boosted", "restore", "exit"} \cup Toggling]
      /\ Cardinality(Attempts') \in 0..Cardinality(Thread) /\ IsFiniteSet(Attempts')
  <2>1. Attempts' \subseteq Thread
    BY DEF Attempts
  <2>2. IsFiniteSet(Attempts') /\ Cardinality(Attempts') \in 0..Cardinality(Thread)
    BY <2>1, FS_Subset, FS_CardinalityType
  <2> QED
    BY <2>2 DEF Sound, SharedOK, LocalsOK
<1>1. ASSUME NEW t \in Thread, RecordGpuFailure(t) PROVE Breaker'
  <2>1. /\ gpuFailureCount' = gpuFailureCount + 1
        /\ gpuSupported' = (gpuSupported /\ gpuFailureCount' < MaxFailures)
        /\ t \in Attempts
    BY <1>1 DEF RecordGpuFailure, Attempts
  <2>2. t \notin Attempts'
    BY <1>0, <1>1 DEF RecordGpuFailure, LeaveGpu, Done, AfterToggle, AffinityPlace,
       Attempts
  <2>3. CASE gpuSupported
    <3>1. Attempts' \subseteq Thread \ {t}
      BY <2>2 DEF Attempts
    <3>2. Cardinality(Attempts') <= Cardinality(Thread) - 1
      BY <3>1, FS_Subset, FS_RemoveElement, FS_CardinalityType
    <3>3. gpuFailureCount' <= MaxFailures
      BY <1>0, <2>1, <2>3 DEF Breaker
    <3>4. gpuFailureCount' + Cardinality(Attempts') < MaxFailures + Cardinality(Thread)
      BY <1>0, <2>1, <3>2, <3>3
    <3>5. gpuSupported' => gpuFailureCount' < MaxFailures
      BY <2>1
    <3> QED
      BY <3>4, <3>5 DEF Breaker
  <2>4. CASE ~gpuSupported
    <3>1. Attempts' \subseteq Attempts \ {t}
      BY <2>2, <2>4, AttemptsShrink
    <3>2. Cardinality(Attempts') <= Cardinality(Attempts) - 1
      BY <2>1, <3>1, FS_Subset, FS_RemoveElement, FS_CardinalityType
    <3> QED
      BY <1>0, <2>1, <2>4, <3>2 DEF Breaker
  <2> QED
    BY <2>3, <2>4
<1>2. ASSUME NEW t \in Thread, RecordGpuSuccess(t) PROVE Breaker'
  BY <1>0, <1>2 DEF RecordGpuSuccess, Breaker
<1>3. ASSUME \A t \in Thread : ~RecordGpuSuccess(t) /\ ~RecordGpuFailure(t)
      PROVE  Breaker'
  <2>1. UNCHANGED <<gpuSupported, gpuFailureCount>>
    BY <1>3, BreakerKept
  <2>2. ~gpuSupported => Cardinality(Attempts') <= Cardinality(Attempts)
    BY AttemptsShrink, FS_Subset
  <2> QED
    BY <1>0, <2>1, <2>2 DEF Breaker
<1> QED
  BY <1>1, <1>2, <1>3

\* The count of failures stays below the limit and one for each goroutine,
\* however the attempts of any number of goroutines overlap.
THEOREM BreakerHolds ==
    ASSUME IsFiniteSet(Thread)
    PROVE  Spec => []BreakerStops
<1>1. Init => Sound /\ Breaker
  BY InitSound, AffinityAssumption DEF Init, Breaker
<1>2. Sound /\ Breaker /\ [Next]_vars => (Sound /\ Breaker)'
  BY StepSound, StepBreaker
<1>3. Sound /\ Breaker => BreakerStops
  <2> SUFFICES ASSUME Sound, Breaker PROVE BreakerStops
    OBVIOUS
  <2>1. Handler \in Thread /\ Cardinality(Thread) # 0
    BY FS_EmptySet DEF Thread
  <2>2. gpuFailureCount \in Nat /\ MaxFailures \in Nat
    BY AffinityAssumption DEF Sound, SharedOK
  <2> QED
    BY <2>1, <2>2, AttemptsCounted DEF Breaker, BreakerStops
<1> QED
  BY <1>1, <1>2, <1>3, PTL DEF Spec

-----------------------------------------------------------------------------
(* The GPU priority in boost_foreground_only mode.                          *)

\* Processes that would take the normal priority and have the idle one.
Idle == idleGpu \ Refusing

\* GpuRestored says what holds after a toggle and at the end.  For the way
\* there: past SetGpuPriority the process at hand has its priority, and at the
\* end each process is still on the list or at hand before it.
GpuFollows ==
    gpuSupported =>
        /\ "gpu" \notin options =>
              idleGpu = {} /\ pc[Handler] \notin {"gpu", "gpuSet", "gpuSucceeded", "gpuFailed"}
        /\ pc[Handler] = "gpuFailed" => subj[Handler] \in Refusing
        /\ pc[Handler] \in Toggling \ {"gpu", "gpuSet"} /\ ~enable[Handler] =>
              subj[Handler] \notin Idle
        /\ pc[Handler] = "boosted" /\ pending # prev => pending \notin Idle
        /\ ended => \A p \in Idle :
              \/ p \in todo[Handler]
              \/ subj[Handler] = p /\ pc[Handler] \in {"gpu", "gpuSet"}

\* If the handler is alone, every step keeps GpuFollows.
LEMMA StepGpu ==
    ASSUME Restorers = {}, boostOnly, Sound, Alone, GpuFollows, [Next]_vars
    PROVE  GpuFollows'
<1> USE AffinityAssumption, SubsetOptions
    DEF Alone, Boosting, Ending, Sound, LocalsOK, SharedOK, PlaceOK, Idle, GpuFollows,
        Toggling, Capturing, Restoring, vars, scenario, gpu, affinity, callers, Thread
<1>1. ASSUME NEW p \in Pid, SwitchTo(p), UNCHANGED scenario PROVE GpuFollows'
  BY <1>1 DEF SwitchTo, EnterToggle, AffinityPlace
<1>2. ASSUME SwitchToBypassed, UNCHANGED scenario PROVE GpuFollows'
  BY <1>2 DEF SwitchToBypassed
<1>3. ASSUME ThrottlePrevious, UNCHANGED scenario PROVE GpuFollows'
  BY <1>3 DEF ThrottlePrevious, EnterToggle, AffinityPlace
<1>4. ASSUME StartRestore(Handler), UNCHANGED scenario PROVE GpuFollows'
  BY <1>4 DEF StartRestore
<1>5. ASSUME RestoreProcess(Handler), UNCHANGED scenario PROVE GpuFollows'
  BY <1>5 DEF RestoreProcess, EnterToggle, AffinityPlace
<1>6. ASSUME ForgetOriginals(Handler), UNCHANGED scenario PROVE GpuFollows'
  BY <1>6 DEF ForgetOriginals
<1>7. ASSUME AskBreaker(Handler), UNCHANGED scenario PROVE GpuFollows'
  BY <1>7 DEF AskBreaker, LeaveGpu, Done, AfterToggle, AffinityPlace
<1>8. ASSUME SetGpuPriority(Handler), UNCHANGED scenario PROVE GpuFollows'
  BY <1>8 DEF SetGpuPriority
<1>9. ASSUME RecordGpuSuccess(Handler), UNCHANGED scenario PROVE GpuFollows'
  BY <1>9 DEF RecordGpuSuccess, LeaveGpu, Done, AfterToggle, AffinityPlace
<1>10. ASSUME RecordGpuFailure(Handler), UNCHANGED scenario PROVE GpuFollows'
  BY <1>10 DEF RecordGpuFailure, LeaveGpu, Done, AfterToggle,
      AffinityPlace
<1>11. ASSUME CheckTracked(Handler), UNCHANGED scenario PROVE GpuFollows'
  BY <1>11 DEF CheckTracked
<1>12. ASSUME QueryMask(Handler), UNCHANGED scenario PROVE GpuFollows'
  BY <1>12 DEF QueryMask
<1>13. ASSUME CaptureMask(Handler), UNCHANGED scenario PROVE GpuFollows'
  BY <1>13 DEF CaptureMask
<1>14. ASSUME PinProcess(Handler), UNCHANGED scenario PROVE GpuFollows'
  BY <1>14 DEF PinProcess, Done, AfterToggle
<1>15. ASSUME TakeOriginal(Handler), UNCHANGED scenario PROVE GpuFollows'
  BY <1>15 DEF TakeOriginal, Done, AfterToggle
<1>16. ASSUME RestoreMask(Handler), UNCHANGED scenario PROVE GpuFollows'
  BY <1>16 DEF RestoreMask, Done, AfterToggle
<1>17. CASE UNCHANGED vars
  BY <1>17
<1> QED
  BY AloneCases, <1>1, <1>2, <1>3, <1>4, <1>5, <1>6, <1>7, <1>8, <1>9,
      <1>10, <1>11, <1>12, <1>13, <1>14, <1>15, <1>16, <1>17

\* Without sweeps, and as long as the breaker is closed, a process that takes
\* its normal GPU priority has it when it has been boosted and at the exit.
THEOREM GpuIsRestored ==
    ASSUME Restorers = {}, Handler \in CanQuery
    PROVE  Spec => []GpuRestored
<1>1. Init => (boostOnly => GpuFollows)
  BY AffinityAssumption DEF Init, GpuFollows, Idle, Toggling, Thread
<1>2. Sound /\ (boostOnly => Alone) /\ (boostOnly => GpuFollows) /\ [Next]_vars
        => (boostOnly => GpuFollows)'
  <2> SUFFICES ASSUME Sound, boostOnly => Alone, boostOnly => GpuFollows, [Next]_vars
               PROVE  (boostOnly => GpuFollows)'
    OBVIOUS
  <2>1. UNCHANGED boostOnly
    BY NextCases DEF vars, scenario
  <2> QED
    BY <2>1, StepGpu
<1>3. (boostOnly => Alone) /\ (boostOnly => GpuFollows) => GpuRestored
  BY DEF GpuRestored, GpuFollows, Alone, Ending, Idle
<1> QED
  BY <1>1, <1>2, <1>3, AloneInvariant, PTL DEF Spec

=============================================================================
