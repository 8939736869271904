---------------------------- MODULE ToggleOptions ---------------------------
(***************************************************************************)
(* What toggleEfficiencyMode does if the configuration asks for it, after    *)
(* the calls of ThrottleEngine:                                             *)
(*  - gpu_throttling: a throttled process gets the idle GPU priority, until  *)
(*    a circuit breaker has counted too many refused calls in a row;         *)
(*  - throttled_affinity_mask: a throttled process is pinned to that mask,  *)
(*    and the mask it had before is kept in originalAffinity until it is     *)
(*    boosted.                                                              *)
(*                                                                         *)
(* ThrottleEngine decides which process is toggled when; here the callers    *)
(* are reduced to what they pass: the foreground handler unthrottles the     *)
(* new and throttles the previous process, a sweep throttles any other       *)
(* process, a restore (at exit by the goroutine of the handler, before that  *)
(* from the tray) unthrottles the processes and clears the map.             *)
(***************************************************************************)
EXTENDS Naturals, FiniteSets

CONSTANTS
    Pid,        \* processes
    Handler,    \* the goroutine of the foreground handler
    Sweepers,   \* goroutines of ThrottleAllUserBackgroundProcesses
    Restorers,  \* goroutines of RestoreAllProcesses
    CanQuery,   \* goroutines whose process handles allow reading the mask
    Options,    \* the sets of options a configuration may turn on
    Refusing,   \* processes whose GPU priority may not be settable
    MaxFailures, \* the breaker opens at so many failures (12)
    Own,        \* the mask a process has of its own
    Pinned,     \* the configured mask
    NoPid, NoMask

Thread == {Handler} \cup Sweepers \cup Restorers
Mask == {Own, Pinned}

ASSUME AffinityAssumption ==
    /\ Handler \notin Sweepers /\ Handler \notin Restorers
    /\ Sweepers \cap Restorers = {}
    /\ CanQuery \subseteq Thread
    /\ Options \subseteq SUBSET {"gpu", "affinity"} /\ {} \notin Options
    /\ Refusing \subseteq Pid /\ MaxFailures \in Nat \ {0}
    /\ Own # Pinned /\ NoMask \notin Mask /\ NoPid \notin Pid

VARIABLES
    boostOnly,        \* boost_foreground_only: the configuration has no sweeps
    options,          \* the options of the configuration
    idleGpu,          \* Windows: processes of the idle GPU priority
    gpuSupported,     \* whether the breaker is closed
    gpuFailureCount,
    mask,             \* Windows: the affinity mask of each process
    originalAffinity, \* [Pid -> captured mask, or NoMask]
    pending,          \* the foreground process
    prev,             \* the handler: the process to throttle next
    ended,            \* whether the message loop of the handler has ended
    todo,             \* each goroutine: processes it has yet to restore
    pc, subj,         \* each goroutine: its place, and the process it toggles
    enable,           \* ... whether it throttles it
    seen              \* each goroutine: the mask it has read

scenario == <<boostOnly, options>>
gpu == <<idleGpu, gpuSupported, gpuFailureCount>>
affinity == <<mask, originalAffinity>>
callers == <<pending, prev, ended, todo>>
vars == <<scenario, gpu, affinity, callers, pc, subj, enable, seen>>

Init ==
    /\ boostOnly \in BOOLEAN /\ options \in Options
    /\ idleGpu = {} /\ gpuSupported = TRUE /\ gpuFailureCount = 0
    /\ mask = [p \in Pid |-> Own]
    /\ originalAffinity = [p \in Pid |-> NoMask]
    /\ pending = NoPid /\ prev = NoPid /\ ended = FALSE
    /\ todo = [t \in Thread |-> {}]
    /\ pc = [t \in Thread |-> "idle"]
    /\ subj = [t \in Thread |-> NoPid]
    /\ enable = [t \in Thread |-> FALSE]
    /\ seen = [t \in Thread |-> NoMask]

-----------------------------------------------------------------------------
(* The callers.                                                             *)

AffinityPlace(on) == IF on THEN "check" ELSE "take"

\* t calls toggleEfficiencyMode for p.
EnterToggle(t, p, on) ==
    /\ pc' = [pc EXCEPT ![t] = IF "gpu" \in options THEN "gpu" ELSE AffinityPlace(on)]
    /\ subj' = [subj EXCEPT ![t] = p]
    /\ enable' = [enable EXCEPT ![t] = on]

AfterToggle(t, on) ==
    IF on THEN "idle" ELSE IF t = Handler /\ ~ended THEN "boosted" ELSE "restore"

\* toggleEfficiencyMode returns to its caller.
Done(t) ==
    /\ pc' = [pc EXCEPT ![t] = AfterToggle(t, enable[t])]
    /\ subj' = [subj EXCEPT ![t] = NoPid]
    /\ seen' = [seen EXCEPT ![t] = NoMask]
    /\ enable' = [enable EXCEPT ![t] = FALSE]

\* The user switches to p: it is unthrottled first.
SwitchTo(p) ==
    /\ pc[Handler] = "idle" /\ ~ended /\ p # pending
    /\ prev' = pending
    /\ pending' = p
    /\ EnterToggle(Handler, p, FALSE)
    /\ UNCHANGED <<gpu, affinity, ended, todo, seen>>

\* The user switches to a bypassed process: it is left alone, the pending
\* process is throttled and stays the pending one.
SwitchToBypassed ==
    /\ pc[Handler] = "idle" /\ ~ended /\ pending # NoPid
    /\ prev' = pending
    /\ pc' = [pc EXCEPT ![Handler] = "boosted"]
    /\ UNCHANGED <<gpu, affinity, pending, ended, todo, subj, enable, seen>>

\* The previous foreground process is throttled next.
ThrottlePrevious ==
    /\ pc[Handler] = "boosted"
    /\ IF prev = NoPid
       THEN pc' = [pc EXCEPT ![Handler] = "idle"] /\ UNCHANGED <<subj, enable>>
       ELSE EnterToggle(Handler, prev, TRUE)
    /\ prev' = NoPid
    /\ UNCHANGED <<gpu, affinity, pending, ended, todo, seen>>

SweepProcess(s, p) ==
    /\ ~boostOnly
    /\ pc[s] = "idle" /\ p # pending
    /\ EnterToggle(s, p, TRUE)
    /\ UNCHANGED <<gpu, affinity, callers, seen>>

\* RestoreAllProcesses. Which processes are throttled is ThrottleEngine's: here
\* all are unthrottled, which one that is not pinned does not notice.
StartRestore(r) ==
    /\ r \in Restorers \cup {Handler} /\ pc[r] = "idle" /\ ~ended
    /\ ended' = (r = Handler)
    /\ todo' = [todo EXCEPT ![r] = Pid]
    /\ pc' = [pc EXCEPT ![r] = "restore"]
    /\ UNCHANGED <<gpu, affinity, pending, prev, subj, enable, seen>>

RestoreProcess(r) ==
    /\ pc[r] = "restore"
    /\ \E p \in todo[r] :
        /\ todo' = [todo EXCEPT ![r] = @ \ {p}]
        /\ EnterToggle(r, p, FALSE)
    /\ UNCHANGED <<gpu, affinity, pending, prev, ended, seen>>

ForgetOriginals(r) ==
    /\ pc[r] = "restore" /\ todo[r] = {}
    /\ originalAffinity' = [p \in Pid |-> NoMask]
    /\ pc' = [pc EXCEPT ![r] = IF r = Handler THEN "exit" ELSE "idle"]
    /\ UNCHANGED <<gpu, mask, callers, subj, enable, seen>>

-----------------------------------------------------------------------------
(* The GPU priority.                                                        *)

\* Mutant: the breaker is not asked.
AskNothing(t) ==
    /\ pc[t] = "gpu"
    /\ pc' = [pc EXCEPT ![t] = "gpuSet"]
    /\ UNCHANGED <<gpu, affinity, callers, subj, enable, seen>>

\* With the GPU priority out of the way, the affinity is next.
LeaveGpu(t) ==
    IF "affinity" \in options
    THEN /\ pc' = [pc EXCEPT ![t] = AffinityPlace(enable[t])]
         /\ UNCHANGED <<subj, enable, seen>>
    ELSE Done(t)

\* shouldAttemptGPUThrottling, under its mutex.
AskBreaker(t) ==
    /\ pc[t] = "gpu"
    /\ \/ /\ gpuSupported
          /\ pc' = [pc EXCEPT ![t] = "gpuSet"]
          /\ UNCHANGED <<subj, enable, seen>>
       \/ ~gpuSupported /\ LeaveGpu(t)
    /\ UNCHANGED <<gpu, affinity, callers>>

\* Mutant: the priority of a boosted process is left alone.
SetGpuIdleOnly(t) ==
    /\ pc[t] = "gpuSet"
    /\ \/ /\ idleGpu' = IF enable[t] THEN idleGpu \cup {subj[t]} ELSE idleGpu
          /\ pc' = [pc EXCEPT ![t] = "gpuSucceeded"]
       \/ /\ subj[t] \in Refusing
          /\ pc' = [pc EXCEPT ![t] = "gpuFailed"]
          /\ UNCHANGED idleGpu
    /\ UNCHANGED <<gpuSupported, gpuFailureCount, affinity, callers,
                   subj, enable, seen>>

\* SetProcessGPUSchedulingPriority, outside the mutex.
SetGpuPriority(t) ==
    /\ pc[t] = "gpuSet"
    /\ \/ /\ idleGpu' = IF enable[t] THEN idleGpu \cup {subj[t]}
                                      ELSE idleGpu \ {subj[t]}
          /\ pc' = [pc EXCEPT ![t] = "gpuSucceeded"]
       \/ /\ subj[t] \in Refusing
          /\ pc' = [pc EXCEPT ![t] = "gpuFailed"]
          /\ UNCHANGED idleGpu
    /\ UNCHANGED <<gpuSupported, gpuFailureCount, affinity, callers,
                   subj, enable, seen>>

RecordGpuSuccess(t) ==
    /\ pc[t] = "gpuSucceeded"
    /\ gpuFailureCount' = 0
    /\ LeaveGpu(t)
    /\ UNCHANGED <<idleGpu, gpuSupported, affinity, callers>>

RecordGpuFailure(t) ==
    /\ pc[t] = "gpuFailed"
    /\ gpuFailureCount' = gpuFailureCount + 1
    /\ gpuSupported' = (gpuSupported /\ gpuFailureCount' < MaxFailures)
    /\ LeaveGpu(t)
    /\ UNCHANGED <<idleGpu, affinity, callers>>

-----------------------------------------------------------------------------
(* Throttling: capture the mask unless it is captured, then pin.            *)

CheckTracked(t) ==
    /\ pc[t] = "check"
    /\ pc' = [pc EXCEPT ![t] =
                IF originalAffinity[subj[t]] = NoMask THEN "query" ELSE "pin"]
    /\ UNCHANGED <<gpu, affinity, callers, subj, enable, seen>>

\* Mutant: the process is pinned before its mask is read.
QueryPinned(t) ==
    /\ pc[t] = "query"
    /\ IF t \in CanQuery
       THEN /\ mask' = [mask EXCEPT ![subj[t]] = Pinned]
            /\ seen' = [seen EXCEPT ![t] = mask'[subj[t]]]
            /\ pc' = [pc EXCEPT ![t] = "capture"]
       ELSE pc' = [pc EXCEPT ![t] = "pin"] /\ UNCHANGED <<mask, seen>>
    /\ UNCHANGED <<gpu, originalAffinity, callers, subj, enable>>

\* GetProcessAffinityMask fails on a handle without the right to query.
QueryMask(t) ==
    /\ pc[t] = "query"
    /\ IF t \in CanQuery
       THEN /\ seen' = [seen EXCEPT ![t] = mask[subj[t]]]
            /\ pc' = [pc EXCEPT ![t] = "capture"]
       ELSE pc' = [pc EXCEPT ![t] = "pin"] /\ UNCHANGED seen
    /\ UNCHANGED <<gpu, affinity, callers, subj, enable>>

CaptureMask(t) ==
    /\ pc[t] = "capture"
    /\ originalAffinity' =
          [originalAffinity EXCEPT ![subj[t]] = IF @ = NoMask THEN seen[t] ELSE @]
    /\ pc' = [pc EXCEPT ![t] = "pin"]
    /\ UNCHANGED <<gpu, mask, callers, subj, enable, seen>>

PinProcess(t) ==
    /\ pc[t] = "pin"
    /\ mask' = [mask EXCEPT ![subj[t]] = Pinned]
    /\ Done(t)
    /\ UNCHANGED <<gpu, originalAffinity, callers>>

-----------------------------------------------------------------------------
(* Unthrottling: take the captured mask out of the map and set it.          *)

\* Mutant: a process without a captured mask is not passed over.
TakeUnchecked(t) ==
    /\ pc[t] = "take"
    /\ originalAffinity' = [originalAffinity EXCEPT ![subj[t]] = NoMask]
    /\ seen' = [seen EXCEPT ![t] = originalAffinity[subj[t]]]
    /\ pc' = [pc EXCEPT ![t] = "unpin"]
    /\ UNCHANGED <<gpu, mask, callers, subj, enable>>

\* Mutant: the entry is not deleted, as if it could be used once more.
TakeKeeping(t) ==
    /\ pc[t] = "take"
    /\ IF originalAffinity[subj[t]] = NoMask
       THEN Done(t)
       ELSE /\ seen' = [seen EXCEPT ![t] = originalAffinity[subj[t]]]
            /\ pc' = [pc EXCEPT ![t] = "unpin"]
            /\ UNCHANGED <<subj, enable>>
    /\ UNCHANGED <<gpu, affinity, callers>>

TakeOriginal(t) ==
    /\ pc[t] = "take"
    /\ originalAffinity' = [originalAffinity EXCEPT ![subj[t]] = NoMask]
    /\ IF originalAffinity[subj[t]] = NoMask
       THEN Done(t)
       ELSE /\ seen' = [seen EXCEPT ![t] = originalAffinity[subj[t]]]
            /\ pc' = [pc EXCEPT ![t] = "unpin"]
            /\ UNCHANGED <<subj, enable>>
    /\ UNCHANGED <<gpu, mask, callers>>

\* Mutant: the configured mask is set, not the captured one.
RestoreConfigured(t) ==
    /\ pc[t] = "unpin"
    /\ mask' = [mask EXCEPT ![subj[t]] = Pinned]
    /\ Done(t)
    /\ UNCHANGED <<gpu, originalAffinity, callers>>

RestoreMask(t) ==
    /\ pc[t] = "unpin"
    /\ mask' = [mask EXCEPT ![subj[t]] = seen[t]]
    /\ Done(t)
    /\ UNCHANGED <<gpu, originalAffinity, callers>>

-----------------------------------------------------------------------------
Toggle(t) ==
    \/ AskBreaker(t) \/ SetGpuPriority(t) \/ RecordGpuSuccess(t) \/ RecordGpuFailure(t)
    \/ CheckTracked(t) \/ QueryMask(t) \/ CaptureMask(t) \/ PinProcess(t)
    \/ TakeOriginal(t) \/ RestoreMask(t)

Exited == pc[Handler] = "exit" /\ UNCHANGED vars

\* The program ends with its main goroutine.
Next ==
    \/ /\ pc[Handler] # "exit"
       /\ UNCHANGED scenario
       /\ \/ \E p \in Pid : SwitchTo(p)
          \/ SwitchToBypassed
          \/ ThrottlePrevious
          \/ \E s \in Sweepers, p \in Pid : SweepProcess(s, p)
          \/ \E t \in Thread : \/ StartRestore(t) \/ RestoreProcess(t)
                              \/ ForgetOriginals(t) \/ Toggle(t)
    \/ Exited

Spec == Init /\ [][Next]_vars

-----------------------------------------------------------------------------
(* Properties.                                                              *)

TypeOK ==
    /\ boostOnly \in BOOLEAN /\ options \in Options
    /\ idleGpu \subseteq Pid /\ gpuSupported \in BOOLEAN /\ gpuFailureCount \in Nat
    /\ mask \in [Pid -> Mask]
    /\ originalAffinity \in [Pid -> Mask \cup {NoMask}]
    /\ pending \in Pid \cup {NoPid} /\ prev \in Pid \cup {NoPid}
    /\ ended \in BOOLEAN
    /\ todo \in [Thread -> SUBSET Pid]
    /\ pc \in [Thread -> {"idle", "boosted", "restore", "exit",
                          "gpu", "gpuSet", "gpuSucceeded", "gpuFailed",
                          "check", "query", "capture", "pin", "take", "unpin"}]
    /\ enable \in [Thread -> BOOLEAN]
    /\ subj \in [Thread -> Pid \cup {NoPid}]
    /\ seen \in [Thread -> Mask \cup {NoMask}]

At(t, p, place) == subj[t] = p /\ pc[t] = place

\* Without sweeps the map holds the mask a process had before it was pinned,
\* never the one the engine itself has set (the order of check, query and
\* capture against the pins and unpins).  A sweep, whose handles may not read
\* a mask, pins without capturing, and the handler captures the pinned mask.
OriginalIsOwn == boostOnly => \A p \in Pid : originalAffinity[p] # Pinned

\* Without sweeps a pinned process can always be given its mask back: it is in
\* the map, or with a goroutine that is about to set it.
PinnedIsRestorable ==
    boostOnly =>
        \A p \in Pid : mask[p] = Pinned =>
            \/ originalAffinity[p] = Own
            \/ \E t \in Thread : At(t, p, "unpin") /\ seen[t] = Own

\* Without sweeps, when the handler has boosted the new foreground process,
\* that process runs on all its processors again.
ForegroundUnpinned ==
    boostOnly /\ pc[Handler] = "boosted" /\ pending # prev => mask[pending] = Own

\* With any sweeps a process in the map is pinned, or about to be: a left-over
\* entry would keep the next throttling from capturing the mask the process
\* has by then.
EntryMeansPinned ==
    \A p \in Pid : originalAffinity[p] # NoMask =>
        mask[p] = Pinned \/ \E t \in Thread : At(t, p, "pin")

\* Without sweeps no process is left pinned when the program has exited.
ExitUnpinned ==
    boostOnly /\ pc[Handler] = "exit" => \A p \in Pid : mask[p] = Own

\* The breaker does not let failures pile up: once it is open, only attempts
\* that were under way can still fail, one for each of the other goroutines.
BreakerStops == gpuFailureCount < MaxFailures + Cardinality(Thread)

\* Without sweeps the GPU priority follows the toggles until the breaker opens:
\* a process that accepts it has its normal one when it has been boosted, and
\* when the program has exited. (Open, the breaker leaves it idle for good.)
GpuRestored ==
    boostOnly /\ gpuSupported =>
        \A p \in idleGpu \ Refusing :
            /\ pc[Handler] # "exit"
            /\ pc[Handler] = "boosted" /\ pending # prev => p # pending
=============================================================================
