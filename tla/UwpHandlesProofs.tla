--------------------------- MODULE UwpHandlesProofs --------------------------
(***************************************************************************)
(* What the finding of UwpHandles takes: without windows of the frame host,  *)
(* or without sweeps, the calls reach the processes they are meant for, for  *)
(* any processes, handle values and number of sweeps.                       *)
(***************************************************************************)
EXTENDS UwpHandles, TLAPS

\* t slows its process down, or is about to close it.
Throttling(t) == pc[t] \in {"throttle", "close"}

Typed ==
    /\ object \in [Handle -> Pid \cup {NoPid}]
    /\ pc \in [Thread -> {"wait", "resolve", "closeParent", "lock", "boost", "prevOpen",
                          "throttle", "close", "return"}]
    /\ hProcess \in [Thread -> Handle \cup {NoHandle}]
    /\ pid \in [Thread -> Pid \cup {NoPid}]
    /\ deferred \in Handle \cup {NoHandle}
    /\ {pendingPID, prev} \subseteq (Pid \ Base) \cup {NoPid}

\* The handle of a process that is slowed down stands for it, ...
Own ==
    \A t \in Thread : Throttling(t) =>
        /\ hProcess[t] \in Handle /\ object[hProcess[t]] = pid[t]
        /\ pid[t] \in Pid \ Base

\* ... because no other goroutine has a handle of the same value, and the value
\* that the handler closes when it returns is open until then.
Apart ==
    /\ \A s, t \in Thread :
          Throttling(s) /\ Throttling(t) /\ s # t => hProcess[s] # hProcess[t]
    /\ Frames = {} =>
          /\ pc[Main] \notin {"resolve", "closeParent"}
          /\ deferred # NoHandle => object[deferred] # NoPid
          /\ \A t \in Thread : Throttling(t) => hProcess[t] # deferred

\* Slowing down is all that puts a process there.
BaseSpared == eco \cap Base = {}

Reached == Typed /\ Own /\ Apart /\ BaseSpared

LEMMA StepReached ==
    ASSUME Main \notin Sweepers, NoPid \notin Pid, NoHandle \notin Handle,
           Sweepers = {} \/ Frames = {}, Reached, [Next]_vars
    PROVE  Reached'
<1> USE DEF Reached, Typed, Own, Apart, BaseSpared, Throttling, Thread, Go, Use
<1>0. /\ object \in [Handle -> Pid \cup {NoPid}] /\ Main \in Thread
      /\ \A t \in Thread : t # Main => t \in Sweepers
  OBVIOUS
<1>1. CASE OpenWindow
  BY <1>0, <1>1 DEF OpenWindow, Free
<1>2. CASE OpenChild
  BY <1>0, <1>2 DEF OpenChild, Free
<1>3. CASE CloseParent
  BY <1>0, <1>3 DEF CloseParent, Closed
<1>4. CASE TakeForeground
  BY <1>0, <1>4 DEF TakeForeground
<1>5. CASE Boost
  BY <1>0, <1>5 DEF Boost
<1>6. CASE OpenPrevious
  BY <1>0, <1>6 DEF OpenPrevious, Free
<1>7. CASE Return
  BY <1>0, <1>7 DEF Return, Closed
<1>8. ASSUME NEW t \in Thread, Throttle(t) PROVE Reached'
  BY <1>0, <1>8 DEF Throttle
<1>9. ASSUME NEW t \in Thread, CloseHandle(t) PROVE Reached'
  BY <1>0, <1>9 DEF CloseHandle, Closed
<1>10. ASSUME NEW s \in Sweepers, OpenEntry(s) PROVE Reached'
  BY <1>0, <1>10 DEF OpenEntry, Free
<1>11. CASE UNCHANGED vars
  BY <1>11 DEF vars
<1> QED
  BY <1>1, <1>2, <1>3, <1>4, <1>5, <1>6, <1>7, <1>8, <1>9, <1>10, <1>11 DEF Next

THEOREM BaseIsSpared ==
    ASSUME Main \notin Sweepers, NoPid \notin Pid, NoHandle \notin Handle,
           Sweepers = {} \/ Frames = {}
    PROVE  Spec => []BaseNeverThrottled
<1>1. Init => Reached
  BY DEF Init, Reached, Typed, Own, Apart, BaseSpared, Throttling, Thread
<1>2. Reached /\ [Next]_vars => Reached'
  BY StepReached
<1>3. Reached => BaseNeverThrottled
  BY DEF Reached, BaseSpared, BaseNeverThrottled
<1> QED
  BY <1>1, <1>2, <1>3, PTL DEF Spec
=============================================================================
