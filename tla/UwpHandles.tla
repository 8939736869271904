------------------------------ MODULE UwpHandles ------------------------------
(***************************************************************************)
(* Which process the engine's calls reach.  ThrottleEngine takes a handle   *)
(* for the process it was opened for; here it is the value Windows gives     *)
(* out again as soon as it has been closed.  A window of the frame host of   *)
(* UWP applications makes that matter: the handler closes the host's handle  *)
(* when it has found the application behind it, and closes the same value    *)
(* once more when it returns, while a sweep opens and closes handles.        *)
(* The names of the processes do not change and none of them exits here.     *)
(***************************************************************************)
CONSTANTS
    Pid,       \* running processes
    Frames,    \* the frame hosts among them
    Base,      \* the processes every profile exempts
    Handle,    \* bound: handle values; an application's is never closed
    Main, Sweepers,
    NoPid, NoHandle

Thread == {Main} \cup Sweepers

VARIABLES
    object,     \* [Handle -> the process an open handle stands for]
    eco,        \* processes slowed down
    pendingPID,
    prev,       \* main: the previous foreground process, to be throttled
    deferred,   \* main: the argument of the deferred CloseHandle
    pc, hProcess,
    pid         \* the process each goroutine believes it works on

vars == <<object, eco, pendingPID, prev, deferred, pc, hProcess, pid>>

Free == {h \in Handle : object[h] = NoPid}

Init ==
    /\ object = [h \in Handle |-> NoPid]
    /\ eco = {} /\ pendingPID = NoPid /\ prev = NoPid
    /\ deferred = NoHandle
    /\ pc = [t \in Thread |-> "wait"]
    /\ hProcess = [t \in Thread |-> NoHandle]
    /\ pid = [t \in Thread |-> NoPid]

Go(t, where) == pc' = [pc EXCEPT ![t] = where]

Use(t, h, p) ==
    /\ hProcess' = [hProcess EXCEPT ![t] = h]
    /\ pid' = [pid EXCEPT ![t] = p]

\* Closing a value that is not open fails without effect.
Closed(h) == [object EXCEPT ![h] = NoPid]

-----------------------------------------------------------------------------
(* HandleForegroundEvent on the main goroutine.                             *)

\* Its name may turn out to be unreadable.
OpenWindow ==
    /\ pc[Main] = "wait"
    /\ \E p \in Pid, h \in Free :
        /\ object' = [object EXCEPT ![h] = p]
        /\ deferred' = h
        /\ Use(Main, h, p)
        /\ \/ Go(Main, IF p \in Frames THEN "resolve" ELSE "lock")
           \/ Go(Main, "return")
    /\ UNCHANGED <<eco, pendingPID, prev>>

\* resolveUWPProcess: the first child window of another process, if there is
\* one that can be opened.
OpenChild ==
    /\ pc[Main] = "resolve"
    /\ \/ \E p \in Pid \ {pid[Main]}, h \in Free :
            /\ object' = [object EXCEPT ![h] = p]
            /\ Use(Main, h, p)
            /\ Go(Main, "closeParent")
       \/ Go(Main, "lock") /\ UNCHANGED <<object, hProcess, pid>>
    /\ UNCHANGED <<eco, pendingPID, prev, deferred>>

CloseParent ==
    /\ pc[Main] = "closeParent"
    /\ object' = Closed(deferred)
    /\ Go(Main, "lock")
    /\ UNCHANGED <<eco, pendingPID, prev, deferred, hProcess, pid>>

TakeForeground ==
    /\ pc[Main] = "lock"
    /\ prev' = IF pendingPID = pid[Main] THEN NoPid ELSE pendingPID
    /\ IF pid[Main] \in Base
       THEN Go(Main, "prevOpen") /\ UNCHANGED pendingPID
       ELSE Go(Main, "boost") /\ pendingPID' = pid[Main]
    /\ UNCHANGED <<object, eco, deferred, hProcess, pid>>

\* One call of the boost; there are more.
Boost ==
    /\ pc[Main] = "boost"
    /\ eco' = eco \ {object[hProcess[Main]]}
    /\ \E next \in {"boost", "prevOpen"} : Go(Main, next)
    /\ UNCHANGED <<object, pendingPID, prev, deferred, hProcess, pid>>

\* Windows may refuse to open it.
OpenPrevious ==
    /\ pc[Main] = "prevOpen"
    /\ \/ Go(Main, "return") /\ UNCHANGED <<object, hProcess, pid>>
       \/ /\ prev # NoPid
          /\ \E h \in Free : /\ object' = [object EXCEPT ![h] = prev]
                            /\ Use(Main, h, prev)
          /\ Go(Main, "throttle")
    /\ prev' = NoPid
    /\ UNCHANGED <<eco, pendingPID, deferred>>

\* The deferred CloseHandle.
Return ==
    /\ pc[Main] = "return"
    /\ object' = Closed(deferred)
    /\ deferred' = NoHandle
    /\ Use(Main, NoHandle, NoPid)
    /\ Go(Main, "wait")
    /\ UNCHANGED <<eco, pendingPID, prev>>

-----------------------------------------------------------------------------
(* An entry of a sweep, and what a sweep and the handler throttle.           *)

OpenEntry(s) ==
    /\ pc[s] = "wait"
    /\ \E p \in Pid \ (Base \cup {pendingPID}), h \in Free :
        /\ object' = [object EXCEPT ![h] = p]
        /\ Use(s, h, p)
    /\ Go(s, "throttle")
    /\ UNCHANGED <<eco, pendingPID, prev, deferred>>

\* One call of the toggle: on a value that is not open it fails.
Throttle(t) ==
    /\ pc[t] = "throttle"
    /\ eco' = (eco \cup {object[hProcess[t]]}) \ {NoPid}
    /\ \E next \in {"throttle", "close"} : Go(t, next)
    /\ UNCHANGED <<object, pendingPID, prev, deferred, hProcess, pid>>

CloseHandle(t) ==
    /\ pc[t] = "close"
    /\ object' = Closed(hProcess[t])
    /\ Use(t, NoHandle, NoPid)
    /\ Go(t, IF t = Main THEN "return" ELSE "wait")
    /\ UNCHANGED <<eco, pendingPID, prev, deferred>>

-----------------------------------------------------------------------------
Next ==
    \/ OpenWindow \/ OpenChild \/ CloseParent
    \/ TakeForeground \/ Boost \/ OpenPrevious \/ Return
    \/ \E t \in Thread : Throttle(t) \/ CloseHandle(t)
    \/ \E s \in Sweepers : OpenEntry(s)

Spec == Init /\ [][Next]_vars

\* No process of the base bypass list is ever slowed down ("never throttled",
\* README).  The handler and the sweep check the process they opened; what
\* their calls reach is what the value of the handle stands for by then.
BaseNeverThrottled == eco \cap Base = {}
=============================================================================
