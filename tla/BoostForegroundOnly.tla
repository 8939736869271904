------------------------ MODULE BoostForegroundOnly -------------------------
(***************************************************************************)
(* What the option boost_foreground_only promises, without threads, handles *)
(* and Win32 calls: the only process that is ever slowed down is the one     *)
(* another has just displaced at the front, and it loses its speed after the *)
(* other one has got its own back.                                          *)
(***************************************************************************)
CONSTANTS Pid, NoPid

VARIABLES
    slow,     \* the processes that are slowed down
    seen,     \* the process that has come to the front, until it is decided on
    front,    \* the last one that was to be boosted there, NoPid if none
    coming,   \* front, until it has its normal speed; then NoPid
    back,     \* the one it has displaced, until that is slowed down; then NoPid
    reliable, \* whether the program knows of all that it has slowed down
    up        \* whether it runs

vars == <<slow, seen, front, coming, back, reliable, up>>

Init ==
    /\ slow = {} /\ seen = NoPid /\ front = NoPid /\ coming = NoPid /\ back = NoPid
    /\ reliable \in BOOLEAN /\ up = TRUE

\* One change at a time.
Notice(p) ==
    /\ seen = NoPid /\ coming = NoPid /\ back = NoPid
    /\ seen' = p
    /\ UNCHANGED <<slow, front, coming, back, reliable, up>>

\* It is boosted, or left alone; either way it displaces another one.
Decide ==
    /\ seen # NoPid /\ seen' = NoPid
    /\ back' = IF front = seen THEN NoPid ELSE front
    /\ \/ front' = seen /\ coming' = seen
       \/ UNCHANGED <<front, coming>>
    /\ UNCHANGED <<slow, reliable, up>>

Boost ==
    /\ coming # NoPid
    /\ slow' = slow \ {coming}
    /\ coming' = NoPid
    /\ UNCHANGED <<seen, front, back, reliable, up>>

SlowDown ==
    /\ coming = NoPid /\ back # NoPid
    /\ slow' = slow \cup {back}
    /\ UNCHANGED <<seen, front, coming, back, reliable, up>>

\* Slowed down, or not there any more.
Settle ==
    /\ coming = NoPid
    /\ back' = NoPid
    /\ UNCHANGED <<slow, seen, front, coming, reliable, up>>

\* Restored, boosted before the rest of the boost, or exited.
Ease(p) ==
    /\ slow' = slow \ {p}
    /\ UNCHANGED <<seen, front, coming, back, reliable, up>>

Crash ==
    /\ seen' = NoPid /\ front' = NoPid /\ coming' = NoPid /\ back' = NoPid
    /\ reliable' = FALSE
    /\ UNCHANGED <<slow, up>>

Exit ==
    /\ seen = NoPid /\ coming = NoPid /\ back = NoPid
    /\ reliable => slow = {}
    /\ up' = FALSE
    /\ UNCHANGED <<slow, seen, front, coming, back, reliable>>

Next ==
    /\ up
    /\ \/ \E p \in Pid : Notice(p) \/ Ease(p)
       \/ Decide \/ Boost \/ SlowDown \/ Settle \/ Crash \/ Exit

Spec == Init /\ [][Next]_vars
=============================================================================
