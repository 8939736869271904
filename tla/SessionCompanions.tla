--------------------------- MODULE SessionCompanions --------------------------
(***************************************************************************)
(* What the service promises of its companions, without maps and handles:   *)
(* it starts one only in a session of a user that has none, none once it     *)
(* has been asked to stop, and it does not leave before all have ended.      *)
(***************************************************************************)
CONSTANTS Session, Proc

VARIABLES
    users,      \* sessions in which somebody is logged on
    runs,       \* [Session -> the companions that run in it]
    stopping,   \* whether the service has been asked to stop, ...
    left        \* ... and has left

vars == <<users, runs, stopping, left>>

Init ==
    /\ users \subseteq Session
    /\ runs = [s \in Session |-> {}]
    /\ stopping = FALSE /\ left = FALSE

LogOn(s) ==
    /\ users' = users \cup {s}
    /\ UNCHANGED <<runs, stopping, left>>

LogOff(s) ==
    /\ users' = users \ {s}
    /\ runs' = [runs EXCEPT ![s] = {}]
    /\ UNCHANGED <<stopping, left>>

Start(s, p) ==
    /\ s \in users /\ runs[s] = {} /\ ~stopping
    /\ \A r \in Session : p \notin runs[r]
    /\ runs' = [runs EXCEPT ![s] = {p}]
    /\ UNCHANGED <<users, stopping, left>>

\* By itself, or by the service.
End(s) ==
    /\ runs' = [runs EXCEPT ![s] = {}]
    /\ UNCHANGED <<users, stopping, left>>

Stop ==
    /\ ~stopping /\ stopping' = TRUE
    /\ UNCHANGED <<users, runs, left>>

Leave ==
    /\ stopping /\ \A s \in Session : runs[s] = {}
    /\ left' = TRUE
    /\ UNCHANGED <<users, runs, stopping>>

Next ==
    /\ ~left
    /\ \/ \E s \in Session : LogOn(s) \/ LogOff(s) \/ End(s)
       \/ \E s \in Session, p \in Proc : Start(s, p)
       \/ Stop \/ Leave

Spec == Init /\ [][Next]_vars
=============================================================================
