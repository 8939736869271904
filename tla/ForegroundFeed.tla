--------------------------- MODULE ForegroundFeed ---------------------------
(***************************************************************************)
(* What the service expects of its companions, without pipes and processes: *)
(* it hears of the foreground processes in the order in which the user       *)
(* brings them to the foreground, and in the end of the one that stays       *)
(* there.  Foreground processes are numbered as they come.                  *)
(***************************************************************************)
EXTENDS Naturals

VARIABLES
    latest,    \* the number of the process in the foreground
    handled,   \* the last one the service has handled, 0 if none
    serving,   \* whether the service runs and can be reached
    inOrder    \* whether reports come in order

vars == <<latest, handled, serving, inOrder>>

Init == latest = 1 /\ handled = 0 /\ serving \in BOOLEAN /\ inOrder \in BOOLEAN

Switch == latest' = latest + 1 /\ UNCHANGED handled

\* In order, an older process never comes after a newer one.
Handle(k) ==
    /\ k \in 1..latest /\ (inOrder => k > handled)
    /\ handled' = k
    /\ UNCHANGED latest

\* A service that is started again has handled nothing.
Restart == handled' = 0 /\ UNCHANGED latest

\* serving and inOrder are up to the environment.
Next ==
    /\ \/ Switch
       \/ \E k \in 1..latest : Handle(k)
       \/ Restart
       \/ UNCHANGED <<latest, handled>>
    /\ serving' \in BOOLEAN /\ inOrder' \in BOOLEAN

\* Unless the user keeps switching, the service always catches up again, or
\* cannot be reached.
CatchesUp == []<><<Switch>>_vars \/ []<>(serving => handled = latest)

Spec == Init /\ [][Next]_vars /\ CatchesUp
=============================================================================
