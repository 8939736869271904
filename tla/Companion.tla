------------------------------ MODULE Companion -----------------------------
(***************************************************************************)
(* The companion processes of the service: companionRuntime keeps one       *)
(* process per session in companionBySession. Three goroutines use it: the  *)
(* service's Execute loop (session changes, stop), the slow monitor, and     *)
(* the pipe server when a companion has disconnected. Only the map is under  *)
(* the mutex; spawning, terminating and closing handles are not.            *)
(***************************************************************************)
EXTENDS Naturals

CONSTANTS
    Session,
    Proc,        \* companion processes; one that has ended may come again
    Existing,    \* the sessions there are, with overlapping calls and without
    MaxChanges,  \* bound, for each: session changes, events of them and crashes
    NoProc, NoSession

Svc == "svc"
Mon == "mon"
Pipe == "pipe"
Caller == {Svc, Mon, Pipe}

ASSUME CompanionAssumption ==
    /\ Existing \in [BOOLEAN -> SUBSET Session]
    /\ MaxChanges \in [BOOLEAN -> Nat]
    /\ NoProc \notin Proc /\ NoSession \notin Session

VARIABLES
    overlap,     \* whether calls of different goroutines overlap
    users,       \* Windows: sessions in which somebody is logged on
    active,      \* Windows: those in the state WTSActive
    runsIn,      \* Windows: the session in which a companion runs, if it does
    open,        \* companions to which the service has an open handle
    changes,     \* session changes, events and crashes so far
    stopping,    \* whether stopCh is closed
    companionBySession,  \* [Session -> Proc \cup {NoProc}]
    pc, subj,    \* each goroutine: its place, the session it looks after
    todo,        \* ... sessions of its enumeration it has yet to look after
    desired,     \* ... and all sessions of it
    held,        \* ... companions whose handles are in its local variables
    then         \* ... what follows when it is done with subj or held

windows == <<users, active, runsIn, open>>
runtime == <<stopping, companionBySession>>
locals == <<subj, todo, desired, held, then>>

alive == {p \in Proc : runsIn[p] # NoSession}

vars == <<overlap, windows, changes, runtime, pc, locals>>

Init ==
    /\ overlap \in BOOLEAN
    /\ active \in SUBSET Existing[overlap] /\ users = active
    /\ runsIn = [p \in Proc |-> NoSession] /\ open = {}
    /\ changes = 0 /\ stopping = FALSE
    /\ companionBySession = [s \in Session |-> NoProc]
    \* Start: the other two run when Execute makes its first call
    /\ pc = [t \in Caller |-> IF t = Svc THEN "enumerate" ELSE "idle"]
    /\ subj = [t \in Caller |-> NoSession]
    /\ todo = [t \in Caller |-> {}] /\ desired = [t \in Caller |-> {}]
    /\ held = [t \in Caller |-> {}] /\ then = [t \in Caller |-> "idle"]

-----------------------------------------------------------------------------
(* The environment: sessions and companion processes.                       *)

Change == changes < MaxChanges[overlap] /\ changes' = changes + 1

ChangeSession(s) ==
    /\ Change
    /\ \/ /\ s \notin active      \* log on, or reconnect
          /\ users' = users \cup {s} /\ active' = active \cup {s}
          /\ UNCHANGED runsIn
       \/ /\ s \in active         \* disconnect
          /\ active' = active \ {s}
          /\ UNCHANGED <<users, runsIn>>
       \/ /\ s \in users          \* log off: its processes end
          /\ users' = users \ {s} /\ active' = active \ {s}
          /\ runsIn' =
                [p \in Proc |-> IF runsIn[p] = s THEN NoSession ELSE runsIn[p]]
    /\ UNCHANGED <<open, runtime, pc, locals>>

Die(p) ==
    /\ Change
    /\ p \in alive /\ runsIn' = [runsIn EXCEPT ![p] = NoSession]
    /\ UNCHANGED <<users, active, open, runtime, pc, locals>>

\* WTSGetActiveConsoleSessionId: a session with its user, one at the logon
\* screen, or none.
ConsoleSession == active \cup (Existing[overlap] \ users) \cup {NoSession}

-----------------------------------------------------------------------------
(* The calls.                                                               *)

Between(t) == pc[t] \in {"idle", "leaving", "exit"}

Begin(t) == pc[t] = "idle" /\ (overlap \/ \A u \in Caller : Between(u))

Goto(t, place) == pc' = [pc EXCEPT ![t] = place]

\* Mutant: a session without a companion is not passed over.
EntriesOf(S) == {companionBySession[s] : s \in S}

TrackedIn(S) == {companionBySession[s] : s \in S} \ {NoProc}

\* Under the mutex: t takes the companions of the sessions S out of the map.
TakeOut(t, S) ==
    /\ held' = [held EXCEPT ![t] = TrackedIn(S)]
    /\ companionBySession' =
          [s \in Session |-> IF s \in S THEN NoProc ELSE companionBySession[s]]

\* A session has come, or come back: ensure its companion, then reconcile.
SessionUp(s) ==
    /\ Begin(Svc) /\ Change
    /\ subj' = [subj EXCEPT ![Svc] = s]
    /\ then' = [then EXCEPT ![Svc] = "enumerate"]
    /\ Goto(Svc, "check")
    /\ UNCHANGED <<windows, runtime, todo, desired, held>>

\* A session has gone: StopSessionCompanion, then reconcile.
SessionDown(s) ==
    /\ Begin(Svc) /\ Change
    /\ TakeOut(Svc, {s})
    /\ then' = [then EXCEPT ![Svc] = "enumerate"]
    /\ Goto(Svc, "kill")
    /\ UNCHANGED <<windows, stopping, subj, todo, desired>>

\* The ticker and stopCh may both be ready: either may be taken.
MonitorTick ==
    /\ Begin(Mon)
    /\ Goto(Mon, "enumerate")
    /\ UNCHANGED <<windows, changes, runtime, locals>>

\* EnsureActiveSessionCompanion, called by t.
EnsureActive(t) ==
    \E s \in ConsoleSession :
        /\ subj' = [subj EXCEPT ![t] = s]
        /\ then' = [then EXCEPT ![t] = "idle"]
        /\ Goto(t, IF s = NoSession THEN "idle" ELSE "check")
        /\ UNCHANGED <<todo, desired, held>>

PipeClosed ==
    /\ Begin(Pipe) /\ ~stopping
    /\ EnsureActive(Pipe)
    /\ UNCHANGED <<windows, changes, runtime>>

EndLoop(t) ==
    /\ t # Svc /\ pc[t] = "idle" /\ stopping
    /\ Goto(t, "exit")
    /\ UNCHANGED <<windows, changes, runtime, locals>>

\* EnsureCompanionsForActiveSessions; without a list of sessions it falls
\* back on the console session.
Enumerate(t) ==
    /\ pc[t] = "enumerate"
    /\ desired' = [desired EXCEPT ![t] = active]
    /\ todo' = [todo EXCEPT ![t] = active]
    /\ then' = [then EXCEPT ![t] = "next"]
    /\ Goto(t, "next")
    /\ UNCHANGED <<windows, changes, runtime, subj, held>>

EnumerateFails(t) ==
    /\ pc[t] = "enumerate"
    /\ EnsureActive(t)
    /\ UNCHANGED <<windows, changes, runtime>>

NextSession(t) ==
    /\ pc[t] = "next"
    /\ \E s \in todo[t] :
        /\ subj' = [subj EXCEPT ![t] = s]
        /\ todo' = [todo EXCEPT ![t] = @ \ {s}]
    /\ Goto(t, "check")
    /\ UNCHANGED <<windows, changes, runtime, desired, held, then>>

-----------------------------------------------------------------------------
(* ensureCompanionForSession.                                               *)

Return(t) ==
    /\ Goto(t, then[t])
    /\ subj' = [subj EXCEPT ![t] = NoSession]

\* Mutant: isStopping is not asked.
CheckNothing(t) ==
    /\ pc[t] = "check"
    /\ Goto(t, "lookup")
    /\ UNCHANGED <<windows, changes, runtime, locals>>

CheckStopping(t) ==
    /\ pc[t] = "check"
    /\ \/ stopping /\ Return(t)
       \/ ~stopping /\ Goto(t, "lookup") /\ UNCHANGED subj
    /\ UNCHANGED <<windows, changes, runtime, todo, desired, held, then>>

\* Mutant: a companion in the map is taken for a running one.
LookupTracked(t) ==
    /\ pc[t] = "lookup"
    /\ IF companionBySession[subj[t]] # NoProc
       THEN Return(t)
       ELSE Goto(t, "spawn") /\ UNCHANGED subj
    /\ UNCHANGED <<windows, changes, runtime, todo, desired, held, then>>

\* Mutant: a companion in the map is replaced even if it runs.
LookupAlways(t) ==
    LET existing == companionBySession[subj[t]] IN
    /\ pc[t] = "lookup"
    /\ companionBySession' = [companionBySession EXCEPT ![subj[t]] = NoProc]
    /\ held' = [held EXCEPT ![t] = {existing} \ {NoProc}]
    /\ Goto(t, IF existing = NoProc THEN "spawn" ELSE "closeDead")
    /\ UNCHANGED <<windows, changes, stopping, subj, todo, desired, then>>

\* Under the mutex: a companion that has ended is taken out of the map.
Lookup(t) ==
    LET existing == companionBySession[subj[t]] IN
    /\ pc[t] = "lookup"
    /\ IF existing \in alive
       THEN Return(t) /\ UNCHANGED <<companionBySession, held>>
       ELSE /\ companionBySession' = [companionBySession EXCEPT ![subj[t]] = NoProc]
            /\ held' = [held EXCEPT ![t] = {existing} \ {NoProc}]
            /\ Goto(t, IF existing = NoProc THEN "spawn" ELSE "closeDead")
            /\ UNCHANGED subj
    /\ UNCHANGED <<windows, changes, stopping, todo, desired, then>>

CloseHeld(t) ==
    /\ pc[t] \in {"closeDead", "closeOld"}
    /\ open' = open \ held[t]
    /\ held' = [held EXCEPT ![t] = {}]
    /\ IF pc[t] = "closeDead"
       THEN Goto(t, "spawn") /\ UNCHANGED subj
       ELSE Return(t)
    /\ UNCHANGED <<users, active, runsIn, changes, runtime, todo,
                   desired, then>>

\* spawnCompanionAsUser needs the token of the session's user.
Spawn(t) ==
    /\ pc[t] = "spawn" /\ subj[t] \in users
    /\ \E p \in Proc \ (alive \cup open) :
        /\ runsIn' = [runsIn EXCEPT ![p] = subj[t]]
        /\ open' = open \cup {p}
        /\ held' = [held EXCEPT ![t] = {p}]
    /\ Goto(t, "record")
    /\ UNCHANGED <<users, active, changes, runtime, subj, todo, desired, then>>

SpawnFails(t) ==
    /\ pc[t] = "spawn"
    /\ Return(t)
    /\ UNCHANGED <<windows, changes, runtime, todo, desired, held, then>>

\* Mutant: the handle another call has recorded meanwhile is not closed.
RecordOver(t) ==
    /\ pc[t] = "record"
    /\ \E p \in held[t] :
          companionBySession' = [companionBySession EXCEPT ![subj[t]] = p]
    /\ held' = [held EXCEPT ![t] = {}]
    /\ Return(t)
    /\ UNCHANGED <<windows, changes, stopping, todo, desired, then>>

Record(t) ==
    LET old == companionBySession[subj[t]] IN
    /\ pc[t] = "record"
    /\ \E p \in held[t] :
          companionBySession' = [companionBySession EXCEPT ![subj[t]] = p]
    /\ held' = [held EXCEPT ![t] = {old} \ {NoProc}]
    /\ IF old = NoProc
       THEN Return(t)
       ELSE Goto(t, "closeOld") /\ UNCHANGED subj
    /\ UNCHANGED <<windows, changes, stopping, todo, desired, then>>

-----------------------------------------------------------------------------
(* Stopping companions.                                                     *)

\* stopCompanionsOutside the sessions enumerated before.
Prune(t) ==
    /\ pc[t] = "next" /\ todo[t] = {}
    /\ TakeOut(t, Session \ desired[t])
    /\ desired' = [desired EXCEPT ![t] = {}]
    /\ then' = [then EXCEPT ![t] = "idle"]
    /\ Goto(t, "kill")
    /\ UNCHANGED <<windows, changes, stopping, subj, todo>>

\* Mutant: the handle is closed, the process goes on.
KillNothing(t) ==
    /\ pc[t] = "kill"
    /\ open' = open \ held[t]
    /\ held' = [held EXCEPT ![t] = {}]
    /\ Return(t)
    /\ UNCHANGED <<users, active, runsIn, changes, runtime, todo, desired, then>>

\* TerminateProcess and CloseHandle, one companion after the other.
Kill(t) ==
    /\ pc[t] = "kill"
    /\ IF held[t] = {}
       THEN Return(t) /\ UNCHANGED <<runsIn, open, held>>
       ELSE /\ \E p \in held[t] :
                  /\ runsIn' = [runsIn EXCEPT ![p] = NoSession]
                  /\ open' = open \ {p}
                  /\ held' = [held EXCEPT ![t] = @ \ {p}]
            /\ UNCHANGED <<pc, subj>>
    /\ UNCHANGED <<users, active, changes, runtime, todo, desired, then>>

\* The service control manager asks the service to stop.
StopService ==
    /\ Begin(Svc)
    /\ stopping' = TRUE
    /\ Goto(Svc, "stop")
    /\ UNCHANGED <<windows, changes, companionBySession, locals>>

StopCompanions ==
    /\ pc[Svc] = "stop"
    /\ TakeOut(Svc, Session)
    /\ then' = [then EXCEPT ![Svc] = "leaving"]
    /\ Goto(Svc, "kill")
    /\ UNCHANGED <<windows, changes, stopping, subj, todo, desired>>

\* doneCh or two seconds, the engine's clean-up, and the process has ended.
LeaveExecute ==
    /\ pc[Svc] = "leaving"
    /\ overlap \/ \A t \in Caller : Between(t)
    /\ Goto(Svc, "exit")
    /\ UNCHANGED <<windows, changes, runtime, locals>>

-----------------------------------------------------------------------------
Step(t) ==
    \/ EndLoop(t) \/ Enumerate(t) \/ EnumerateFails(t) \/ NextSession(t)
    \/ CheckStopping(t) \/ Lookup(t) \/ CloseHeld(t)
    \/ Spawn(t) \/ SpawnFails(t) \/ Record(t) \/ Prune(t) \/ Kill(t)

Exited == pc[Svc] = "exit" /\ UNCHANGED vars

Next ==
    \/ /\ pc[Svc] # "exit" /\ UNCHANGED overlap
       /\ \/ \E s \in Existing[overlap] : ChangeSession(s) \/ SessionUp(s) \/ SessionDown(s)
          \/ \E p \in Proc : Die(p)
          \/ MonitorTick \/ PipeClosed
          \/ StopService \/ StopCompanions \/ LeaveExecute
          \/ \E t \in Caller : Step(t)
    \/ Exited

Running(A) == pc[Svc] # "exit" /\ UNCHANGED overlap /\ A

\* The ticker goes on ticking, every goroutine runs, and Windows does not for
\* ever refuse to list the sessions or to start a companion in one.
Fairness ==
    /\ WF_vars(Running(MonitorTick))
    /\ \A t \in Caller : WF_vars(Running(Step(t)))
    /\ SF_vars(Running(Enumerate(Mon)))
    /\ \A s \in Session : SF_vars(subj[Mon] = s /\ Running(Spawn(Mon)))

Spec == Init /\ [][Next]_vars /\ Fairness

-----------------------------------------------------------------------------
(* Properties.                                                              *)

Place == {"idle", "enumerate", "next", "check", "lookup", "closeDead", "spawn",
          "record", "closeOld", "kill", "stop", "leaving", "exit"}

TypeOK ==
    /\ overlap \in BOOLEAN
    /\ active \subseteq users /\ users \subseteq Session
    /\ open \subseteq Proc
    /\ runsIn \in [Proc -> Session \cup {NoSession}]
    /\ changes \in 0..MaxChanges[overlap] /\ stopping \in BOOLEAN
    /\ companionBySession \in [Session -> Proc \cup {NoProc}]
    /\ pc \in [Caller -> Place]
    /\ subj \in [Caller -> Session \cup {NoSession}]
    /\ todo \in [Caller -> SUBSET Session] /\ desired \in [Caller -> SUBSET Session]
    /\ held \in [Caller -> SUBSET Proc]
    /\ then \in [Caller -> {"idle", "enumerate", "next", "leaving"}]

\* However the calls overlap, an open handle has exactly one owner (an entry
\* of the map, a local variable of a goroutine), and only open handles have
\* one: none is leaked, closed twice or used once it is closed.
HandleOwned ==
    /\ open = TrackedIn(Session) \cup UNION {held[t] : t \in Caller}
    /\ \A r, s \in Session : companionBySession[r] = companionBySession[s] =>
                               r = s \/ companionBySession[r] = NoProc
    /\ \A t, u \in Caller : t # u => held[t] \cap held[u] = {}
    /\ \A t \in Caller : held[t] \cap TrackedIn(Session) = {}

\* While calls do not overlap there is never a second companion in a session.
OneCompanion == overlap \/ \A p, q \in alive : runsIn[p] = runsIn[q] => p = q

\* While calls do not overlap a running companion can always be stopped: the
\* service still has its handle.
LiveIsOpen == overlap \/ alive \subseteq open

\* While calls do not overlap no companion survives the service.
NoneAfterStop == pc[Svc] = "exit" => overlap \/ alive = {}

\* Companion as a refinement of SessionCompanions.
Promise == INSTANCE SessionCompanions WITH
    runs <- [s \in Session |-> {p \in Proc : runsIn[p] = s}],
    left <- pc[Svc] = "exit"

\* While calls do not overlap, each step does to the companions what the
\* promise allows: none is started next to another one, or for a service that
\* is stopping, which leaves when all have ended.
PromiseKept == Promise!Init /\ [][overlap \/ Promise!Next]_(Promise!vars)

\* The monitor recovers from missed events, however the calls overlap: once
\* the sessions do not change any more, the companions in the map are those of
\* the active sessions, and they run (unless the service stops).
Recovers ==
    <>[](\/ stopping \/ ~overlap
         \/ \A s \in Session : IF s \in active
                               THEN /\ companionBySession[s] # NoProc
                                    /\ runsIn[companionBySession[s]] = s
                               ELSE companionBySession[s] = NoProc)
=============================================================================
