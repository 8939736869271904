--------------------------- MODULE CompanionProofs --------------------------
(***************************************************************************)
(* Theorems about Companion for any number of sessions and processes: what   *)
(* holds for every overlap of the calls, and what holds without.            *)
(***************************************************************************)
EXTENDS Companion, TLAPS

\* A goroutine in ensureCompanionForSession looks after a session.
SubjOK ==
    \A t \in Caller :
        pc[t] \in {"check", "lookup", "closeDead", "spawn", "record"} =>
            subj[t] \in Session

\* Handles are in local variables only where they are about to be recorded or
\* closed, and a goroutine that records one has exactly that one.
HeldOK ==
    \A t \in Caller :
        /\ pc[t] \notin {"record", "closeDead", "closeOld", "kill"} => held[t] = {}
        /\ pc[t] = "record" => \E p \in Proc : held[t] = {p}

Sound == TypeOK /\ SubjOK /\ HeldOK

IInv == Sound /\ HandleOwned

-----------------------------------------------------------------------------
\* Next, as a list of its actions.
LEMMA NextCases ==
    ASSUME Next, overlap \in BOOLEAN
    PROVE  \/ \E s \in Session : ChangeSession(s) \/ SessionUp(s) \/ SessionDown(s)
           \/ \E p \in Proc : Die(p)
           \/ MonitorTick \/ PipeClosed \/ StopService \/ StopCompanions
           \/ LeaveExecute
           \/ \E t \in Caller :
                 \/ EndLoop(t) \/ Enumerate(t) \/ EnumerateFails(t)
                 \/ NextSession(t) \/ CheckStopping(t) \/ Lookup(t)
                 \/ CloseHeld(t) \/ Spawn(t) \/ SpawnFails(t) \/ Record(t)
                 \/ Prune(t) \/ Kill(t)
           \/ UNCHANGED vars
<1>1. Existing[overlap] \subseteq Session
  BY CompanionAssumption
<1> QED
  BY Zenon, <1>1 DEF Next, Step, Exited

\* Whether calls overlap is decided once.
LEMMA OverlapFixed == [Next]_vars => overlap' = overlap
BY Zenon DEF Next, Exited, vars

\* Every step keeps the types and the shape of the local variables.
LEMMA StepSound == IInv /\ [Next]_vars => Sound'
<1> SUFFICES ASSUME IInv, [Next]_vars PROVE Sound'
  OBVIOUS
<1>0. overlap \in BOOLEAN /\ overlap' = overlap
  BY OverlapFixed DEF IInv, Sound, TypeOK
<1> USE CompanionAssumption, <1>0
    DEF IInv, Sound, TypeOK, SubjOK, HeldOK, HandleOwned, TrackedIn, Place,
        Caller, Goto, Svc, Mon, Pipe, vars, windows, runtime, locals
<1>1. ASSUME NEW s \in Session, ChangeSession(s) PROVE Sound'
  BY <1>1 DEF ChangeSession, Change
<1>2. ASSUME NEW p \in Proc, Die(p) PROVE Sound'
  BY <1>2 DEF Die, Change, alive
<1>3. ASSUME NEW s \in Session, SessionUp(s) PROVE Sound'
  BY <1>3 DEF SessionUp, Change, Begin
<1>4. ASSUME NEW s \in Session, SessionDown(s) PROVE Sound'
  BY <1>4 DEF SessionDown, Change, Begin, TakeOut, TrackedIn
<1>5. ASSUME MonitorTick PROVE Sound'
  BY <1>5 DEF MonitorTick, Begin
<1>6. ASSUME PipeClosed PROVE Sound'
  BY <1>6 DEF PipeClosed, Begin, EnsureActive, ConsoleSession
<1>7. ASSUME StopService PROVE Sound'
  BY <1>7 DEF StopService, Begin
<1>8. ASSUME StopCompanions PROVE Sound'
  BY <1>8 DEF StopCompanions, TakeOut, TrackedIn
<1>9. ASSUME LeaveExecute PROVE Sound'
  BY <1>9 DEF LeaveExecute
<1>10. ASSUME NEW t \in Caller, EndLoop(t) PROVE Sound'
  BY <1>10 DEF EndLoop
<1>11. ASSUME NEW t \in Caller, Enumerate(t) PROVE Sound'
  BY <1>11 DEF Enumerate
<1>12. ASSUME NEW t \in Caller, EnumerateFails(t) PROVE Sound'
  BY <1>12 DEF EnumerateFails, EnsureActive, ConsoleSession
<1>13. ASSUME NEW t \in Caller, NextSession(t) PROVE Sound'
  BY <1>13 DEF NextSession
<1>14. ASSUME NEW t \in Caller, CheckStopping(t) PROVE Sound'
  BY <1>14 DEF CheckStopping, Return
<1>15. ASSUME NEW t \in Caller, Lookup(t) PROVE Sound'
  BY <1>15 DEF Lookup, Return, alive
<1>16. ASSUME NEW t \in Caller, CloseHeld(t) PROVE Sound'
  BY <1>16 DEF CloseHeld, Return
<1>17. ASSUME NEW t \in Caller, Spawn(t) PROVE Sound'
  BY <1>17 DEF Spawn, alive
<1>18. ASSUME NEW t \in Caller, SpawnFails(t) PROVE Sound'
  BY <1>18 DEF SpawnFails, Return
<1>19. ASSUME NEW t \in Caller, Record(t) PROVE Sound'
  BY <1>19 DEF Record, Return
<1>20. ASSUME NEW t \in Caller, Prune(t) PROVE Sound'
  BY <1>20 DEF Prune, TakeOut, TrackedIn
<1>21. ASSUME NEW t \in Caller, Kill(t) PROVE Sound'
  BY <1>21 DEF Kill, Return
<1>22. ASSUME UNCHANGED vars PROVE Sound'
  BY <1>22
<1> HIDE DEF IInv, Sound, TypeOK, SubjOK, HeldOK, HandleOwned, TrackedIn,
             Place, Caller, Goto, Svc, Mon, Pipe, vars, windows, runtime, locals
<1> QED
  BY Zenon, NextCases, <1>0, <1>1, <1>2, <1>3, <1>4, <1>5, <1>6, <1>7, <1>8, <1>9,
     <1>10, <1>11, <1>12, <1>13, <1>14, <1>15, <1>16, <1>17, <1>18, <1>19,
     <1>20, <1>21, <1>22

\* Every step keeps the handles owned.
LEMMA StepOwned == IInv /\ [Next]_vars => HandleOwned'
<1> SUFFICES ASSUME IInv, [Next]_vars PROVE HandleOwned'
  OBVIOUS
<1>0. overlap \in BOOLEAN /\ overlap' = overlap
  BY OverlapFixed DEF IInv, Sound, TypeOK
<1> USE CompanionAssumption, <1>0
    DEF IInv, Sound, TypeOK, SubjOK, HeldOK, HandleOwned, TrackedIn, Place,
        Caller, Goto, Svc, Mon, Pipe, vars, windows, runtime, locals
<1>1. ASSUME NEW s \in Session, ChangeSession(s) PROVE HandleOwned'
  BY <1>1 DEF ChangeSession, Change
<1>2. ASSUME NEW p \in Proc, Die(p) PROVE HandleOwned'
  BY <1>2 DEF Die, Change, alive
<1>3. ASSUME NEW s \in Session, SessionUp(s) PROVE HandleOwned'
  BY <1>3 DEF SessionUp, Change, Begin
<1>4. ASSUME NEW s \in Session, SessionDown(s) PROVE HandleOwned'
  BY <1>4 DEF SessionDown, Change, Begin, TakeOut, TrackedIn
<1>5. ASSUME MonitorTick PROVE HandleOwned'
  BY <1>5 DEF MonitorTick, Begin
<1>6. ASSUME PipeClosed PROVE HandleOwned'
  BY <1>6 DEF PipeClosed, Begin, EnsureActive, ConsoleSession
<1>7. ASSUME StopService PROVE HandleOwned'
  BY <1>7 DEF StopService, Begin
<1>8. ASSUME StopCompanions PROVE HandleOwned'
  BY <1>8 DEF StopCompanions, TakeOut, TrackedIn
<1>9. ASSUME LeaveExecute PROVE HandleOwned'
  BY <1>9 DEF LeaveExecute
<1>10. ASSUME NEW t \in Caller, EndLoop(t) PROVE HandleOwned'
  BY <1>10 DEF EndLoop
<1>11. ASSUME NEW t \in Caller, Enumerate(t) PROVE HandleOwned'
  BY <1>11 DEF Enumerate
<1>12. ASSUME NEW t \in Caller, EnumerateFails(t) PROVE HandleOwned'
  BY <1>12 DEF EnumerateFails, EnsureActive, ConsoleSession
<1>13. ASSUME NEW t \in Caller, NextSession(t) PROVE HandleOwned'
  BY <1>13 DEF NextSession
<1>14. ASSUME NEW t \in Caller, CheckStopping(t) PROVE HandleOwned'
  BY <1>14 DEF CheckStopping, Return
<1>15. ASSUME NEW t \in Caller, Lookup(t) PROVE HandleOwned'
  BY <1>15 DEF Lookup, Return, alive
<1>16. ASSUME NEW t \in Caller, CloseHeld(t) PROVE HandleOwned'
  BY <1>16 DEF CloseHeld, Return
<1>17. ASSUME NEW t \in Caller, Spawn(t) PROVE HandleOwned'
  BY <1>17 DEF Spawn, alive
<1>18. ASSUME NEW t \in Caller, SpawnFails(t) PROVE HandleOwned'
  BY <1>18 DEF SpawnFails, Return
<1>19. ASSUME NEW t \in Caller, Record(t) PROVE HandleOwned'
  BY <1>19 DEF Record, Return
<1>20. ASSUME NEW t \in Caller, Prune(t) PROVE HandleOwned'
  BY <1>20 DEF Prune, TakeOut, TrackedIn
<1>21. ASSUME NEW t \in Caller, Kill(t) PROVE HandleOwned'
  BY <1>21 DEF Kill, Return
<1>22. ASSUME UNCHANGED vars PROVE HandleOwned'
  BY <1>22
<1> HIDE DEF IInv, Sound, TypeOK, SubjOK, HeldOK, HandleOwned, TrackedIn,
             Place, Caller, Goto, Svc, Mon, Pipe, vars, windows, runtime, locals
<1> QED
  BY Zenon, NextCases, <1>0, <1>1, <1>2, <1>3, <1>4, <1>5, <1>6, <1>7, <1>8, <1>9,
     <1>10, <1>11, <1>12, <1>13, <1>14, <1>15, <1>16, <1>17, <1>18, <1>19,
     <1>20, <1>21, <1>22

-----------------------------------------------------------------------------
LEMMA InitIInv == Init => IInv
<1> SUFFICES ASSUME Init PROVE IInv
  OBVIOUS
<1> USE CompanionAssumption DEF Init, Caller, Svc, Mon, Pipe
<1>1. TypeOK
  <2>1. /\ active \subseteq users /\ users \subseteq Session
        /\ changes \in 0..MaxChanges[overlap]
    BY SMT
  <2>5. stopping \in BOOLEAN /\ overlap \in BOOLEAN
    BY Zenon
  <2>2. /\ open \subseteq Proc
        /\ runsIn \in [Proc -> Session \cup {NoSession}]
        /\ companionBySession \in [Session -> Proc \cup {NoProc}]
    OBVIOUS
  <2>3. pc \in [Caller -> Place]
    BY DEF Place
  <2>4. /\ subj \in [Caller -> Session \cup {NoSession}]
        /\ todo \in [Caller -> SUBSET Session]
        /\ desired \in [Caller -> SUBSET Session]
        /\ held \in [Caller -> SUBSET Proc]
        /\ then \in [Caller -> {"idle", "enumerate", "next", "leaving"}]
    OBVIOUS
  <2> QED
    BY <2>1, <2>2, <2>3, <2>4, <2>5 DEF TypeOK
<1>2. SubjOK /\ HeldOK
  BY DEF SubjOK, HeldOK
<1>3. TrackedIn(Session) = {}
  BY DEF TrackedIn
<1>4. UNION {held[t] : t \in Caller} = {}
  OBVIOUS
<1>5. HandleOwned
  BY <1>3, <1>4 DEF HandleOwned
<1> QED
  BY <1>1, <1>2, <1>5 DEF IInv, Sound

LEMMA IInvHolds == Spec => []IInv
<1>1. IInv /\ [Next]_vars => IInv'
  BY StepSound, StepOwned DEF IInv
<1> QED
  BY InitIInv, <1>1, PTL DEF Spec

\* The types of all variables, for any sets of sessions and processes.
THEOREM TypeCorrect == Spec => []TypeOK
<1>1. IInv => TypeOK
  BY DEF IInv, Sound
<1> QED
  BY IInvHolds, <1>1, PTL

\* companionRuntime never leaks a process handle, closes one twice or uses a
\* closed one, however the calls of Execute, the monitor and the pipe server
\* overlap, a stop of the service included.
THEOREM HandlesOwned == Spec => []HandleOwned
<1>1. IInv => HandleOwned
  BY DEF IInv
<1> QED
  BY IInvHolds, <1>1, PTL

-----------------------------------------------------------------------------
(* Calls that do not overlap.                                               *)

OneActive == \A t, u \in Caller : Between(t) \/ Between(u) \/ t = u

LiveOpen == alive \subseteq open

\* The map does not mix the sessions up: a companion that runs does so where
\* the map, or the goroutine that is about to record it, says.
RunsWhereTracked ==
    /\ \A s \in Session : companionBySession[s] \in alive =>
                            runsIn[companionBySession[s]] = s
    /\ \A t \in Caller : pc[t] = "record" =>
            \A p \in held[t] : runsIn[p] \in {subj[t], NoSession}

\* A goroutine that is about to spawn has found no running companion, and
\* nobody records one behind its back.
NoneTracked ==
    \A t \in Caller :
        /\ pc[t] \in {"closeDead", "spawn", "record"} => companionBySession[subj[t]] = NoProc
        /\ pc[t] = "closeDead" => held[t] \cap alive = {}
        /\ pc[t] # "closeOld"

Single == \A p, q \in alive : runsIn[p] = runsIn[q] => p = q

\* Once the service stops nobody looks after a companion any more, Execute
\* takes all of them out of the map and leaves when they are terminated.
StopOK ==
    /\ stopping => /\ pc[Svc] \in {"stop", "kill", "leaving", "exit"}
                   /\ pc[Svc] = "kill" => then[Svc] = "leaving"
                   /\ \A t \in Caller :
                        pc[t] \notin {"lookup", "closeDead", "spawn", "record"}
                   /\ pc[Svc] # "stop" => \A s \in Session : companionBySession[s] = NoProc
    /\ pc[Svc] \in {"stop", "leaving", "exit"} => stopping
    /\ pc[Svc] # "exit" /\ then[Svc] = "leaving" => stopping
    /\ pc[Svc] \in {"leaving", "exit"} => alive = {}

Serial == OneActive /\ LiveOpen /\ RunsWhereTracked /\ NoneTracked /\ Single /\ StopOK

LEMMA StepOneActive ==
    ASSUME IInv, Serial, ~overlap, [Next]_vars
    PROVE  OneActive'
<1>0. overlap \in BOOLEAN /\ overlap' = overlap
  BY OverlapFixed DEF IInv, Sound, TypeOK
<1> USE CompanionAssumption, <1>0
    DEF Serial, IInv, Sound, TypeOK, SubjOK, HeldOK, HandleOwned, TrackedIn, Place, alive,
        Caller, Goto, Svc, Mon, Pipe, vars, windows, runtime, locals
<1>1. ASSUME NEW s \in Session, ChangeSession(s) PROVE OneActive'
  BY <1>1 DEF ChangeSession, Change, OneActive, Between
<1>2. ASSUME NEW p \in Proc, Die(p) PROVE OneActive'
  BY <1>2 DEF Die, Change, OneActive, Between
<1>3. ASSUME NEW s \in Session, SessionUp(s) PROVE OneActive'
  BY <1>3 DEF SessionUp, Change, Begin, OneActive, Between
<1>4. ASSUME NEW s \in Session, SessionDown(s) PROVE OneActive'
  BY <1>4 DEF SessionDown, Change, Begin, TakeOut, OneActive, Between
<1>5. ASSUME MonitorTick PROVE OneActive'
  BY <1>5 DEF MonitorTick, Begin, OneActive, Between
<1>6. ASSUME PipeClosed PROVE OneActive'
  BY <1>6 DEF PipeClosed, Begin, EnsureActive, OneActive, Between
<1>7. ASSUME StopService PROVE OneActive'
  BY <1>7 DEF StopService, Begin, OneActive, Between
<1>8. ASSUME StopCompanions PROVE OneActive'
  BY <1>8 DEF StopCompanions, TakeOut, OneActive, Between
<1>9. ASSUME LeaveExecute PROVE OneActive'
  BY <1>9 DEF LeaveExecute, OneActive, Between
<1>10. ASSUME NEW t \in Caller, EndLoop(t) PROVE OneActive'
  BY <1>10 DEF EndLoop, OneActive, Between
<1>11. ASSUME NEW t \in Caller, Enumerate(t) PROVE OneActive'
  BY <1>11 DEF Enumerate, OneActive, Between
<1>12. ASSUME NEW t \in Caller, EnumerateFails(t) PROVE OneActive'
  BY <1>12 DEF EnumerateFails, EnsureActive, OneActive, Between
<1>13. ASSUME NEW t \in Caller, NextSession(t) PROVE OneActive'
  BY <1>13 DEF NextSession, OneActive, Between
<1>14. ASSUME NEW t \in Caller, CheckStopping(t) PROVE OneActive'
  BY <1>14 DEF CheckStopping, Return, OneActive, Between
<1>15. ASSUME NEW t \in Caller, Lookup(t) PROVE OneActive'
  BY <1>15 DEF Lookup, Return, OneActive, Between
<1>16. ASSUME NEW t \in Caller, CloseHeld(t) PROVE OneActive'
  BY <1>16 DEF CloseHeld, Return, OneActive, Between
<1>17. ASSUME NEW t \in Caller, Spawn(t) PROVE OneActive'
  BY <1>17 DEF Spawn, OneActive, Between
<1>18. ASSUME NEW t \in Caller, SpawnFails(t) PROVE OneActive'
  BY <1>18 DEF SpawnFails, Return, OneActive, Between
<1>19. ASSUME NEW t \in Caller, Record(t) PROVE OneActive'
  BY <1>19 DEF Record, Return, OneActive, Between
<1>20. ASSUME NEW t \in Caller, Prune(t) PROVE OneActive'
  BY <1>20 DEF Prune, TakeOut, OneActive, Between
<1>21. ASSUME NEW t \in Caller, Kill(t) PROVE OneActive'
  BY <1>21 DEF Kill, Return, OneActive, Between
<1>22. CASE UNCHANGED vars
  BY <1>22 DEF OneActive, Between
<1> HIDE DEF Serial, IInv, Sound, TypeOK, SubjOK, HeldOK, HandleOwned, TrackedIn, Place, alive,
        Caller, Goto, Svc, Mon, Pipe, vars, windows, runtime, locals
<1> QED
  BY Zenon, NextCases, <1>0, <1>1, <1>2, <1>3, <1>4, <1>5, <1>6, <1>7,
      <1>8, <1>9, <1>10, <1>11, <1>12, <1>13, <1>14, <1>15, <1>16, <1>17,
      <1>18, <1>19, <1>20, <1>21, <1>22

LEMMA StepLiveOpen ==
    ASSUME IInv, Serial, ~overlap, [Next]_vars
    PROVE  LiveOpen'
<1>0. overlap \in BOOLEAN /\ overlap' = overlap
  BY OverlapFixed DEF IInv, Sound, TypeOK
<1> USE CompanionAssumption, <1>0
    DEF Serial, IInv, Sound, TypeOK, SubjOK, HeldOK, HandleOwned, TrackedIn, Place, alive,
        Caller, Goto, Svc, Mon, Pipe, vars, windows, runtime, locals
<1>1. ASSUME NEW s \in Session, ChangeSession(s) PROVE LiveOpen'
  BY <1>1 DEF ChangeSession, Change, LiveOpen, NoneTracked
<1>2. ASSUME NEW p \in Proc, Die(p) PROVE LiveOpen'
  BY <1>2 DEF Die, Change, LiveOpen, NoneTracked
<1>3. ASSUME NEW s \in Session, SessionUp(s) PROVE LiveOpen'
  BY <1>3 DEF SessionUp, Change, Begin, LiveOpen, NoneTracked
<1>4. ASSUME NEW s \in Session, SessionDown(s) PROVE LiveOpen'
  BY <1>4 DEF SessionDown, Change, Begin, TakeOut, LiveOpen, NoneTracked
<1>5. ASSUME MonitorTick PROVE LiveOpen'
  BY <1>5 DEF MonitorTick, Begin, LiveOpen, NoneTracked
<1>6. ASSUME PipeClosed PROVE LiveOpen'
  BY <1>6 DEF PipeClosed, Begin, EnsureActive, LiveOpen, NoneTracked
<1>7. ASSUME StopService PROVE LiveOpen'
  BY <1>7 DEF StopService, Begin, LiveOpen, NoneTracked
<1>8. ASSUME StopCompanions PROVE LiveOpen'
  BY <1>8 DEF StopCompanions, TakeOut, LiveOpen, NoneTracked
<1>9. ASSUME LeaveExecute PROVE LiveOpen'
  BY <1>9 DEF LeaveExecute, LiveOpen, NoneTracked
<1>10. ASSUME NEW t \in Caller, EndLoop(t) PROVE LiveOpen'
  BY <1>10 DEF EndLoop, LiveOpen, NoneTracked
<1>11. ASSUME NEW t \in Caller, Enumerate(t) PROVE LiveOpen'
  BY <1>11 DEF Enumerate, LiveOpen, NoneTracked
<1>12. ASSUME NEW t \in Caller, EnumerateFails(t) PROVE LiveOpen'
  BY <1>12 DEF EnumerateFails, EnsureActive, LiveOpen, NoneTracked
<1>13. ASSUME NEW t \in Caller, NextSession(t) PROVE LiveOpen'
  BY <1>13 DEF NextSession, LiveOpen, NoneTracked
<1>14. ASSUME NEW t \in Caller, CheckStopping(t) PROVE LiveOpen'
  BY <1>14 DEF CheckStopping, Return, LiveOpen, NoneTracked
<1>15. ASSUME NEW t \in Caller, Lookup(t) PROVE LiveOpen'
  BY <1>15 DEF Lookup, Return, LiveOpen, NoneTracked
<1>16. ASSUME NEW t \in Caller, CloseHeld(t) PROVE LiveOpen'
  BY <1>16 DEF CloseHeld, Return, LiveOpen, NoneTracked
<1>17. ASSUME NEW t \in Caller, Spawn(t) PROVE LiveOpen'
  BY <1>17 DEF Spawn, LiveOpen, NoneTracked
<1>18. ASSUME NEW t \in Caller, SpawnFails(t) PROVE LiveOpen'
  BY <1>18 DEF SpawnFails, Return, LiveOpen, NoneTracked
<1>19. ASSUME NEW t \in Caller, Record(t) PROVE LiveOpen'
  BY <1>19 DEF Record, Return, LiveOpen, NoneTracked
<1>20. ASSUME NEW t \in Caller, Prune(t) PROVE LiveOpen'
  BY <1>20 DEF Prune, TakeOut, LiveOpen, NoneTracked
<1>21. ASSUME NEW t \in Caller, Kill(t) PROVE LiveOpen'
  BY <1>21 DEF Kill, Return, LiveOpen, NoneTracked
<1>22. CASE UNCHANGED vars
  BY <1>22 DEF LiveOpen, NoneTracked
<1> HIDE DEF Serial, IInv, Sound, TypeOK, SubjOK, HeldOK, HandleOwned, TrackedIn, Place, alive,
        Caller, Goto, Svc, Mon, Pipe, vars, windows, runtime, locals
<1> QED
  BY Zenon, NextCases, <1>0, <1>1, <1>2, <1>3, <1>4, <1>5, <1>6, <1>7,
      <1>8, <1>9, <1>10, <1>11, <1>12, <1>13, <1>14, <1>15, <1>16, <1>17,
      <1>18, <1>19, <1>20, <1>21, <1>22

LEMMA StepRunsWhereTracked ==
    ASSUME IInv, Serial, ~overlap, [Next]_vars
    PROVE  RunsWhereTracked'
<1>0. overlap \in BOOLEAN /\ overlap' = overlap
  BY OverlapFixed DEF IInv, Sound, TypeOK
<1> USE CompanionAssumption, <1>0
    DEF Serial, IInv, Sound, TypeOK, SubjOK, HeldOK, HandleOwned, TrackedIn, Place, alive,
        Caller, Goto, Svc, Mon, Pipe, vars, windows, runtime, locals
<1>1. ASSUME NEW s \in Session, ChangeSession(s) PROVE RunsWhereTracked'
  BY <1>1 DEF ChangeSession, Change, RunsWhereTracked, NoneTracked,
      LiveOpen
<1>2. ASSUME NEW p \in Proc, Die(p) PROVE RunsWhereTracked'
  BY <1>2 DEF Die, Change, RunsWhereTracked, NoneTracked, LiveOpen
<1>3. ASSUME NEW s \in Session, SessionUp(s) PROVE RunsWhereTracked'
  BY <1>3 DEF SessionUp, Change, Begin, RunsWhereTracked, NoneTracked,
      LiveOpen
<1>4. ASSUME NEW s \in Session, SessionDown(s) PROVE RunsWhereTracked'
  BY <1>4 DEF SessionDown, Change, Begin, TakeOut, RunsWhereTracked,
      NoneTracked, LiveOpen
<1>5. ASSUME MonitorTick PROVE RunsWhereTracked'
  BY <1>5 DEF MonitorTick, Begin, RunsWhereTracked, NoneTracked, LiveOpen
<1>6. ASSUME PipeClosed PROVE RunsWhereTracked'
  BY <1>6 DEF PipeClosed, Begin, EnsureActive, RunsWhereTracked,
      NoneTracked, LiveOpen
<1>7. ASSUME StopService PROVE RunsWhereTracked'
  BY <1>7 DEF StopService, Begin, RunsWhereTracked, NoneTracked, LiveOpen
<1>8. ASSUME StopCompanions PROVE RunsWhereTracked'
  BY <1>8 DEF StopCompanions, TakeOut, RunsWhereTracked, NoneTracked,
      LiveOpen
<1>9. ASSUME LeaveExecute PROVE RunsWhereTracked'
  BY <1>9 DEF LeaveExecute, RunsWhereTracked, NoneTracked, LiveOpen
<1>10. ASSUME NEW t \in Caller, EndLoop(t) PROVE RunsWhereTracked'
  BY <1>10 DEF EndLoop, RunsWhereTracked, NoneTracked, LiveOpen
<1>11. ASSUME NEW t \in Caller, Enumerate(t) PROVE RunsWhereTracked'
  BY <1>11 DEF Enumerate, RunsWhereTracked, NoneTracked, LiveOpen
<1>12. ASSUME NEW t \in Caller, EnumerateFails(t) PROVE RunsWhereTracked'
  BY <1>12 DEF EnumerateFails, EnsureActive, RunsWhereTracked,
      NoneTracked, LiveOpen
<1>13. ASSUME NEW t \in Caller, NextSession(t) PROVE RunsWhereTracked'
  BY <1>13 DEF NextSession, RunsWhereTracked, NoneTracked, LiveOpen
<1>14. ASSUME NEW t \in Caller, CheckStopping(t) PROVE RunsWhereTracked'
  BY <1>14 DEF CheckStopping, Return, RunsWhereTracked, NoneTracked,
      LiveOpen
<1>15. ASSUME NEW t \in Caller, Lookup(t) PROVE RunsWhereTracked'
  BY <1>15 DEF Lookup, Return, RunsWhereTracked, NoneTracked, LiveOpen
<1>16. ASSUME NEW t \in Caller, CloseHeld(t) PROVE RunsWhereTracked'
  BY <1>16 DEF CloseHeld, Return, RunsWhereTracked, NoneTracked, LiveOpen
<1>17. ASSUME NEW t \in Caller, Spawn(t) PROVE RunsWhereTracked'
  BY <1>17 DEF Spawn, RunsWhereTracked, NoneTracked, LiveOpen
<1>18. ASSUME NEW t \in Caller, SpawnFails(t) PROVE RunsWhereTracked'
  BY <1>18 DEF SpawnFails, Return, RunsWhereTracked, NoneTracked, LiveOpen
<1>19. ASSUME NEW t \in Caller, Record(t) PROVE RunsWhereTracked'
  BY <1>19 DEF Record, Return, RunsWhereTracked, NoneTracked, LiveOpen
<1>20. ASSUME NEW t \in Caller, Prune(t) PROVE RunsWhereTracked'
  BY <1>20 DEF Prune, TakeOut, RunsWhereTracked, NoneTracked, LiveOpen
<1>21. ASSUME NEW t \in Caller, Kill(t) PROVE RunsWhereTracked'
  BY <1>21 DEF Kill, Return, RunsWhereTracked, NoneTracked, LiveOpen
<1>22. CASE UNCHANGED vars
  BY <1>22 DEF RunsWhereTracked, NoneTracked, LiveOpen
<1> HIDE DEF Serial, IInv, Sound, TypeOK, SubjOK, HeldOK, HandleOwned, TrackedIn, Place, alive,
        Caller, Goto, Svc, Mon, Pipe, vars, windows, runtime, locals
<1> QED
  BY Zenon, NextCases, <1>0, <1>1, <1>2, <1>3, <1>4, <1>5, <1>6, <1>7,
      <1>8, <1>9, <1>10, <1>11, <1>12, <1>13, <1>14, <1>15, <1>16, <1>17,
      <1>18, <1>19, <1>20, <1>21, <1>22

LEMMA StepNoneTracked ==
    ASSUME IInv, Serial, ~overlap, [Next]_vars
    PROVE  NoneTracked'
<1>0. overlap \in BOOLEAN /\ overlap' = overlap
  BY OverlapFixed DEF IInv, Sound, TypeOK
<1> USE CompanionAssumption, <1>0
    DEF Serial, IInv, Sound, TypeOK, SubjOK, HeldOK, HandleOwned, TrackedIn, Place, alive,
        Caller, Goto, Svc, Mon, Pipe, vars, windows, runtime, locals
<1>1. ASSUME NEW s \in Session, ChangeSession(s) PROVE NoneTracked'
  BY <1>1 DEF ChangeSession, Change, NoneTracked, OneActive, Between,
      LiveOpen, RunsWhereTracked
<1>2. ASSUME NEW p \in Proc, Die(p) PROVE NoneTracked'
  BY <1>2 DEF Die, Change, NoneTracked, OneActive, Between, LiveOpen,
      RunsWhereTracked
<1>3. ASSUME NEW s \in Session, SessionUp(s) PROVE NoneTracked'
  BY <1>3 DEF SessionUp, Change, Begin, NoneTracked, OneActive, Between,
      LiveOpen, RunsWhereTracked
<1>4. ASSUME NEW s \in Session, SessionDown(s) PROVE NoneTracked'
  BY <1>4 DEF SessionDown, Change, Begin, TakeOut, NoneTracked, OneActive,
      Between, LiveOpen, RunsWhereTracked
<1>5. ASSUME MonitorTick PROVE NoneTracked'
  BY <1>5 DEF MonitorTick, Begin, NoneTracked, OneActive, Between,
      LiveOpen, RunsWhereTracked
<1>6. ASSUME PipeClosed PROVE NoneTracked'
  BY <1>6 DEF PipeClosed, Begin, EnsureActive, NoneTracked, OneActive,
      Between, LiveOpen, RunsWhereTracked
<1>7. ASSUME StopService PROVE NoneTracked'
  BY <1>7 DEF StopService, Begin, NoneTracked, OneActive, Between,
      LiveOpen, RunsWhereTracked
<1>8. ASSUME StopCompanions PROVE NoneTracked'
  BY <1>8 DEF StopCompanions, TakeOut, NoneTracked, OneActive, Between,
      LiveOpen, RunsWhereTracked
<1>9. ASSUME LeaveExecute PROVE NoneTracked'
  BY <1>9 DEF LeaveExecute, NoneTracked, OneActive, Between, LiveOpen,
      RunsWhereTracked
<1>10. ASSUME NEW t \in Caller, EndLoop(t) PROVE NoneTracked'
  BY <1>10 DEF EndLoop, NoneTracked, OneActive, Between, LiveOpen,
      RunsWhereTracked
<1>11. ASSUME NEW t \in Caller, Enumerate(t) PROVE NoneTracked'
  BY <1>11 DEF Enumerate, NoneTracked, OneActive, Between, LiveOpen,
      RunsWhereTracked
<1>12. ASSUME NEW t \in Caller, EnumerateFails(t) PROVE NoneTracked'
  BY <1>12 DEF EnumerateFails, EnsureActive, NoneTracked, OneActive,
      Between, LiveOpen, RunsWhereTracked
<1>13. ASSUME NEW t \in Caller, NextSession(t) PROVE NoneTracked'
  BY <1>13 DEF NextSession, NoneTracked, OneActive, Between, LiveOpen,
      RunsWhereTracked
<1>14. ASSUME NEW t \in Caller, CheckStopping(t) PROVE NoneTracked'
  BY <1>14 DEF CheckStopping, Return, NoneTracked, OneActive, Between,
      LiveOpen, RunsWhereTracked
<1>15. ASSUME NEW t \in Caller, Lookup(t) PROVE NoneTracked'
  BY <1>15 DEF Lookup, Return, NoneTracked, OneActive, Between, LiveOpen,
      RunsWhereTracked
<1>16. ASSUME NEW t \in Caller, CloseHeld(t) PROVE NoneTracked'
  BY <1>16 DEF CloseHeld, Return, NoneTracked, OneActive, Between,
      LiveOpen, RunsWhereTracked
<1>17. ASSUME NEW t \in Caller, Spawn(t) PROVE NoneTracked'
  BY <1>17 DEF Spawn, NoneTracked, OneActive, Between, LiveOpen,
      RunsWhereTracked
<1>18. ASSUME NEW t \in Caller, SpawnFails(t) PROVE NoneTracked'
  BY <1>18 DEF SpawnFails, Return, NoneTracked, OneActive, Between,
      LiveOpen, RunsWhereTracked
<1>19. ASSUME NEW t \in Caller, Record(t) PROVE NoneTracked'
  BY <1>19 DEF Record, Return, NoneTracked, OneActive, Between, LiveOpen,
      RunsWhereTracked
<1>20. ASSUME NEW t \in Caller, Prune(t) PROVE NoneTracked'
  BY <1>20 DEF Prune, TakeOut, NoneTracked, OneActive, Between, LiveOpen,
      RunsWhereTracked
<1>21. ASSUME NEW t \in Caller, Kill(t) PROVE NoneTracked'
  BY <1>21 DEF Kill, Return, NoneTracked, OneActive, Between, LiveOpen,
      RunsWhereTracked
<1>22. CASE UNCHANGED vars
  BY <1>22 DEF NoneTracked, OneActive, Between, LiveOpen, RunsWhereTracked
<1> HIDE DEF Serial, IInv, Sound, TypeOK, SubjOK, HeldOK, HandleOwned, TrackedIn, Place, alive,
        Caller, Goto, Svc, Mon, Pipe, vars, windows, runtime, locals
<1> QED
  BY Zenon, NextCases, <1>0, <1>1, <1>2, <1>3, <1>4, <1>5, <1>6, <1>7,
      <1>8, <1>9, <1>10, <1>11, <1>12, <1>13, <1>14, <1>15, <1>16, <1>17,
      <1>18, <1>19, <1>20, <1>21, <1>22

LEMMA StepSingle ==
    ASSUME IInv, Serial, ~overlap, [Next]_vars
    PROVE  Single'
<1>0. overlap \in BOOLEAN /\ overlap' = overlap
  BY OverlapFixed DEF IInv, Sound, TypeOK
<1> USE CompanionAssumption, <1>0
    DEF Serial, IInv, Sound, TypeOK, SubjOK, HeldOK, HandleOwned, TrackedIn, Place, alive,
        Caller, Goto, Svc, Mon, Pipe, vars, windows, runtime, locals
<1>1. ASSUME NEW s \in Session, ChangeSession(s) PROVE Single'
  BY <1>1 DEF ChangeSession, Change, Single, NoneTracked, OneActive,
      Between, LiveOpen, RunsWhereTracked
<1>2. ASSUME NEW p \in Proc, Die(p) PROVE Single'
  BY <1>2 DEF Die, Change, Single, NoneTracked, OneActive, Between,
      LiveOpen, RunsWhereTracked
<1>3. ASSUME NEW s \in Session, SessionUp(s) PROVE Single'
  BY <1>3 DEF SessionUp, Change, Begin, Single, NoneTracked, OneActive,
      Between, LiveOpen, RunsWhereTracked
<1>4. ASSUME NEW s \in Session, SessionDown(s) PROVE Single'
  BY <1>4 DEF SessionDown, Change, Begin, TakeOut, Single, NoneTracked,
      OneActive, Between, LiveOpen, RunsWhereTracked
<1>5. ASSUME MonitorTick PROVE Single'
  BY <1>5 DEF MonitorTick, Begin, Single, NoneTracked, OneActive, Between,
      LiveOpen, RunsWhereTracked
<1>6. ASSUME PipeClosed PROVE Single'
  BY <1>6 DEF PipeClosed, Begin, EnsureActive, Single, NoneTracked,
      OneActive, Between, LiveOpen, RunsWhereTracked
<1>7. ASSUME StopService PROVE Single'
  BY <1>7 DEF StopService, Begin, Single, NoneTracked, OneActive, Between,
      LiveOpen, RunsWhereTracked
<1>8. ASSUME StopCompanions PROVE Single'
  BY <1>8 DEF StopCompanions, TakeOut, Single, NoneTracked, OneActive,
      Between, LiveOpen, RunsWhereTracked
<1>9. ASSUME LeaveExecute PROVE Single'
  BY <1>9 DEF LeaveExecute, Single, NoneTracked, OneActive, Between,
      LiveOpen, RunsWhereTracked
<1>10. ASSUME NEW t \in Caller, EndLoop(t) PROVE Single'
  BY <1>10 DEF EndLoop, Single, NoneTracked, OneActive, Between, LiveOpen,
      RunsWhereTracked
<1>11. ASSUME NEW t \in Caller, Enumerate(t) PROVE Single'
  BY <1>11 DEF Enumerate, Single, NoneTracked, OneActive, Between,
      LiveOpen, RunsWhereTracked
<1>12. ASSUME NEW t \in Caller, EnumerateFails(t) PROVE Single'
  BY <1>12 DEF EnumerateFails, EnsureActive, Single, NoneTracked,
      OneActive, Between, LiveOpen, RunsWhereTracked
<1>13. ASSUME NEW t \in Caller, NextSession(t) PROVE Single'
  BY <1>13 DEF NextSession, Single, NoneTracked, OneActive, Between,
      LiveOpen, RunsWhereTracked
<1>14. ASSUME NEW t \in Caller, CheckStopping(t) PROVE Single'
  BY <1>14 DEF CheckStopping, Return, Single, NoneTracked, OneActive,
      Between, LiveOpen, RunsWhereTracked
<1>15. ASSUME NEW t \in Caller, Lookup(t) PROVE Single'
  BY <1>15 DEF Lookup, Return, Single, NoneTracked, OneActive, Between,
      LiveOpen, RunsWhereTracked
<1>16. ASSUME NEW t \in Caller, CloseHeld(t) PROVE Single'
  BY <1>16 DEF CloseHeld, Return, Single, NoneTracked, OneActive, Between,
      LiveOpen, RunsWhereTracked
<1>17. ASSUME NEW t \in Caller, Spawn(t) PROVE Single'
  BY <1>17 DEF Spawn, Single, NoneTracked, OneActive, Between, LiveOpen,
      RunsWhereTracked
<1>18. ASSUME NEW t \in Caller, SpawnFails(t) PROVE Single'
  BY <1>18 DEF SpawnFails, Return, Single, NoneTracked, OneActive,
      Between, LiveOpen, RunsWhereTracked
<1>19. ASSUME NEW t \in Caller, Record(t) PROVE Single'
  BY <1>19 DEF Record, Return, Single, NoneTracked, OneActive, Between,
      LiveOpen, RunsWhereTracked
<1>20. ASSUME NEW t \in Caller, Prune(t) PROVE Single'
  BY <1>20 DEF Prune, TakeOut, Single, NoneTracked, OneActive, Between,
      LiveOpen, RunsWhereTracked
<1>21. ASSUME NEW t \in Caller, Kill(t) PROVE Single'
  BY <1>21 DEF Kill, Return, Single, NoneTracked, OneActive, Between,
      LiveOpen, RunsWhereTracked
<1>22. CASE UNCHANGED vars
  BY <1>22 DEF Single, NoneTracked, OneActive, Between, LiveOpen,
      RunsWhereTracked
<1> HIDE DEF Serial, IInv, Sound, TypeOK, SubjOK, HeldOK, HandleOwned, TrackedIn, Place, alive,
        Caller, Goto, Svc, Mon, Pipe, vars, windows, runtime, locals
<1> QED
  BY Zenon, NextCases, <1>0, <1>1, <1>2, <1>3, <1>4, <1>5, <1>6, <1>7,
      <1>8, <1>9, <1>10, <1>11, <1>12, <1>13, <1>14, <1>15, <1>16, <1>17,
      <1>18, <1>19, <1>20, <1>21, <1>22

LEMMA StepStopOK ==
    ASSUME IInv, Serial, ~overlap, [Next]_vars
    PROVE  StopOK'
<1>0. overlap \in BOOLEAN /\ overlap' = overlap
  BY OverlapFixed DEF IInv, Sound, TypeOK
<1> USE CompanionAssumption, <1>0
    DEF Serial, IInv, Sound, TypeOK, SubjOK, HeldOK, HandleOwned, TrackedIn, Place, alive,
        Caller, Goto, Svc, Mon, Pipe, vars, windows, runtime, locals
<1>1. ASSUME NEW s \in Session, ChangeSession(s) PROVE StopOK'
  BY <1>1 DEF ChangeSession, Change, StopOK, OneActive, Between, LiveOpen,
      NoneTracked
<1>2. ASSUME NEW p \in Proc, Die(p) PROVE StopOK'
  BY <1>2 DEF Die, Change, StopOK, OneActive, Between, LiveOpen,
      NoneTracked
<1>3. ASSUME NEW s \in Session, SessionUp(s) PROVE StopOK'
  BY <1>3 DEF SessionUp, Change, Begin, StopOK, OneActive, Between,
      LiveOpen, NoneTracked
<1>4. ASSUME NEW s \in Session, SessionDown(s) PROVE StopOK'
  BY <1>4 DEF SessionDown, Change, Begin, TakeOut, StopOK, OneActive,
      Between, LiveOpen, NoneTracked
<1>5. ASSUME MonitorTick PROVE StopOK'
  BY <1>5 DEF MonitorTick, Begin, StopOK, OneActive, Between, LiveOpen,
      NoneTracked
<1>6. ASSUME PipeClosed PROVE StopOK'
  BY <1>6 DEF PipeClosed, Begin, EnsureActive, StopOK, OneActive, Between,
      LiveOpen, NoneTracked
<1>7. ASSUME StopService PROVE StopOK'
  BY <1>7 DEF StopService, Begin, StopOK, OneActive, Between, LiveOpen,
      NoneTracked
<1>8. ASSUME StopCompanions PROVE StopOK'
  BY <1>8 DEF StopCompanions, TakeOut, StopOK, OneActive, Between,
      LiveOpen, NoneTracked
<1>9. ASSUME LeaveExecute PROVE StopOK'
  BY <1>9 DEF LeaveExecute, StopOK, OneActive, Between, LiveOpen,
      NoneTracked
<1>10. ASSUME NEW t \in Caller, EndLoop(t) PROVE StopOK'
  BY <1>10 DEF EndLoop, StopOK, OneActive, Between, LiveOpen, NoneTracked
<1>11. ASSUME NEW t \in Caller, Enumerate(t) PROVE StopOK'
  BY <1>11 DEF Enumerate, StopOK, OneActive, Between, LiveOpen,
      NoneTracked
<1>12. ASSUME NEW t \in Caller, EnumerateFails(t) PROVE StopOK'
  BY <1>12 DEF EnumerateFails, EnsureActive, StopOK, OneActive, Between,
      LiveOpen, NoneTracked
<1>13. ASSUME NEW t \in Caller, NextSession(t) PROVE StopOK'
  BY <1>13 DEF NextSession, StopOK, OneActive, Between, LiveOpen,
      NoneTracked
<1>14. ASSUME NEW t \in Caller, CheckStopping(t) PROVE StopOK'
  BY <1>14 DEF CheckStopping, Return, StopOK, OneActive, Between,
      LiveOpen, NoneTracked
<1>15. ASSUME NEW t \in Caller, Lookup(t) PROVE StopOK'
  BY <1>15 DEF Lookup, Return, StopOK, OneActive, Between, LiveOpen,
      NoneTracked
<1>16. ASSUME NEW t \in Caller, CloseHeld(t) PROVE StopOK'
  BY <1>16 DEF CloseHeld, Return, StopOK, OneActive, Between, LiveOpen,
      NoneTracked
<1>17. ASSUME NEW t \in Caller, Spawn(t) PROVE StopOK'
  BY <1>17 DEF Spawn, StopOK, OneActive, Between, LiveOpen, NoneTracked
<1>18. ASSUME NEW t \in Caller, SpawnFails(t) PROVE StopOK'
  BY <1>18 DEF SpawnFails, Return, StopOK, OneActive, Between, LiveOpen,
      NoneTracked
<1>19. ASSUME NEW t \in Caller, Record(t) PROVE StopOK'
  BY <1>19 DEF Record, Return, StopOK, OneActive, Between, LiveOpen,
      NoneTracked
<1>20. ASSUME NEW t \in Caller, Prune(t) PROVE StopOK'
  BY <1>20 DEF Prune, TakeOut, StopOK, OneActive, Between, LiveOpen,
      NoneTracked
<1>21. ASSUME NEW t \in Caller, Kill(t) PROVE StopOK'
  BY <1>21 DEF Kill, Return, StopOK, OneActive, Between, LiveOpen,
      NoneTracked
<1>22. CASE UNCHANGED vars
  BY <1>22 DEF StopOK, OneActive, Between, LiveOpen, NoneTracked
<1> HIDE DEF Serial, IInv, Sound, TypeOK, SubjOK, HeldOK, HandleOwned, TrackedIn, Place, alive,
        Caller, Goto, Svc, Mon, Pipe, vars, windows, runtime, locals
<1> QED
  BY Zenon, NextCases, <1>0, <1>1, <1>2, <1>3, <1>4, <1>5, <1>6, <1>7,
      <1>8, <1>9, <1>10, <1>11, <1>12, <1>13, <1>14, <1>15, <1>16, <1>17,
      <1>18, <1>19, <1>20, <1>21, <1>22

-----------------------------------------------------------------------------
LEMMA SerialHolds == Spec => [](IInv /\ (overlap \/ Serial))
<1>1. Init => overlap \/ Serial
  <2> SUFFICES ASSUME Init PROVE Serial
    OBVIOUS
  <2> USE CompanionAssumption DEF Init, alive, Caller, Svc, Mon, Pipe, Between
  <2>1. OneActive
    BY DEF OneActive
  <2>2. LiveOpen /\ Single
    BY DEF LiveOpen, Single
  <2>3. RunsWhereTracked /\ NoneTracked
    BY DEF RunsWhereTracked, NoneTracked
  <2>4. StopOK
    BY DEF StopOK
  <2> QED
    BY <2>1, <2>2, <2>3, <2>4 DEF Serial
<1>2. IInv /\ (overlap \/ Serial) /\ [Next]_vars => (IInv /\ (overlap \/ Serial))'
  <2> SUFFICES ASSUME IInv, overlap \/ Serial, [Next]_vars
               PROVE  IInv' /\ (overlap \/ Serial)'
    OBVIOUS
  <2>1. IInv'
    BY StepSound, StepOwned DEF IInv
  <2>2. CASE overlap
    BY <2>1, <2>2, OverlapFixed
  <2>3. CASE ~overlap
    BY <2>1, <2>3, StepOneActive, StepLiveOpen, StepRunsWhereTracked, StepNoneTracked,
       StepSingle, StepStopOK DEF Serial
  <2> QED
    BY <2>2, <2>3
<1> QED
  BY InitIInv, <1>1, <1>2, PTL DEF Spec

\* While calls do not overlap the service never runs two companions in a
\* session, over any number of session changes, crashes of companions and
\* enumerations that fail.
THEOREM CompanionIsSingle == Spec => []OneCompanion
<1>1. overlap \/ Serial => OneCompanion
  BY DEF Serial, Single, OneCompanion
<1> QED
  BY SerialHolds, <1>1, PTL

\* While calls do not overlap the service keeps the handle of every companion
\* that runs.
THEOREM LiveStaysOpen == Spec => []LiveIsOpen
<1>1. overlap \/ Serial => LiveIsOpen
  BY DEF Serial, LiveOpen, LiveIsOpen
<1> QED
  BY SerialHolds, <1>1, PTL

\* While calls do not overlap every companion has ended when Execute leaves,
\* although monitor and pipe server may still start calls while it stops.
THEOREM NoneSurvives == Spec => []NoneAfterStop
<1>1. overlap \/ Serial => NoneAfterStop
  BY DEF Serial, StopOK, NoneAfterStop
<1> QED
  BY SerialHolds, <1>1, PTL
-----------------------------------------------------------------------------
(* The promise.                                                             *)

\* While calls do not overlap, a step that changes what runs, who is logged on
\* or whether the service stops is one of the promise, every other stutters.
LEMMA StepPromise ==
    ASSUME IInv, Serial, ~overlap, [Next]_vars
    PROVE  [Promise!Next]_(Promise!vars)
<1> SUFFICES ASSUME Next PROVE Promise!Next \/ UNCHANGED Promise!vars
  BY DEF Promise!vars, vars, windows, runtime
<1> DEFINE RunsIn(s) == {p \in Proc : runsIn[p] = s}
           Same == /\ UNCHANGED <<users, runsIn, stopping>>
                   /\ pc'[Svc] = "exit" <=> pc[Svc] = "exit"
<1>0. overlap \in BOOLEAN
  BY DEF IInv, Sound, TypeOK
<1>t. /\ runsIn \in [Proc -> Session \cup {NoSession}] /\ pc \in [Caller -> Place]
      /\ held \in [Caller -> SUBSET Proc] /\ Svc \in Caller
      /\ then \in [Caller -> {"idle", "enumerate", "next", "leaving"}]
      /\ NoSession \notin Session
  BY CompanionAssumption DEF IInv, Sound, TypeOK, Caller
<1>k. Same => UNCHANGED Promise!vars
  BY DEF Promise!vars
<1>l. pc[Svc] # "exit" \/ UNCHANGED Promise!vars
  BY <1>k DEF Next, Exited, vars, windows, runtime
<1>n. ASSUME pc[Svc] # "exit"
      PROVE  /\ \A s \in Session : Promise!LogOn(s) \/ Promise!LogOff(s) \/ Promise!End(s)
                                    => Promise!Next
             /\ \A s \in Session, p \in Proc : Promise!Start(s, p) => Promise!Next
  BY <1>n, Zenon DEF Promise!Next
<1>a. ASSUME NEW s \in Session, ChangeSession(s) 
      PROVE  Promise!Next \/ UNCHANGED Promise!vars
  <2>1. UNCHANGED <<stopping, pc>>
    BY <1>a DEF ChangeSession, runtime
  <2>2. CASE users' = users \cup {s} /\ UNCHANGED runsIn
    BY <1>l, <1>n, <2>1, <2>2 DEF Promise!LogOn
  <2>3. CASE UNCHANGED <<users, runsIn>>
    BY <1>k, <2>1, <2>3
  <2>4. CASE /\ users' = users \ {s}
             /\ runsIn' = [p \in Proc |-> IF runsIn[p] = s THEN NoSession ELSE runsIn[p]]
    <3>1. [r \in Session |-> {p \in Proc : runsIn'[p] = r}]
            = [[r \in Session |-> RunsIn(r)] EXCEPT ![s] = {}]
      BY <1>t, <2>4
    <3>2. Promise!LogOff(s)
      BY <2>1, <2>4, <3>1 DEF Promise!LogOff
    <3> QED
      BY Zenon, <1>l, <1>n, <3>2
  <2> QED
    BY <1>a, <2>2, <2>3, <2>4 DEF ChangeSession
\* The end of a companion, by itself or by the service.
<1>e. ASSUME NEW p \in Proc, runsIn' = [runsIn EXCEPT ![p] = NoSession],
             UNCHANGED <<users, stopping>>, pc'[Svc] = "exit" <=> pc[Svc] = "exit"
      PROVE  Promise!Next \/ UNCHANGED Promise!vars
  <2>1. CASE runsIn[p] = NoSession
    <3>1. runsIn' = runsIn
      BY <1>t, <1>e, <2>1
    <3> QED
      BY <1>e, <1>k, <3>1
  <2>2. ASSUME NEW s \in Session, runsIn[p] = s
        PROVE  Promise!Next \/ UNCHANGED Promise!vars
    <3>1. \A q \in Proc : runsIn[q] = s => q = p
      BY <1>t, <2>2 DEF Serial, Single, alive
    <3>2. [r \in Session |-> {q \in Proc : runsIn'[q] = r}]
            = [[r \in Session |-> RunsIn(r)] EXCEPT ![s] = {}]
      BY <1>t, <1>e, <2>2, <3>1
    <3>3. Promise!End(s)
      BY <1>e, <3>2 DEF Promise!End
    <3> QED
      BY Zenon, <1>l, <1>n, <3>3
  <2> QED
    BY <1>t, <2>1, <2>2
<1>b. ASSUME NEW p \in Proc, Die(p) PROVE Promise!Next \/ UNCHANGED Promise!vars
  BY <1>b, <1>e DEF Die, runtime
<1>c. ASSUME NEW t \in Caller, Kill(t) PROVE Promise!Next \/ UNCHANGED Promise!vars
  <2>1. CASE held[t] = {}
    <3>1. Same
      BY <1>t, <1>c, <2>1 DEF Kill, Return, Goto, runtime
    <3> QED
      BY <1>k, <3>1
  <2>2. CASE held[t] # {}
    <3>1. PICK p \in held[t] : runsIn' = [runsIn EXCEPT ![p] = NoSession]
      BY <1>c, <2>2 DEF Kill
    <3>2. p \in Proc
      BY <1>t
    <3>3. UNCHANGED <<users, stopping, pc>>
      BY <1>c, <2>2 DEF Kill, runtime
    <3> QED
      BY <1>e, <3>1, <3>2, <3>3
  <2> QED
    BY <2>1, <2>2
<1>d. ASSUME NEW t \in Caller, Spawn(t) PROVE Promise!Next \/ UNCHANGED Promise!vars
  <2>1. PICK p \in Proc \ (alive \cup open) : runsIn' = [runsIn EXCEPT ![p] = subj[t]]
    BY <1>d DEF Spawn
  <2>0. PICK s \in Session : s = subj[t]
    BY <1>d DEF Spawn, IInv, Sound, SubjOK
  <2>2. s \in users /\ UNCHANGED <<users, stopping>>
    BY <1>d, <2>0 DEF Spawn, runtime
  <2>3. ~stopping /\ (pc'[Svc] = "exit" <=> pc[Svc] = "exit")
    BY <1>d, <1>t DEF Spawn, Serial, StopOK, Goto
  <2>4. alive \subseteq TrackedIn(Session)
    <3>1. \A u \in Caller : held[u] = {}
      BY <1>d DEF Spawn, IInv, Sound, HeldOK, Serial, OneActive, Between
    <3> QED
      BY <3>1 DEF Serial, LiveOpen, IInv, HandleOwned
  <2>5. runsIn[p] = NoSession /\ \A q \in Proc : runsIn[q] # s
    <3>1. companionBySession[s] = NoProc
      BY <1>d, <2>0 DEF Spawn, Serial, NoneTracked
    <3>2. \A q \in alive : runsIn[q] # s
      BY <2>4, <3>1 DEF TrackedIn, Serial, RunsWhereTracked
    <3> QED
      BY <1>t, <2>1, <2>2, <3>2 DEF alive
  <2>6. [r \in Session |-> {q \in Proc : runsIn'[q] = r}]
          = [[r \in Session |-> RunsIn(r)] EXCEPT ![s] = {p}]
    BY <1>t, <2>0, <2>1, <2>5
  <2>7. Promise!Start(s, p)
    <3>1. RunsIn(s) = {} /\ \A r \in Session : p \notin RunsIn(r)
      BY <1>t, <2>5
    <3> QED
      BY <2>2, <2>3, <2>6, <3>1 DEF Promise!Start
  <2> QED
    BY Zenon, <1>l, <1>n, <2>1, <2>7
<1>f. ASSUME StopService PROVE Promise!Next \/ UNCHANGED Promise!vars
  <2>1. ~stopping /\ stopping' = TRUE /\ UNCHANGED <<users, runsIn>>
    BY <1>f DEF StopService, Begin, Serial, StopOK, windows
  <2>2. pc'[Svc] # "exit" /\ pc[Svc] # "exit"
    BY <1>t, <1>f DEF StopService, Begin, Goto
  <2> QED
    BY <2>1, <2>2 DEF Promise!Next, Promise!Stop
<1>g. ASSUME LeaveExecute PROVE Promise!Next \/ UNCHANGED Promise!vars
  <2>1. stopping /\ alive = {} /\ UNCHANGED <<users, runsIn, stopping>>
    BY <1>g DEF LeaveExecute, Serial, StopOK, windows, runtime
  <2>2. pc'[Svc] = "exit" /\ pc[Svc] # "exit"
    BY <1>t, <1>g DEF LeaveExecute, Goto
  <2>3. \A s \in Session : RunsIn(s) = {}
    BY <1>t, <2>1 DEF alive
  <2> QED
    BY <2>1, <2>2, <2>3 DEF Promise!Next, Promise!Leave
<1>1. ASSUME NEW s \in Session, SessionUp(s) PROVE Same
  BY <1>1, <1>t DEF SessionUp, Change, Begin, Goto, Svc, Mon, Pipe, windows, runtime
<1>2. ASSUME NEW s \in Session, SessionDown(s) PROVE Same
  BY <1>2, <1>t DEF SessionDown, Change, Begin, TakeOut, Goto, Svc, Mon, Pipe,
     windows, runtime
<1>3. ASSUME MonitorTick PROVE Same
  BY <1>3, <1>t DEF MonitorTick, Begin, Goto, Svc, Mon, Pipe, windows, runtime
<1>4. ASSUME PipeClosed PROVE Same
  BY <1>4, <1>t DEF PipeClosed, Begin, EnsureActive, Goto, Svc, Mon, Pipe,
     windows, runtime
<1>5. ASSUME StopCompanions PROVE Same
  BY <1>5, <1>t DEF StopCompanions, TakeOut, Goto, Svc, Mon, Pipe, windows, runtime
<1>6. ASSUME NEW t \in Caller, EndLoop(t) PROVE Same
  BY <1>6, <1>t DEF EndLoop, Goto, Svc, Mon, Pipe, windows, runtime
<1>7. ASSUME NEW t \in Caller, Enumerate(t) PROVE Same
  BY <1>7, <1>t DEF Enumerate, Goto, Svc, Mon, Pipe, windows, runtime
<1>8. ASSUME NEW t \in Caller, EnumerateFails(t) PROVE Same
  BY <1>8, <1>t DEF EnumerateFails, EnsureActive, Goto, Svc, Mon, Pipe, windows,
     runtime
<1>9. ASSUME NEW t \in Caller, NextSession(t) PROVE Same
  BY <1>9, <1>t DEF NextSession, Goto, Svc, Mon, Pipe, windows, runtime
<1>10. ASSUME NEW t \in Caller, CheckStopping(t) PROVE Same
  BY <1>10, <1>t DEF CheckStopping, Return, Goto, Svc, Mon, Pipe, windows, runtime
<1>11. ASSUME NEW t \in Caller, Lookup(t) PROVE Same
  BY <1>11, <1>t DEF Lookup, Return, Goto, Svc, Mon, Pipe, windows, runtime
<1>12. ASSUME NEW t \in Caller, CloseHeld(t) PROVE Same
  BY <1>12, <1>t DEF CloseHeld, Return, Goto, Svc, Mon, Pipe, windows, runtime
<1>13. ASSUME NEW t \in Caller, SpawnFails(t) PROVE Same
  BY <1>13, <1>t DEF SpawnFails, Return, Goto, Svc, Mon, Pipe, windows, runtime
<1>14. ASSUME NEW t \in Caller, Record(t) PROVE Same
  BY <1>14, <1>t DEF Record, Return, Goto, Svc, Mon, Pipe, windows, runtime
<1>15. ASSUME NEW t \in Caller, Prune(t) PROVE Same
  BY <1>15, <1>t DEF Prune, TakeOut, Goto, Svc, Mon, Pipe, windows, runtime
<1> QED
  BY Zenon, NextCases, <1>0, <1>a, <1>b, <1>c, <1>d, <1>f, <1>g, <1>k, <1>1,
     <1>2, <1>3, <1>4, <1>5, <1>6, <1>7, <1>8, <1>9, <1>10, <1>11, <1>12, <1>13,
     <1>14, <1>15
     DEF Promise!vars, vars, windows, runtime

\* While calls do not overlap the service keeps its promise step by step: it
\* starts companions only where none runs, none once it is asked to stop, and
\* leaves when all have ended.
THEOREM PromiseIsKept == Spec => PromiseKept
<1>1. Init => Promise!Init
  <2> SUFFICES ASSUME Init PROVE Promise!Init
    OBVIOUS
  <2>1. users \subseteq Session
    BY CompanionAssumption DEF Init
  <2>2. \A s \in Session : {p \in Proc : runsIn[p] = s} = {}
    BY CompanionAssumption DEF Init
  <2>3. ~stopping /\ pc[Svc] # "exit" /\ stopping = FALSE
    BY DEF Init, Caller
  <2> QED
    BY <2>1, <2>2, <2>3 DEF Promise!Init
<1>2. IInv /\ (overlap \/ Serial) /\ [Next]_vars
        => [overlap \/ Promise!Next]_(Promise!vars)
  BY StepPromise
<1> QED
  BY <1>1, <1>2, SerialHolds, PTL DEF Spec, PromiseKept
=============================================================================
