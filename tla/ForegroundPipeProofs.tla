------------------------- MODULE ForegroundPipeProofs -------------------------
(***************************************************************************)
(* Proofs about the pipe of foreground processes, for any number of          *)
(* processes, companions, foreground changes, stops and crashes: types, that *)
(* a stop finds the pipe server at its end, and that the service handles     *)
(* foreground processes in the order of the feed.                            *)
(***************************************************************************)
EXTENDS ForegroundPipe, TLAPS

-----------------------------------------------------------------------------
(* Messages are numbers of processes that have been in the foreground.      *)

Messages == 1..Latest

Sending == {"dial", "write", "redial", "rewrite"}

\* What the types leave out: a message is never newer than the foreground, a
\* companion that is about to send has a message, one that is gone has none.
InRange ==
    /\ buffer \in Seq(Messages)
    /\ got \in Messages \cup {0} /\ handled \in Messages \cup {0}
    /\ ahead \in Messages \cup {0}
    /\ server = "handle" => got # 0
    /\ \A c \in Companion :
           /\ queue[c] \in Seq(Messages) /\ cur[c] \in Messages \cup {0}
           /\ place[c] \in Sending => cur[c] # 0
           /\ place[c] = "absent" => queue[c] = <<>> /\ cur[c] = 0

\* The instance of the pipe, by the place of the server.  A stop leaves no
\* companion that the service knows, and no free instance in front of a server
\* that listens.
InstanceFits ==
    /\ instance = "taken" <=> peer # Nobody
    /\ peer \in Companion => Alive(peer)
    /\ server \in {"check", "create", "done"} => instance = "none"
    /\ server \in {"created", "listen"} => instance # "none"
    /\ server \in {"next", "read", "handle", "close"} => instance = "taken"
    /\ exec = "down" => server = "done"
    /\ exec \in {"nudge", "wait", "restore"} => tracked = Nobody
    /\ exec \in {"wait", "restore"} /\ server = "listen" => instance = "taken"

\* y may come after x: it is not older, or it is one of those that come late.
Behind(x, y) == x <= y \/ y < ahead

\* y may come after all that the service has handled or has in its buffer.
BehindAll(y) ==
    /\ Behind(handled, y) /\ Behind(got, y)
    /\ \A i \in 1..Len(buffer) : Behind(buffer[i], y)

Sorted(s) == \A i, j \in 1..Len(s) : i < j => Behind(s[i], s[j])

\* From the events of the companion of the service through its message and the
\* buffer of the pipe to what the service has handled.
InOrder ==
    /\ got # 0 => Behind(handled, got)
    /\ \A i \in 1..Len(buffer) : Behind(handled, buffer[i]) /\ Behind(got, buffer[i])
    /\ Sorted(buffer)
    /\ tracked \in Companion =>
           /\ cur[tracked] # 0 => BehindAll(cur[tracked])
           /\ \A k \in 1..Len(queue[tracked]) :
                  BehindAll(queue[tracked][k]) /\ Behind(cur[tracked], queue[tracked][k])
           /\ Sorted(queue[tracked])

\* Messages stay messages when there are more of them.
LEMMA Widen ==
    ASSUME NEW m \in Nat, NEW n \in Nat, m <= n, NEW s \in Seq(1..m)
    PROVE  s \in Seq(1..n)
<1>1. \A i \in 1..Len(s) : s[i] \in 1..n
  OBVIOUS
<1>. QED
  BY <1>1

\* Whatever a companion sends next, its message and its place fit.
LEMMA BeginSendTyping ==
    ASSUME TypeOK, InRange, NEW c \in Companion, NEW k \in Messages,
           BeginSend(c, k)
    PROVE  /\ place' \in [Companion -> {"absent", "start", "hook", "snapshot",
                                        "loop", "dial", "write", "redial",
                                        "rewrite"}]
           /\ cur' \in [Companion -> Messages \cup {0}]
           /\ place'[c] # "absent"
           /\ place'[c] \in Sending => cur'[c] # 0
           /\ \A d \in Companion \ {c} : place'[d] = place[d] /\ cur'[d] = cur[d]
<1>1. CASE shown[k] = lastPID[c]
  BY <1>1 DEF BeginSend, Goto, TypeOK, InRange, Messages, Sending
<1>2. CASE shown[k] # lastPID[c]
  <2>1. cur' = [cur EXCEPT ![c] = k]
    BY <1>2 DEF BeginSend
  <2>2. place' = [place EXCEPT ![c] = IF conn[c] = "none" THEN "dial" ELSE "write"]
    BY <1>2 DEF BeginSend, Goto
  <2>3. k # 0 /\ 0 \notin Messages
    BY DEF Messages
  <2>4. cur' \in [Companion -> Messages \cup {0}]
    BY <2>1 DEF InRange, TypeOK
  <2>. QED
    BY <2>1, <2>2, <2>3, <2>4 DEF TypeOK
<1>. QED
  BY <1>1, <1>2

\* And of companions that end nothing is left.
LEMMA EndTyping ==
    ASSUME TypeOK, InRange, NEW C \in SUBSET Companion, End(C)
    PROVE  /\ place' \in [Companion -> {"absent", "start", "hook", "snapshot",
                                        "loop", "dial", "write", "redial",
                                        "rewrite"}]
           /\ conn' \in [Companion -> {"none", "open", "cut", "dead"}]
           /\ lastPID' \in [Companion -> Pid \cup {NoPid}]
           /\ peer' \in Companion \cup {Nobody, Closed}
           /\ cur' \in [Companion -> Messages \cup {0}]
           /\ queue' \in [Companion -> Seq(Messages)]
           /\ \A c \in Companion :
                  /\ place'[c] \in Sending => cur'[c] # 0
                  /\ place'[c] = "absent" => queue'[c] = <<>> /\ cur'[c] = 0
           /\ ahead' = ahead
<1>1. place' \in [Companion -> {"absent", "start", "hook", "snapshot", "loop",
                               "dial", "write", "redial", "rewrite"}]
  BY DEF End, TypeOK
<1>2. /\ conn' \in [Companion -> {"none", "open", "cut", "dead"}]
      /\ lastPID' \in [Companion -> Pid \cup {NoPid}]
      /\ peer' \in Companion \cup {Nobody, Closed}
  BY DEF End, TypeOK
<1>3. cur' \in [Companion -> Messages \cup {0}]
  BY DEF End, TypeOK, InRange
<1>4. queue' \in [Companion -> Seq(Messages)]
  <2>1. <<>> \in Seq(Messages)
    OBVIOUS
  <2>. QED
    BY <2>1 DEF End, TypeOK, InRange
<1>5. ASSUME NEW c \in Companion
      PROVE  /\ place'[c] \in Sending => cur'[c] # 0
             /\ place'[c] = "absent" => queue'[c] = <<>> /\ cur'[c] = 0
  BY DEF End, TypeOK, InRange, Sending
<1>. QED
  BY <1>1, <1>2, <1>3, <1>4, <1>5 DEF End


\* The types and ranges, one step per action.
LEMMA TypingStep == TypeOK /\ InRange /\ [Next]_vars => TypeOK' /\ InRange'
<1> SUFFICES ASSUME TypeOK, InRange, [Next]_vars PROVE TypeOK' /\ InRange'
  OBVIOUS
<1>0. Latest \in Nat \ {0} /\ MaxSwitches \in Nat /\ MaxFaults \in Nat
  BY PipeAssumption DEF TypeOK, Latest, Index
<1>a. /\ Messages \cup {0} \subseteq Index \cup {0} /\ Latest \in Index
      /\ \A s \in Seq(Messages) : s \in Seq(Index)
  BY <1>0, Widen DEF Messages, Index, TypeOK
<1>1. ASSUME NEW p \in Pid, Focus(p) PROVE TypeOK' /\ InRange'
  <2>1. Latest' = Latest + 1 /\ Latest' \in Index /\ shown' \in Seq(Pid)
    BY <1>1, <1>0 DEF Focus, TypeOK, Latest, Index
  <2>2. buffer' \in Seq(1..Latest')
    BY <1>1, <1>0, <2>1, Widen DEF Focus, InRange, Messages
  <2>3. queue' \in [Companion -> Seq(1..Latest')]
    <3>1. ASSUME NEW c \in Companion
          PROVE  queue[c] \in Seq(1..Latest') /\ Append(queue[c], Latest') \in Seq(1..Latest')
      <4>1. queue[c] \in Seq(1..Latest)
        BY DEF InRange, Messages
      <4>2. queue[c] \in Seq(1..Latest')
        BY <4>1, <1>0, <2>1, Widen
      <4>. QED
        BY <4>2, <1>0, <2>1
    <3>. QED
      BY <3>1, <1>1 DEF Focus
  <2>4. ASSUME NEW c \in Companion
        PROVE  place[c] = "absent" => queue'[c] = <<>>
    BY <1>1 DEF Focus, Hooked, InRange
  <2>5. /\ buffer' \in Seq(Index)
        /\ queue' \in [Companion -> Seq(Index)]
    <3>1. \A s \in Seq(1..Latest') : s \in Seq(Index)
      BY <1>0, <2>1, Widen DEF Index
    <3>. QED
      BY <2>2, <2>3, <3>1
  <2>6. Messages \cup {0} \subseteq Messages' \cup {0}
    BY <1>0, <2>1 DEF Messages
  <2>7. TypeOK'
    BY <1>1, <2>1, <2>5 DEF Focus, TypeOK, service
  <2>8. InRange'
    BY <1>1, <2>2, <2>3, <2>4, <2>6 DEF Focus, InRange, service, Messages
  <2>. QED
    BY <2>7, <2>8
<1>2. ASSUME NEW c \in Companion, Die(c) PROVE TypeOK' /\ InRange'
  <2>1. End({c}) /\ missed' \in Index \cup {0} /\ faults' \in 0..MaxFaults
    BY <1>2, <1>0 DEF Die, Fault, TypeOK
  <2>2. UNCHANGED <<shown, instance, buffer, lingers, exec, server, got, handled, tracked>>
    BY <1>2 DEF Die, service
  <2>3. TypeOK'
    BY <2>1, <2>2, EndTyping, <1>a DEF TypeOK, Latest
  <2>. QED
    BY <2>1, <2>2, <2>3, EndTyping DEF InRange, Messages, Latest
<1>3. ASSUME NEW c \in Companion, Ensure(c) PROVE TypeOK' /\ InRange'
  BY <1>3, <1>0 DEF Ensure, Goto, TypeOK, InRange, Messages, Latest, Sending,
     Index, windows, service, companion
<1>4. ASSUME NEW c \in Companion, Connect(c) PROVE TypeOK' /\ InRange'
  BY <1>4, <1>0 DEF Connect, Goto, AfterConnect, TypeOK, InRange, Messages,
     Latest, Sending, Index, windows, service, companion
<1>5. ASSUME NEW c \in Companion, GiveUp(c) PROVE TypeOK' /\ InRange'
  BY <1>5, <1>0 DEF GiveUp, Goto, AfterGiveUp, TypeOK, InRange, Messages,
     Latest, Sending, Index, windows, service, companion
<1>6. ASSUME NEW c \in Companion, InstallHook(c) PROVE TypeOK' /\ InRange'
  BY <1>6, <1>0 DEF InstallHook, Goto, TypeOK, InRange, Messages, Latest,
     Sending, Index, windows, service, companion
<1>7. ASSUME NEW c \in Companion, Snapshot(c) PROVE TypeOK' /\ InRange'
  <2>1. /\ Latest \in Messages /\ BeginSend(c, Latest) /\ ahead' = Latest
        /\ UNCHANGED <<windows, service, conn, queue, lastPID, missed>>
    BY <1>7, <1>0 DEF Snapshot, Messages
  <2>2. TypeOK'
    BY <2>1, BeginSendTyping, <1>a DEF TypeOK, Latest, windows, service
  <2>. QED
    BY <2>1, <2>2, BeginSendTyping DEF InRange, Messages, Latest, windows, service
<1>8. ASSUME NEW c \in Companion, TakeEvent(c) PROVE TypeOK' /\ InRange'
  <2>1. /\ Head(queue[c]) \in Messages /\ Tail(queue[c]) \in Seq(Messages)
        /\ BeginSend(c, Head(queue[c]))
        /\ queue' = [queue EXCEPT ![c] = Tail(@)]
        /\ UNCHANGED <<windows, service, conn, lastPID, ahead, missed>>
    BY <1>8 DEF TakeEvent, InRange
  <2>2. queue' \in [Companion -> Seq(Messages)]
    BY <2>1 DEF InRange, TypeOK
  <2>3. TypeOK'
    BY <2>1, <2>2, BeginSendTyping, <1>a DEF TypeOK, Latest, windows, service
  <2>4. \A d \in Companion \ {c} : queue'[d] = queue[d]
    BY <2>1 DEF TypeOK
  <2>. QED
    BY <2>1, <2>2, <2>3, <2>4, BeginSendTyping
       DEF InRange, Messages, Latest, windows, service
<1>9. ASSUME NEW c \in Companion, Write(c) PROVE TypeOK' /\ InRange'
  BY <1>9, <1>0 DEF Write, Goto, TypeOK, InRange, Messages, Latest, Sending,
     Index, windows, service, companion
<1>10. ASSUME NEW c \in Companion, WriteFails(c) PROVE TypeOK' /\ InRange'
  <2>1. /\ conn' = [conn EXCEPT ![c] = "none"]
        /\ UNCHANGED <<windows, service, queue, lastPID, ahead>>
    BY <1>10 DEF WriteFails
  <2>2. \/ /\ place' = [place EXCEPT ![c] = "redial"] /\ UNCHANGED <<cur, missed>>
           /\ cur[c] # 0
        \/ /\ place' = [place EXCEPT ![c] = "loop"] /\ cur' = [cur EXCEPT ![c] = 0]
           /\ missed' = Latest
    BY <1>10 DEF WriteFails, Goto, InRange, Sending
  <2>3. /\ place' \in [Companion -> {"absent", "start", "hook", "snapshot", "loop",
                                   "dial", "write", "redial", "rewrite"}]
        /\ conn' \in [Companion -> {"none", "open", "cut", "dead"}]
    BY <2>1, <2>2 DEF TypeOK
  <2>4. /\ cur' \in [Companion -> Index \cup {0}]
        /\ missed' \in Index \cup {0}
    BY <2>2, <1>a DEF TypeOK
  <2>5. TypeOK'
    BY <2>1, <2>3, <2>4 DEF TypeOK, Latest, windows, service
  <2>6. \A d \in Companion :
            /\ cur'[d] \in Messages \cup {0}
            /\ place'[d] \in Sending => cur'[d] # 0
            /\ place'[d] = "absent" => cur'[d] = 0 /\ place[d] = "absent"
    BY <2>2 DEF TypeOK, InRange, Sending
  <2>. QED
    BY <2>1, <2>5, <2>6 DEF InRange, Messages, Latest, windows, service
<1>11. CASE CheckStopping
  BY <1>11, <1>0 DEF CheckStopping, ServerAt, TypeOK, InRange, Messages,
     Latest, Sending, Index, windows, service, companion
<1>12. CASE CreatePipe
  BY <1>12, <1>0 DEF CreatePipe, ServerAt, TypeOK, InRange, Messages, Latest,
     Sending, Index, windows, service, companion
<1>13. CASE CreateFails
  BY <1>13, <1>0 DEF CreateFails, ServerAt, TypeOK, InRange, Messages, Latest,
     Sending, Index, windows, service, companion
<1>14. CASE CheckCreated
  <2>1. CASE Stopping
    BY <1>14, <2>1, <1>0 DEF CheckCreated, ServerAt, Disconnect, TypeOK, InRange, Messages,
       Latest, Sending, Index, Stopping
  <2>2. CASE ~Stopping
    BY <1>14, <2>2, <1>0 DEF CheckCreated, ServerAt, TypeOK, InRange, Messages,
       Latest, Sending, Index
  <2>. QED
    BY <2>1, <2>2
<1>15. CASE Connected
  BY <1>15, <1>0 DEF Connected, ServerAt, TypeOK, InRange, Messages, Latest,
     Sending, Index, windows, service, companion
<1>16. CASE ConnectFails
  BY <1>16, <1>0 DEF ConnectFails, ServerAt, Disconnect, TypeOK, InRange,
     Messages, Latest, Sending, Index, windows, service, companion
<1>17. CASE CheckReading
  BY <1>17, <1>0 DEF CheckReading, ServerAt, TypeOK, InRange, Messages,
     Latest, Sending, Index, windows, service, companion
<1>18. CASE ReadMessage
  BY <1>18, <1>0 DEF ReadMessage, ServerAt, TypeOK, InRange, Messages, Latest,
     Sending, Index, windows, service, companion
<1>19. CASE ReadBroken
  BY <1>19, <1>0 DEF ReadBroken, ServerAt, TypeOK, InRange, Messages, Latest,
     Sending, Index, windows, service, companion
<1>20. CASE HandleForegroundPID
  BY <1>20, <1>0 DEF HandleForegroundPID, ServerAt, TypeOK, InRange, Messages,
     Latest, Sending, Index, windows, service, companion
<1>21. CASE ClosePipe
  BY <1>21, <1>0 DEF ClosePipe, ServerAt, Disconnect, TypeOK, InRange,
     Messages, Latest, Sending, Index, windows, service, companion
<1>22. CASE StopCompanions
  <2>1. End({tracked} \cap Companion) /\ tracked' = Nobody /\ exec' = "nudge"
    BY <1>22 DEF StopCompanions
  <2>2. UNCHANGED <<shown, instance, buffer, lingers, faults, server, got, handled, missed>>
    BY <1>22 DEF StopCompanions
  <2>3. TypeOK'
    BY <2>1, <2>2, EndTyping, <1>a DEF TypeOK, Latest
  <2>. QED
    BY <2>1, <2>2, <2>3, EndTyping DEF InRange, Messages, Latest
<1>23. CASE Nudge
  BY <1>23, <1>0 DEF Nudge, TypeOK, InRange, Messages, Latest, Sending, Index,
     windows, service, companion
<1>24. CASE Restore
  BY <1>24, <1>0 DEF Restore, TypeOK, InRange, Messages, Latest, Sending,
     Index, windows, service, companion
<1>25. CASE LeaveExecute
  BY <1>25, <1>0 DEF LeaveExecute, Vanish, TypeOK, InRange, Messages, Latest,
     Sending, Index, windows, service, companion
<1>26. CASE RequestStop
  BY <1>26, <1>0 DEF RequestStop, Fault, TypeOK, InRange, Messages, Latest,
     Sending, Index, windows, service, companion
<1>27. CASE Crash
  BY <1>27, <1>0 DEF Crash, Vanish, Fault, TypeOK, InRange, Messages, Latest,
     Sending, Index, windows, service, companion
<1>28. CASE Start
  BY <1>28, <1>0 DEF Start, TypeOK, InRange, Messages, Latest, Sending, Index,
     windows, service, companion
<1>29. CASE UNCHANGED vars
  BY <1>29, <1>0 DEF TypeOK, InRange, Messages, Latest, Sending, vars,
     windows, service, companion
<1>. QED
  BY <1>1, <1>2, <1>3, <1>4, <1>5, <1>6, <1>7, <1>8, <1>9, <1>10, <1>11,
     <1>12, <1>13, <1>14, <1>15, <1>16, <1>17, <1>18, <1>19, <1>20, <1>21,
     <1>22, <1>23, <1>24, <1>25, <1>26, <1>27, <1>28, <1>29 DEF Next,
     CompanionStep, ServerStep, StopStep

-----------------------------------------------------------------------------
(* The instance of the pipe and the places of the server and of a stop.      *)

\* One step per action: the places of the server decide what the pipe is.
LEMMA InstanceStep == TypeOK /\ InstanceFits /\ [Next]_vars => InstanceFits'
<1> SUFFICES ASSUME TypeOK, InstanceFits, [Next]_vars PROVE InstanceFits'
  OBVIOUS
<1>1. ASSUME NEW p \in Pid, Focus(p) PROVE InstanceFits'
  BY <1>1, PipeAssumption DEF Focus, Hooked, TypeOK, InstanceFits, Alive,
     windows, service, companion
<1>2. ASSUME NEW c \in Companion, Die(c) PROVE InstanceFits'
  BY <1>2, PipeAssumption DEF Die, End, Fault, TypeOK, InstanceFits, Alive,
     windows, service, companion
<1>3. ASSUME NEW c \in Companion, Ensure(c) PROVE InstanceFits'
  BY <1>3, PipeAssumption DEF Ensure, Goto, TypeOK, InstanceFits, Alive,
     windows, service, companion
<1>4. ASSUME NEW c \in Companion, Connect(c) PROVE InstanceFits'
  BY <1>4, PipeAssumption DEF Connect, Goto, AfterConnect, TypeOK,
     InstanceFits, Alive, windows, service, companion
<1>5. ASSUME NEW c \in Companion, GiveUp(c) PROVE InstanceFits'
  BY <1>5, PipeAssumption DEF GiveUp, Goto, AfterGiveUp, TypeOK, InstanceFits,
     Alive, windows, service, companion
<1>6. ASSUME NEW c \in Companion, InstallHook(c) PROVE InstanceFits'
  BY <1>6, PipeAssumption DEF InstallHook, Goto, TypeOK, InstanceFits, Alive,
     windows, service, companion
<1>7. ASSUME NEW c \in Companion, Snapshot(c) PROVE InstanceFits'
  BY <1>7, PipeAssumption DEF Snapshot, BeginSend, Goto, TypeOK, InstanceFits,
     Alive, windows, service, companion
<1>8. ASSUME NEW c \in Companion, TakeEvent(c) PROVE InstanceFits'
  BY <1>8, PipeAssumption DEF TakeEvent, BeginSend, Goto, TypeOK,
     InstanceFits, Alive, windows, service, companion
<1>9. ASSUME NEW c \in Companion, Write(c) PROVE InstanceFits'
  BY <1>9, PipeAssumption DEF Write, Goto, TypeOK, InstanceFits, Alive,
     windows, service, companion
<1>10. ASSUME NEW c \in Companion, WriteFails(c) PROVE InstanceFits'
  BY <1>10, PipeAssumption DEF WriteFails, Goto, TypeOK, InstanceFits, Alive,
     windows, service, companion
<1>11. CASE CheckStopping
  BY <1>11, PipeAssumption DEF CheckStopping, ServerAt, Stopping, TypeOK,
     InstanceFits, Alive, windows, service, companion
<1>12. CASE CreatePipe
  BY <1>12, PipeAssumption DEF CreatePipe, ServerAt, TypeOK, InstanceFits,
     Alive, windows, service, companion
<1>13. CASE CreateFails
  BY <1>13, PipeAssumption DEF CreateFails, ServerAt, TypeOK, InstanceFits,
     Alive, windows, service, companion
<1>14. CASE CheckCreated
  BY <1>14, PipeAssumption DEF CheckCreated, ServerAt, Disconnect, Stopping,
     TypeOK, InstanceFits, Alive, windows, service, companion
<1>15. CASE Connected
  BY <1>15, PipeAssumption DEF Connected, ServerAt, TypeOK, InstanceFits,
     Alive, windows, service, companion
<1>16. CASE ConnectFails
  BY <1>16, PipeAssumption DEF ConnectFails, ServerAt, Disconnect, TypeOK,
     InstanceFits, Alive, windows, service, companion
<1>17. CASE CheckReading
  BY <1>17, PipeAssumption DEF CheckReading, ServerAt, Stopping, TypeOK,
     InstanceFits, Alive, windows, service, companion
<1>18. CASE ReadMessage
  BY <1>18, PipeAssumption DEF ReadMessage, ServerAt, TypeOK, InstanceFits,
     Alive, windows, service, companion
<1>19. CASE ReadBroken
  BY <1>19, PipeAssumption DEF ReadBroken, ServerAt, TypeOK, InstanceFits,
     Alive, windows, service, companion
<1>20. CASE HandleForegroundPID
  BY <1>20, PipeAssumption DEF HandleForegroundPID, ServerAt, TypeOK,
     InstanceFits, Alive, windows, service, companion
<1>21. CASE ClosePipe
  BY <1>21, PipeAssumption DEF ClosePipe, ServerAt, Disconnect, Stopping,
     TypeOK, InstanceFits, Alive, windows, service, companion
<1>22. CASE StopCompanions
  BY <1>22, PipeAssumption DEF StopCompanions, End, TypeOK, InstanceFits,
     Alive, windows, service, companion
<1>23. CASE Nudge
  BY <1>23, PipeAssumption DEF Nudge, TypeOK, InstanceFits, Alive, windows,
     service, companion
<1>24. CASE Restore
  BY <1>24, PipeAssumption DEF Restore, TypeOK, InstanceFits, Alive, windows,
     service, companion
<1>25. CASE LeaveExecute
  BY <1>25, PipeAssumption DEF LeaveExecute, Vanish, TypeOK, InstanceFits,
     Alive, windows, service, companion
<1>26. CASE RequestStop
  BY <1>26, PipeAssumption DEF RequestStop, Fault, TypeOK, InstanceFits,
     Alive, windows, service, companion
<1>27. CASE Crash
  BY <1>27, PipeAssumption DEF Crash, Vanish, Fault, TypeOK, InstanceFits,
     Alive, windows, service, companion
<1>28. CASE Start
  BY <1>28, PipeAssumption DEF Start, TypeOK, InstanceFits, Alive, windows,
     service, companion
<1>29. CASE UNCHANGED vars
  BY <1>29 DEF InstanceFits, Alive, vars, windows, service, companion
<1>. QED
  BY <1>1, <1>2, <1>3, <1>4, <1>5, <1>6, <1>7, <1>8, <1>9, <1>10, <1>11,
     <1>12, <1>13, <1>14, <1>15, <1>16, <1>17, <1>18, <1>19, <1>20, <1>21,
     <1>22, <1>23, <1>24, <1>25, <1>26, <1>27, <1>28, <1>29 DEF Next,
     CompanionStep, ServerStep, StopStep

-----------------------------------------------------------------------------
(* The order of what is under way.                                          *)

\* Nothing is out of order while every process so far may come late.
LEMMA LateOrder ==
    ASSUME TypeOK', InRange', ahead' = Latest'
    PROVE  InOrder'
<1>1. Latest' \in Nat /\ ahead' = Latest'
  BY DEF TypeOK, Index
<1>2. \A x, y \in Messages' \cup {0} : Behind(x, y)'
  BY <1>1 DEF Behind, Messages
<1>3. /\ got' \in Messages' \cup {0} /\ handled' \in Messages' \cup {0}
      /\ \A i \in 1..Len(buffer') : buffer'[i] \in Messages'
      /\ \A c \in Companion :
             /\ cur'[c] \in Messages' \cup {0}
             /\ \A k \in 1..Len(queue'[c]) : queue'[c][k] \in Messages'
  BY DEF InRange
<1>. QED
  BY <1>2, <1>3 DEF InOrder, BehindAll, Sorted

\* All that InOrder is about.
line == <<got, handled, buffer, tracked, cur, queue, ahead>>

\* One step per action that touches the line; the others leave all of it alone.
LEMMA OrderStep == TypeOK /\ InRange /\ InOrder /\ [Next]_vars => InOrder'
<1> SUFFICES ASSUME TypeOK, InRange, InOrder, [Next]_vars PROVE InOrder'
  OBVIOUS
<1>0. Messages \subseteq Nat
  BY DEF Messages
<1>a. /\ \A i \in 1..Len(buffer) : buffer[i] \in Nat
      /\ \A c \in Companion :
             cur[c] \in Nat /\ \A k \in 1..Len(queue[c]) : queue[c][k] \in Nat
  <2>1. /\ \A i \in 1..Len(buffer) : buffer[i] \in Messages
        /\ \A c \in Companion :
               /\ cur[c] \in Messages \cup {0}
               /\ \A k \in 1..Len(queue[c]) : queue[c][k] \in Messages
    BY DEF InRange
  <2>2. Messages \cup {0} \subseteq Nat
    BY <1>0
  <2>. QED
    BY <1>0, <2>1, <2>2, Zenon
<1>1. ASSUME NEW p \in Pid, Focus(p) PROVE InOrder'
  <2>1. /\ UNCHANGED <<got, handled, buffer, tracked, cur, ahead>>
        /\ Latest' = Latest + 1 /\ Latest \in Nat
    BY <1>1 DEF Focus, service, TypeOK, Latest
  <2>2. ASSUME tracked \in Companion
        PROVE  /\ cur[tracked] # 0 => BehindAll(cur[tracked])'
               /\ \A k \in 1..Len(queue'[tracked]) :
                      BehindAll(queue[tracked][k])' /\ Behind(cur[tracked], queue[tracked][k])'
               /\ Sorted(queue[tracked])'
    <3>. DEFINE s == queue[tracked]
    <3>1. /\ s \in Seq(Messages) /\ Len(s) \in Nat
          /\ queue'[tracked] = s \/ queue'[tracked] = Append(s, Latest')
      BY <1>1, <2>2 DEF Focus, InRange
    <3>2. /\ cur[tracked] # 0 => BehindAll(cur[tracked])
          /\ \A k \in 1..Len(s) : BehindAll(s[k]) /\ Behind(cur[tracked], s[k])
          /\ Sorted(s)
      BY <2>2 DEF InOrder
    <3>3. \A x \in Messages \cup {0} : Behind(x, Latest)'
      BY <2>1 DEF Behind, Messages
    <3>4. /\ got \in Messages \cup {0} /\ handled \in Messages \cup {0}
          /\ cur[tracked] \in Messages \cup {0}
          /\ \A i \in 1..Len(buffer) : buffer[i] \in Messages
          /\ \A k \in 1..Len(s) : s[k] \in Messages
      BY <2>2, <3>1 DEF InRange
    <3>5. CASE queue'[tracked] = s
      BY <2>1, <3>2, <3>5 DEF BehindAll, Behind, Sorted
    <3>6. CASE queue'[tracked] = Append(s, Latest')
      <4>. DEFINE n == Len(s) + 1
      <4>1. /\ Len(queue'[tracked]) = n /\ queue'[tracked][n] = Latest'
            /\ \A k \in 1..Len(s) : queue'[tracked][k] = s[k]
        BY <2>1, <3>1, <3>6 DEF Messages
      <4>2. BehindAll(Latest)' /\ Behind(cur[tracked], Latest)'
        BY <2>1, <3>3, <3>4 DEF BehindAll
      <4>3. ASSUME NEW k \in 1..n
            PROVE  BehindAll(queue[tracked][k])' /\ Behind(cur[tracked], queue[tracked][k])'
        <5>1. CASE k \in 1..Len(s)
          BY <2>1, <3>2, <4>1, <5>1 DEF BehindAll, Behind
        <5>2. CASE k = n
          BY <2>1, <4>1, <4>2, <5>2 DEF BehindAll
        <5>. QED
          BY <5>1, <5>2, <3>1
      <4>4. ASSUME NEW i \in 1..n, NEW j \in 1..n, i < j
            PROVE  Behind(queue[tracked][i], queue[tracked][j])'
        <5>1. i \in 1..Len(s) /\ queue'[tracked][i] = s[i]
          BY <3>1, <4>1, <4>4
        <5>2. CASE j = n
          BY <2>1, <3>3, <3>4, <4>1, <5>1, <5>2
        <5>3. CASE j \in 1..Len(s)
          BY <2>1, <3>2, <4>1, <4>4, <5>1, <5>3 DEF Sorted, Behind
        <5>. QED
          BY <5>2, <5>3, <3>1
      <4>. QED
        BY <2>1, <3>2, <4>1, <4>3, <4>4 DEF BehindAll, Behind, Sorted
    <3>. QED
      BY <3>1, <3>5, <3>6
  <2>. QED
    BY <2>1, <2>2 DEF InOrder, BehindAll, Behind, Sorted
<1>2. ASSUME NEW c \in Companion, Die(c) PROVE InOrder'
  <2>1. UNCHANGED <<got, handled, buffer, tracked, ahead>>
    BY <1>2 DEF Die, End, service
  <2>2. ASSUME tracked \in Companion
        PROVE  \/ cur'[tracked] = 0 /\ queue'[tracked] = <<>> /\ Len(queue'[tracked]) = 0
               \/ UNCHANGED <<cur[tracked], queue[tracked]>>
    BY <1>2, <2>1, <2>2 DEF Die, End
  <2>. QED
    BY <2>1, <2>2 DEF InOrder, BehindAll, Behind, Sorted
<1>3. ASSUME NEW c \in Companion, Ensure(c) PROVE InOrder'
  <2>1. cur[c] = 0 /\ queue[c] = <<>> /\ Len(queue[c]) = 0
    BY <1>3 DEF Ensure, Alive, InRange
  <2>. QED
    BY <1>3, <2>1 DEF Ensure, InOrder, BehindAll, Behind, Sorted, windows
<1>4. ASSUME NEW c \in Companion, GiveUp(c) \/ WriteFails(c) PROVE InOrder'
  <2>1. /\ UNCHANGED <<got, handled, buffer, tracked, queue, ahead>>
        /\ cur' = cur \/ cur' = [cur EXCEPT ![c] = 0]
    BY <1>4 DEF GiveUp, WriteFails, windows, service
  <2>2. ASSUME tracked \in Companion
        PROVE  cur'[tracked] = cur[tracked] \/ cur'[tracked] = 0
    BY <2>1, <2>2 DEF TypeOK
  <2>. QED
    BY <2>1, <2>2, <1>a DEF InOrder, BehindAll, Behind, Sorted
<1>5. ASSUME NEW c \in Companion, Snapshot(c) PROVE InOrder'
  BY <1>5, TypingStep, LateOrder DEF Snapshot, Latest, windows
<1>6. ASSUME NEW c \in Companion, TakeEvent(c) PROVE InOrder'
  <2>1. /\ queue[c] # <<>> /\ queue' = [queue EXCEPT ![c] = Tail(@)]
        /\ cur' = cur \/ cur' = [cur EXCEPT ![c] = Head(queue[c])]
        /\ UNCHANGED <<got, handled, buffer, tracked, ahead>>
    BY <1>6 DEF TakeEvent, BeginSend, windows, service
  <2>2. CASE c # tracked
    <3>1. tracked \in Companion => queue'[tracked] = queue[tracked] /\ cur'[tracked] = cur[tracked]
      BY <2>1, <2>2 DEF TypeOK
    <3>. QED
      BY <2>1, <3>1 DEF InOrder, BehindAll, Behind, Sorted
  <2>3. CASE c = tracked
    <3>1. /\ \A k \in 1..Len(queue[c]) :
                 BehindAll(queue[c][k]) /\ Behind(cur[c], queue[c][k])
          /\ Sorted(queue[c])
          /\ cur[c] # 0 => BehindAll(cur[c])
      BY <2>3 DEF InOrder
    <3>2. /\ queue'[c] = Tail(queue[c]) /\ Head(queue[c]) = queue[c][1]
          /\ 1 \in 1..Len(queue[c]) /\ Len(queue[c]) \in Nat
          /\ Len(queue'[c]) = Len(queue[c]) - 1
          /\ \A k \in 1..Len(queue'[c]) :
                 k + 1 \in 1..Len(queue[c]) /\ queue'[c][k] = queue[c][k + 1]
      BY <2>1 DEF TypeOK, InRange
    <3>3. cur'[c] = cur[c] \/ cur'[c] = queue[c][1]
      BY <2>1, <3>2 DEF TypeOK
    <3>4. cur'[c] # 0 => BehindAll(cur[c])'
      BY <2>1, <3>1, <3>2, <3>3 DEF BehindAll, Behind
    <3>5. ASSUME NEW k \in 1..Len(queue'[c])
          PROVE  BehindAll(queue[c][k])' /\ Behind(cur[c], queue[c][k])'
      <4>1. /\ k + 1 \in 1..Len(queue[c]) /\ queue'[c][k] = queue[c][k + 1] /\ 1 < k + 1
        BY <3>2
      <4>2. BehindAll(queue[c][k + 1]) /\ Behind(cur[c], queue[c][k + 1])
            /\ Behind(queue[c][1], queue[c][k + 1])
        BY <3>1, <3>2, <4>1 DEF Sorted
      <4>. QED
        BY <2>1, <3>3, <4>1, <4>2 DEF BehindAll, Behind
    <3>6. Sorted(queue[c])'
      BY <2>1, <3>1, <3>2 DEF Sorted, Behind
    <3>. QED
      BY <2>1, <2>3, <3>4, <3>5, <3>6 DEF InOrder, BehindAll, Behind, Sorted
  <2>. QED
    BY <2>2, <2>3
<1>7. ASSUME NEW c \in Companion, Write(c) PROVE InOrder'
  <2>1. CASE c # tracked
    BY <1>7, <2>1, TypingStep, LateOrder DEF Write, Latest
  <2>2. CASE c = tracked
    <3>1. /\ buffer' = Append(buffer, cur[c]) /\ cur' = [cur EXCEPT ![c] = 0]
          /\ UNCHANGED <<got, handled, tracked, queue, ahead>>
      BY <1>7, <2>2 DEF Write, service
    <3>2. /\ cur[c] # 0 /\ BehindAll(cur[c]) /\ cur'[c] = 0
          /\ \A k \in 1..Len(queue[c]) :
                 BehindAll(queue[c][k]) /\ Behind(cur[c], queue[c][k])
          /\ Sorted(queue[c])
      BY <1>7, <2>2, <3>1 DEF Write, Sending, InRange, InOrder, TypeOK
    <3>3. /\ Len(buffer') = Len(buffer) + 1 /\ Len(buffer) \in Nat
          /\ \A i \in 1..Len(buffer) : buffer'[i] = buffer[i]
          /\ buffer'[Len(buffer')] = cur[c]
      BY <3>1 DEF InRange
    <3>5. /\ got' # 0 => Behind(handled, got)'
          /\ \A i \in 1..Len(buffer') :
                 (Behind(handled, buffer[i]) /\ Behind(got, buffer[i]))'
      BY <3>1, <3>2, <3>3 DEF InOrder, BehindAll, Behind
    <3>6. Sorted(buffer)'
      <4>. SUFFICES ASSUME NEW i \in 1..Len(buffer'), NEW j \in 1..Len(buffer'), i < j
                    PROVE  Behind(buffer[i], buffer[j])'
        BY DEF Sorted
      <4>1. i \in 1..Len(buffer) /\ buffer'[i] = buffer[i]
        BY <3>3
      <4>2. CASE j \in 1..Len(buffer)
        BY <3>1, <3>3, <4>1, <4>2 DEF InOrder, Sorted, Behind
      <4>3. CASE j = Len(buffer')
        BY <3>1, <3>2, <3>3, <4>1, <4>3 DEF BehindAll, Behind
      <4>. QED
        BY <4>2, <4>3, <3>3
    <3>7. ASSUME NEW k \in 1..Len(queue'[c])
          PROVE  BehindAll(queue[c][k])' /\ Behind(cur[c], queue[c][k])'
      BY <3>1, <3>2, <3>3, <1>a DEF BehindAll, Behind
    <3>8. Sorted(queue[c])'
      BY <3>1, <3>2 DEF Sorted, Behind
    <3>. QED
      BY <2>2, <3>1, <3>2, <3>5, <3>6, <3>7, <3>8 DEF InOrder
  <2>. QED
    BY <2>1, <2>2
<1>8. CASE CheckCreated \/ ConnectFails \/ ClosePipe
  <2>1. /\ UNCHANGED <<got, handled, tracked, cur, queue, ahead>>
        /\ buffer' = buffer \/ buffer' = <<>>
    BY <1>8 DEF CheckCreated, ConnectFails, ClosePipe, Disconnect
  <2>2. CASE buffer' = buffer
    BY <2>1, <2>2 DEF InOrder, BehindAll, Behind, Sorted
  <2>3. CASE buffer' = <<>>
    <3>1. Len(buffer') = 0
      BY <2>3
    <3>. QED
      BY <2>1, <3>1 DEF InOrder, BehindAll, Behind, Sorted
  <2>. QED
    BY <2>1, <2>2, <2>3
<1>9. CASE ReadMessage
  <2>1. /\ got' = Head(buffer) /\ buffer' = Tail(buffer) /\ buffer # <<>>
        /\ UNCHANGED <<handled, tracked, cur, queue, ahead>>
    BY <1>9 DEF ReadMessage, companion
  <2>2. /\ 1 \in 1..Len(buffer) /\ got' = buffer[1]
        /\ \A i \in 1..Len(buffer') :
               /\ i + 1 \in 1..Len(buffer) /\ 1 < i + 1
               /\ buffer'[i] = buffer[i + 1]
    BY <2>1 DEF InRange
  <2>. QED
    BY <2>1, <2>2, <1>a DEF InOrder, BehindAll, Behind, Sorted
<1>10. CASE HandleForegroundPID
  <2>1. /\ handled' = got /\ got' = 0 /\ got # 0
        /\ UNCHANGED <<buffer, tracked, queue, cur, ahead>>
    BY <1>10 DEF HandleForegroundPID, ServerAt, InRange, windows, companion
  <2>. QED
    BY <2>1, <1>a DEF InOrder, BehindAll, Behind, Sorted
<1>11. CASE StopCompanions
  <2>1. tracked' \notin Companion /\ UNCHANGED <<got, handled, buffer, ahead>>
    BY <1>11, PipeAssumption DEF StopCompanions, End
  <2>. QED
    BY <2>1 DEF InOrder, Behind, Sorted
<1>12. CASE LeaveExecute \/ Crash
  <2>1. got' = 0 /\ Len(buffer') = 0 /\ tracked' \notin Companion
    BY <1>12, PipeAssumption DEF LeaveExecute, Crash, Vanish
  <2>. QED
    BY <2>1 DEF InOrder, Sorted
<1>13. CASE UNCHANGED line
  BY <1>13 DEF line, InOrder, BehindAll, Behind, Sorted
<1>14. ASSUME NEW c \in Companion, Connect(c) \/ InstallHook(c) PROVE UNCHANGED line
  BY <1>14 DEF Connect, InstallHook, line, windows, service
<1>15. CASE \/ CheckStopping \/ CreatePipe \/ CreateFails \/ Connected
            \/ CheckReading \/ ReadBroken
  BY <1>13, <1>15 DEF CheckStopping, CreatePipe, CreateFails, Connected,
     CheckReading, ReadBroken, line, windows, companion
<1>16. CASE Nudge \/ Restore \/ RequestStop \/ Start \/ UNCHANGED vars
  BY <1>13, <1>16 DEF Nudge, Restore, RequestStop, Start, line, vars, windows,
     service, companion
<1>. QED
  BY <1>1, <1>2, <1>3, <1>4, <1>5, <1>6, <1>7, <1>8, <1>9, <1>10, <1>11, <1>12,
     <1>13, <1>14, <1>15, <1>16
     DEF Next, CompanionStep, ServerStep, StopStep

-----------------------------------------------------------------------------
(* What a step does to the feed, and where a stop finds the server.         *)

\* A step brings a process to the foreground, handles one that is not older
\* than the last unless it has been overtaken, starts the service over, or
\* leaves the feed alone.
LEMMA FeedCases ==
    ASSUME TypeOK, InRange, InOrder, [Next]_vars
    PROVE  \/ Latest' = Latest + 1 /\ handled' = handled
           \/ /\ Latest' = Latest /\ handled' = got /\ got \in Messages
              /\ handled <= got \/ got \in 1..ahead - 1
           \/ Latest' = Latest /\ handled' = 0
           \/ Latest' = Latest /\ handled' = handled
<1>1. ASSUME NEW p \in Pid, Focus(p)
      PROVE  Latest' = Latest + 1 /\ handled' = handled
  BY <1>1 DEF Focus, TypeOK, Latest, service
<1>2. CASE HandleForegroundPID
  <2>1. /\ Latest' = Latest /\ handled' = got /\ got \in Messages
        /\ Behind(handled, got)
    BY <1>2 DEF HandleForegroundPID, ServerAt, InRange, InOrder, Latest, windows
  <2>2. ahead \in Nat /\ got \in Nat /\ got >= 1
    BY <2>1 DEF TypeOK, Index, Messages
  <2>. QED
    BY <2>1, <2>2 DEF Behind
<1>3. CASE LeaveExecute \/ Crash
  BY <1>3 DEF LeaveExecute, Crash, Vanish, Latest
<1>4. CASE ServerStep /\ ~HandleForegroundPID
  BY <1>4 DEF ServerStep, CheckStopping, CreatePipe, CreateFails, CheckCreated, Connected,
     ConnectFails, CheckReading, ReadMessage, ReadBroken, ClosePipe, Latest, windows
<1>5. CASE StopCompanions \/ Nudge \/ Restore \/ RequestStop \/ Start
  BY <1>5 DEF StopCompanions, Nudge, Restore, RequestStop, Start, Latest, windows
<1>6. ASSUME NEW c \in Companion, Die(c) \/ Ensure(c) \/ CompanionStep(c)
      PROVE  Latest' = Latest /\ handled' = handled
  BY <1>6 DEF Die, Ensure, CompanionStep, Connect, GiveUp, InstallHook, Snapshot, TakeEvent,
     Write, WriteFails, Latest, windows, service
<1>7. CASE UNCHANGED vars
  BY <1>7 DEF vars, windows, service, Latest
<1>. QED
  BY <1>1, <1>2, <1>3, <1>4, <1>5, <1>6, <1>7 DEF Next, StopStep

\* Each of the four is a step of the feed.
LEMMA FeedStep ==
    ASSUME TypeOK, InRange, InOrder, [Next]_vars
    PROVE  [Feed!Next]_(Feed!vars)
<1>1. Latest \in Nat \ {0} /\ handled \in Nat
  BY DEF TypeOK, Index
<1>2. /\ (exec = "serve" /\ ~Lingering /\ missed < Latest)' \in BOOLEAN
      /\ (~Overtaken)' \in BOOLEAN
  OBVIOUS
<1>3. CASE Latest' = Latest + 1 /\ handled' = handled
  BY <1>2, <1>3 DEF Feed!Next, Feed!Switch
<1>4. CASE /\ Latest' = Latest /\ handled' = got /\ got \in Messages
           /\ handled <= got \/ got \in 1..ahead - 1
  <2>1. CASE got = handled
    BY <1>2, <1>4, <2>1 DEF Feed!Next
  <2>2. CASE got # handled
    <3>1. got \in 1..Latest /\ (~Overtaken => got > handled)
      BY <1>1, <1>4, <2>2 DEF Messages, Overtaken
    <3>2. Feed!Handle(got)
      BY <1>4, <3>1 DEF Feed!Handle
    <3>. QED
      BY <1>2, <3>1, <3>2 DEF Feed!Next
  <2>. QED
    BY <2>1, <2>2
<1>5. CASE Latest' = Latest /\ handled' = 0
  BY <1>2, <1>5 DEF Feed!Next, Feed!Restart
<1>6. CASE Latest' = Latest /\ handled' = handled
  BY <1>2, <1>6 DEF Feed!Next
<1>. QED
  BY <1>3, <1>4, <1>5, <1>6, FeedCases

\* A server that is blocked when a stop no longer waits for it is so on a companion.
LEMMA QuietStep ==
    ASSUME TypeOK, InstanceFits, [Next]_vars, exec = "wait", exec' = "restore"
    PROVE  ~Blocked \/ Orphans # {}
<1>1. Restore
  <2>1. ~UNCHANGED vars
    BY DEF vars, service
  <2>2. ASSUME NEW p \in Pid PROVE ~Focus(p)
    BY <2>2 DEF Focus, service
  <2>3. ASSUME NEW c \in Companion PROVE ~Die(c) /\ ~Ensure(c) /\ ~CompanionStep(c)
    BY <2>3 DEF Die, Ensure, CompanionStep, Connect, GiveUp, InstallHook, Snapshot, TakeEvent,
       Write, WriteFails, service
  <2>4. ~ServerStep
    BY DEF ServerStep, CheckStopping, CreatePipe, CreateFails, CheckCreated, Connected,
       ConnectFails, CheckReading, ReadMessage, ReadBroken, HandleForegroundPID, ClosePipe
  <2>5. /\ ~StopCompanions /\ ~Nudge /\ ~LeaveExecute
        /\ ~RequestStop /\ ~Crash /\ ~Start
    BY DEF StopCompanions, Nudge, LeaveExecute, RequestStop, Crash, Start, Vanish
  <2>. QED
    BY <2>1, <2>2, <2>3, <2>4, <2>5 DEF Next, StopStep
<1>2. CASE server = "listen" /\ instance = "free"
  BY <1>2 DEF InstanceFits
<1>3. CASE server = "read" /\ peer # Closed
  <2>1. peer \in Companion /\ Alive(peer) /\ tracked = Nobody
    BY <1>3 DEF InstanceFits, TypeOK
  <2>. QED
    BY <2>1, PipeAssumption DEF Orphans
<1>. QED
  BY <1>1, <1>2, <1>3 DEF Restore, Blocked

-----------------------------------------------------------------------------
(* The theorems.                                                            *)

\* The four parts of the inductive invariant hold at the start, and always.
LEMMA InitHolds == Init => TypeOK /\ InRange /\ InstanceFits /\ InOrder
<1> SUFFICES ASSUME Init PROVE TypeOK /\ InRange /\ InstanceFits /\ InOrder
  OBVIOUS
<1>1. Latest = 1 /\ shown \in Seq(Pid) /\ 1 \in Index
  BY PipeAssumption DEF Init, Latest, Index
<1>2. TypeOK
  BY <1>1, PipeAssumption DEF Init, TypeOK
<1>3. InRange
  BY <1>1 DEF Init, InRange, Messages, Sending
<1>4. InstanceFits
  BY PipeAssumption DEF Init, InstanceFits
<1>5. InOrder
  BY PipeAssumption DEF Init, InOrder, Sorted
<1>. QED
  BY <1>2, <1>3, <1>4, <1>5

LEMMA Inductive == Spec => [](TypeOK /\ InRange /\ InstanceFits /\ InOrder)
<1>1. TypeOK /\ InRange /\ InstanceFits /\ InOrder /\ [Next]_vars
      => (TypeOK /\ InRange /\ InstanceFits /\ InOrder)'
  BY TypingStep, InstanceStep, OrderStep
<1>. QED
  BY <1>1, InitHolds, PTL DEF Spec

\* The variables keep their types; what is sent through the pipe is always the
\* number of a process that has been in the foreground.
THEOREM TypeCorrect == Spec => []TypeOK
  BY Inductive, PTL

\* However its close of the stop channel, the end of the companions and the nudge
\* fall between the steps of the server: when Stop goes on to restore, at the server's
\* end or after two seconds, the server waits for nobody any more; unless a
\* companion that the service does not know holds the pipe.
THEOREM StopEndsServer == Spec => StopIsQuiet
<1>1. TypeOK /\ InstanceFits /\ [Next]_vars
      => [exec = "wait" /\ exec' = "restore" => ~Blocked \/ Orphans # {}]_vars
  BY QuietStep
<1>. QED
  BY <1>1, Inductive, PTL DEF Spec, StopIsQuiet

\* The safety of the refinement: every step of the pipe is a step of the feed,
\* or one the feed does not see.  Messages overtake one another only where a
\* snapshot or a second companion lets them.
THEOREM FeedIsOrdered == Spec => FeedOrdered
<1>1. Init => Feed!Init
  BY DEF Init, Feed!Init, Latest
<1>2. TypeOK /\ InRange /\ InOrder /\ [Next]_vars => [Feed!Next]_(Feed!vars)
  BY FeedStep
<1>. QED
  BY <1>1, <1>2, Inductive, PTL DEF Spec, FeedOrdered
=============================================================================
