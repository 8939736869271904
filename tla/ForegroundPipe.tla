--------------------------- MODULE ForegroundPipe ---------------------------
(***************************************************************************)
(* How the service learns of the foreground process: a companion in the      *)
(* user's session hooks foreground events and writes process IDs to a named  *)
(* pipe of a single instance, which a goroutine of the service reads.        *)
(* The service may stop, crash and be started again, companions may end.     *)
(* A companion a crashed service leaves behind goes on, next to the one the  *)
(* new service starts (module Companion has the life of the companions).     *)
(***************************************************************************)
EXTENDS Naturals, Sequences

CONSTANTS
    Pid,          \* processes that come to the foreground
    Companion,    \* companion processes; one that has ended may come again, and
                  \* more than MaxFaults of them leave one to start
    MaxSwitches,  \* bound: foreground processes in all
    MaxFaults,    \* bound: stops and crashes of the service, ends of companions
    NoPid,
    Nobody,       \* no companion
    Closed        \* the client of an instance, when its end is closed

ASSUME PipeAssumption ==
    /\ NoPid \notin Pid
    /\ Nobody \notin Companion /\ Closed \notin Companion /\ Nobody # Closed
    /\ MaxSwitches \in Nat \ {0} /\ MaxFaults \in Nat

VARIABLES
    \* Windows
    shown,     \* the foreground processes so far; the last one is there now
    instance,  \* of the pipe: "none", "free" or "taken"
    peer,      \* the client of a taken instance
    buffer,    \* written to the instance and not read; a message is an index
               \* of shown, its process ID is what the program sees
    lingers,   \* whether an instance whose server has vanished exists, and so
               \* counts, as long as its client keeps a handle
    faults,
    \* the service
    exec,      \* Execute: "serve", its places in Stop, or "down"
    server,    \* the place of serveForegroundPipe
    got,       \* the message it has read
    handled,   \* the last message given to HandleForegroundPID
    tracked,   \* the companion in companionBySession
    \* each companion
    place, conn, queue, cur, lastPID,
    ahead,     \* for the properties: the newest process at the last step that
               \* lets reports come out of order; older ones may come late
    missed     \* for the properties: the newest process when a companion left
               \* behind last ended or wrote in vain, 0 at the next start

windows == <<shown, instance, peer, buffer, lingers, faults>>
service == <<exec, server, got, handled, tracked>>
companion == <<place, conn, queue, cur, lastPID, ahead, missed>>
vars == <<windows, service, companion>>

Latest == Len(shown)

Stopping == exec \in {"kill", "nudge", "wait", "restore"}

Alive(c) == place[c] # "absent"

Orphans == {c \in Companion : Alive(c) /\ c # tracked}

\* A handle to an instance that has vanished with its service.
Lingering == lingers /\ \E c \in Companion : conn[c] = "dead"

Init ==
    /\ \E p \in Pid : shown = <<p>>
    /\ instance = "none" /\ peer = Nobody /\ buffer = <<>>
    /\ lingers \in BOOLEAN /\ faults = 0
    /\ exec = "serve" /\ server = "check" /\ got = 0 /\ handled = 0
    /\ tracked = Nobody
    /\ place = [c \in Companion |-> "absent"]
    /\ conn = [c \in Companion |-> "none"]
    /\ queue = [c \in Companion |-> <<>>]
    /\ cur = [c \in Companion |-> 0]
    /\ lastPID = [c \in Companion |-> NoPid]
    /\ ahead = 0 /\ missed = 0

Fault == faults < MaxFaults /\ faults' = faults + 1

-----------------------------------------------------------------------------
(* The user, and the foreground hooks of the companions.                    *)

Hooked(c) == place[c] \notin {"absent", "start", "hook"}

Focus(p) ==
    /\ Latest < MaxSwitches /\ p # shown[Latest]
    /\ shown' = Append(shown, p)
    /\ queue' = [c \in Companion |-> IF Hooked(c) THEN Append(queue[c], Latest')
                                                  ELSE queue[c]]
    /\ UNCHANGED <<instance, peer, buffer, lingers, faults, service,
                   place, conn, cur, lastPID, ahead, missed>>

-----------------------------------------------------------------------------
(* The companion: cmdCompanion.                                             *)

Goto(c, where) == place' = [place EXCEPT ![c] = where]

\* Whatever the companions C hold ends with them; the server reads what they
\* have written before it notices.
End(C) ==
    /\ place' = [c \in Companion |-> IF c \in C THEN "absent" ELSE place[c]]
    /\ conn' = [c \in Companion |-> IF c \in C THEN "none" ELSE conn[c]]
    /\ queue' = [c \in Companion |-> IF c \in C THEN <<>> ELSE queue[c]]
    /\ cur' = [c \in Companion |-> IF c \in C THEN 0 ELSE cur[c]]
    /\ lastPID' = [c \in Companion |-> IF c \in C THEN NoPid ELSE lastPID[c]]
    /\ peer' = IF peer \in C THEN Closed ELSE peer
    /\ UNCHANGED ahead

Die(c) ==
    /\ Alive(c) /\ Fault
    /\ End({c})
    /\ missed' = IF c # tracked THEN Latest ELSE missed
    /\ UNCHANGED <<shown, instance, buffer, lingers, service>>

\* Where connectPipe is called from, and where the companion goes on.
AfterConnect == [start |-> "hook", dial |-> "write", redial |-> "rewrite"]
AfterGiveUp  == [start |-> "hook", dial |-> "loop", redial |-> "loop"]

Connect(c) ==
    /\ place[c] \in DOMAIN AfterConnect /\ instance = "free"
    /\ instance' = "taken" /\ peer' = c
    /\ conn' = [conn EXCEPT ![c] = "open"]
    /\ Goto(c, AfterConnect[place[c]])
    /\ UNCHANGED <<shown, buffer, lingers, faults, service, queue, cur,
                   lastPID, ahead, missed>>

\* Twenty attempts in five seconds: time enough for a server that runs to open
\* its next instance, unless that is taken or one left behind is in its way.
GiveUp(c) ==
    /\ place[c] \in DOMAIN AfterGiveUp
    /\ exec # "serve" \/ peer \in Companion \/ Lingering
    /\ cur' = [cur EXCEPT ![c] = 0]
    /\ Goto(c, AfterGiveUp[place[c]])
    /\ UNCHANGED <<windows, service, conn, queue, lastPID, ahead, missed>>

InstallHook(c) ==
    /\ place[c] = "hook"
    /\ Goto(c, "snapshot")
    /\ UNCHANGED <<windows, service, conn, queue, cur, lastPID, ahead, missed>>

\* sendPID up to its first WriteFile: a process sent last is not sent again.
BeginSend(c, k) ==
    IF shown[k] = lastPID[c]
    THEN Goto(c, "loop") /\ UNCHANGED cur
    ELSE /\ cur' = [cur EXCEPT ![c] = k]
         /\ Goto(c, IF conn[c] = "none" THEN "dial" ELSE "write")

\* GetForegroundWindow once the hook is there: events that wait come later.
Snapshot(c) ==
    /\ place[c] = "snapshot"
    /\ BeginSend(c, Latest)
    /\ ahead' = Latest
    /\ UNCHANGED <<windows, service, conn, queue, lastPID, missed>>

\* Mutant: the newest of the events that wait is taken.
TakeNewest(c) ==
    /\ place[c] = "loop" /\ queue[c] # <<>>
    /\ queue' = [queue EXCEPT ![c] = SubSeq(@, 1, Len(@) - 1)]
    /\ BeginSend(c, queue[c][Len(queue[c])])
    /\ UNCHANGED <<windows, service, conn, lastPID, ahead, missed>>

TakeEvent(c) ==
    /\ place[c] = "loop" /\ queue[c] # <<>>
    /\ queue' = [queue EXCEPT ![c] = Tail(@)]
    /\ BeginSend(c, Head(queue[c]))
    /\ UNCHANGED <<windows, service, conn, lastPID, ahead, missed>>

\* Mutant: the event is cleared before it is written.
WriteCleared(c) ==
    /\ place[c] \in {"write", "rewrite"} /\ conn[c] = "open"
    /\ lastPID' = [lastPID EXCEPT ![c] = shown[cur[c]]]
    /\ cur' = [cur EXCEPT ![c] = 0]
    /\ buffer' = Append(buffer, cur'[c])
    /\ Goto(c, "loop")
    /\ ahead' = IF c = tracked THEN ahead ELSE Latest
    /\ UNCHANGED <<shown, instance, peer, lingers, faults, service, conn,
                   queue, missed>>

\* WriteFile, after a reconnect a second time; then the event is given up.
\* A companion the service does not know reports beside the one it does.
Write(c) ==
    /\ place[c] \in {"write", "rewrite"} /\ conn[c] = "open"
    /\ buffer' = Append(buffer, cur[c])
    /\ lastPID' = [lastPID EXCEPT ![c] = shown[cur[c]]]
    /\ cur' = [cur EXCEPT ![c] = 0]
    /\ Goto(c, "loop")
    /\ ahead' = IF c = tracked THEN ahead ELSE Latest
    /\ UNCHANGED <<shown, instance, peer, lingers, faults, service, conn,
                   queue, missed>>

\* Mutant: the event is given up at once, without a reconnect.
WriteOnce(c) ==
    /\ place[c] \in {"write", "rewrite"} /\ conn[c] # "open"
    /\ conn' = [conn EXCEPT ![c] = "none"]
    /\ Goto(c, "loop") /\ cur' = [cur EXCEPT ![c] = 0]
    /\ UNCHANGED <<windows, service, queue, lastPID, ahead, missed>>

WriteFails(c) ==
    /\ place[c] \in {"write", "rewrite"} /\ conn[c] # "open"
    /\ conn' = [conn EXCEPT ![c] = "none"]
    /\ IF place[c] = "write"
       THEN Goto(c, "redial") /\ UNCHANGED <<cur, missed>>
       ELSE /\ Goto(c, "loop") /\ cur' = [cur EXCEPT ![c] = 0]
            /\ missed' = Latest
    /\ UNCHANGED <<windows, service, queue, lastPID, ahead>>

-----------------------------------------------------------------------------
(* The pipe server: serveForegroundPipe and readForegroundPipe.             *)

ServerAt(here, next) == exec # "down" /\ server = here /\ server' = next

CheckStopping ==
    /\ ServerAt("check", IF Stopping THEN "done" ELSE "create")
    /\ UNCHANGED <<windows, exec, got, handled, tracked, companion>>

\* CreateNamedPipe fails, and is tried again, while an instance is left.
CreatePipe ==
    /\ ServerAt("create", "created") /\ ~Lingering
    /\ instance' = "free"
    /\ UNCHANGED <<shown, peer, buffer, lingers, faults,
                   exec, got, handled, tracked, companion>>

CreateFails ==
    /\ ServerAt("create", "check") /\ Lingering
    /\ UNCHANGED <<windows, exec, got, handled, tracked, companion>>

\* The instance is closed; its client finds out when it writes.
Disconnect ==
    /\ instance' = "none" /\ peer' = Nobody /\ buffer' = <<>>
    /\ conn' = [c \in Companion |-> IF peer = c THEN "cut" ELSE conn[c]]

\* Mutant: the second look at stopCh, after the pipe exists, is left out.
CheckCreatedNothing ==
    /\ ServerAt("created", "listen")
    /\ UNCHANGED <<windows, conn, exec, got, handled, tracked,
                   place, queue, cur, lastPID, ahead, missed>>

CheckCreated ==
    /\ ServerAt("created", IF Stopping THEN "done" ELSE "listen")
    /\ IF Stopping THEN Disconnect ELSE UNCHANGED <<instance, peer, buffer, conn>>
    /\ UNCHANGED <<shown, lingers, faults, exec, got, handled, tracked,
                   place, queue, cur, lastPID, ahead, missed>>

\* ConnectNamedPipe returns when there is a client.
Connected ==
    /\ instance = "taken" /\ ServerAt("listen", "next")
    /\ UNCHANGED <<windows, exec, got, handled, tracked, companion>>

\* It fails for a client that has come and gone; what it wrote is lost.
ConnectFails ==
    /\ peer = Closed /\ ServerAt("listen", "check")
    /\ Disconnect
    /\ UNCHANGED <<shown, lingers, faults, exec, got, handled, tracked,
                   place, queue, cur, lastPID, ahead, missed>>

CheckReading ==
    /\ ServerAt("next", IF Stopping THEN "close" ELSE "read")
    /\ UNCHANGED <<windows, exec, got, handled, tracked, companion>>

ReadMessage ==
    /\ buffer # <<>> /\ ServerAt("read", "handle")
    /\ got' = Head(buffer) /\ buffer' = Tail(buffer)
    /\ UNCHANGED <<shown, instance, peer, lingers, faults,
                   exec, handled, tracked, companion>>

ReadBroken ==
    /\ buffer = <<>> /\ peer = Closed /\ ServerAt("read", "close")
    /\ UNCHANGED <<windows, exec, got, handled, tracked, companion>>

HandleForegroundPID ==
    /\ ServerAt("handle", "next")
    /\ handled' = got /\ got' = 0
    /\ UNCHANGED <<windows, exec, tracked, companion>>

\* DisconnectNamedPipe and CloseHandle; without a stop the next instance.
ClosePipe ==
    /\ ServerAt("close", IF Stopping THEN "done" ELSE "check")
    /\ Disconnect
    /\ UNCHANGED <<shown, lingers, faults, exec, got, handled, tracked,
                   place, queue, cur, lastPID, ahead, missed>>

-----------------------------------------------------------------------------
(* The service: companions are ensured, the service stops, crashes, starts.  *)

\* At the start, when the pipe has closed, and every two minutes.
Ensure(c) ==
    /\ exec = "serve"
    /\ tracked \notin {d \in Companion : Alive(d)}
    /\ ~Alive(c) /\ tracked' = c
    /\ Goto(c, "start")
    /\ missed' = 0
    /\ UNCHANGED <<windows, exec, server, got, handled, conn, queue, cur,
                   lastPID, ahead>>

\* close(stopCh)
RequestStop ==
    /\ exec = "serve" /\ Fault
    /\ exec' = "kill"
    /\ UNCHANGED <<shown, instance, peer, buffer, lingers,
                   server, got, handled, tracked, companion>>

StopCompanions ==
    /\ exec = "kill"
    /\ exec' = "nudge" /\ tracked' = Nobody
    /\ End({tracked} \cap Companion)
    /\ UNCHANGED <<shown, instance, buffer, lingers, faults, server, got,
                   handled, missed>>

\* nudgePipeServer opens the pipe, if it is free, and closes it.
Nudge ==
    /\ exec = "nudge"
    /\ exec' = "wait"
    /\ IF instance = "free"
       THEN instance' = "taken" /\ peer' = Closed
       ELSE UNCHANGED <<instance, peer>>
    /\ UNCHANGED <<shown, buffer, lingers, faults,
                   server, got, handled, tracked, companion>>

\* doneCh, or two seconds, however far the server has got by then.
Restore ==
    /\ exec = "wait"
    /\ exec' = "restore"
    /\ UNCHANGED <<windows, server, got, handled, tracked, companion>>

\* The process ends, and what it had open with it.
Vanish ==
    /\ exec' = "down" /\ server' = "done" /\ got' = 0 /\ handled' = 0
    /\ tracked' = Nobody
    /\ instance' = "none" /\ peer' = Nobody /\ buffer' = <<>>
    /\ conn' = [c \in Companion |-> IF conn[c] = "open" THEN "dead" ELSE conn[c]]
    /\ UNCHANGED <<shown, lingers, place, queue, cur, lastPID, ahead, missed>>

LeaveExecute == exec = "restore" /\ Vanish /\ UNCHANGED faults

Crash == exec # "down" /\ Fault /\ Vanish

\* Windows starts a crashed service again, a user a stopped one.
Start ==
    /\ exec = "down"
    /\ exec' = "serve" /\ server' = "check"
    /\ UNCHANGED <<windows, got, handled, tracked, companion>>

-----------------------------------------------------------------------------
CompanionStep(c) ==
    \/ Connect(c) \/ GiveUp(c) \/ InstallHook(c) \/ Snapshot(c)
    \/ TakeEvent(c) \/ Write(c) \/ WriteFails(c)

ServerStep ==
    \/ CheckStopping \/ CreatePipe \/ CreateFails \/ CheckCreated
    \/ Connected \/ ConnectFails \/ CheckReading \/ ReadMessage \/ ReadBroken
    \/ HandleForegroundPID \/ ClosePipe

StopStep == StopCompanions \/ Nudge \/ Restore \/ LeaveExecute

Next ==
    \/ \E p \in Pid : Focus(p)
    \/ \E c \in Companion : Die(c) \/ Ensure(c) \/ CompanionStep(c)
    \/ ServerStep \/ StopStep \/ RequestStop \/ Crash \/ Start

\* Goroutines and companions run, and the monitor ensures a companion.
Fairness ==
    /\ WF_vars(ServerStep) /\ WF_vars(StopStep)
    /\ WF_vars(\E c \in Companion : Ensure(c))
    /\ \A c \in Companion : WF_vars(CompanionStep(c))

Spec == Init /\ [][Next]_vars /\ Fairness

-----------------------------------------------------------------------------
(* Properties.                                                              *)

Index == 1..MaxSwitches

TypeOK ==
    /\ shown \in Seq(Pid) /\ Latest \in Index
    /\ instance \in {"none", "free", "taken"}
    /\ peer \in Companion \cup {Nobody, Closed}
    /\ buffer \in Seq(Index)
    /\ lingers \in BOOLEAN /\ faults \in 0..MaxFaults
    /\ exec \in {"serve", "kill", "nudge", "wait", "restore", "down"}
    /\ server \in {"check", "create", "created", "listen", "next", "read",
                   "handle", "close", "done"}
    /\ got \in Index \cup {0} /\ handled \in Index \cup {0}
    /\ tracked \in Companion \cup {Nobody}
    /\ place \in [Companion -> {"absent", "start", "hook", "snapshot", "loop",
                                "dial", "write", "redial", "rewrite"}]
    /\ conn \in [Companion -> {"none", "open", "cut", "dead"}]
    /\ queue \in [Companion -> Seq(Index)]
    /\ cur \in [Companion -> Index \cup {0}]
    /\ lastPID \in [Companion -> Pid \cup {NoPid}]
    /\ ahead \in Index \cup {0} /\ missed \in Index \cup {0}

\* The message at hand has been overtaken by a newer one.
Overtaken == got \in 1..ahead - 1

\* The pipe implements the feed of foreground processes.  Exempt from the
\* order are the events a snapshot overtakes and the reports of two companions
\* at a time.  An instance left by a crash, which its client keeps until it
\* next writes, may cut the service off; and when a companion left behind ends,
\* or loses the pipe twice over a report, what its successor has given up to
\* report for it is not reported again.
Feed == INSTANCE ForegroundFeed WITH
            latest <- Latest,
            serving <- exec = "serve" /\ ~Lingering /\ missed < Latest,
            inOrder <- ~Overtaken

\* In order: the service never handles a process that was in the foreground
\* before the one it has handled last, whatever stops, crashes and
\* reconnections have come between.
FeedOrdered == Feed!Init /\ [][Feed!Next]_(Feed!vars)

\* And in the end: it comes to handle the process that stays in the foreground.
FeedImplemented == Feed!Spec

\* The server waits for a client, or for one that does not write.
Blocked ==
    \/ server = "listen" /\ instance = "free"
    \/ server = "read" /\ buffer = <<>> /\ peer # Closed

\* When Stop goes on to restore the processes, the pipe server has ended or needs
\* nobody to get there: two seconds end its work, if it is not very slow, and no
\* foreground process is handled after the restore.  Only a companion the service
\* does not know can keep it waiting.
StopIsQuiet ==
    [][exec = "wait" /\ exec' = "restore" => ~Blocked \/ Orphans # {}]_vars
=============================================================================
