------------------------- MODULE ProfileControlProofs ------------------------
(***************************************************************************)
(* Theorems about ProfileControl for any scenarios, schedules, profiles of  *)
(* the power sources and lengths of the queues: each writer that is on its  *)
(* own ends with the profile, or the pause, it stands for.                  *)
(***************************************************************************)
EXTENDS ScheduleProofs, SequenceTheorems

Kind == {"source", "plan", "display"}
Message == [kind : Kind, value : BOOLEAN]

\* Every step is one of the actions; only those of the service manager
\* write its note.
LEMMA NextCases ==
    ASSUME [Next]_vars
    PROVE  \/ UNCHANGED vars
           \/ \E b \in BOOLEAN : ServiceControl(b)
           \/ LockSession
           \/ /\ UNCHANGED svcPaused
              /\ \/ ChangeSource \/ ChangePlan \/ ChangeDisplay \/ ChangePolled
                 \/ OpenMenu \/ \E c \in SUBSET shown : Choose(c)
                 \/ \E c \in jobs : RunPauseJob(c) \/ RunProfileJob(c)
                 \/ IdleTick \/ MemoryTick \/ ScheduleTick
                 \/ \E t \in {"idle", "tray", "sched"} : SetProfile(t)
                 \/ MainSource \/ MainPlan \/ MainDisplay
                 \/ TraySource \/ TrayPlan \/ TrayDisplay
<1>1. ASSUME NEW c \in shown, Choose({c}) PROVE \E d \in SUBSET shown : Choose(d)
  BY <1>1
<1>2. Choose({}) => \E d \in SUBSET shown : Choose(d)
  OBVIOUS
<1> QED
  BY <1>1, <1>2 DEF Next, Environment, MenuJobs, Watchers, MainStep, TrayStep,
     ScheduleStep, SwitchProfile, ServiceStep

\* The scenario is fixed.
LEMMA ScenarioFixed == ASSUME [Next]_vars PROVE UNCHANGED scenario
BY NextCases DEF ChangeSource, ChangePlan, ChangeDisplay, Post, ChangePolled,
   OpenMenu, Choose, RunPauseJob, RunProfileJob, IdleTick, MemoryTick, ScheduleTick,
   SetProfile, MainSource, MainPlan, MainDisplay, TraySource, TrayPlan, TrayDisplay,
   TrayTake, Take, ServiceControl, LockSession, Request, vars

\* A rule's profile is one, and so is the default.
LEMMA CheckAtType == ASSUME ClockOK PROVE CheckAt(entries, time) \in Profile \cup {NoProfile}
<1>1. FirstRule(entries, time, CheckAt(entries, time))
  BY CheckAtIsFirstRule DEF ClockOK
<1>2. \A i \in DOMAIN entries : entries[i] \in Entry
  BY DEF ClockOK
<1>3. \A e \in Entry : e.profile \in Profile
  BY DEF Entry
<1> QED
  BY <1>1, <1>2, <1>3 DEF FirstRule

LEMMA ProfileTypes ==
    /\ \A p \in Profile \cup {NoProfile} : Resolve(p) \in Profile
    /\ \A ac \in BOOLEAN : /\ SourceProfile(ac) \in Profile \cup {NoProfile}
                           /\ DefaultedProfile(ac) \in Profile
BY ControlAssumption DEF Resolve, SourceProfile, DefaultedProfile, Profile, NoProfile

\* What a window is told at first, and the queue after one more message and
\* after one less.
LEMMA RegisteredType ==
    ASSUME {onAC, highPerf, displayOn} \subseteq BOOLEAN, NEW w \in Window
    PROVE  Registered(w) \in Seq(Message)
<1> DEFINE display == <<Event("display", displayOn)>>
           others == <<Event("source", onAC), Event("plan", highPerf)>>
<1>1. display \in Seq(Message) /\ others \in Seq(Message)
  BY DEF Event, Message, Kind
<1> HIDE DEF display, others
<1>2. display \o others \in Seq(Message) /\ others \o display \in Seq(Message)
  BY <1>1
<1>3. Registered(w) \in {others \o display, display \o others, others}
  BY DEF Registered, display, others
<1> QED
  BY <1>1, <1>2, <1>3

LEMMA TakeType ==
    ASSUME queue \in [Window -> Seq(Message)], NEW w \in Window, NEW kind, Take(w, kind)
    PROVE  /\ queue[w] # <<>> /\ Head(queue[w]) \in Message
           /\ Head(queue[w]).kind = kind /\ Head(queue[w]).value \in BOOLEAN
           /\ queue' = [queue EXCEPT ![w] = Tail(queue[w])]
           /\ queue' \in [Window -> Seq(Message)]
<1>1. /\ queue[w] # <<>> /\ Head(queue[w]).kind = kind
      /\ queue' = [queue EXCEPT ![w] = Tail(queue[w])]
  BY DEF Take
<1>2. Head(queue[w]) \in Message /\ Tail(queue[w]) \in Seq(Message)
  BY <1>1, HeadTailProperties
<1> QED
  BY <1>1, <1>2 DEF Message

LEMMA PostType ==
    ASSUME queue \in [Window -> Seq(Message)], NEW kind \in Kind, NEW value \in BOOLEAN,
           Post(kind, value)
    PROVE  queue' \in [Window -> Seq(Message)]
<1>1. Event(kind, value) \in Message
  BY DEF Event, Message
<1>2. \A w \in Window : Append(queue[w], Event(kind, value)) \in Seq(Message)
  BY <1>1, AppendProperties
<1> QED
  BY <1>2 DEF Post

-----------------------------------------------------------------------------
(* Types.                                                                   *)

LEMMA InitTyped == Init => TypeOK
<1> SUFFICES ASSUME Init PROVE TypeOK
  OBVIOUS
<1>1. <<options, changing>> \in Scenarios
  <2>1. PICK c \in Scenarios : options = c[1] /\ changing = c[2]
    BY DEF Init
  <2>2. c = <<c[1], c[2]>>
    BY ControlAssumption
  <2> QED
    BY <2>1, <2>2
<1>2. {onAC, highPerf, displayOn, userIdle, lowMemory} \subseteq BOOLEAN /\ time \in Time
  <2>1. onAC \in BOOLEAN /\ highPerf \in BOOLEAN
    BY DEF Init, Start
  <2>2. 0 \in Time
    BY DayAssumption DEF Time
  <2>3. time \in Time
    BY <2>2 DEF Init
  <2> QED
    BY <2>1, <2>3 DEF Init
<1>3. queue \in [Window -> Seq(Message)]
  BY <1>2, RegisteredType DEF Init
<1>4. profile \in Profile /\ paused \in BOOLEAN
  BY <1>2, ProfileTypes DEF Init
<1> QED
  BY <1>1, <1>2, <1>3, <1>4 DEF Init, TypeOK, Message, Kind

\* Every step keeps the types; the scheduler's answer is a rule's profile.
LEMMA StepTyped ==
    ASSUME TypeOK, ClockOK, ClockOK', [Next]_vars
    PROVE  TypeOK'
<1> USE ProfileTypes, ScenarioFixed
    DEF TypeOK, scenario, inputs, memory, outside
<1>0. queue \in [Window -> Seq(Message)]
  BY DEF Message, Kind
<1>q. ASSUME queue' \in [Window -> Seq(Message)]
      PROVE  queue' \in [Window -> Seq([kind : {"source", "plan", "display"}, value : BOOLEAN])]
  BY <1>q DEF Message, Kind
<1>p. "balanced" \in Profile /\ "aggressive" \in Profile
  BY DEF Profile
<1>1. ASSUME ChangeSource, UNCHANGED svcPaused PROVE TypeOK'
  <2>1. Post("source", ~onAC)
    BY <1>1 DEF ChangeSource
  <2>2. queue' \in [Window -> Seq(Message)]
    BY <1>0, <2>1, PostType DEF Kind
  <2> QED
    BY <1>1, <1>q, <2>1, <2>2 DEF ChangeSource, Post
<1>2. ASSUME ChangePlan, UNCHANGED svcPaused PROVE TypeOK'
  <2>1. Post("plan", ~highPerf)
    BY <1>2 DEF ChangePlan
  <2>2. queue' \in [Window -> Seq(Message)]
    BY <1>0, <2>1, PostType DEF Kind
  <2> QED
    BY <1>2, <1>q, <2>1, <2>2 DEF ChangePlan, Post
<1>3. ASSUME ChangeDisplay, UNCHANGED svcPaused PROVE TypeOK'
  <2>1. Post("display", ~displayOn)
    BY <1>3 DEF ChangeDisplay
  <2>2. queue' \in [Window -> Seq(Message)]
    BY <1>0, <2>1, PostType DEF Kind
  <2> QED
    BY <1>3, <1>q, <2>1, <2>2 DEF ChangeDisplay, Post
<1>4. ASSUME ChangePolled, UNCHANGED svcPaused PROVE TypeOK'
  BY <1>4, DayAssumption DEF ChangePolled, ClockOK
<1>5. ASSUME OpenMenu, UNCHANGED svcPaused PROVE TypeOK'
  BY <1>5, <1>p DEF OpenMenu, Offered, Command, Profile
<1>6. ASSUME NEW c \in SUBSET shown, Choose(c), UNCHANGED svcPaused PROVE TypeOK'
  BY <1>6 DEF Choose
<1>7. ASSUME NEW c \in jobs, RunPauseJob(c), UNCHANGED svcPaused PROVE TypeOK'
  BY <1>7 DEF RunPauseJob
<1>8. ASSUME NEW c \in jobs, RunProfileJob(c), UNCHANGED svcPaused PROVE TypeOK'
  BY <1>8 DEF RunProfileJob
<1>9. ASSUME IdleTick, UNCHANGED svcPaused PROVE TypeOK'
  BY <1>9, <1>p DEF IdleTick, Save, GiveBack
<1>10. ASSUME MemoryTick, UNCHANGED svcPaused PROVE TypeOK'
  BY <1>10 DEF MemoryTick
<1>11. ASSUME ScheduleTick, UNCHANGED svcPaused PROVE TypeOK'
  BY <1>11, CheckAtType DEF ScheduleTick
<1>12. ASSUME NEW t \in {"idle", "tray", "sched"}, SetProfile(t), UNCHANGED svcPaused PROVE TypeOK'
  BY <1>12 DEF SetProfile
<1>13. ASSUME MainSource, UNCHANGED svcPaused PROVE TypeOK'
  <2>1. Take("main", "source")
    BY <1>13 DEF MainSource
  <2>2. /\ Head(queue["main"]).value \in BOOLEAN
        /\ queue' \in [Window -> Seq(Message)]
    BY <1>0, <2>1, TakeType DEF Window
  <2>3. /\ UNCHANGED <<onAC, highPerf, displayOn, userIdle, lowMemory, time, shown, jobs>>
        /\ UNCHANGED svcPaused
    BY <1>13, <2>1 DEF Take
  <2> QED
    BY <1>13, <1>p, <1>q, <2>2, <2>3 DEF MainSource
<1>14. ASSUME MainPlan, UNCHANGED svcPaused PROVE TypeOK'
  <2>1. Take("main", "plan")
    BY <1>14 DEF MainPlan
  <2>2. /\ Head(queue["main"]).value \in BOOLEAN
        /\ queue' \in [Window -> Seq(Message)]
    BY <1>0, <2>1, TakeType DEF Window
  <2>3. /\ UNCHANGED <<onAC, highPerf, displayOn, userIdle, lowMemory, time, shown, jobs>>
        /\ UNCHANGED svcPaused
    BY <1>14, <2>1 DEF Take
  <2> QED
    BY <1>14, <1>p, <1>q, <2>2, <2>3 DEF MainPlan, PlanPause
<1>15. ASSUME MainDisplay, UNCHANGED svcPaused PROVE TypeOK'
  <2>1. Take("main", "display")
    BY <1>15 DEF MainDisplay
  <2>2. /\ Head(queue["main"]).value \in BOOLEAN
        /\ queue' \in [Window -> Seq(Message)]
    BY <1>0, <2>1, TakeType DEF Window
  <2>3. /\ UNCHANGED <<onAC, highPerf, displayOn, userIdle, lowMemory, time, shown, jobs>>
        /\ UNCHANGED svcPaused
    BY <1>15, <2>1 DEF Take
  <2> QED
    BY <1>15, <1>p, <1>q, <2>2, <2>3 DEF MainDisplay
<1>16. ASSUME TraySource, UNCHANGED svcPaused PROVE TypeOK'
  <2>1. Take("tray", "source")
    BY <1>16 DEF TraySource, TrayTake
  <2>2. /\ Head(queue["tray"]).value \in BOOLEAN
        /\ queue' \in [Window -> Seq(Message)]
    BY <1>0, <2>1, TakeType DEF Window
  <2>3. /\ UNCHANGED <<onAC, highPerf, displayOn, userIdle, lowMemory, time, shown, jobs>>
        /\ UNCHANGED svcPaused
    BY <1>16, <2>1 DEF Take
  <2> QED
    BY <1>16, <1>p, <1>q, <2>2, <2>3 DEF TraySource, TrayTake
<1>17. ASSUME TrayPlan, UNCHANGED svcPaused PROVE TypeOK'
  <2>1. Take("tray", "plan")
    BY <1>17 DEF TrayPlan, TrayTake
  <2>2. /\ Head(queue["tray"]).value \in BOOLEAN
        /\ queue' \in [Window -> Seq(Message)]
    BY <1>0, <2>1, TakeType DEF Window
  <2>3. /\ UNCHANGED <<onAC, highPerf, displayOn, userIdle, lowMemory, time, shown, jobs>>
        /\ UNCHANGED svcPaused
    BY <1>17, <2>1 DEF Take
  <2> QED
    BY <1>17, <1>p, <1>q, <2>2, <2>3 DEF TrayPlan, TrayTake, SeenByTray
<1>18. ASSUME TrayDisplay, UNCHANGED svcPaused PROVE TypeOK'
  <2>1. Take("tray", "display")
    BY <1>18 DEF TrayDisplay, TrayTake
  <2>2. /\ Head(queue["tray"]).value \in BOOLEAN
        /\ queue' \in [Window -> Seq(Message)]
    BY <1>0, <2>1, TakeType DEF Window
  <2>3. /\ UNCHANGED <<onAC, highPerf, displayOn, userIdle, lowMemory, time, shown, jobs>>
        /\ UNCHANGED svcPaused
    BY <1>18, <2>1 DEF Take
  <2>4. /\ profile' \in Profile /\ saved' \in [{"idle", "tray"} -> Profile \cup {None}]
        /\ writing' \in [{"idle", "tray", "sched"} -> Profile \cup {NoProfile, None}]
    <3>1. \/ Save("tray")
          \/ saved["tray"] # None /\ GiveBack("tray")
          \/ UNCHANGED <<profile, saved, writing>>
      BY <1>18 DEF TrayDisplay
    <3>2. CASE Save("tray")
      BY <1>p, <3>2 DEF Save
    <3>3. CASE saved["tray"] # None /\ GiveBack("tray")
      BY <3>3 DEF GiveBack
    <3> QED
      BY <3>1, <3>2, <3>3
  <2> QED
    BY <1>18, <1>q, <2>1, <2>2, <2>3, <2>4 DEF TrayDisplay, Take
<1>19. ASSUME NEW b \in BOOLEAN, ServiceControl(b) PROVE TypeOK'
  BY <1>19 DEF ServiceControl, Request
<1>20. ASSUME LockSession PROVE TypeOK'
  BY <1>20, <1>p DEF LockSession, Request
<1>21. CASE UNCHANGED vars
  BY <1>21 DEF vars
<1> QED
  BY NextCases, <1>1, <1>2, <1>3, <1>4, <1>5, <1>6, <1>7, <1>8, <1>9, <1>10,
     <1>11, <1>12, <1>13, <1>14, <1>15, <1>16, <1>17, <1>18, <1>19, <1>20,
     <1>21

\* The variables keep their types, whoever writes the profile and the pause.
THEOREM TypeCorrect == Spec => []TypeOK
<1>1. TypeOK /\ ClockOK /\ ClockOK' /\ [Next]_vars => TypeOK'
  BY StepTyped
<1> QED
  BY <1>1, InitTyped, ClockInvariant, PTL DEF Spec

-----------------------------------------------------------------------------
(* The queues of the windows.                                               *)

\* A message of the given kind is waiting in q; the last one of that kind, if
\* any, has the given value.
Has(q, kind) == \E i \in 1 .. Len(q) : q[i].kind = kind
Ends(q, kind, value) ==
    \A i \in 1 .. Len(q) :
        q[i].kind = kind => \/ q[i].value = value
                           \/ \E j \in i + 1 .. Len(q) : q[j].kind = kind

\* One more message, ...
LEMMA EndsAppend ==
    ASSUME NEW q \in Seq(Message), NEW m \in Message, NEW kind, NEW value,
           m.kind = kind => m.value = value,
           m.kind # kind => Ends(q, kind, value)
    PROVE  Ends(Append(q, m), kind, value)
<1> DEFINE r == Append(q, m)
<1>1. /\ Len(q) \in Nat /\ Len(r) = Len(q) + 1 /\ r[Len(r)] = m
      /\ \A i \in 1 .. Len(q) : r[i] = q[i]
  BY AppendProperties, LenProperties
<1> HIDE DEF r
<1> SUFFICES ASSUME NEW i \in 1 .. Len(r), r[i].kind = kind
             PROVE  r[i].value = value \/ \E j \in i + 1 .. Len(r) : r[j].kind = kind
  BY DEF Ends, r
<1>2. CASE i = Len(r)
  BY <1>1, <1>2
<1>3. CASE i # Len(r) /\ m.kind = kind
  <2>1. Len(r) \in i + 1 .. Len(r)
    BY <1>1, <1>3
  <2> QED
    BY <1>1, <1>3, <2>1
<1>4. CASE i # Len(r) /\ m.kind # kind
  <2>1. i \in 1 .. Len(q) /\ r[i] = q[i]
    BY <1>1, <1>4
  <2>2. q[i].value = value \/ \E j \in i + 1 .. Len(q) : q[j].kind = kind
    BY <1>4, <2>1 DEF Ends
  <2>3. \A j \in i + 1 .. Len(q) : j \in i + 1 .. Len(r) /\ r[j] = q[j]
    BY <1>1
  <2> QED
    BY <2>1, <2>2, <2>3
<1> QED
  BY <1>2, <1>3, <1>4

\* ... and one less.
LEMMA EndsTail ==
    ASSUME NEW q \in Seq(Message), q # <<>>, NEW kind, NEW value, Ends(q, kind, value)
    PROVE  /\ Ends(Tail(q), kind, value)
           /\ Head(q).kind = kind => Has(Tail(q), kind) \/ Head(q).value = value
           /\ Head(q).kind # kind => (Has(Tail(q), kind) <=> Has(q, kind))
<1> DEFINE r == Tail(q)
<1>1. /\ Len(q) \in Nat /\ Len(q) > 0 /\ Len(r) = Len(q) - 1 /\ Head(q) = q[1]
      /\ \A i \in 1 .. Len(r) : r[i] = q[i + 1]
  BY HeadTailProperties, LenProperties, EmptySeq
<1> HIDE DEF r
<1>2. Ends(r, kind, value)
  <2> SUFFICES ASSUME NEW i \in 1 .. Len(r), r[i].kind = kind
               PROVE  r[i].value = value \/ \E j \in i + 1 .. Len(r) : r[j].kind = kind
    BY DEF Ends
  <2>1. i + 1 \in 1 .. Len(q) /\ r[i] = q[i + 1]
    BY <1>1
  <2>2. q[i + 1].value = value \/ \E j \in (i + 1) + 1 .. Len(q) : q[j].kind = kind
    BY <2>1 DEF Ends
  <2>3. \A j \in (i + 1) + 1 .. Len(q) : j - 1 \in i + 1 .. Len(r) /\ r[j - 1] = q[j]
    BY <1>1
  <2> QED
    BY <2>1, <2>2, <2>3
<1>3. \A j \in 2 .. Len(q) : j - 1 \in 1 .. Len(r) /\ r[j - 1] = q[j]
  BY <1>1
<1>4. Head(q).kind = kind => Has(r, kind) \/ Head(q).value = value
  BY <1>1, <1>3 DEF Ends, Has
<1>5. Head(q).kind # kind => (Has(r, kind) <=> Has(q, kind))
  <2>1. ASSUME Has(r, kind) PROVE Has(q, kind)
    <3>1. PICK i \in 1 .. Len(r) : r[i].kind = kind
      BY <2>1 DEF Has
    <3> QED
      BY <1>1, <3>1 DEF Has
  <2>2. ASSUME Head(q).kind # kind, Has(q, kind) PROVE Has(r, kind)
    <3>1. PICK i \in 1 .. Len(q) : q[i].kind = kind
      BY <2>2 DEF Has
    <3>2. i \in 2 .. Len(q)
      BY <1>1, <2>2, <3>1
    <3> QED
      BY <1>3, <3>1, <3>2 DEF Has
  <2> QED
    BY <2>1, <2>2
<1> QED
  BY <1>2, <1>4, <1>5 DEF r

\* What waits last in a window is the present state of the power source and of
\* the power plan.
Present ==
    \A w \in Window : Ends(queue[w], "source", onAC) /\ Ends(queue[w], "plan", highPerf)

-----------------------------------------------------------------------------
(* What is not configured does not happen.                                  *)

Unused ==
    /\ configured \in Profile
    /\ "menu" \notin changing => shown = {} /\ jobs = {}
    /\ "tray" \notin options => queue["tray"] = <<>>
    /\ "display" \notin options =>
          ~Has(queue["tray"], "display") /\ saved["tray"] = None /\ writing["tray"] = None
    /\ "idle" \notin options => saved["idle"] = None /\ writing["idle"] = None
    /\ "schedule" \notin options => writing["sched"] = None

\* Every message comes to a window that is there, or is taken from it.
LEMMA QueueSteps ==
    ASSUME [Next]_vars, {onAC, highPerf, displayOn} \subseteq BOOLEAN
    PROVE  \/ UNCHANGED <<queue, onAC, highPerf>>
           \/ \E kind \in Kind, value \in BOOLEAN :
                 /\ Post(kind, value)
                 /\ onAC' = IF kind = "source" THEN value ELSE onAC
                 /\ highPerf' = IF kind = "plan" THEN value ELSE highPerf
           \/ \E w \in Window, kind \in Kind :
                 /\ Take(w, kind) /\ (w = "tray" /\ kind = "display" => TrayDisplay)
                 /\ UNCHANGED <<onAC, highPerf>>
<1> DEFINE Goal == \/ UNCHANGED <<queue, onAC, highPerf>>
                   \/ \E kind \in Kind, value \in BOOLEAN :
                         /\ Post(kind, value)
                         /\ onAC' = IF kind = "source" THEN value ELSE onAC
                         /\ highPerf' = IF kind = "plan" THEN value ELSE highPerf
                   \/ \E w \in Window, kind \in Kind :
                         /\ Take(w, kind) /\ (w = "tray" /\ kind = "display" => TrayDisplay)
                         /\ UNCHANGED <<onAC, highPerf>>
<1>1. CASE ChangeSource
  <2>1. Post("source", ~onAC) /\ onAC' = ~onAC /\ highPerf' = highPerf
    BY <1>1, Zenon DEF ChangeSource
  <2>2. (~onAC) \in BOOLEAN /\ "source" \in Kind
    BY DEF Kind
  <2> QED
    BY <2>1, <2>2, Zenon
<1>2. CASE ChangePlan
  <2>1. Post("plan", ~highPerf) /\ onAC' = onAC /\ highPerf' = ~highPerf
    BY <1>2, Zenon DEF ChangePlan
  <2>2. (~highPerf) \in BOOLEAN /\ "plan" \in Kind
    BY DEF Kind
  <2>3. "plan" # "source"
    OBVIOUS
  <2> QED
    BY <2>1, <2>2, <2>3, Zenon
<1>3. CASE ChangeDisplay
  <2>1. Post("display", ~displayOn) /\ onAC' = onAC /\ highPerf' = highPerf
    BY <1>3, Zenon DEF ChangeDisplay
  <2>2. (~displayOn) \in BOOLEAN /\ "display" \in Kind
    BY DEF Kind
  <2>3. "display" # "source" /\ "display" # "plan"
    OBVIOUS
  <2> QED
    BY <2>1, <2>2, <2>3, Zenon
<1>4. CASE MainSource \/ MainPlan \/ MainDisplay \/ TraySource \/ TrayPlan \/ TrayDisplay
  <2>1. \E w \in Window, kind \in Kind :
            Take(w, kind) /\ (w = "tray" /\ kind = "display" => TrayDisplay)
    BY <1>4 DEF MainSource, MainPlan, MainDisplay, TraySource, TrayPlan,
       TrayDisplay, TrayTake, Window, Kind
  <2> QED
    BY <2>1 DEF Take, inputs
<1>5. CASE \/ ChangePolled \/ OpenMenu \/ IdleTick \/ MemoryTick \/ ScheduleTick \/ LockSession
           \/ \E c \in SUBSET shown : Choose(c)
           \/ \E c \in jobs : RunPauseJob(c) \/ RunProfileJob(c)
           \/ \E t \in {"idle", "tray", "sched"} : SetProfile(t)
           \/ \E b \in BOOLEAN : ServiceControl(b)
           \/ UNCHANGED vars
  BY <1>5 DEF ChangePolled, OpenMenu, IdleTick, MemoryTick, ScheduleTick,
     LockSession, Choose, RunPauseJob, RunProfileJob, SetProfile, ServiceControl,
     Request, outside, inputs, vars
<1> QED
  BY NextCases, <1>1, <1>2, <1>3, <1>4, <1>5

\* The windows are told the present values, of the display only if configured.
LEMMA RegisteredEnds ==
    ASSUME {onAC, highPerf, displayOn} \subseteq BOOLEAN, NEW w \in Window
    PROVE  /\ Ends(Registered(w), "source", onAC) /\ Ends(Registered(w), "plan", highPerf)
           /\ Has(Registered(w), "source") /\ Has(Registered(w), "plan")
           /\ w = "tray" /\ "display" \notin options => ~Has(Registered(w), "display")
<1> DEFINE s == Event("source", onAC)
           p == Event("plan", highPerf)
           d == Event("display", displayOn)
<1>0. Registered(w) \in {<<s, p>> \o <<d>>, <<d>> \o <<s, p>>, <<s, p>>}
  BY DEF Registered
<1>2. w = "tray" /\ "display" \notin options => Registered(w) = <<s, p>>
  BY DEF Registered
<1>3. /\ s.kind = "source" /\ s.value = onAC /\ p.kind = "plan" /\ p.value = highPerf
      /\ d.kind = "display"
  BY DEF Event
<1> HIDE DEF s, p, d
<1>1. Registered(w) \in {<<s, p, d>>, <<d, s, p>>, <<s, p>>}
  BY <1>0
<1>4. CASE Registered(w) = <<s, p, d>>
  BY <1>2, <1>3, <1>4 DEF Ends, Has
<1>5. CASE Registered(w) = <<d, s, p>>
  BY <1>2, <1>3, <1>5 DEF Ends, Has
<1>6. CASE Registered(w) = <<s, p>>
  BY <1>2, <1>3, <1>6 DEF Ends, Has
<1> QED
  BY <1>1, <1>4, <1>5, <1>6

\* Without display callbacks the tray's window has no such message.
LEMMA TrayHead ==
    ASSUME TypeOK, Unused, NEW kind, Take("tray", kind)
    PROVE  /\ "tray" \in options
           /\ kind = "display" => "display" \in options
<1>0. queue \in [Window -> Seq(Message)] /\ "tray" \in Window
  BY DEF TypeOK, Message, Kind, Window
<1>1. queue["tray"] # <<>> /\ Head(queue["tray"]).kind = kind
  BY <1>0, TakeType
<1>2. 1 \in 1 .. Len(queue["tray"]) /\ queue["tray"][1] = Head(queue["tray"])
  BY <1>0, <1>1, EmptySeq, HeadTailProperties
<1> QED
  BY <1>1, <1>2 DEF Unused, Has

\* Nothing that is not configured begins to happen.
LEMMA InitUnused == Init => Unused
<1> SUFFICES ASSUME Init PROVE Unused
  OBVIOUS
<1>1. {onAC, highPerf, displayOn} \subseteq BOOLEAN /\ "tray" \in Window
  BY InitTyped DEF TypeOK, Window
<1>2. "display" \notin options => ~Has(queue["tray"], "display")
  <2>1. queue["tray"] \in {Registered("tray"), <<>>}
    BY <1>1 DEF Init
  <2>2. ~Has(<<>>, "display")
    BY DEF Has
  <2> QED
    BY <1>1, <2>1, <2>2, RegisteredEnds
<1> QED
  BY <1>1, <1>2 DEF Init, Unused, Window

\* Its part that is not about the queues.
Quiet ==
    /\ "menu" \notin changing => shown = {} /\ jobs = {}
    /\ "display" \notin options => saved["tray"] = None /\ writing["tray"] = None
    /\ "idle" \notin options => saved["idle"] = None /\ writing["idle"] = None
    /\ "schedule" \notin options => writing["sched"] = None

LEMMA StepQuiet ==
    ASSUME TypeOK, Unused, [Next]_vars
    PROVE  Quiet'
<1> USE ScenarioFixed DEF TypeOK, Unused, Quiet, scenario, inputs, memory, outside
<1>1. ASSUME ChangeSource, UNCHANGED svcPaused PROVE Quiet'
  BY <1>1 DEF ChangeSource, Post
<1>2. ASSUME ChangePlan, UNCHANGED svcPaused PROVE Quiet'
  BY <1>2 DEF ChangePlan, Post
<1>3. ASSUME ChangeDisplay, UNCHANGED svcPaused PROVE Quiet'
  BY <1>3 DEF ChangeDisplay, Post
<1>4. ASSUME ChangePolled, UNCHANGED svcPaused PROVE Quiet'
  BY <1>4 DEF ChangePolled
<1>5. ASSUME OpenMenu, UNCHANGED svcPaused PROVE Quiet'
  BY <1>5 DEF OpenMenu, Offered
<1>6. ASSUME NEW c \in SUBSET shown, Choose(c), UNCHANGED svcPaused PROVE Quiet'
  BY <1>6 DEF Choose
<1>7. ASSUME NEW c \in jobs, RunPauseJob(c), UNCHANGED svcPaused PROVE Quiet'
  BY <1>7 DEF RunPauseJob
<1>8. ASSUME NEW c \in jobs, RunProfileJob(c), UNCHANGED svcPaused PROVE Quiet'
  BY <1>8 DEF RunProfileJob
<1>9. ASSUME IdleTick, UNCHANGED svcPaused PROVE Quiet'
  BY <1>9 DEF IdleTick, Save, GiveBack
<1>10. ASSUME MemoryTick, UNCHANGED svcPaused PROVE Quiet'
  BY <1>10 DEF MemoryTick
<1>11. ASSUME ScheduleTick, UNCHANGED svcPaused PROVE Quiet'
  BY <1>11 DEF ScheduleTick
<1>12. ASSUME NEW t \in {"idle", "tray", "sched"}, SetProfile(t), UNCHANGED svcPaused PROVE Quiet'
  BY <1>12 DEF SetProfile
<1>13. ASSUME MainSource, UNCHANGED svcPaused PROVE Quiet'
  BY <1>13 DEF MainSource, Take
<1>14. ASSUME MainPlan, UNCHANGED svcPaused PROVE Quiet'
  BY <1>14 DEF MainPlan, PlanPause, Take
<1>15. ASSUME MainDisplay, UNCHANGED svcPaused PROVE Quiet'
  BY <1>15 DEF MainDisplay, Take
<1>16. ASSUME TraySource, UNCHANGED svcPaused PROVE Quiet'
  BY <1>16 DEF TraySource, TrayTake, Take
<1>17. ASSUME TrayPlan, UNCHANGED svcPaused PROVE Quiet'
  BY <1>17 DEF TrayPlan, TrayTake, SeenByTray, Take
<1>18. ASSUME TrayDisplay, UNCHANGED svcPaused PROVE Quiet'
  <2>1. "display" \in options
    BY <1>18, TrayHead DEF TrayDisplay, TrayTake
  <2> QED
    BY <1>18, <2>1 DEF TrayDisplay, TrayTake, Take, Save, GiveBack
<1>19. ASSUME NEW b \in BOOLEAN, ServiceControl(b) PROVE Quiet'
  BY <1>19 DEF ServiceControl, Request
<1>20. ASSUME LockSession PROVE Quiet'
  BY <1>20 DEF LockSession, Request
<1>21. CASE UNCHANGED vars
  BY <1>21 DEF vars
<1> QED
  BY NextCases, <1>1, <1>2, <1>3, <1>4, <1>5, <1>6, <1>7, <1>8, <1>9, <1>10,
     <1>11, <1>12, <1>13, <1>14, <1>15, <1>16, <1>17, <1>18, <1>19, <1>20,
     <1>21

\* No step makes it happen.
LEMMA StepUnused ==
    ASSUME TypeOK, Unused, [Next]_vars
    PROVE  Unused'
<1> USE DEF Unused, scenario, inputs, memory, outside
<1>0. /\ queue \in [Window -> Seq(Message)] /\ "tray" \in Window
      /\ {onAC, highPerf, displayOn} \subseteq BOOLEAN
      /\ UNCHANGED <<options, changing, configured>>
  BY ScenarioFixed DEF TypeOK, Message, Kind, Window
<1>1. /\ "tray" \notin options => queue'["tray"] = <<>>
      /\ "display" \notin options => ~Has(queue'["tray"], "display")
  <2>1. CASE UNCHANGED queue
    BY <2>1
  <2>2. ASSUME NEW kind \in Kind, NEW value \in BOOLEAN, Post(kind, value)
        PROVE  /\ "tray" \notin options => queue'["tray"] = <<>>
               /\ "display" \notin options => ~Has(queue'["tray"], "display")
    <3>1. \/ queue'["tray"] = queue["tray"]
          \/ /\ "tray" \in options /\ (kind = "display" => "display" \in options)
             /\ queue'["tray"] = Append(queue["tray"], Event(kind, value))
      BY <1>0, <2>2 DEF Post
    <3>2. CASE kind # "display" /\ queue'["tray"] = Append(queue["tray"], Event(kind, value))
      <4>1. Event(kind, value) \in Message /\ Event(kind, value).kind = kind
        BY DEF Event, Message
      <4>2. Has(queue'["tray"], "display") => Has(queue["tray"], "display")
        BY <1>0, <3>2, <4>1, AppendProperties DEF Has
      <4> QED
        BY <3>1, <4>2
    <3> QED
      BY <3>1, <3>2
  <2>3. ASSUME NEW w \in Window, NEW kind \in Kind, Take(w, kind)
        PROVE  /\ "tray" \notin options => queue'["tray"] = <<>>
               /\ "display" \notin options => ~Has(queue'["tray"], "display")
    <3>1. CASE w = "tray"
      <4>1. /\ "tray" \in options /\ queue["tray"] # <<>>
            /\ queue'["tray"] = Tail(queue["tray"])
            /\ Head(queue["tray"]).kind = kind
            /\ kind = "display" => "display" \in options
        BY <1>0, <2>3, <3>1, TakeType, TrayHead
      <4>2. Has(Tail(queue["tray"]), "display") => Has(queue["tray"], "display")
        BY <1>0, <4>1, HeadTailProperties, LenProperties DEF Has
      <4> QED
        BY <4>1, <4>2
    <3>2. CASE w # "tray"
      BY <1>0, <2>3, <3>2, TakeType
    <3> QED
      BY <3>1, <3>2
  <2> QED
    BY <1>0, <2>1, <2>2, <2>3, QueueSteps
<1> QED
  BY <1>0, <1>1, StepQuiet DEF Quiet

\* The last messages keep telling the present values.
LEMMA InitPresent == Init => Present
<1> SUFFICES ASSUME Init, NEW w \in Window
             PROVE  Ends(queue[w], "source", onAC) /\ Ends(queue[w], "plan", highPerf)
  BY DEF Present
<1>1. {onAC, highPerf, displayOn} \subseteq BOOLEAN
  BY InitTyped DEF TypeOK
<1>2. queue[w] \in {Registered(w), <<>>}
  BY DEF Init
<1>3. Ends(<<>>, "source", onAC) /\ Ends(<<>>, "plan", highPerf)
  BY DEF Ends
<1> QED
  BY <1>1, <1>2, <1>3, RegisteredEnds

LEMMA StepPresent ==
    ASSUME TypeOK, Unused, Present, [Next]_vars
    PROVE  Present'
<1>0. queue \in [Window -> Seq(Message)] /\ {onAC, highPerf, displayOn} \subseteq BOOLEAN
  BY DEF TypeOK, Message, Kind
<1>1. CASE UNCHANGED <<queue, onAC, highPerf>>
  BY <1>1 DEF Present
<1>2. ASSUME NEW kind \in Kind, NEW value \in BOOLEAN, Post(kind, value),
             onAC' = (IF kind = "source" THEN value ELSE onAC),
             highPerf' = (IF kind = "plan" THEN value ELSE highPerf)
      PROVE  Present'
  <2> SUFFICES ASSUME NEW w \in Window
               PROVE  Ends(queue'[w], "source", onAC') /\ Ends(queue'[w], "plan", highPerf')
    BY DEF Present
  <2>1. /\ Event(kind, value) \in Message
        /\ Event(kind, value).kind = kind /\ Event(kind, value).value = value
    BY DEF Event, Message
  <2>2. CASE queue'[w] = Append(queue[w], Event(kind, value))
    <3>1. /\ queue[w] \in Seq(Message)
          /\ Ends(queue[w], "source", onAC) /\ Ends(queue[w], "plan", highPerf)
      BY <1>0 DEF Present
    <3>2. Ends(queue'[w], "source", onAC')
      BY <1>2, <2>1, <2>2, <3>1, EndsAppend
    <3>3. Ends(queue'[w], "plan", highPerf')
      BY <1>2, <2>1, <2>2, <3>1, EndsAppend
    <3> QED
      BY <3>2, <3>3
  <2>3. CASE queue'[w] # Append(queue[w], Event(kind, value))
    <3>1. queue'[w] = queue[w] /\ w # "main" /\ ("tray" \in options => kind = "display")
      BY <1>2, <2>3 DEF Post
    <3>2. CASE kind = "display"
      BY <1>2, <3>1, <3>2 DEF Present
    <3>3. CASE "tray" \notin options
      <4>1. queue'[w] = <<>>
        BY <3>1, <3>3 DEF Unused, Window
      <4> QED
        BY <4>1 DEF Ends
    <3> QED
      BY <3>1, <3>2, <3>3
  <2> QED
    BY <2>2, <2>3
<1>3. ASSUME NEW v \in Window, NEW kind \in Kind, Take(v, kind), UNCHANGED <<onAC, highPerf>>
      PROVE  Present'
  <2> SUFFICES ASSUME NEW w \in Window
               PROVE  Ends(queue'[w], "source", onAC) /\ Ends(queue'[w], "plan", highPerf)
    BY <1>3 DEF Present
  <2>1. /\ queue[v] # <<>> /\ queue[w] \in Seq(Message)
        /\ queue' = [queue EXCEPT ![v] = Tail(queue[v])]
        /\ Ends(queue[w], "source", onAC) /\ Ends(queue[w], "plan", highPerf)
    BY <1>0, <1>3, TakeType DEF Present
  <2>2. CASE w = v
    BY <1>0, <2>1, <2>2, EndsTail
  <2>3. CASE w # v
    BY <1>0, <2>1, <2>3
  <2> QED
    BY <2>2, <2>3
<1> QED
  BY <1>0, <1>1, <1>2, <1>3, QueueSteps

\* When a step leaves no message of a kind waiting, a new message was of another
\* kind, ...
LEMMA PostLeaves ==
    ASSUME TypeOK, NEW kind \in Kind, NEW value \in BOOLEAN, Post(kind, value),
           NEW k, \A w \in Window : ~Has(queue'[w], k)
    PROVE  kind # k /\ \A w \in Window : ~Has(queue[w], k)
<1>1. /\ queue \in [Window -> Seq(Message)] /\ "main" \in Window
      /\ Event(kind, value) \in Message /\ Event(kind, value).kind = kind
      /\ queue'["main"] = Append(queue["main"], Event(kind, value))
  BY DEF TypeOK, Event, Message, Kind, Post, Window
<1>2. \A w \in Window : /\ queue'[w] \in {queue[w], Append(queue[w], Event(kind, value))}
                         /\ queue[w] \in Seq(Message)
  BY <1>1 DEF Post
<1>3. ASSUME NEW q \in Seq(Message)
      PROVE  /\ kind = k => Has(Append(q, Event(kind, value)), k)
             /\ Has(q, k) => Has(Append(q, Event(kind, value)), k)
  <2>1. /\ Len(q) \in Nat /\ Len(Append(q, Event(kind, value))) = Len(q) + 1
        /\ \A i \in 1 .. Len(q) : Append(q, Event(kind, value))[i] = q[i]
        /\ Append(q, Event(kind, value))[Len(q) + 1] = Event(kind, value)
    BY <1>1, AppendProperties, LenProperties
  <2>2. Len(q) + 1 \in 1 .. Len(q) + 1 /\ \A i \in 1 .. Len(q) : i \in 1 .. Len(q) + 1
    BY <2>1
  <2> QED
    BY <1>1, <2>1, <2>2 DEF Has
<1> QED
  BY <1>1, <1>2, <1>3

\* ... and the last of its kind that was taken told the present state.
LEMMA TakeLeaves ==
    ASSUME TypeOK, NEW v \in Window, NEW kind, Take(v, kind),
           NEW k, NEW value, \A w \in Window : Ends(queue[w], k, value) /\ ~Has(queue'[w], k)
    PROVE  /\ kind = k => Head(queue[v]).value = value
           /\ kind # k => \A w \in Window : ~Has(queue[w], k)
<1>0. queue \in [Window -> Seq(Message)]
  BY DEF TypeOK, Message, Kind
<1>1. /\ queue[v] # <<>> /\ Head(queue[v]).kind = kind
      /\ queue' = [queue EXCEPT ![v] = Tail(queue[v])] /\ queue[v] \in Seq(Message)
  BY <1>0, TakeType
<1>2. Ends(queue[v], k, value) /\ ~Has(Tail(queue[v]), k)
  <2>1. queue'[v] = Tail(queue[v])
    BY <1>0, <1>1
  <2> QED
    BY <2>1
<1>3. kind = k => Head(queue[v]).value = value
  BY <1>1, <1>2, EndsTail
<1>4. kind # k => ~Has(queue[v], k)
  BY <1>1, <1>2, EndsTail
<1>5. \A w \in Window : w # v => queue'[w] = queue[w]
  BY <1>0, <1>1
<1> QED
  BY <1>3, <1>4, <1>5

-----------------------------------------------------------------------------
(* The power source.                                                        *)

\* PowerSourceFollowed says what holds when both windows have handled all
\* messages.  Until then one of them may set an older profile, but only if the
\* message with the present one is still to come to it (Present).
SourceLast ==
    /\ OnlyWriter("auto") /\ NoProfile \notin {OnAC, OnBattery}
    /\ \A w \in Window : ~Has(queue[w], "source")
    => profile = SourceProfile(onAC)

\* What auto_profile does if it is the only writer.
AutoStep ==
    \/ UNCHANGED <<queue, profile, onAC>>
    \/ \E kind \in Kind, value \in BOOLEAN :
          Post(kind, value) /\ (kind # "source" => UNCHANGED onAC)
    \/ \E w \in Window, kind \in Kind :
          /\ Take(w, kind) /\ UNCHANGED onAC
          /\ kind # "source" => UNCHANGED profile
          /\ kind = "source" =>
                profile' \in {Resolve(SourceProfile(Head(queue[w]).value)),
                              DefaultedProfile(Head(queue[w]).value)}

LEMMA AutoSteps ==
    ASSUME TypeOK, Unused, OnlyWriter("auto"), [Next]_vars
    PROVE  AutoStep
<1>0. /\ "auto" \in options /\ options \cap {"display", "idle", "schedule"} = {}
      /\ "menu" \notin changing /\ "session" \notin changing
      /\ {onAC, highPerf, displayOn} \subseteq BOOLEAN
  BY DEF OnlyWriter, TypeOK
<1>u. /\ saved = [t \in {"idle", "tray"} |-> None]
      /\ writing = [t \in {"idle", "tray", "sched"} |-> None]
      /\ shown = {} /\ jobs = {}
  BY <1>0 DEF Unused, TypeOK
<1> USE <1>0, <1>u DEF AutoStep, scenario, inputs, memory, outside, Kind, Window
<1>1. ASSUME ChangeSource, UNCHANGED svcPaused PROVE AutoStep
  <2>1. Post("source", ~onAC)
    BY <1>1, Zenon DEF ChangeSource
  <2>2. "source" \in Kind /\ (~onAC) \in BOOLEAN
    OBVIOUS
  <2> QED
    BY <2>1, <2>2, Zenon DEF AutoStep
<1>2. ASSUME ChangePlan, UNCHANGED svcPaused PROVE AutoStep
  <2>1. Post("plan", ~highPerf) /\ UNCHANGED onAC
    BY <1>2, Zenon DEF ChangePlan
  <2>2. "plan" \in Kind /\ (~highPerf) \in BOOLEAN /\ "plan" # "source"
    OBVIOUS
  <2> QED
    BY <2>1, <2>2, Zenon DEF AutoStep
<1>3. ASSUME ChangeDisplay, UNCHANGED svcPaused PROVE AutoStep
  <2>1. Post("display", ~displayOn) /\ UNCHANGED onAC
    BY <1>3, Zenon DEF ChangeDisplay
  <2>2. "display" \in Kind /\ (~displayOn) \in BOOLEAN /\ "display" # "source"
    OBVIOUS
  <2> QED
    BY <2>1, <2>2, Zenon DEF AutoStep
<1>4. ASSUME ChangePolled, UNCHANGED svcPaused PROVE AutoStep
  BY <1>4 DEF ChangePolled
<1>5. ASSUME OpenMenu, UNCHANGED svcPaused PROVE AutoStep
  BY <1>5 DEF OpenMenu, Offered
<1>6. ASSUME NEW c \in SUBSET shown, Choose(c), UNCHANGED svcPaused PROVE AutoStep
  BY <1>6 DEF Choose
<1>7. ASSUME NEW c \in jobs, RunPauseJob(c), UNCHANGED svcPaused PROVE AutoStep
  BY <1>7 DEF RunPauseJob
<1>8. ASSUME NEW c \in jobs, RunProfileJob(c), UNCHANGED svcPaused PROVE AutoStep
  BY <1>8 DEF RunProfileJob
<1>9. ASSUME IdleTick, UNCHANGED svcPaused PROVE AutoStep
  BY <1>9 DEF IdleTick, Save, GiveBack
<1>10. ASSUME MemoryTick, UNCHANGED svcPaused PROVE AutoStep
  BY <1>10 DEF MemoryTick
<1>11. ASSUME ScheduleTick, UNCHANGED svcPaused PROVE AutoStep
  BY <1>11 DEF ScheduleTick
<1>12. ASSUME NEW t \in {"idle", "tray", "sched"}, SetProfile(t), UNCHANGED svcPaused PROVE AutoStep
  BY <1>12 DEF SetProfile
<1>13. ASSUME MainSource, UNCHANGED svcPaused PROVE AutoStep
  <2>1. Take("main", "source") /\ profile' = Resolve(SourceProfile(Head(queue["main"]).value))
    BY <1>13 DEF MainSource
  <2>2. UNCHANGED onAC
    BY <2>1 DEF Take
  <2> QED
    BY <2>1, <2>2
<1>14. ASSUME MainPlan, UNCHANGED svcPaused PROVE AutoStep
  <2>1. Take("main", "plan") /\ UNCHANGED profile
    BY <1>14 DEF MainPlan
  <2>2. UNCHANGED onAC
    BY <2>1 DEF Take
  <2> QED
    BY <2>1, <2>2
<1>15. ASSUME MainDisplay, UNCHANGED svcPaused PROVE AutoStep
  <2>1. Take("main", "display") /\ UNCHANGED profile
    BY <1>15 DEF MainDisplay
  <2>2. UNCHANGED onAC
    BY <2>1 DEF Take
  <2> QED
    BY <2>1, <2>2
<1>16. ASSUME TraySource, UNCHANGED svcPaused PROVE AutoStep
  <2>1. Take("tray", "source") /\ profile' = DefaultedProfile(Head(queue["tray"]).value)
    BY <1>16 DEF TraySource, TrayTake
  <2>2. UNCHANGED onAC
    BY <2>1 DEF Take
  <2> QED
    BY <2>1, <2>2
<1>17. ASSUME TrayPlan, UNCHANGED svcPaused PROVE AutoStep
  <2>1. Take("tray", "plan") /\ UNCHANGED profile
    BY <1>17 DEF TrayPlan, TrayTake
  <2>2. UNCHANGED onAC
    BY <2>1 DEF Take
  <2> QED
    BY <2>1, <2>2
<1>18. ~TrayDisplay
  BY TrayHead DEF TrayDisplay, TrayTake
<1>19. ASSUME NEW b \in BOOLEAN, ServiceControl(b) PROVE AutoStep
  BY <1>19 DEF ServiceControl, Request
<1>20. ASSUME LockSession PROVE AutoStep
  BY <1>20 DEF LockSession, Request
<1>21. CASE UNCHANGED vars
  BY <1>21 DEF vars
<1> QED
  BY NextCases, <1>1, <1>2, <1>3, <1>4, <1>5, <1>6, <1>7, <1>8, <1>9, <1>10,
     <1>11, <1>12, <1>13, <1>14, <1>15, <1>16, <1>17, <1>18, <1>19, <1>20,
     <1>21

\* The message of a present power source is the last each window handles.
LEMMA StepSource ==
    ASSUME TypeOK, Unused, Present, SourceLast, [Next]_vars
    PROVE  SourceLast'
<1> SUFFICES ASSUME OnlyWriter("auto"), NoProfile \notin {OnAC, OnBattery},
                    \A w \in Window : ~Has(queue'[w], "source")
             PROVE  profile' = SourceProfile(onAC)'
  BY ScenarioFixed DEF SourceLast, OnlyWriter, scenario
<1>1. CASE UNCHANGED <<queue, profile, onAC>>
  BY <1>1 DEF SourceLast, SourceProfile
<1>2. ASSUME NEW kind \in Kind, NEW value \in BOOLEAN, Post(kind, value),
             kind # "source" => UNCHANGED onAC
      PROVE  profile' = SourceProfile(onAC)'
  <2>1. kind # "source" /\ \A w \in Window : ~Has(queue[w], "source")
    BY <1>2, PostLeaves
  <2> QED
    BY <1>2, <2>1 DEF SourceLast, SourceProfile, Post
<1>3. ASSUME NEW v \in Window, NEW kind \in Kind, Take(v, kind), UNCHANGED onAC,
             kind # "source" => UNCHANGED profile,
             kind = "source" =>
                profile' \in {Resolve(SourceProfile(Head(queue[v]).value)),
                              DefaultedProfile(Head(queue[v]).value)}
      PROVE  profile' = SourceProfile(onAC)'
  <2>1. /\ kind = "source" => Head(queue[v]).value = onAC
        /\ kind # "source" => \A w \in Window : ~Has(queue[w], "source")
    BY <1>3, TakeLeaves DEF Present
  <2>2. onAC \in BOOLEAN
    BY DEF TypeOK
  <2> QED
    BY <1>3, <2>1, <2>2 DEF Resolve, SourceProfile, DefaultedProfile, SourceLast
<1> QED
  BY <1>1, <1>2, <1>3, AutoSteps DEF AutoStep

\* Two windows that handle the power events at their own pace, one of them
\* with defaults of its own, end with the profile of the present power source,
\* in `run` and in the service.
THEOREM PowerSourceIsFollowed == Spec => []PowerSourceFollowed
<1>1. Init => TypeOK /\ Unused /\ Present /\ SourceLast
  <2> SUFFICES ASSUME Init PROVE SourceLast
    BY InitTyped, InitUnused, InitPresent
  <2>1. /\ queue["main"] = Registered("main") /\ "main" \in Window
        /\ {onAC, highPerf, displayOn} \subseteq BOOLEAN
    BY InitTyped DEF Init, Window, TypeOK
  <2> QED
    BY <2>1, RegisteredEnds DEF SourceLast
<1>2. TypeOK /\ ClockOK /\ ClockOK' /\ Unused /\ Present /\ SourceLast /\ [Next]_vars
        => (TypeOK /\ Unused /\ Present /\ SourceLast)'
  BY StepTyped, StepUnused, StepPresent, StepSource
<1>3. SourceLast => PowerSourceFollowed
  BY DEF SourceLast, PowerSourceFollowed, Settled, Has, SourceProfile
<1> QED
  BY <1>1, <1>2, <1>3, ClockInvariant, PTL DEF Spec

-----------------------------------------------------------------------------
(* The power plan and the pause.                                            *)

\* What a scenario may be: the menu is the tray's, and the service has neither a
\* tray nor the options of `run` that it does not read.
LEMMA ScenarioRules ==
    ASSUME TypeOK
    PROVE  /\ "menu" \in changing => "tray" \in options
           /\ "service" \in options => options \subseteq {"service", "auto", "display"}
<1>1. \A c \in Scenarios : c[1] = options /\ c[2] = changing =>
          /\ "menu" \in changing => "tray" \in options
          /\ "service" \in options => options \subseteq {"service", "auto", "display"}
  BY ControlAssumption
<1>2. <<options, changing>> \in Scenarios
  BY DEF TypeOK
<1>3. <<options, changing>>[1] = options /\ <<options, changing>>[2] = changing
  OBVIOUS
<1> QED
  BY <1>1, <1>2, <1>3

OnlyPlan == options \cap {"plan", "memory", "tray"} = {"plan"}

\* As SourceLast for PowerSourceFollowed.
PlanLast ==
    OnlyPlan /\ (\A w \in Window : ~Has(queue[w], "plan")) => paused = highPerf

\* What respect_power_plan does if only it pauses.
PlanStep ==
    \/ UNCHANGED <<queue, paused, highPerf>>
    \/ \E kind \in Kind, value \in BOOLEAN :
          Post(kind, value) /\ (kind # "plan" => UNCHANGED highPerf)
    \/ \E w \in Window, kind \in Kind :
          /\ Take(w, kind) /\ UNCHANGED highPerf
          /\ kind # "plan" => UNCHANGED paused
          /\ kind = "plan" => paused' = Head(queue[w]).value

LEMMA PlanSteps ==
    ASSUME TypeOK, Unused, OnlyPlan, [Next]_vars
    PROVE  PlanStep
<1>0. /\ "plan" \in options /\ "memory" \notin options /\ "tray" \notin options
      /\ "menu" \notin changing /\ "service" \notin options
      /\ {onAC, highPerf, displayOn} \subseteq BOOLEAN
  BY ScenarioRules DEF OnlyPlan, TypeOK
<1>u. shown = {} /\ jobs = {}
  BY <1>0 DEF Unused
<1> USE <1>0, <1>u DEF PlanStep, scenario, inputs, memory, outside, Kind, Window
<1>1. ASSUME ChangeSource, UNCHANGED svcPaused PROVE PlanStep
  <2>1. Post("source", ~onAC) /\ UNCHANGED highPerf
    BY <1>1, Zenon DEF ChangeSource
  <2>2. "source" \in Kind /\ (~onAC) \in BOOLEAN /\ "source" # "plan"
    OBVIOUS
  <2> QED
    BY <2>1, <2>2, Zenon DEF PlanStep
<1>2. ASSUME ChangePlan, UNCHANGED svcPaused PROVE PlanStep
  <2>1. Post("plan", ~highPerf)
    BY <1>2, Zenon DEF ChangePlan
  <2>2. "plan" \in Kind /\ (~highPerf) \in BOOLEAN
    OBVIOUS
  <2> QED
    BY <2>1, <2>2, Zenon DEF PlanStep
<1>3. ASSUME ChangeDisplay, UNCHANGED svcPaused PROVE PlanStep
  <2>1. Post("display", ~displayOn) /\ UNCHANGED highPerf
    BY <1>3, Zenon DEF ChangeDisplay
  <2>2. "display" \in Kind /\ (~displayOn) \in BOOLEAN /\ "display" # "plan"
    OBVIOUS
  <2> QED
    BY <2>1, <2>2, Zenon DEF PlanStep
<1>4. ASSUME ChangePolled, UNCHANGED svcPaused PROVE PlanStep
  BY <1>4 DEF ChangePolled
<1>5. ASSUME OpenMenu, UNCHANGED svcPaused PROVE PlanStep
  BY <1>5 DEF OpenMenu, Offered
<1>6. ASSUME NEW c \in SUBSET shown, Choose(c), UNCHANGED svcPaused PROVE PlanStep
  BY <1>6 DEF Choose
<1>7. ASSUME NEW c \in jobs, RunPauseJob(c), UNCHANGED svcPaused PROVE PlanStep
  BY <1>7 DEF RunPauseJob
<1>8. ASSUME NEW c \in jobs, RunProfileJob(c), UNCHANGED svcPaused PROVE PlanStep
  BY <1>8 DEF RunProfileJob
<1>9. ASSUME IdleTick, UNCHANGED svcPaused PROVE PlanStep
  BY <1>9 DEF IdleTick, Save, GiveBack
<1>10. ASSUME MemoryTick, UNCHANGED svcPaused PROVE PlanStep
  BY <1>10 DEF MemoryTick
<1>11. ASSUME ScheduleTick, UNCHANGED svcPaused PROVE PlanStep
  BY <1>11 DEF ScheduleTick
<1>12. ASSUME NEW t \in {"idle", "tray", "sched"}, SetProfile(t), UNCHANGED svcPaused PROVE PlanStep
  BY <1>12 DEF SetProfile
<1>13. ASSUME MainSource, UNCHANGED svcPaused PROVE PlanStep
  <2>1. Take("main", "source") /\ UNCHANGED paused
    BY <1>13 DEF MainSource
  <2>2. UNCHANGED highPerf
    BY <2>1 DEF Take
  <2> QED
    BY <2>1, <2>2
<1>14. ASSUME MainPlan, UNCHANGED svcPaused PROVE PlanStep
  <2>1. Take("main", "plan") /\ paused' = Head(queue["main"]).value
    BY <1>14 DEF MainPlan, PlanPause
  <2>2. UNCHANGED highPerf
    BY <2>1 DEF Take
  <2> QED
    BY <2>1, <2>2
<1>15. ASSUME MainDisplay, UNCHANGED svcPaused PROVE PlanStep
  <2>1. Take("main", "display") /\ UNCHANGED paused
    BY <1>15 DEF MainDisplay
  <2>2. UNCHANGED highPerf
    BY <2>1 DEF Take
  <2> QED
    BY <2>1, <2>2
<1>16. ~TraySource
  BY TrayHead DEF TraySource, TrayTake
<1>17. ~TrayPlan
  BY TrayHead DEF TrayPlan, TrayTake
<1>18. ~TrayDisplay
  BY TrayHead DEF TrayDisplay, TrayTake
<1>19. ASSUME NEW b \in BOOLEAN, ServiceControl(b) PROVE PlanStep
  BY <1>19 DEF ServiceControl, Request
<1>20. ASSUME LockSession PROVE PlanStep
  BY <1>20 DEF LockSession, Request
<1>21. CASE UNCHANGED vars
  BY <1>21 DEF vars
<1> QED
  BY NextCases, <1>1, <1>2, <1>3, <1>4, <1>5, <1>6, <1>7, <1>8, <1>9, <1>10,
     <1>11, <1>12, <1>13, <1>14, <1>15, <1>16, <1>17, <1>18, <1>19, <1>20,
     <1>21

LEMMA StepPlan ==
    ASSUME TypeOK, Unused, Present, PlanLast, [Next]_vars
    PROVE  PlanLast'
<1> SUFFICES ASSUME OnlyPlan, \A w \in Window : ~Has(queue'[w], "plan")
             PROVE  paused' = highPerf'
  BY ScenarioFixed DEF PlanLast, OnlyPlan, scenario
<1>1. CASE UNCHANGED <<queue, paused, highPerf>>
  BY <1>1 DEF PlanLast
<1>2. ASSUME NEW kind \in Kind, NEW value \in BOOLEAN, Post(kind, value),
             kind # "plan" => UNCHANGED highPerf
      PROVE  paused' = highPerf'
  <2>1. kind # "plan" /\ \A w \in Window : ~Has(queue[w], "plan")
    BY <1>2, PostLeaves
  <2> QED
    BY <1>2, <2>1 DEF PlanLast, Post
<1>3. ASSUME NEW v \in Window, NEW kind \in Kind, Take(v, kind), UNCHANGED highPerf,
             kind # "plan" => UNCHANGED paused,
             kind = "plan" => paused' = Head(queue[v]).value
      PROVE  paused' = highPerf'
  <2>1. /\ kind = "plan" => Head(queue[v]).value = highPerf
        /\ kind # "plan" => \A w \in Window : ~Has(queue[w], "plan")
    BY <1>3, TakeLeaves DEF Present
  <2> QED
    BY <1>3, <2>1 DEF PlanLast
<1> QED
  BY <1>1, <1>2, <1>3, PlanSteps DEF PlanStep

\* Without a tray the throttling pauses and resumes with the power plan, whatever
\* else is configured but the memory watcher.
THEOREM PlanIsFollowed == Spec => []PlanFollowed
<1>1. Init => TypeOK /\ Unused /\ Present /\ PlanLast
  <2> SUFFICES ASSUME Init PROVE PlanLast
    BY InitTyped, InitUnused, InitPresent
  <2>1. /\ queue["main"] = Registered("main") /\ "main" \in Window
        /\ {onAC, highPerf, displayOn} \subseteq BOOLEAN
    BY InitTyped DEF Init, Window, TypeOK
  <2> QED
    BY <2>1, RegisteredEnds DEF PlanLast
<1>2. TypeOK /\ ClockOK /\ ClockOK' /\ Unused /\ Present /\ PlanLast /\ [Next]_vars
        => (TypeOK /\ Unused /\ Present /\ PlanLast)'
  BY StepTyped, StepUnused, StepPresent, StepPlan
<1>3. PlanLast => PlanFollowed
  BY DEF PlanLast, PlanFollowed, OnlyPlan, Settled, Has
<1> QED
  BY <1>1, <1>2, <1>3, ClockInvariant, PTL DEF Spec

-----------------------------------------------------------------------------
(* The pause and those who ask for it.                                      *)

\* The windows that set the pause by the power plan, and whether an event is
\* waiting in one of them.
Heeds(w) == w = "main" \/ "plan" \in options
PlanWaits == \E w \in Window : Heeds(w) /\ Has(queue[w], "plan")

\* A pause that nobody wants any more is one that an event still waiting ends.
ReasonLast ==
    "menu" \notin changing /\ paused =>
        highPerf \/ memoryPaused \/ svcPaused \/ PlanWaits

\* What a step may do to the pause without the menu: it is set with the note of the
\* one who wants it, or to what an event says.
PauseStep ==
    \/ /\ UNCHANGED <<queue, highPerf>>
       /\ paused' => \/ memoryPaused' \/ svcPaused'
                     \/ paused /\ UNCHANGED <<memoryPaused, svcPaused>>
    \/ \E kind \in Kind, value \in BOOLEAN :
          /\ Post(kind, value) /\ (kind # "plan" => UNCHANGED highPerf)
          /\ UNCHANGED <<paused, memoryPaused, svcPaused>>
    \/ \E w \in Window, kind \in Kind :
          /\ Take(w, kind) /\ UNCHANGED <<highPerf, memoryPaused, svcPaused>>
          /\ \/ UNCHANGED paused /\ (Heeds(w) => kind # "plan")
             \/ Heeds(w) /\ kind = "plan" /\ (paused' => Head(queue[w]).value)

LEMMA PauseSteps ==
    ASSUME TypeOK, Unused, "menu" \notin changing, [Next]_vars
    PROVE  PauseStep
<1>0. jobs = {} /\ shown = {} /\ {onAC, highPerf, displayOn} \subseteq BOOLEAN
  BY DEF Unused, TypeOK
<1> USE DEF scenario, inputs, memory, outside
<1>p. ASSUME NEW kind \in Kind, NEW value \in BOOLEAN, Post(kind, value),
             kind # "plan" => UNCHANGED highPerf, UNCHANGED svcPaused
      PROVE  PauseStep
  <2>1. UNCHANGED <<paused, memoryPaused, svcPaused>>
    BY <1>p DEF Post
  <2> QED
    BY <1>p, <2>1, Zenon DEF PauseStep
<1>t. ASSUME NEW w \in Window, NEW kind \in Kind, Take(w, kind), UNCHANGED svcPaused,
             UNCHANGED memoryPaused,
             \/ UNCHANGED paused /\ (Heeds(w) => kind # "plan")
             \/ Heeds(w) /\ kind = "plan" /\ (paused' => Head(queue[w]).value)
      PROVE  PauseStep
  <2>1. UNCHANGED highPerf
    BY <1>t DEF Take
  <2> QED
    BY <1>t, <2>1 DEF PauseStep
<1>q. ASSUME UNCHANGED <<queue, highPerf, paused, memoryPaused, svcPaused>> PROVE PauseStep
  BY <1>q DEF PauseStep
<1>1. ASSUME ChangeSource, UNCHANGED svcPaused PROVE PauseStep
  <2>1. Post("source", ~onAC) /\ UNCHANGED highPerf
    BY <1>1, Zenon DEF ChangeSource
  <2>2. "source" \in Kind /\ (~onAC) \in BOOLEAN
    BY DEF Kind
  <2> QED
    BY <1>1, <1>p, <2>1, <2>2, Zenon
<1>2. ASSUME ChangePlan, UNCHANGED svcPaused PROVE PauseStep
  <2>1. Post("plan", ~highPerf)
    BY <1>2, Zenon DEF ChangePlan
  <2>2. "plan" \in Kind /\ (~highPerf) \in BOOLEAN
    BY DEF Kind
  <2> QED
    BY <1>2, <1>p, <2>1, <2>2, Zenon
<1>3. ASSUME ChangeDisplay, UNCHANGED svcPaused PROVE PauseStep
  <2>1. Post("display", ~displayOn) /\ UNCHANGED highPerf
    BY <1>3, Zenon DEF ChangeDisplay
  <2>2. "display" \in Kind /\ (~displayOn) \in BOOLEAN
    BY DEF Kind
  <2> QED
    BY <1>3, <1>p, <2>1, <2>2, Zenon
<1>4. ASSUME ChangePolled, UNCHANGED svcPaused PROVE PauseStep
  BY <1>4, <1>q DEF ChangePolled
<1>5. ASSUME OpenMenu, UNCHANGED svcPaused PROVE PauseStep
  BY <1>5, <1>q DEF OpenMenu
<1>6. ASSUME NEW c \in SUBSET shown, Choose(c), UNCHANGED svcPaused PROVE PauseStep
  BY <1>6, <1>q DEF Choose
<1>7. ASSUME NEW c \in jobs PROVE FALSE
  BY <1>7, <1>0
<1>9. ASSUME IdleTick, UNCHANGED svcPaused PROVE PauseStep
  BY <1>9, <1>q DEF IdleTick, Save, GiveBack
<1>10. ASSUME MemoryTick, UNCHANGED svcPaused PROVE PauseStep
  BY <1>10 DEF MemoryTick, PauseStep
<1>11. ASSUME ScheduleTick, UNCHANGED svcPaused PROVE PauseStep
  BY <1>11, <1>q DEF ScheduleTick
<1>12. ASSUME NEW t \in {"idle", "tray", "sched"}, SetProfile(t), UNCHANGED svcPaused
       PROVE  PauseStep
  BY <1>12, <1>q DEF SetProfile
<1>k. {"source", "plan", "display"} \subseteq Kind /\ {"main", "tray"} \subseteq Window
  BY DEF Kind, Window
<1>13. ASSUME MainSource, UNCHANGED svcPaused PROVE PauseStep
  <2>1. Take("main", "source") /\ UNCHANGED <<paused, memoryPaused>>
    BY <1>13 DEF MainSource
  <2> QED
    BY <1>13, <1>k, <1>t, <2>1
<1>14. ASSUME MainPlan, UNCHANGED svcPaused PROVE PauseStep
  <2>1. /\ Take("main", "plan") /\ UNCHANGED memoryPaused
        /\ paused' = Head(queue["main"]).value /\ Heeds("main")
    BY <1>14 DEF MainPlan, PlanPause, Heeds
  <2> QED
    BY <1>14, <1>k, <1>t, <2>1
<1>15. ASSUME MainDisplay, UNCHANGED svcPaused PROVE PauseStep
  <2>1. Take("main", "display") /\ UNCHANGED <<paused, memoryPaused>>
    BY <1>15 DEF MainDisplay
  <2> QED
    BY <1>15, <1>k, <1>t, <2>1
<1>16. ASSUME TraySource, UNCHANGED svcPaused PROVE PauseStep
  <2>1. Take("tray", "source") /\ UNCHANGED <<paused, memoryPaused>>
    BY <1>16 DEF TraySource, TrayTake
  <2> QED
    BY <1>16, <1>k, <1>t, <2>1
<1>17. ASSUME TrayPlan, UNCHANGED svcPaused PROVE PauseStep
  <2>1. /\ Take("tray", "plan") /\ UNCHANGED memoryPaused
        /\ IF "plan" \in options
           THEN paused' \in SeenByTray(Head(queue["tray"]).value)
           ELSE UNCHANGED paused
    BY <1>17 DEF TrayPlan, TrayTake
  <2>2. CASE "plan" \in options
    <3>1. (paused' => Head(queue["tray"]).value) /\ Heeds("tray")
      BY <2>1, <2>2 DEF SeenByTray, Heeds
    <3> QED
      BY <1>17, <1>k, <1>t, <2>1, <3>1
  <2>3. CASE "plan" \notin options
    <3>1. ~Heeds("tray")
      BY <2>3 DEF Heeds
    <3> QED
      BY <1>17, <1>k, <1>t, <2>1, <2>3, <3>1
  <2> QED
    BY <2>2, <2>3
<1>18. ASSUME TrayDisplay, UNCHANGED svcPaused PROVE PauseStep
  <2>1. Take("tray", "display") /\ UNCHANGED <<paused, memoryPaused>>
    BY <1>18 DEF TrayDisplay, TrayTake
  <2> QED
    BY <1>18, <1>k, <1>t, <2>1
<1>19. ASSUME NEW b \in BOOLEAN, ServiceControl(b) PROVE PauseStep
  BY <1>19 DEF ServiceControl, Request, PauseStep
<1>20. ASSUME LockSession PROVE PauseStep
  BY <1>20, <1>q DEF LockSession, Request
<1>21. CASE UNCHANGED vars
  BY <1>21, <1>q DEF vars
<1> QED
  BY NextCases, <1>1, <1>2, <1>3, <1>4, <1>5, <1>6, <1>7, <1>9, <1>10,
     <1>11, <1>12, <1>13, <1>14, <1>15, <1>16, <1>17, <1>18, <1>19, <1>20,
     <1>21

\* A message that is posted comes to the main window, and removes none.
LEMMA PostKeeps ==
    ASSUME TypeOK, NEW kind \in Kind, NEW value \in BOOLEAN, Post(kind, value),
           NEW w \in Window, NEW k, Has(queue[w], k) \/ (w = "main" /\ k = kind)
    PROVE  Has(queue'[w], k)
<1>1. /\ queue[w] \in Seq(Message)
      /\ Event(kind, value) \in Message /\ Event(kind, value).kind = kind
      /\ queue'[w] \in {queue[w], Append(queue[w], Event(kind, value))}
      /\ w = "main" => queue'[w] = Append(queue[w], Event(kind, value))
  BY DEF TypeOK, Event, Message, Kind, Post
<1>2. /\ Len(queue[w]) \in Nat
      /\ Len(Append(queue[w], Event(kind, value))) = Len(queue[w]) + 1
      /\ \A i \in 1 .. Len(queue[w]) : Append(queue[w], Event(kind, value))[i] = queue[w][i]
      /\ Append(queue[w], Event(kind, value))[Len(queue[w]) + 1] = Event(kind, value)
  BY <1>1, AppendProperties, LenProperties
<1>3. /\ Len(queue[w]) + 1 \in 1 .. Len(queue[w]) + 1
      /\ \A i \in 1 .. Len(queue[w]) : i \in 1 .. Len(queue[w]) + 1
  BY <1>2
<1> QED
  BY <1>1, <1>2, <1>3 DEF Has

LEMMA StepReason ==
    ASSUME TypeOK, Unused, Present, ReasonLast, [Next]_vars
    PROVE  ReasonLast'
<1> SUFFICES ASSUME "menu" \notin changing, paused',
                    ~highPerf', ~memoryPaused', ~svcPaused'
             PROVE  PlanWaits'
  BY ScenarioFixed DEF ReasonLast, scenario
<1>0. /\ queue \in [Window -> Seq(Message)] /\ highPerf \in BOOLEAN /\ "main" \in Window
      /\ UNCHANGED options
  BY ScenarioFixed DEF TypeOK, Message, Kind, Window, scenario
<1>1. CASE /\ UNCHANGED <<queue, highPerf>>
           /\ paused' => \/ memoryPaused' \/ svcPaused'
                         \/ paused /\ UNCHANGED <<memoryPaused, svcPaused>>
  BY <1>0, <1>1 DEF ReasonLast, PlanWaits, Heeds
<1>2. ASSUME NEW kind \in Kind, NEW value \in BOOLEAN, Post(kind, value),
             kind # "plan" => UNCHANGED highPerf,
             UNCHANGED <<paused, memoryPaused, svcPaused>>
      PROVE  PlanWaits'
  <2>1. CASE kind = "plan"
    BY <1>0, <1>2, <2>1, PostKeeps DEF PlanWaits, Heeds
  <2>2. CASE kind # "plan"
    <3>1. PICK w \in Window : Heeds(w) /\ Has(queue[w], "plan")
      BY <1>2, <2>2 DEF ReasonLast, PlanWaits
    <3>2. Has(queue'[w], "plan")
      BY <1>2, <3>1, PostKeeps
    <3> QED
      BY <1>0, <3>1, <3>2 DEF PlanWaits, Heeds
  <2> QED
    BY <2>1, <2>2
<1>3. ASSUME NEW v \in Window, NEW kind \in Kind, Take(v, kind),
             UNCHANGED <<highPerf, memoryPaused, svcPaused>>,
             \/ UNCHANGED paused /\ (Heeds(v) => kind # "plan")
             \/ Heeds(v) /\ kind = "plan" /\ (paused' => Head(queue[v]).value)
      PROVE  PlanWaits'
  <2>1. /\ queue[v] # <<>> /\ Head(queue[v]).kind = kind /\ queue[v] \in Seq(Message)
        /\ queue' = [queue EXCEPT ![v] = Tail(queue[v])]
    BY <1>0, <1>3, TakeType
  <2>2. queue'[v] = Tail(queue[v]) /\ \A w \in Window : w # v => queue'[w] = queue[w]
    BY <1>0, <2>1
  <2>3. Ends(queue[v], "plan", highPerf)
    BY DEF Present
  <2>4. CASE UNCHANGED paused /\ (Heeds(v) => kind # "plan")
    <3>1. PICK w \in Window : Heeds(w) /\ Has(queue[w], "plan")
      BY <1>3, <2>4 DEF ReasonLast, PlanWaits
    <3>2. Has(queue'[w], "plan")
      <4>1. CASE w # v
        BY <2>2, <3>1, <4>1
      <4>2. CASE w = v
        BY <2>1, <2>2, <2>3, <2>4, <3>1, <4>2, EndsTail
      <4> QED
        BY <4>1, <4>2
    <3> QED
      BY <1>0, <3>1, <3>2 DEF PlanWaits, Heeds
  <2>5. CASE Heeds(v) /\ kind = "plan" /\ Head(queue[v]).value
    <3>1. Head(queue[v]).value # highPerf
      BY <1>3, <2>5
    <3>2. Has(queue'[v], "plan")
      BY <2>1, <2>2, <2>3, <2>5, <3>1, EndsTail
    <3> QED
      BY <1>0, <2>5, <3>2 DEF PlanWaits, Heeds
  <2> QED
    BY <1>3, <2>4, <2>5
<1> QED
  BY <1>1, <1>2, <1>3, PauseSteps DEF PauseStep

\* However the two windows, the memory watcher and the service manager pause and
\* resume, no pause is left that none of them wants.
THEOREM PauseHasReason == Spec => []PausedForAReason
<1>1. Init => TypeOK /\ Unused /\ Present /\ ReasonLast
  <2> SUFFICES ASSUME Init PROVE ReasonLast
    BY InitTyped, InitUnused, InitPresent
  <2> QED
    BY DEF Init, ReasonLast
<1>2. TypeOK /\ ClockOK /\ ClockOK' /\ Unused /\ Present /\ ReasonLast /\ [Next]_vars
        => (TypeOK /\ Unused /\ Present /\ ReasonLast)'
  BY StepTyped, StepUnused, StepPresent, StepReason
<1>3. ReasonLast => PausedForAReason
  BY DEF ReasonLast, PausedForAReason, PlanWaits, Settled, Has
<1> QED
  BY <1>1, <1>2, <1>3, ClockInvariant, PTL DEF Spec

-----------------------------------------------------------------------------
(* The idle watcher.                                                        *)

\* What it will give back is what it has found, also between the note of the
\* profile and the setting of the new one.
IdleFollows ==
    OnlyWriter("idle") =>
        /\ writing["idle"] \in {None, "aggressive"}
        /\ saved["idle"] \in {None, configured}
        /\ saved["idle"] = None => writing["idle"] = None /\ profile = configured
        /\ saved["idle"] # None /\ writing["idle"] = None => profile = "aggressive"

LEMMA StepIdle ==
    ASSUME TypeOK, Unused, IdleFollows, [Next]_vars
    PROVE  IdleFollows'
<1> SUFFICES ASSUME OnlyWriter("idle") PROVE IdleFollows'
  BY ScenarioFixed DEF IdleFollows, OnlyWriter, scenario
<1>0. /\ options \cap {"auto", "display", "schedule"} = {}
      /\ "menu" \notin changing /\ "session" \notin changing
      /\ UNCHANGED <<options, changing, configured>>
      /\ configured \in Profile /\ None \notin Profile
  BY ScenarioFixed DEF OnlyWriter, Unused, scenario, None, Profile
<1>a. /\ writing["tray"] = None /\ writing["sched"] = None /\ jobs = {}
      /\ DOMAIN writing = {"idle", "tray", "sched"} /\ DOMAIN saved = {"idle", "tray"}
  BY <1>0 DEF Unused, TypeOK
<1>b. /\ writing["idle"] \in {None, "aggressive"} /\ saved["idle"] \in {None, configured}
      /\ saved["idle"] = None => writing["idle"] = None /\ profile = configured
      /\ saved["idle"] # None /\ writing["idle"] = None => profile = "aggressive"
  BY DEF IdleFollows
<1>c. Resolve("aggressive") = "aggressive" /\ None # "aggressive"
  BY DEF Resolve, NoProfile, None
<1>k. ASSUME UNCHANGED <<profile, saved, writing>> PROVE IdleFollows'
  BY <1>0, <1>b, <1>k DEF IdleFollows
<1> USE DEF scenario, inputs, memory, outside
<1>1. ASSUME ChangeSource, UNCHANGED svcPaused PROVE IdleFollows'
  BY <1>1, <1>0, <1>a, <1>k DEF ChangeSource, Post
<1>2. ASSUME ChangePlan, UNCHANGED svcPaused PROVE IdleFollows'
  BY <1>2, <1>0, <1>a, <1>k DEF ChangePlan, Post
<1>3. ASSUME ChangeDisplay, UNCHANGED svcPaused PROVE IdleFollows'
  BY <1>3, <1>0, <1>a, <1>k DEF ChangeDisplay, Post
<1>4. ASSUME ChangePolled, UNCHANGED svcPaused PROVE IdleFollows'
  BY <1>4, <1>0, <1>a, <1>k DEF ChangePolled
<1>5. ASSUME OpenMenu, UNCHANGED svcPaused PROVE IdleFollows'
  BY <1>5, <1>0, <1>a, <1>k DEF OpenMenu, Offered
<1>6. ASSUME NEW c \in SUBSET shown, Choose(c), UNCHANGED svcPaused PROVE IdleFollows'
  BY <1>6, <1>0, <1>a, <1>k DEF Choose
<1>7. ASSUME NEW c \in jobs, RunPauseJob(c), UNCHANGED svcPaused PROVE IdleFollows'
  BY <1>7, <1>0, <1>a, <1>k DEF RunPauseJob
<1>8. ASSUME NEW c \in jobs PROVE FALSE
  BY <1>8, <1>a
<1>9. ASSUME IdleTick, UNCHANGED svcPaused PROVE IdleFollows'
  <2>1. UNCHANGED <<options, changing, configured>> /\ writing["idle"] = None
    BY <1>9, <1>0 DEF IdleTick
  <2>2. CASE saved["idle"] = None /\ Save("idle")
    <3>1. saved'["idle"] = profile /\ writing'["idle"] = "aggressive"
      BY <1>a, <2>2 DEF Save
    <3> QED
      BY <1>0, <1>b, <1>c, <2>1, <2>2, <3>1 DEF IdleFollows
  <2>3. CASE saved["idle"] # None /\ GiveBack("idle")
    <3>1. saved'["idle"] = None /\ profile' = saved["idle"] /\ writing' = writing
      BY <1>a, <2>3 DEF GiveBack
    <3> QED
      BY <1>0, <1>b, <2>1, <2>3, <3>1 DEF IdleFollows
  <2> QED
    BY <1>9, <2>2, <2>3 DEF IdleTick
<1>10. ASSUME MemoryTick, UNCHANGED svcPaused PROVE IdleFollows'
  BY <1>10, <1>0, <1>a, <1>k DEF MemoryTick
<1>11. ~ScheduleTick
  BY <1>0 DEF ScheduleTick
<1>12. ASSUME NEW t \in {"idle", "tray", "sched"}, SetProfile(t), UNCHANGED svcPaused
      PROVE  IdleFollows'
  <2>1. t = "idle"
    BY <1>12, <1>a DEF SetProfile
  <2>2. /\ writing["idle"] # None /\ profile' = Resolve(writing["idle"])
        /\ writing'["idle"] = None /\ saved' = saved
    BY <1>12, <1>a, <2>1 DEF SetProfile
  <2> QED
    BY <1>0, <1>b, <1>c, <2>2 DEF IdleFollows
<1>13. ASSUME MainSource, UNCHANGED svcPaused PROVE IdleFollows'
  BY <1>13, <1>0, <1>a, <1>k DEF MainSource
<1>14. ASSUME MainPlan, UNCHANGED svcPaused PROVE IdleFollows'
  BY <1>14, <1>0, <1>a, <1>k DEF MainPlan, PlanPause
<1>15. ASSUME MainDisplay, UNCHANGED svcPaused PROVE IdleFollows'
  BY <1>15, <1>0, <1>a, <1>k DEF MainDisplay
<1>16. ASSUME TraySource, UNCHANGED svcPaused PROVE IdleFollows'
  BY <1>16, <1>0, <1>a, <1>k DEF TraySource, TrayTake
<1>17. ASSUME TrayPlan, UNCHANGED svcPaused PROVE IdleFollows'
  BY <1>17, <1>0, <1>a, <1>k DEF TrayPlan, TrayTake, SeenByTray
<1>18. ~TrayDisplay
  BY <1>0, TrayHead DEF TrayDisplay, TrayTake
<1>19. ASSUME NEW b \in BOOLEAN, ServiceControl(b) PROVE IdleFollows'
  BY <1>19, <1>0, <1>a, <1>k DEF ServiceControl, Request
<1>20. ASSUME LockSession PROVE IdleFollows'
  BY <1>20, <1>0, <1>a, <1>k DEF LockSession, Request
<1>21. CASE UNCHANGED vars
  BY <1>21, <1>0, <1>a, <1>k DEF vars
<1> QED
  BY NextCases, <1>1, <1>2, <1>3, <1>4, <1>5, <1>6, <1>7, <1>8, <1>9, <1>10,
     <1>11, <1>12, <1>13, <1>14, <1>15, <1>16, <1>17, <1>18, <1>19, <1>20,
     <1>21

\* The idle watcher notes the profile and sets another in two steps, and gives it
\* back in one: no number of idle times makes it forget the configured profile.
THEOREM IdleIsRestored == Spec => []IdleRestored
<1>1. Init => TypeOK /\ Unused /\ IdleFollows
  <2> SUFFICES ASSUME Init, OnlyWriter("idle") PROVE IdleFollows
    BY InitTyped, InitUnused DEF IdleFollows
  <2>1. "auto" \notin options
    BY DEF OnlyWriter
  <2> QED
    BY <2>1 DEF Init, IdleFollows
<1>2. TypeOK /\ ClockOK /\ ClockOK' /\ Unused /\ IdleFollows /\ [Next]_vars
        => (TypeOK /\ Unused /\ IdleFollows)'
  BY StepTyped, StepUnused, StepIdle
<1>3. IdleFollows => IdleRestored
  BY DEF IdleFollows, IdleRestored
<1> QED
  BY <1>1, <1>2, <1>3, ClockInvariant, PTL DEF Spec
=============================================================================
