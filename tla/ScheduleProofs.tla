---------------------------- MODULE ScheduleProofs ---------------------------
(***************************************************************************)
(* CheckAt answers as the reference does, for a day of any length and any   *)
(* schedule; so does the scheduler at any time of `energystar run`.         *)
(***************************************************************************)
EXTENDS ProfileControl, WellFoundedInduction, TLAPS

\* A difference of two times modulo the day.
LEMMA DayMod ==
    ASSUME NEW x \in (1 - Day) .. Day - 1
    PROVE  x % Day = IF x >= 0 THEN x ELSE x + Day
<1>. USE DayAssumption
<1>1. CASE x >= 0
  BY <1>1
<1>2. CASE x < 0
  BY <1>2
<1>. QED  BY <1>1, <1>2

\* For a time of the day, a range is active if a clock that starts at its
\* beginning reaches the time before its end.
LEMMA ActiveIsCovers ==
    ASSUME NEW e \in Entry, NEW t \in Time
    PROVE  Active(e, t) <=> Covers(e, t)
<1>1. CASE Bad \in {e.from, e.to}
  BY <1>1 DEF Active, Covers
<1>2. CASE Bad \notin {e.from, e.to}
  <2>1. e.from \in Time /\ e.to \in Time
    BY <1>2 DEF Entry
  <2>2. (t - e.from) % Day = IF t >= e.from THEN t - e.from ELSE t - e.from + Day
    <3>1. t - e.from \in (1 - Day) .. Day - 1
      BY <2>1, DayAssumption DEF Time
    <3>. QED  BY <3>1, <2>1, DayMod, DayAssumption DEF Time
  <2>3. (e.to - e.from) % Day =
          IF e.to >= e.from THEN e.to - e.from ELSE e.to - e.from + Day
    <3>1. e.to - e.from \in (1 - Day) .. Day - 1
      BY <2>1, DayAssumption DEF Time
    <3>. QED  BY <3>1, <2>1, DayMod, DayAssumption DEF Time
  <2>. HIDE DEF Bad
  <2>. QED  BY <1>2, <2>1, <2>2, <2>3, DayAssumption DEF Active, Covers, Time
<1>. QED  BY <1>1, <1>2

-----------------------------------------------------------------------------
\* A set of naturals that is not empty has a least one (for CheckAt's CHOOSE).
LEMMA NatMin ==
    ASSUME NEW S \in SUBSET Nat, S # {}
    PROVE  \E m \in S : \A n \in S : m <= n
<1>. DEFINE R == OpToRel(<, Nat)
<1>1. PICK m \in S : \A n \in S : <<n, m>> \notin R
  <2>. HIDE DEF R
  <2>1. IsWellFoundedOn(R, Nat)
    BY NatLessThanWellFounded DEF R
  <2>. QED  BY <2>1, WFMin
<1>2. \A n \in S : ~(n < m)
  BY <1>1 DEF OpToRel
<1>. QED  BY <1>2

\* checkAt walks through the rules in order and returns at the first that
\* applies: its answer is the one the reference asks for.
THEOREM CheckAtIsFirstRule ==
    ASSUME NEW schedule \in Seq(Entry), NEW t \in Time
    PROVE  FirstRule(schedule, t, CheckAt(schedule, t))
<1>. DEFINE hits == {i \in DOMAIN schedule : Active(schedule[i], t)}
<1>1. \A i \in DOMAIN schedule :
         schedule[i] \in Entry /\ (Active(schedule[i], t) <=> Covers(schedule[i], t))
  BY ActiveIsCovers
<1>2. CASE hits = {}
  BY <1>1, <1>2 DEF FirstRule, CheckAt
<1>3. CASE hits # {}
  <2>. DEFINE first == CHOOSE i \in hits : \A j \in hits : i <= j
  <2>1. first \in hits /\ \A j \in hits : first <= j
    <3>1. hits \in SUBSET Nat
      BY DEF hits
    <3>. QED  BY <3>1, <1>3, NatMin
  <2>2. CheckAt(schedule, t) = schedule[first].profile
    BY <1>3 DEF CheckAt
  <2>3. Covers(schedule[first], t) /\ first \in DOMAIN schedule
    BY <1>1, <2>1
  <2>4. \A j \in 1 .. first - 1 : ~Covers(schedule[j], t)
    <3>. SUFFICES ASSUME NEW j \in 1 .. first - 1, Covers(schedule[j], t)
                  PROVE  FALSE
      OBVIOUS
    <3>1. j \in DOMAIN schedule /\ j < first
      BY <2>3
    <3>. QED  BY <3>1, <1>1, <2>1
  <2>. QED  BY <2>2, <2>3, <2>4 DEF FirstRule
<1>. QED  BY <1>2, <1>3

-----------------------------------------------------------------------------
\* The clock stays within the day and the schedule is fixed, ...
ClockOK == time \in Time /\ entries \in Seq(Entry)

\* ... in every step of any thread.
LEMMA ClockInvariant == Spec => []ClockOK
<1>1. Init => ClockOK
  <2>. SUFFICES ASSUME Init PROVE ClockOK
    OBVIOUS
  <2>1. entries \in Schedules \cup {<<>>} /\ time \in Time \cup {0}
    BY DEF Init
  <2>2. 0 \in Time /\ <<>> \in Seq(Entry) /\ \A s \in Schedules : s \in Seq(Entry)
    BY DayAssumption, ControlAssumption DEF Time
  <2>. QED  BY <2>1, <2>2 DEF ClockOK
<1>2. ClockOK /\ [Next]_vars => ClockOK'
  <2>. SUFFICES ASSUME ClockOK, [Next]_vars PROVE ClockOK'
    OBVIOUS
  <2>. USE DEF ClockOK, scenario, inputs, outside
  <2>1. CASE ChangeSource \/ ChangePlan \/ ChangeDisplay
    BY <2>1 DEF ChangeSource, ChangePlan, ChangeDisplay, Post
  <2>2. CASE ChangePolled
    <3>1. (time + 1) % Day \in Time
      BY DayAssumption DEF Time
    <3>. QED  BY <2>2, <3>1 DEF ChangePolled
  <2>3. CASE OpenMenu \/ \E c \in SUBSET shown : Choose(c)
    BY <2>3 DEF OpenMenu, Choose
  <2>4. CASE \E c \in jobs : RunPauseJob(c) \/ RunProfileJob(c)
    BY <2>4 DEF RunPauseJob, RunProfileJob
  <2>5. CASE MainSource \/ MainPlan \/ MainDisplay
    BY <2>5 DEF MainSource, MainPlan, MainDisplay, Take
  <2>6. CASE TraySource \/ TrayPlan \/ TrayDisplay
    BY <2>6 DEF TraySource, TrayPlan, TrayDisplay, TrayTake, Take
  <2>7. CASE IdleTick \/ MemoryTick \/ ScheduleTick
    BY <2>7 DEF IdleTick, MemoryTick, ScheduleTick
  <2>8. CASE \E t \in {"tray", "idle", "sched"} : SetProfile(t)
    BY <2>8 DEF SetProfile
  <2>9. CASE ServiceStep
    BY <2>9 DEF ServiceStep, ServiceControl, LockSession, Request
  <2>10. CASE UNCHANGED vars
    BY <2>10 DEF vars
  <2>. QED
    BY <2>1, <2>2, <2>3, <2>4, <2>5, <2>6, <2>7, <2>8, <2>9, <2>10
    DEF Next, TrayStep, MainStep, ScheduleStep, SwitchProfile, Watchers,
        Environment, MenuJobs
<1>. QED  BY <1>1, <1>2, PTL DEF Spec

\* ... so whatever the other threads do, the scheduler finds the first rule
\* that covers the time.
THEOREM ScheduleIsSound == Spec => []ScheduleSound
<1>1. ClockOK => ScheduleSound
  BY CheckAtIsFirstRule DEF ClockOK, ScheduleSound
<1>. QED  BY <1>1, ClockInvariant, PTL
=============================================================================
