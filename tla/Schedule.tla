------------------------------- MODULE Schedule ------------------------------
(***************************************************************************)
(* The schedule of profiles (internal/scheduler): which rule applies at a   *)
(* time of day.  The day has Day ticks, minutes in the code.               *)
(***************************************************************************)
EXTENDS Integers, Sequences

CONSTANT Day

ASSUME DayAssumption == Day \in Nat \ {0}

Profile == {"balanced", "aggressive"}

\* CheckNow's answer when no rule applies, and a time parseHHMM refuses.
NoProfile == ""
Bad == -1

Time == 0 .. Day - 1

Entry == [from : Time \cup {Bad}, to : Time \cup {Bad}, profile : Profile]

\* Mutant: the end of a range is inclusive.
ActiveThrough(e, t) ==
    /\ Bad \notin {e.from, e.to}
    /\ IF e.from <= e.to THEN e.from <= t /\ t <= e.to
                         ELSE e.from <= t \/ t <= e.to

\* Whether rule e applies at t: [from, to), around midnight if from > to.
Active(e, t) ==
    /\ Bad \notin {e.from, e.to}
    /\ IF e.from <= e.to THEN e.from <= t /\ t < e.to
                         ELSE e.from <= t \/ t < e.to

\* The profile of the first rule that applies.
CheckAt(entries, t) ==
    LET hits == {i \in DOMAIN entries : Active(entries[i], t)} IN
    IF hits = {} THEN NoProfile
    ELSE entries[CHOOSE i \in hits : \A j \in hits : i <= j].profile

-----------------------------------------------------------------------------
(* Reference: rule e covers t if a clock that starts at e.from reaches t     *)
(* before e.to; the first rule that covers t decides.                       *)

Covers(e, t) ==
    /\ Bad \notin {e.from, e.to}
    /\ (t - e.from) % Day < (e.to - e.from) % Day

FirstRule(entries, t, p) ==
    \/ p = NoProfile /\ \A i \in DOMAIN entries : ~Covers(entries[i], t)
    \/ \E i \in DOMAIN entries :
          /\ Covers(entries[i], t) /\ p = entries[i].profile
          /\ \A j \in 1 .. i - 1 : ~Covers(entries[j], t)
=============================================================================
