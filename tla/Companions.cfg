\* Overlapping calls in one session, and calls one at a time in two.
SPECIFICATION Spec
CONSTANTS
    s1 = s1
    s2 = s2
    Session = {s1, s2}
    Proc = {p1, p2, p3}
    Existing <- Sessions
    MaxChanges <- Changes
    NoProc = NoProc
    NoSession = NoSession
INVARIANTS
    TypeOK
    HandleOwned
    OneCompanion
    LiveIsOpen
    NoneAfterStop
PROPERTIES
    PromiseKept
    Recovers
