SPECIFICATION Spec
CONSTANTS
    Pid = {p1, p2}
    Companion = {c1, c2}
    MaxSwitches = 3
    MaxFaults = 1
    NoPid = NoPid
    Nobody = Nobody
    Closed = Closed
INVARIANTS
    TypeOK
PROPERTIES StopIsQuiet FeedOrdered FeedImplemented
CHECK_DEADLOCK FALSE
