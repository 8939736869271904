\* With and without two sweeps, whose handles cannot query.
SPECIFICATION Spec
CONSTANTS
    Pid = {p1, p2, p3}
    Handler = handler
    Sweepers = {s1, s2}
    Restorers = {}
    CanQuery = {handler}
    Options = {{"gpu"}, {"affinity"}}
    Refusing = {p3}
    MaxFailures = 2
    Own = own
    Pinned = pinned
    NoPid = NoPid
    NoMask = NoMask
    p1 = p1
    p2 = p2
    p3 = p3
SYMMETRY Processes
INVARIANT TypeOK
INVARIANT OriginalIsOwn
INVARIANT PinnedIsRestorable
INVARIANT ForegroundUnpinned
INVARIANT EntryMeansPinned
INVARIANT ExitUnpinned

INVARIANT BreakerStops
INVARIANT GpuRestored
