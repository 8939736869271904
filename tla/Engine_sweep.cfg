\* A sweep, pauses, profile switches and a process that starts
\* while the engine runs.
SPECIFICATION Spec
CONSTANTS
    Pid = {p1, p2}
    Name = {app, sys}
    Base = {sys}
    Balanced = {app}
    Initial <- AppUnborn
    Main = main
    Sweepers = {s1}
    Joined = {s1}
    Restorers = {}
    Profiles = {"balanced", "aggressive"}
    CanPause = TRUE
    TitleBypass = FALSE
    PidReuse = FALSE
    Faults = {}
    MaxInbox = 1
    MaxCrashes = 0
    NoPid = NoPid
    Unborn = Unborn
    Gone = Gone
    p1 = p1
    p2 = p2
    p3 = p3
    app = app
    sys = sys
    main = main
    s1 = s1
INVARIANT EcoTracked
INVARIANT BaseNeverThrottled
PROPERTY PauseTakesEffect
PROPERTY ShutdownCompletes
