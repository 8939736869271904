\* A sweep that read pendingPID before a foreground switch.
SPECIFICATION Spec
CONSTANTS
    Pid = {p1, p2}
    Name = {app, sys}
    Base = {sys}
    Balanced = {}
    Initial <- AppApp
    Main = main
    Sweepers = {s1}
    Joined = {s1}
    Restorers = {}
    Profiles = {"balanced"}
    CanPause = FALSE
    TitleBypass = FALSE
    PidReuse = FALSE
    Faults = {}
    MaxInbox = 2
    MaxCrashes = 0
    NoPid = NoPid
    Unborn = Unborn
    Gone = Gone
    p1 = p1
    p2 = p2
    p3 = p3
    app = app
    sys = sys
    main = main
    s1 = s1
INVARIANT ForegroundBoosted
