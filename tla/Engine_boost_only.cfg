\* boost_foreground_only: no sweeps; with a tray restore, or with a crash.
SPECIFICATION Spec
CONSTANTS
    Pid = {p1, p2, p3}
    Name = {app, sys}
    Base = {sys}
    Balanced = {}
    Initial <- AppAppSys
    Main = main
    Sweepers = {}
    Joined = {}
    Restorers = {r1}
    Profiles = {"balanced"}
    CanPause = FALSE
    TitleBypass = FALSE
    PidReuse = FALSE
    Faults = {}
    MaxInbox = 2
    MaxCrashes = 1
    NoPid = NoPid
    Unborn = Unborn
    Gone = Gone
    p1 = p1
    p2 = p2
    p3 = p3
    app = app
    sys = sys
    main = main
    s1 = s1
INVARIANT TypeOK
INVARIANT BaseNeverThrottled
INVARIANT ForegroundBoosted
INVARIANT ExitRestored
PROPERTY BoostsForegroundOnly
PROPERTY ForegroundEventuallyBoosted
