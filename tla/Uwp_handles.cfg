\* The frame host, an application it shows, another one, and the shell.
SPECIFICATION Spec
CONSTANTS
    Pid = {host, app, other, shell}
    Frames = {host}
    Base = {host, shell}
    Handle = {h1, h2, h3, h4}
    Main = main
    Sweepers = {s1}
    NoPid = NoPid
    NoHandle = NoHandle
INVARIANT BaseNeverThrottled
CHECK_DEADLOCK FALSE
