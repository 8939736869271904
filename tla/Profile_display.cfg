\* Display off and on, handled by two threads.
SPECIFICATION Spec
CONSTANTS
    Day = 2
    Scenarios <- DisplayScenario
    Schedules <- MCSchedules
    OnAC = "balanced"
    OnBattery = "aggressive"
    MaxQueue = 3
INVARIANT DisplayRestored
