SPECIFICATION Spec
CONSTANTS
    Day = 4
    Scenarios <- MCScenarios
    Schedules <- MCSchedules
    OnAC = "balanced"
    OnBattery = "aggressive"
    MaxQueue = 3
INVARIANTS
    TypeOK
    PowerSourceFollowed
    IdleRestored
    PlanFollowed
    PausedForAReason
    ScheduleSound
PROPERTIES
    ScheduleFollowed
