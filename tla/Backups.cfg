SPECIFICATION BackupsSpec
CONSTANTS
    Versions = {v1, v2}
    MaxAttempts = 6
    MinInterval = 6
    MaxInterval = 7
    MaxQueue = 2
    Schedules <- MCSchedules
    MaxRun = 1
    Horizon = 7
INVARIANTS
    ScheduleHolds
PROPERTIES
    RemovedIsQuiet
    DueIsSettled
    LastGoodSurvives
