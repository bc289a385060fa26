SPECIFICATION BackupSpec
CONSTANTS
    Minute = 2
    DayLength = 3
    Scheduled = 1
    LastDay = 2
    MaxDelay = 1
    MaxDump = 2
    MaxRestarts = 0
INVARIANT EveryDayDumped
CHECK_DEADLOCK FALSE
