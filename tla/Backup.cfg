SPECIFICATION BackupSpec
CONSTANTS
    Minute = 2
    DayLength = 3
    Scheduled = 1
    LastDay = 2
    MaxDelay = 1
    MaxDump = 2
    MaxRestarts = 2
INVARIANT BackupTypeOK
PROPERTY CompleteDumpsStay
CHECK_DEADLOCK FALSE
