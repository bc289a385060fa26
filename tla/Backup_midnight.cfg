SPECIFICATION BackupSpec
CONSTANTS
    Minute = 2
    DayLength = 3
    Scheduled = 2
    LastDay = 2
    MaxDelay = 1
    MaxDump = 2
    MaxRestarts = 0
PROPERTY CompleteDumpsStay
CHECK_DEADLOCK FALSE
