SPECIFICATION WriterFairSpec
CONSTANTS
    Size = 3
    MaxWrite = 5
    MaxBytes = 9
    MaxCallbacks = 3
    Immediate = FALSE
INVARIANTS FlushIsComing
PROPERTY KeepsPromise
CHECK_DEADLOCK FALSE
