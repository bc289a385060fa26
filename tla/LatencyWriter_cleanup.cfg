SPECIFICATION WriterSpec
CONSTANTS
    Size = 3
    MaxWrite = 5
    MaxBytes = 9
    MaxCallbacks = 3
    Immediate = FALSE
PROPERTY CleanupFlushes
CHECK_DEADLOCK FALSE
