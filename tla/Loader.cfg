SPECIFICATION FairSpec
CONSTANTS
    Proc = {p1, p2, p3}
    Key = {k1, k2}
    MaxBatch = 2
    MaxLoads = 3
    MaxVersion = 1
    Error = Error
    Nothing = Nothing
INVARIANTS EndedOnce OwnValue
PROPERTIES ClosedBatchStays LoadsReturn
CHECK_DEADLOCK FALSE
