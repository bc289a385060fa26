SPECIFICATION Spec
CONSTANTS
    Requests <- AllRequests
    MaxFaults = 2
INVARIANT LoggedIsReceived
CHECK_DEADLOCK FALSE
