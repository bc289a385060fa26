SPECIFICATION Spec
CONSTANTS
    Requests <- AllRequests
    MaxFaults = 2
INVARIANT WebsocketsNeverTimeOut
CHECK_DEADLOCK FALSE
