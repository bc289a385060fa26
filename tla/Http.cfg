SPECIFICATION Spec
CONSTANTS
    Requests <- AllRequests
    MaxFaults = 2
INVARIANTS TypeOK LoggedAsAnswered FailureIsSaid AnsweredAsSaid
PROPERTY SentInOnePiece
CHECK_DEADLOCK FALSE
