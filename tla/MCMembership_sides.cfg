SPECIFICATION FairSpec
CONSTANTS
    Proc = {p1, p2}
    MaxUser = 3
    MaxRole = 2
    InitialUsers = 2
    InitialRoles = 2
    InitialMembers <- MembersMC
    Codes = {"quote"}
    Requests <- BothSides
    MaxRequests = 3
    MaxRestarts = 1
    AllowFailure = TRUE
INVARIANT LastSyncRecorded
PROPERTY RequestsReturn
CHECK_DEADLOCK FALSE
