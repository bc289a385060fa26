SPECIFICATION Spec
CONSTANTS
    Proc = {p1}
    MaxUser = 2
    MaxRole = 2
    InitialUsers = 2
    InitialRoles = 2
    InitialMembers <- MembersMC
    Codes = {"quote"}
    Requests <- AdminLosesRole
    MaxRequests = 1
    MaxRestarts = 0
    AllowFailure = FALSE
INVARIANT AdminAlwaysMember
CHECK_DEADLOCK FALSE
