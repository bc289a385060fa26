SPECIFICATION Spec
CONSTANTS
    Proc = {p1, p2}
    MaxUser = 2
    MaxRole = 2
    InitialUsers = 2
    InitialRoles = 2
    InitialMembers <- MembersMC
    Codes = {"quote"}
    Requests <- TwoSyncs
    MaxRequests = 2
    MaxRestarts = 0
    AllowFailure = FALSE
INVARIANT RolesAreSet
CHECK_DEADLOCK FALSE
