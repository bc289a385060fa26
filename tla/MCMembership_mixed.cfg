SPECIFICATION Spec
CONSTANTS
    Proc = {p1, p2}
    MaxUser = 3
    MaxRole = 3
    InitialUsers = 2
    InitialRoles = 2
    InitialMembers <- MembersMC
    Codes = {"quote"}
    Requests <- MixedRequests
    MaxRequests = 3
    MaxRestarts = 1
    AllowFailure = TRUE
SYMMETRY TwoProcs
INVARIANTS LinksAgree LogMatchesUsers LowerLevelsPresent
PROPERTY DeleteIsWhole
CHECK_DEADLOCK FALSE
