SPECIFICATION Spec
CONSTANTS
    b1 = b1
    b2 = b2
    admin = admin
    guest = guest
    Proc = {p1, p2}
    Browsers = {b1, b2}
    Users = {admin, guest}
    Names = {"root", "visitor"}
    Passwords = {"secret", "words"}
    Blank = Blank
    Nobody = Nobody
    Unknown = Unknown
    InitialRows <- RowsMC
    Requests <- RequestsMC
    MaxConnections = 2
    MaxRequests = 3
    MaxRestarts = 0
    AllowFailure = FALSE
CHECK_DEADLOCK FALSE
INVARIANT NothingForgotten
