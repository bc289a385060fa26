SPECIFICATION Spec
CONSTANTS
    Daemons = {example, backup}
    MaxActive = 2
    StoreBuffer = TRUE
    Panics = FALSE
CHECK_DEADLOCK FALSE
INVARIANT OpenWhileConnected
