SPECIFICATION FairSpec
CONSTANTS
    Daemons = {example, backup}
    MaxActive = 2
    StoreBuffer = TRUE
    Panics = TRUE
INVARIANTS NoDaemonWithoutDB OpenWhileActive ListensOnlyIfMissed
PROPERTY SignalEndsProcess
CHECK_DEADLOCK FALSE
