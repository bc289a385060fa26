SPECIFICATION FairSpec
CONSTANTS
    MaxSchema = 3
    ParamsSchema = 2
    SeedTables = {1, 3}
    Strict = {2}
    Last = 2
    Commands = {"serve", "seed", "up", "down", "fresh"}
    FaultPoints = {"kill", "drop", "migration", "load", "update", "store"}
    MaxFaults = 3
INVARIANTS VersionHonest AppliedInOrder ServingUpToDate
PROPERTY FailedAreRetried
