SPECIFICATION Spec
CONSTANTS
    MaxSchema = 3
    ParamsSchema = 2
    SeedTables = {1, 3}
    Strict = {2}
    Last = 2
    Commands = {"serve"}
    FaultPoints = {"kill", "update"}
    MaxFaults = 2
INVARIANT OnlyRunOnce
