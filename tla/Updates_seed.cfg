SPECIFICATION Spec
CONSTANTS
    MaxSchema = 3
    ParamsSchema = 2
    SeedTables = {1, 3}
    Strict = {2}
    Last = 2
    Commands = {"serve", "seed"}
    FaultPoints = {}
    MaxFaults = 0
INVARIANT CommandsSucceed
