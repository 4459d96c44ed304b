SPECIFICATION Spec
CONSTANTS
    s1 = s1
    clickhouse = clickhouse
    dgraph = dgraph
    Objects = {s1, s2}
    Controllers = {clickhouse, dgraph}
    ControllerOf <- MCControllerOf
    Specs <- Parses
    LeaderElect = FALSE
    MaxEdits = 1
    MaxRestarts = 1
    MaxFaults = 0
    MaxExtra = 1
    MaxLag = 1
CONSTRAINTS MCLag MCOne
SYMMETRY MCSwaps
CHECK_DEADLOCK FALSE
INVARIANTS
    TypeOK
    SettledIsScheduled
    GoneTaskRemoved
    RegisteredNamesOwn
PROPERTY OnlyOwnTasksRemoved
