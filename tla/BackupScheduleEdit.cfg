SPECIFICATION Spec
CONSTANTS
    s1 = s1
    clickhouse = clickhouse
    dgraph = dgraph
    Objects = {s1}
    Controllers = {clickhouse, dgraph}
    ControllerOf <- MCControllerOf
    Specs <- Parses
    LeaderElect = FALSE
    MaxEdits = 1
    MaxRestarts = 0
    MaxFaults = 0
    MaxExtra = 2
    MaxLag = 1
CHECK_DEADLOCK FALSE
INVARIANT OnlyPresentSpecRuns
