SPECIFICATION Spec
CONSTANTS
    s1 = s1
    clickhouse = clickhouse
    dgraph = dgraph
    Objects = {s1, s2}
    Controllers = {clickhouse, dgraph}
    ControllerOf <- MCControllerOf
    Specs <- Forever
    LeaderElect = FALSE
    MaxEdits = 0
    MaxRestarts = 1
    MaxFaults = 0
    MaxExtra = 2
    MaxLag = 1
CHECK_DEADLOCK FALSE
INVARIANT ScheduledAfterRestart
