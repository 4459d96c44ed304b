SPECIFICATION FairSpec
CONSTANTS
    s1 = s1
    clickhouse = clickhouse
    dgraph = dgraph
    Objects = {s1}
    Controllers = {clickhouse}
    ControllerOf <- MCControllerOf
    Specs <- Kinds
    LeaderElect = TRUE
    MaxEdits = 1
    MaxRestarts = 1
    MaxFaults = 1
    MaxExtra = 2
    MaxLag = 2
CHECK_DEADLOCK FALSE
INVARIANTS
    TasksWereAsked
PROPERTIES
    ImplementsLifecycle
    EventuallySettled
    EveryDeletionEnds
