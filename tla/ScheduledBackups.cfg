SPECIFICATION FairTasksSpec
CONSTANTS
    s1 = s1
    clickhouse = clickhouse
    Objects = {s1}
    Controllers = {clickhouse}
    ControllerOf <- MCControllerOf
    Specs <- Parsing
    LeaderElect = FALSE
    MaxEdits = 0
    MaxRestarts = 0
    MaxFaults = 1
    MaxExtra = 0
    MaxBackups = 2
CHECK_DEADLOCK FALSE
INVARIANTS
    TasksTypeOK
    RunsWereAsked
PROPERTIES
    ImplementsLifecycle
    EventuallyRetired
    EventuallyCreating
