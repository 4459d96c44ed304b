SPECIFICATION TasksSpec
CONSTANTS
    s1 = s1
    clickhouse = clickhouse
    Objects = {s1}
    Controllers = {clickhouse}
    ControllerOf <- MCControllerOf
    Specs <- Rotating
    LeaderElect = FALSE
    MaxEdits = 0
    MaxRestarts = 0
    MaxFaults = 1
    MaxExtra = 0
    MaxBackups = 1
CHECK_DEADLOCK FALSE
PROPERTY FailuresAreCounted
