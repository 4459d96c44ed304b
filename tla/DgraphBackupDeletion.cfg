SPECIFICATION FairSpec
CONSTANTS
    Objects = {b1}
    Public = {b1}
    MaxEdits = 0
    MaxCrashes = 0
    MaxFaults = 1
    Exports <- MCExports
    NoExport <- MCNoExport
    MaxExports = 5
CHECK_DEADLOCK FALSE
PROPERTY EveryDeletionEnds
