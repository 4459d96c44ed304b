\* Backups end and deletions end.
SPECIFICATION FairSpec
CONSTANTS
    Objects = {b1}
    Within <- MCDistinct
    BadBackOff = {}
    MaxEdits = 0
    MaxCrashes = 1
    MaxFaults = 1
    MaxRows = 2
    MaxLag = 99
CHECK_DEADLOCK FALSE
PROPERTIES
    EveryBackupEnds
    EveryDeletionEnds
    EveryBackupReported
