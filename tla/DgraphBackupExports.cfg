SPECIFICATION FairSpec
CONSTANTS
    Objects = {b1}
    Public = {}
    MaxEdits = 2
    MaxCrashes = 2
    MaxFaults = 1
    Exports <- MCExports
    NoExport <- MCNoExport
    MaxExports = 7
CHECK_DEADLOCK FALSE
INVARIANTS
    TypeOK
    RecordedExportKept
    GoneWithItsExport
PROPERTIES
    ImplementsLifecycle
    EveryBackupEnds
    ExportedDeletionEnds
    EveryBackupReported
