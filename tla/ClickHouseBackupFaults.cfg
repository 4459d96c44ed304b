\* One backup through edits, faults, restarts and every staleness up to MaxLag.
SPECIFICATION Spec
CONSTANTS
    Objects = {b1}
    Within <- MCDistinct
    BadBackOff = {}
    MaxEdits = 1
    MaxCrashes = 1
    MaxFaults = 1
    MaxRows = 3
    MaxLag = 3
CHECK_DEADLOCK FALSE
CONSTRAINT MCLag
INVARIANTS
    TypeOK
    CreatedIsOnServer
    FailedCreateNotUploaded
    IntentBeforeCommand
    FailureIsExplained
PROPERTIES
    OnlyFailedErased
    ImplementsLifecycle
