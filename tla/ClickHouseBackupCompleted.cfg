\* Completed although the upload was not done.
SPECIFICATION Spec
CONSTANTS
    Objects = {b1}
    Within <- MCDistinct
    BadBackOff = {}
    MaxEdits = 0
    MaxCrashes = 0
    MaxFaults = 0
    MaxRows = 2
    MaxLag = 99
CHECK_DEADLOCK FALSE
INVARIANT CompletedIsUploaded
