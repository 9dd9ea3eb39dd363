SPECIFICATION Spec
CONSTANTS
    MaxFlows = 3
    MaxFiles = 3
    SetupMayFail = TRUE
    RotationMayFail = TRUE
    WakesDuringSetup = FALSE
CHECK_DEADLOCK FALSE
INVARIANTS StoredUnbroken StoresIntoOpenFile
PROPERTY ClosesUnlessRotationFails
