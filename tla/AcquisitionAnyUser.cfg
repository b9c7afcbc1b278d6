SPECIFICATION Spec
CONSTANTS
    NumImages = 2
    NumTriggers = 1
    TriggerModes <- AllModes
    Thresholds = 1
    ArmFails = TRUE
    RequestsFail = TRUE
    StreamErrors = TRUE
    EarlyStarts = TRUE
    EarlyStops = TRUE
    Reconfigures = TRUE
INVARIANTS
    TypeOK
    CleanHandshake
