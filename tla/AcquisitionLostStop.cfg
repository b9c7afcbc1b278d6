SPECIFICATION FairSpec
CONSTANTS
    NumImages = 1
    NumTriggers = 1
    TriggerModes <- ContinuousOnly
    Thresholds = 1
    ArmFails = FALSE
    RequestsFail = FALSE
    StreamErrors = FALSE
    EarlyStarts = FALSE
    EarlyStops = TRUE
    Reconfigures = FALSE
PROPERTY ContinuousUntilStopped
