SPECIFICATION FairSpec
CONSTANTS
    NumImages = 1
    NumTriggers = 2
    TriggerModes <- AllModes
    Thresholds = 1
    ArmFails = TRUE
    RequestsFail = FALSE
    StreamErrors = FALSE
    EarlyStarts = FALSE
    EarlyStops = FALSE
    Reconfigures = FALSE
INVARIANTS
    AcquireTellsTheTruth
    DisarmedAtRest
    OneLateTrigger
    StreamAPIOutlivesUse
PROPERTIES
    AllImagesTaken
    StopEnds
    CompleteEnds
