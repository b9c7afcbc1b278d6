SPECIFICATION FairSpec
CONSTANTS
    MaxData = 2
    MaxRetries = 2
    DownloadCap = 2
    ParseCap = 1
    SaveCap = 1
    ReapCap = 1
    Modes <- AllModes
    DownloadFails <- SurvivesDownloadFailure
    SaveFails = TRUE
    SleepCoversTail = TRUE
INVARIANTS
    NoUseAfterFree
    PendingIsInFlight
    DeletedOnlyIfHandled
PROPERTIES
    ParsedInOrder
    StopCompletes
    ImplementsService
