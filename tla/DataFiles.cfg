SPECIFICATION Spec
CONSTANTS
    Settings <- SomeSettings
    Models <- AllModels
    IntMax = 3
    MaxSeries = 2
    MaxFiles = 2
    MaxChanges = 1
    MaxFailures = 1
INVARIANTS
    ImagesAreOwn
    LabelsTrue
    CountersAgree
    OnlyDataSpacesLeft
CHECK_DEADLOCK FALSE
