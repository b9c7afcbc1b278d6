SPECIFICATION FairSpec
CONSTANTS
    initialize = initialize
    restart = restart
    a1 = a1
    a2 = a2
    Commands <- BothCommands
    Arrays <- TwoArrays
    MaxWrites = 3
    MaxImages = 2
INVARIANTS
    BusyIsServed
    OneLateImage
    ArraysReturned
PROPERTY BusyEnds
CHECK_DEADLOCK FALSE
