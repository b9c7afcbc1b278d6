SPECIFICATION Stream2Spec
CONSTANTS
    Regular <- UsualMessages
    Odd <- OddMessages
    Dates <- Offsets
    MaxNesting = 7
    SECFRAC_DIGITS = 2
    Width = 10
    MaxMessages = 5
    MaxOdd = 1
    MaxFailures = 1
INVARIANTS
    AcceptsWellFormed
    NothingLost
    LabelsMatch
    TimestampRight
    DiesForAReason
CHECK_DEADLOCK FALSE
