SPECIFICATION Spec
CONSTANTS
    MaxSeries = 3
    NumImages = 1
    Channels = 1
    HeaderDetails <- None
    Flaws <- Unreadable
    MaxFlaws = 1
    ParseErrors <- FatalCodes
    FrameFails = FALSE
PROPERTY NoStaleImages
CHECK_DEADLOCK FALSE
