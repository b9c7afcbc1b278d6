SPECIFICATION FairSpec
CONSTANTS
    MaxSeries = 3
    NumImages = 2
    Channels = 2
    HeaderDetails <- NoneOrOne
    Flaws <- AllFlaws
    MaxFlaws = 1
    ParseErrors <- FatalCodes
    FrameFails = TRUE
INVARIANTS
    CompleteUnlessFlawed
PROPERTIES
    PublishedInOrder
    StreamReports
CHECK_DEADLOCK FALSE
