SPECIFICATION FairSpec
CONSTANTS
    control = control
    poll = poll
    download = download
    Threads <- ThreeThreads
    BlobThreads <- DownloadThread
    NumSockets = 2
    MAX_HTTP_RETRIES = 1
    MaxCalls = 1
    MaxCloses = 1
INVARIANTS
    SocketsAreReturned
    AnswerIsOwn
    NotDoneTwice
PROPERTY CommandsReturn
CHECK_DEADLOCK FALSE
