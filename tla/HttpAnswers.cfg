SPECIFICATION Spec
CONSTANTS
    Calls <- CallsMade
    HeaderLen = 2
    MAX_MESSAGE_SIZE = 3
    Bodies = {0, 1, 3}
    MAX_HTTP_RETRIES = 1
    MaxSends = 3
    MaxLosses = 1
INVARIANTS
    OwnAndWhole
    FailsForAReason
CHECK_DEADLOCK FALSE
