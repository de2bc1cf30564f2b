SPECIFICATION FairSpec
CONSTANTS
    MaxAttempts = 4
    PORCH_FRAME_QUEUE = 4
    START_REQUESTS_PER_SESSION = 2
INVARIANTS
    DirectOnlyWhileWatched
    BothSidesAgree
PROPERTIES
    FallBackIsMutual
    DeadPathIsRerun
