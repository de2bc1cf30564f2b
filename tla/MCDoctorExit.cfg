SPECIFICATION Spec
CONSTANTS
    MAX_RECORD_ENTRIES = 12
    MaxAttempts = 2
INVARIANTS
    ExitZeroMeansLive
