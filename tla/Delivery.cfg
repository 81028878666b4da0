SPECIFICATION PushSpec
CONSTANTS
    MaxRecs = 2
    Kinds <- FirstBad
    attemptTimeout = 1
    maxAttemptTimeout = 2
    maxConcurrentIngest = 1
    Modes <- FewModes
    MaxTurns = 1
    MaxExits = 1
INVARIANTS Accounted InOrder
PROPERTIES RejectionStands Delivered
CHECK_DEADLOCK FALSE
