SPECIFICATION SchedSpec
CONSTANTS
    Checks <- MCChecks
    Requires <- MCRequires
    MaxWorkers = 1
    ResultsCap = 1
    openAfter = 1
    maxBackoff = 1
    MaxChanges = 1
INVARIANTS ScrapesAlone SkipKept ShutdownFlushes
PROPERTIES FollowsRole
CHECK_DEADLOCK FALSE
