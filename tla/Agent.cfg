SPECIFICATION MCSpec
CHECK_DEADLOCK FALSE
CONSTANTS
    Excluded = {"x"}
    Included = {}
    MaxDatabases = 1
    Keys = {"k1", "k2", "k3"}
    maxKeys = 2
    Names = {"a", "b", "c", "x"}
    ownDB = "a"
    Rankings <- MCRankings
    Views = {"a", "x"}
    Batches <- MCBatches
    MaxConnsPerInstance = 2
    maxConnsPerDatabase = 1
    Target = "t"
    OtherTarget = "u"
    Starts <- MCStarts
    NoText = "none"
    TopN = 1
    Hysteresis = 2
    MaxKeys = 2
    minPrefilter = 3
    cacheSize = 2
    textResendInterval = 2
    scopeIdleTTL = 2
    queryTextRetention = 2
    Bounds <- MCBounds
INVARIANTS PoolsKeptOpen SamplesConserved ReportSteady TextsKnown
PROPERTIES IdentityKept ShutdownEnds
