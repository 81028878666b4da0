SPECIFICATION Spec
CONSTANTS
    Replicas = {"p", "q"}
    Instances = {"a", "b"}
    Story <- StoryOf
    Focus <- FocusOf
    LastPeriod = 5
    activeWindow = 2
    unseenInstanceGrace = 3
    purgeAge = 1
    MaxFaults = 1
    LastFault = 3
    MaxMutes = 1
    recentWindow = 1
    pgstattupleWindow = 4
    checkpointWindow = 3
    replicationWindow = 0
    baselineWindow = 4
    baselineGap = 1
    siblingActiveWindow = 2
    relationPruneWindow = 3
    bloatEstimateWindow = 3
    catalogFresh = 2
    lockSampleFresh = 0
    monitoringRoleFresh = 2
    unusedWindow = 1
    backupHistory = 2
    basebackupMaxAge = 1
    partitionHorizon = 3
    partitionLapsedFor = 2
    subscriptionSilentFor = 1
INVARIANTS MuteHolds
PROPERTIES ClosedOnEvidence Converges
