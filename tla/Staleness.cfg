CONSTANTS
    Procs = {p1, p2}
    Instances = {"a", "b"}
    staleAfter = 0
    noPrimaryThreshold = 1
    slotInactiveThreshold = 1
    slotStateWindow = 1
    eventRetention = 3
    eventPurgeInterval = 2
    eventPurgeBatch = 2
    topologyEdgeLiveness = 2
    Story <- MCStory
    LastFault = 4
    MaxFaults = 2
    Nobody = Nobody
SPECIFICATION Spec
INVARIANT OncePerTransition
PROPERTY SilenceAnnounced
CHECK_DEADLOCK FALSE
