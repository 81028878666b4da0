CONSTANTS
    Instances = {"a", "b"}
    Clusters = {"c1", "c2"}
    failoverWindow = 3
    orphanWindow = 1
    splitBrainWindow = 1
    failoverQuiet = 0
    maxGap = 2
    Order <- MCOrder
    Shapes <- MCShapes
    Slots = {s1, s2}
    MaxEnvelopes = 3
    MaxBacklog = 0
    MaxReplay = 3
    MaxNow = 4
    MaxFaults = 2
    evictEvery = 2
    evictAge = 2
    truncationWindow = 2
    NoSlot = NoSlot
SPECIFICATION Spec
INVARIANTS
    RoleReported
    PointsSound
    CountedOnce
    EventsSpaced
SYMMETRY SlotSymmetry
CHECK_DEADLOCK FALSE
