CONSTANTS
    Procs = {p1, p2}
    Channels <- MCChannels
    RuleOrder <- MCRuleOrder
    Rule <- MCRule
    Silences <- MCSilences
    staleAfter = 0
    lookback = 1
    metricGrace = 2
    forgetAge = 2
    historyRetention = 2
    purgeInterval = 2
    maxNotifyAttempts = 2
    Story <- MCStory
    MaxFaults = 2
    Nobody = Nobody
SPECIFICATION Spec
INVARIANTS
    DeliveredOnce
    NothingSilent
    TableFollows
PROPERTY NeverStale
SYMMETRY ProcSymmetry
CHECK_DEADLOCK FALSE
