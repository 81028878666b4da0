SPECIFICATION Spec
CONSTANTS
    MaxCmds = 2
    Clients = 2
    Requests <- MCRequests
    ttl = 1
    commandClaimLease = 2
    commandQueueLimit = 1
    Gates <- MCGates
    MaxFaults = 1
INVARIANTS PoolClean ActsOnWhatWasChecked AuditComplete AtMostOnce
PROPERTIES Settled
CHECK_DEADLOCK FALSE
