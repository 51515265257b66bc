CONSTANTS
    Notes = {1, 2}
    MaxRev = 1
    Info = {1, 2}
    CanEdit = TRUE
    CanDelete = TRUE
    Ttl = TRUE
    DeleteWhenResolved = FALSE
    Filtered = {}
    MaxAttempts = 1
    BreakerThreshold = 2
    BacklogThreshold = 1
    MaxCrashes = 1
    MaxOps = 1
    MaxFaults = 0
SPECIFICATION Spec
CHECK_DEADLOCK FALSE
INVARIANTS
    ClaimsAreAccounted
    BreakerOpens
PROPERTIES
    SentAndDeadAreFinal
    InactiveUnlessStale
