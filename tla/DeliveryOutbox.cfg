CONSTANTS
    Notes = {1}
    MaxRev = 2
    Info = {}
    CanEdit = TRUE
    CanDelete = TRUE
    Ttl = FALSE
    DeleteWhenResolved = TRUE
    Filtered = {}
    MaxAttempts = 2
    BreakerThreshold = 2
    BacklogThreshold = 1
    MaxCrashes = 0
    MaxOps = 0
    MaxFaults = 1
SPECIFICATION FairSpec
CHECK_DEADLOCK FALSE
INVARIANTS
    TypeOK
    LatestStateIsOwed
    RecordMatchesChat
PROPERTIES
    EveryDeliveryEnds
    ExpiredMessagesEnd
