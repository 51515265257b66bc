CONSTANTS
    Calls = {c1, c2, c3}
    Sessions = {s1}
    Keys = {k1}
    NoKey = NoKey
    None = None
    Inputs <- KeyedInputs
    MaxPerSession = 2
    MaxGlobal = 3
    MaxFaults = 1
    MaxRuns = 2
SPECIFICATION Spec
CHECK_DEADLOCK FALSE
SYMMETRY CallSymmetry
INVARIANTS
    TypeOK
    RowIsPendingWhileLive
    OutcomeIsDurable
    AuditIsTheOutcome
    PausedLeaseHasWaiter
    LeaseRunsOnlyAfterADecision
