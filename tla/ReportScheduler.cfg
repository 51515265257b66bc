CONSTANTS
    Channels = {ch}
    InApp = in_app
    Specs = {0, 1}
    c1 = c1
    c2 = c2
    Keys <- BothChecks
    Rules <- SomeRules
    None = None
    Failed = Failed
    Quiet = {4}
    Period = 2
    Hour = 2
    MaxTime = 5
    MaxEdits = 1
    MaxFaults = 1
SPECIFICATION Spec
CHECK_DEADLOCK FALSE
SYMMETRY EqualChecks
INVARIANTS
    TypeOK
    OccurrencesAccounted
    AlertsAreNamed
