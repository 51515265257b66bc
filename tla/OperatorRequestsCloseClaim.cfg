CONSTANTS
    Calls = {c1}
    Sessions = {s1}
    Keys = {k1}
    NoKey = NoKey
    None = None
    Inputs <- UntimedInputs
    MaxPerSession = 2
    MaxGlobal = 3
    MaxFaults = 0
    MaxRuns = 1
SPECIFICATION Spec
CHECK_DEADLOCK FALSE
INVARIANT ClosedSessionHasNoOpenRequest
