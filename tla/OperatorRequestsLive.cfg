CONSTANTS
    Calls = {c1, c2}
    Sessions = {s1}
    Keys = {k1}
    NoKey = NoKey
    None = None
    Inputs <- PlainInputs
    MaxPerSession = 2
    MaxGlobal = 2
    MaxFaults = 0
    MaxRuns = 2
SPECIFICATION FairSpec
CHECK_DEADLOCK FALSE
PROPERTIES
    ContractSpec
    RequestsEnd
