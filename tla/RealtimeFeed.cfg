CONSTANTS
    Topics = {t1, t2}
    None = None
    MaxEvents = 2
    MaxEpochs = 2
    MaxLosses = 1
    MaxTurns = 3
SPECIFICATION FairSpec
CHECK_DEADLOCK FALSE
INVARIANTS
    TypeOK
PROPERTIES
    ContractSpec
    ReadersCatchUp
