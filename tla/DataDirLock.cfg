CONSTANTS
    Servers = {s1, s2}
    Commands = {c1}
    Dead = Dead
    None = None
SPECIFICATION FairSpec
CHECK_DEADLOCK FALSE
INVARIANTS
    TypeOK
    LockNamesOwner
PROPERTIES
    RobbedByStaleJudgement
    LoneProcessAcquires
