CONSTANTS
    Sessions = {s1, s2}
    MaxSessions = 1
SPECIFICATION Spec
CHECK_DEADLOCK FALSE
SYMMETRY SessionSymmetry
INVARIANTS
    TypeOK
    HostIsAccounted
    AnnouncementsAreTrue
