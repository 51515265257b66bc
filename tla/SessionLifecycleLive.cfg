CONSTANTS
    Sessions = {s1}
    MaxSessions = 1
SPECIFICATION FairSpec
CHECK_DEADLOCK FALSE
PROPERTIES
    LaunchesEnd
    EndsAreAnnounced
