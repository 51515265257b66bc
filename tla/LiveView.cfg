CONSTANTS
    Conns = {c1, c2}
    Tabs = {tab1, tab2}
    Sizes = {1, 2}
    None = None
    MaxCommands = 2
    MaxSwitches = 1
    MaxFaults = 1
SPECIFICATION FairSpec
CHECK_DEADLOCK FALSE
INVARIANTS
    TypeOK
    Audience
PROPERTIES
    UnwatchedStops
    ShowsActiveTab
