CONSTANTS
    first_on = first_on
    second_on = second_on
    Starters = {first_on, second_on}
    MaxSessions = 3
    MaxCommands = 5
    MaxFailures = 1
    None = None
SPECIFICATION FairSpec
INVARIANTS TypeOK SessionReachable OneScanAtATime
PROPERTIES SessionScans
CHECK_DEADLOCK FALSE
