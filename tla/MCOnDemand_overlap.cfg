CONSTANTS
    first_on = first_on
    second_on = second_on
    Starters = {first_on, second_on}
    MaxSessions = 2
    MaxCommands = 2
    MaxFailures = 0
    None = None
SPECIFICATION Spec
INVARIANTS ActiveUntilScanOff
CHECK_DEADLOCK FALSE
