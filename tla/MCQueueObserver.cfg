SPECIFICATION Spec
CONSTANTS
    Runs = {r1, r2}
    Home <- OneHome
    Workflows = 1
    Grace = 2
    Ahead = 1
    Capacity = 2
    MaxClock = 2
    MaxChanges = 2
INVARIANTS ObserverInvariant ReportIsOfOneMoment
CHECK_DEADLOCK FALSE
