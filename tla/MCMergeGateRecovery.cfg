SPECIFICATION FairSpec
CONSTANTS
    WorkPRs = {}
    FixPRs = {f1}
    ReleasePRs = {}
    NoRun = NoRun
    WindowHours = 1
    TicksPerHour = 1
    BranchDispatch = TRUE
    ScanErrors = FALSE
PROPERTY RecoveryLoopCloses
CHECK_DEADLOCK FALSE
