SPECIFICATION Spec
CONSTANTS
    WorkPRs = {w1}
    FixPRs = {f1}
    ReleasePRs = {b1}
    NoRun = NoRun
    WindowHours = 1
    TicksPerHour = 1
    BranchDispatch = TRUE
    ScanErrors = TRUE
INVARIANTS AtMostOneSlips GateInvariant
CHECK_DEADLOCK FALSE
