SPECIFICATION Spec
CONSTANTS
    Runs = {r1}
    Receipts = {m1}
    NoReceipt = NoReceipt
    MaxCutoff = 1
    MaxEvents = 1
    MaxBytes = 100
    RowBytes = 10
    ReceiptBytes = 1
    Callers = {c1, c2}
    Missing = Missing
    Initialize = TRUE
    MaxAttempts = 2
    MaxWorkerCommits = 1
    MaxLate = 1
SYMMETRY Symmetry
INVARIANTS StoreInvariant SuccessIsDurable OneCertainWriter ConflictIsFinal
PROPERTY StepsRunOut
CHECK_DEADLOCK FALSE
