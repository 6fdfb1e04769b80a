SPECIFICATION Spec
CONSTANTS
    Runs = {r1}
    Receipts = {m1}
    NoReceipt = NoReceipt
    MaxCutoff = 1
    MaxEvents = 3
    MaxBytes = 23
    RowBytes = 10
    ReceiptBytes = 2
    Callers = {c1}
    Missing = Missing
    Initialize = TRUE
    MaxAttempts = 2
    MaxWorkerCommits = 1
    MaxLate = 1
INVARIANT UnfinishedCanReconcile
CHECK_DEADLOCK FALSE
