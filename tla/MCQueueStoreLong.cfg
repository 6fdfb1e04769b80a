SPECIFICATION FairSpec
CONSTANTS
    Runs = {r1, r2}
    Receipts = {m1}
    NoReceipt = NoReceipt
    MaxCutoff = 2
    MaxEvents = 3
    MaxBytes = 50
    RowBytes = 11
    ReceiptBytes = 2
    Callers = {c1}
    Missing = Missing
    Initialize = TRUE
    MaxAttempts = 2
    MaxWorkerCommits = 1
    MaxLate = 0
INVARIANTS DefinitionsAgree OneStallOpen
PROPERTIES ImplementsLedger CallReturns
CHECK_DEADLOCK FALSE
