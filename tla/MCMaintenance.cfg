SPECIFICATION FairSpec
CONSTANTS
    Runners = {r1, r2}
    MaxEnd = 2
    MaxRecords = 2
    MaxChanges = 1
    Batch = 1
INVARIANTS MaintenanceInvariant ReviewVisitsAll StagedBeforeReady
PROPERTIES ImplementsCycle IntervalNeverRewinds ConvergesUnlessStranded
CHECK_DEADLOCK FALSE
