SPECIFICATION FairSpec
CONSTANTS
    NoFile = NoFile
    Envelope = Envelope
    RaceFile = RaceFile
    Bytes <- MCBytes
    CacheCapacity = 8
    Pages = 2
    OriginBatch = 3
    Bound <- MCBound
    Bench <- MCBench
    MaxFaults = 2
    MaxRepeats = 1
INVARIANTS TypeOK CacheIsExact OthersSurvive OneSendPerHistory PassedIsBacked BatchGoesForward DriversInvariant
PROPERTIES CorrectedDelivers
CHECK_DEADLOCK FALSE
