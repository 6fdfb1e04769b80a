SPECIFICATION FairSpec
CONSTANTS
    Idle = Idle
    MaxEvents = 4
INVARIANTS SuccessIsBacked RunInvariant NewestHeadIsAwaited
PROPERTY NewestHeadIsJudged
CHECK_DEADLOCK FALSE
