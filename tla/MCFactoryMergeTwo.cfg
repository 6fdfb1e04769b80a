SPECIFICATION FairSpec
CONSTANTS
    Idle = Idle
    PRs = {a, b}
    Checks = {lint}
    Producers = {}
    MaxHead = 1
    ShadowDispatch = FALSE
    SkippedRuns = FALSE
    ApiFails = FALSE
PROPERTY NoneIsLeftReady
