CONSTANTS
    Work = {w}
    Release = {r}
    Required = {"lint-test", "evidence-gate", "commitlint"}
    MaxEvents = 2
    MaxMain = 1
SPECIFICATION FairSpec
INVARIANTS ChecksInvariant NoneIsForgotten
PROPERTIES MergedAsJudged NoneIsPendingForever
CHECK_DEADLOCK FALSE
