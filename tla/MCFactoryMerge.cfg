SPECIFICATION FairSpec
CONSTANTS
    Idle = Idle
    PRs = {a}
    Checks = {lint, proof}
    Producers = {proof}
    MaxHead = 3
    ShadowDispatch = TRUE
    SkippedRuns = TRUE
    ApiFails = TRUE
INVARIANTS PolicyInvariant ReadyIsAwaited
PROPERTIES EventMergesWhileEnabled EligibleOnNewEvidence LeftReadyOnlyByLoss
