SPECIFICATION AutopilotFairSpec
CONSTANTS
    MaxRuns = 2
    Issues = {i1, i2}
    Named = {i1}
    MaxErrors = 2
    MaxPRs = 1
    None = None
INVARIANTS
    EngineSafety
    LedgerInv
    EndsAsToldInv
PROPERTIES
    StoppedLaunchesNothing
    LifecycleEnds
CHECK_DEADLOCK FALSE
