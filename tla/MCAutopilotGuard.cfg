SPECIFICATION AutopilotSpec
CONSTANTS
    MaxRuns = 1
    Issues = {i1, i2}
    Named = {i1}
    MaxErrors = 2
    MaxPRs = 2
    None = None
INVARIANTS
    GuardBlockAborts
