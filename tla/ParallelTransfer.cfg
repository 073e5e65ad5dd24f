SPECIFICATION Spec
CONSTANTS
    Worker = {w1, w2}
    NumChunks = 3
    MaxAttempts = 2
    MaxRuns = 2
    MaxRefusals = 1
    MaxCrashes = 1
CHECK_DEADLOCK FALSE
INVARIANTS
    OutcomesAreExact RecordTellsProgress
PROPERTIES
    PoolKeepsPromise PoolSettles
