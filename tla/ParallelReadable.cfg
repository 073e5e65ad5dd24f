SPECIFICATION Spec
CONSTANTS
    Worker = {w1, w2}
    NumChunks = 2
    MaxAttempts = 1
    MaxRuns = 1
    MaxRefusals = 1
    MaxCrashes = 0
CHECK_DEADLOCK FALSE
INVARIANTS
    SparseRecordIsReadable
