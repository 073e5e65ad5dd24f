SPECIFICATION Spec
CONSTANTS
    Handle = {h1, h2}
    NumChunks = 2
    MaxAttempts = 1
    KeepRecord = TRUE
CHECK_DEADLOCK FALSE
SYMMETRY HandleSymmetry
VIEW LiveMemory
INVARIANTS
    RecordedIsRemote CompletionIsTotal OutcomeIsTrue
