SPECIFICATION RetrySpec
CONSTANTS
    RecorderFails = FALSE
    MaxRestarts = 2
    CheckpointFails = FALSE
CHECK_DEADLOCK FALSE
INVARIANTS
    ClaimsAreTrue
PROPERTIES
    RetryFinishes
