SPECIFICATION FairSpec
CONSTANTS
    RecorderFails = TRUE
    MaxRestarts = 2
    CheckpointFails = TRUE
CHECK_DEADLOCK FALSE
INVARIANTS
    WordsAreBacked
PROPERTIES
    StepsKeepFaith EveryRunSettles
