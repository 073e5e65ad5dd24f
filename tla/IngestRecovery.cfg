SPECIFICATION RecoverySpec
CONSTANTS
    Handle = {h1}
    NumChunks = 2
    MaxAttempts = 1
    KeepRecord = TRUE
CHECK_DEADLOCK FALSE
PROPERTIES
    UploadRecovers
