SPECIFICATION Spec
CONSTANTS
    FileSize = 5
    ChunkSize = 2
    MaxTries = 2
    MaxFaults = 3
    MaxRuns = 2
    Terminates = TRUE
    NumParts = 3
    MaxPartTries = 2
    MaxBreaks = 3
    MaxResumes = 2
    Reconciles = TRUE
    NumSlices = 2
    MaxMishaps = 2
    MaxOpens = 2
    ChunkBytes = 3
    MaxBytes = 20
    MaxStored = 11
    BlockBytes = 4
    MaxWord = 32
    MinReadSize = 4
    ReadSizes = {3, 4, 5, 6, 7}
    MaxLength = 13
CHECK_DEADLOCK FALSE
INVARIANTS
    ReceiptsAreStored ObjectIsWhole EvidenceHolds WrittenRecordResumes RecordIsSound
PROPERTIES
    ChecksumIsHonest RunsSettle
