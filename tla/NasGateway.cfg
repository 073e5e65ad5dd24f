SPECIFICATION Spec
CONSTANTS
    Gateway = {g1, g2}
    NumChunks = 2
    Overwrite = FALSE
    Disorders = {{}, {"creators", "targets"}}
    MaxCalls = 3
    MaxCrashes = 1
CHECK_DEADLOCK FALSE
INVARIANTS
    OneWriter StorageIsSound
PROPERTIES
    CommittedStays CallsSettle
