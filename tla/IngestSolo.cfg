SPECIFICATION FairSpec
CONSTANTS
    Handle = {h1}
    NumChunks = 3
    MaxAttempts = 2
    KeepRecord = FALSE
CHECK_DEADLOCK FALSE
INVARIANTS
    TypeOK NoRetransmission RecordIsAhead
PROPERTIES
    StopsHold EverySettles KeepsPromise
