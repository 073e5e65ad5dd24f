SPECIFICATION Spec
CONSTANTS
    Progress = {"chunkCompleted"}
    Profile = "authorized-full"
    Results = {"passed"}
    Codes = {"c1"}
    Ids = {"i1", "i2"}
    MaxEntries = 6
    MaxCodes = 2
    MaxDerivatives = 0
    MaxAttestations = 1
    MaxCount = 1
    MaxCalls = 2
    MaxSeals = 1
    MaxSends = 4
    MaxRestarts = 2
CHECK_DEADLOCK FALSE
INVARIANTS
    RecorderIsTrue RevisionsHold ContinuesOnSound
