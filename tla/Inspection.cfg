SPECIFICATION Spec
CONSTANTS
    f1 = f1
    f2 = f2
    r1 = r1
    r2 = r2
    File = {f1, f2}
    Record = {r1, r2}
    Original <- OneRecordEach
    NoFile = NoFile
    NoRecord = NoRecord
    MaxSelections = 2
    MaxRefreshes = 2
    MaxRuns = 2
    MaxVerifications = 2
    MaxFailures = 1
CHECK_DEADLOCK FALSE
INVARIANTS
    PanelIsOfThisRun NewestListIsTrue
PROPERTIES
    PanelSettles
