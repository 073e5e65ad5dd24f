SPECIFICATION Spec
CONSTANTS
    Exporter = {e1, e2}
    Derivative = {"thumbnail"}
    MaxChanges = 1
    Advertised = {{}, {"resumable", "snapshotResume", "persistentResume", "abortable", "expirationAware", "parallelChunks", "chunkIntegrity"}}
    MaxSurprises = 2
    MaxLimitations = 3
    MaxRevisions = 2
CHECK_DEADLOCK FALSE
INVARIANTS
    DamageIsFound ReportIsTrue DerivationsHold
PROPERTIES
    ExportIsSound
