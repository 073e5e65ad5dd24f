-------------------------- MODULE MCInspectionUpload --------------------------
EXTENDS InspectionUpload, TLC

CONSTANTS f1, f2, r1, r2

\* Each file has a record of its own upload in the store.
OneRecordEach == r1 :> f1 @@ r2 :> f2
==============================================================================
