--------------------------- MODULE VerifiedIngest ---------------------------
(***************************************************************************)
(* The verified-ingest workflow, src/src/workflow.ts: one original is      *)
(* prepared, uploaded by a session, verified by the application, recorded  *)
(* in a dossier that an evidence sink persists, and handed to an archive.  *)
(*                                                                         *)
(* One process at a time holds one workflow object.  It dies (Crash) and a *)
(* new one reconstructs the workflow from its checkpoint (Resume), with    *)
(* the resume record of the session and the dossiers as they were left.    *)
(*                                                                         *)
(* An action is the code between two awaits.  A callee takes effect        *)
(* (Serve...) before its promise settles, so an acknowledgement can be     *)
(* lost; it never takes effect after the caller has given up.  cancel(),   *)
(* pause() and retry() are calls of the application that come between.     *)
(*                                                                         *)
(* Abstractions: the upload session is one awaited call with the outcomes  *)
(* that IngestSession gives it; a fresh identifier is the number of the    *)
(* process that made it, which makes at most one of each kind; sealing and *)
(* building a bundle is part of the step that persists it.                 *)
(***************************************************************************)
EXTENDS Naturals, FiniteSets

CONSTANTS
    MaxRestarts,      \* bound on the number of times the process dies
    CheckpointFails,  \* the checkpoint store may reject or lose a put
    RecorderFails     \* the provenance recorder may fail (it holds 4096 entries)

ASSUME WorkflowAssumption ==
    /\ MaxRestarts \in Nat
    /\ CheckpointFails \in BOOLEAN
    /\ RecorderFails \in BOOLEAN

\* What the application configures: an archive, adapters that can reconcile,
\* resume records that outlive the workflow.
Options == {"preservation", "reconcile", "mark-complete"}

\* What the run awaits.
PutStates ==
    {"putPrepared", "putUploading", "putPaused", "putUploaded", "putVerified",
     "putEvidence", "putPreserved", "putFailed", "putReconcile"}
EffectStates == {"verifying", "persisting", "handing", "finalizing"}
ReconcileStates ==
    {"reconcilingVerifier", "reconcilingEvidence", "reconcilingHandoff", "reconcilingFinal"}
RunStates ==
    PutStates \cup EffectStates \cup ReconcileStates
        \cup {"preparing", "loading", "fetching", "uploading", "cleaning"}

Failures ==
    {"preparation_failed", "upload_failed", "verification_failed",
     "evidence_persistence_failed", "preservation_failed",
     "evidence_finalization_failed"}
Status ==
    Failures \cup
    {"preparing", "prepared", "uploading", "paused", "uploaded_unverified",
     "verifying", "verified", "persisting_evidence", "evidence_persisted",
     "preserving", "finalizing_evidence", "preserved",
     "reconciliation_required", "canceled", "stopped"}

\* The authorities that a checkpoint may name, and how far each has come.
Authority == {"prepared", "uploaded_unverified", "verified", "evidence_persisted", "preserved"}

Ids == 0 .. MaxRestarts + 1          \* 0 stands for undefined
Outcome == {"none", "preserved", "failed", "transient"}
Stops == {"pause", "cancel"}

VARIABLES
    options,    \* the configured options
    pc,         \* "idle", what the run awaits, or "dead"
    answer,     \* what the awaited callee has done: "none" until it takes effect
    status,     \* state.status
    final,      \* isTerminal(state)
    offer,      \* status and authority of the checkpoint that is being put
    mem,        \* the other fields of the workflow object
    cp,         \* the stored checkpoint
    rec,        \* the resume record: none, open, completed, canceled or deleted
    remote,     \* the storage provider has completed the upload
    dossiers,   \* what the evidence sink holds under each evidence id
    closed,     \* the operation id under which its revision 2 was persisted
    archive,    \* what the archive did under each operation id
    restarts    \* the number of processes that have died

Checkpoints ==
    [status : Status \cup {"absent"}, authority : Authority \cup {"none"},
     record : BOOLEAN, verified : BOOLEAN, evidence : Ids, revision : 0 .. 2,
     operation : Ids, closing : Ids, outcome : Outcome]

NoCheckpoint ==
    [status |-> "absent", authority |-> "none", record |-> FALSE,
     verified |-> FALSE, evidence |-> 0, revision |-> 0, operation |-> 0,
     closing |-> 0, outcome |-> "none"]
NoOffer == [status |-> "absent", authority |-> "none"]

Memories ==
    [resuming : BOOLEAN, retrying : BOOLEAN, current : BOOLEAN,
     session : BOOLEAN, canceling : BOOLEAN, request : SUBSET Stops, failed : BOOLEAN,
     record : BOOLEAN, verified : BOOLEAN, evidence : Ids, bundle : 0 .. 2,
     pending : BOOLEAN, operation : Ids, closing : Ids, outcome : Outcome]

\* A new workflow object.
NoMemory ==
    [resuming |-> FALSE,     \* runUpload got a resumeRecordId
     retrying |-> FALSE,     \* the run was begun by retry()
     current |-> TRUE,       \* checkpointRevision is the stored revision
     session |-> FALSE,      \* a session has been created
     canceling |-> FALSE,    \* cancel() awaits session.cancel()
     request |-> {},         \* the stops the session was asked for
     failed |-> FALSE,       \* terminalStatus of the recorder is "upload_failed"
     record |-> FALSE,       \* resumeRecordId is known
     verified |-> FALSE,     \* verification
     evidence |-> 0,         \* evidenceId
     bundle |-> 0,           \* revision of the persisted bundle with its reference
     pending |-> FALSE,      \* pendingFinalBundle
     operation |-> 0,        \* operation id of the preservation stage
     closing |-> 0,          \* operation id of the evidence finalization
     outcome |-> "none"]     \* preservationOutcome; transient: failed, retryable

sink == <<dossiers, closed>>
world == <<rec, remote, sink, archive>>
vars == <<options, pc, answer, status, final, offer, mem, cp, world, restarts>>

Init ==
    /\ options \in SUBSET Options
    /\ pc = "idle"
    /\ answer = "none"
    /\ status = "preparing"
    /\ final = FALSE
    /\ offer = NoOffer
    /\ mem = NoMemory
    /\ cp = NoCheckpoint
    /\ rec = "none"
    /\ remote = FALSE
    /\ dossiers = [e \in Ids |-> "none"]
    /\ closed = [e \in Ids |-> 0]
    /\ archive = [o \in Ids |-> "none"]
    /\ restarts = 0

Has(option) == option \in options

\* A new identifier of this process.
FreshId == restarts + 1

------------------------------------------------------------------------------
(***************************************************************************)
(* Steps that several handlers share: transition(), fail(),                *)
(* reconciliationRequired() and the head of each stage.                    *)
(***************************************************************************)

\* transition(), then the run awaits p (or is over, when p is "idle").
Move(s, isFinal, p) ==
    /\ status' = s
    /\ final' = isFinal
    /\ pc' = p
    /\ answer' = "none"
    /\ offer' = NoOffer

\* The run goes on without a transition.
Settle(p) == Move(status, final, p)

\* transition(), then persistCheckpoint(authority): what is put is taken now.
Save(s, isFinal, authority, p) ==
    /\ status' = s
    /\ final' = isFinal
    /\ pc' = p
    /\ answer' = "none"
    /\ offer' = [status |-> s, authority |-> authority]

\* The authority that is left when a stage fails.
LastAuthority ==
    [upload_failed |-> "prepared",
     verification_failed |-> "uploaded_unverified",
     evidence_persistence_failed |-> "verified",
     preservation_failed |-> "evidence_persisted",
     evidence_finalization_failed |-> "evidence_persisted"]

\* fail(); a terminal one when isFinal.
Fail(s, isFinal) == Save(s, isFinal, LastAuthority[s], "putFailed")

\* fail() without an authority: nothing is put.
GiveUp(s) == Move(s, TRUE, "idle")

ReconciliationRequired(authority) ==
    Save("reconciliation_required", FALSE, authority, "putReconcile")

\* The rest of the workflow object once a put is acknowledged.
Acked == [mem EXCEPT !.current = TRUE]

\* runUpload, up to its first await.
RunUpload(m) ==
    /\ Save("uploading", FALSE, "prepared", "putUploading")
    /\ mem' = m

RunVerification(m) ==
    /\ Move("verifying", FALSE, "verifying")
    /\ mem' = m

\* Mutant of OwnId: a new identifier whenever a stage is entered.
OwnIdAnew(id) == FreshId

\* operationId(stage) and evidenceId: made once, then kept.
OwnId(id) == IF id = 0 THEN FreshId ELSE id

RunEvidence(m) ==
    /\ Move("persisting_evidence", FALSE, "persisting")
    /\ mem' = [m EXCEPT !.evidence = OwnId(@)]

RunPreservation(m) ==
    /\ Move("preserving", FALSE, "handing")
    /\ mem' = [m EXCEPT !.operation = OwnId(@)]

\* finalizePreservation: a final bundle can be built on revision 1 alone, because
\* on revision 2 it would repeat stages and be invalid.
Finalize(m) ==
    /\ Move("finalizing_evidence", FALSE, "finalizing")
    /\ mem' = [m EXCEPT !.pending = @ \/ m.bundle = 1, !.closing = OwnId(@)]

------------------------------------------------------------------------------
(***************************************************************************)
(* The application.                                                        *)
(***************************************************************************)

Start ==
    /\ pc = "idle" /\ status = "preparing"
    /\ Settle("preparing")
    /\ UNCHANGED <<options, mem, cp, world, restarts>>

\* The process dies; a request that has not taken effect is lost.
Crash ==
    /\ pc # "dead"
    /\ restarts < MaxRestarts
    /\ restarts' = restarts + 1
    /\ Move("preparing", FALSE, "dead")
    /\ mem' = NoMemory
    /\ UNCHANGED <<options, cp, world>>

\* resume(workflowId) on a new workflow object.
Resume ==
    /\ pc = "dead"
    /\ cp.status # "absent"
    /\ Settle("loading")
    /\ UNCHANGED <<options, mem, cp, world, restarts>>

\* pause(): a session that is already over does not hear it.
Pause ==
    /\ pc = "uploading" /\ status = "uploading"
    /\ mem' = [mem EXCEPT !.request = @ \cup {"pause"}]
    /\ UNCHANGED <<options, pc, answer, status, final, offer, cp, world, restarts>>

\* lastAuthority(status) is defined.
HasAuthority ==
    status \notin {"preparing", "preparation_failed", "upload_failed",
                   "reconciliation_required", "canceled", "stopped"}

\* cancel() of an upload: the session is asked, the transition follows.  Before
\* the session of this run exists the request goes to the previous one.
CancelUpload ==
    /\ status = "uploading" /\ mem.session
    /\ mem' = [mem EXCEPT !.canceling = TRUE,
                          !.request = IF pc = "uploading" THEN @ \cup {"cancel"} ELSE @]
    /\ UNCHANGED <<options, pc, answer, status, final, offer, cp, world, restarts>>

\* cancel() after session.cancel(): whatever the state has become.
CancelDone ==
    /\ mem.canceling
    /\ mem' = [mem EXCEPT !.canceling = FALSE]
    /\ status' = "canceled"
    /\ final' = TRUE
    /\ UNCHANGED <<options, pc, answer, offer, cp, world, restarts>>

\* cancel() otherwise: the state changes, the run does not learn of it.
Cancel ==
    /\ pc # "dead"
    /\ ~final
    /\ ~(status = "uploading" /\ mem.session)
    /\ status' = IF HasAuthority THEN "stopped" ELSE "canceled"
    /\ final' = TRUE
    /\ UNCHANGED <<options, pc, answer, offer, mem, cp, world, restarts>>

\* Mutant of UploadMayBeRetried: only a pause is retried.
UploadMayBeRetriedAfterPause == status = "paused" /\ mem.record

\* There is a resume record to retry from.
UploadMayBeRetried == status \in {"paused", "upload_failed"} /\ mem.record

\* retry(), while allowedActions lists it: the failed stage is entered again.
Retry ==
    /\ pc = "idle" /\ ~final
    /\ LET m == [mem EXCEPT !.retrying = TRUE] IN
       \/ /\ UploadMayBeRetried
          /\ RunUpload([m EXCEPT !.resuming = TRUE])
       \/ /\ status = "verification_failed"
          /\ RunVerification(m)
       \/ /\ status = "evidence_persistence_failed"
          /\ RunEvidence(m)
       \/ /\ status = "preservation_failed"
          /\ RunPreservation(m)
       \/ /\ status = "evidence_finalization_failed"
          /\ Finalize(m)
    /\ UNCHANGED <<options, cp, world, restarts>>

------------------------------------------------------------------------------
(***************************************************************************)
(* The callees take effect.                                                *)
(***************************************************************************)

\* What persistCheckpoint writes.
Checkpoint ==
    [status |-> offer.status, authority |-> offer.authority,
     record |-> mem.record, verified |-> mem.verified,
     evidence |-> mem.evidence, revision |-> mem.bundle,
     operation |-> mem.operation, closing |-> mem.closing,
     outcome |-> mem.outcome]

\* put with expectedRevision: a stale writer gets "conflict".
MayPut == mem.current

ServePut ==
    /\ pc \in PutStates /\ answer = "none"
    /\ MayPut
    /\ cp' = Checkpoint
    /\ answer' = "stored"
    /\ mem' = [mem EXCEPT !.current = FALSE]
    /\ UNCHANGED <<options, pc, status, final, offer, world, restarts>>

\* The session has created its resume record.
ServeRecord ==
    /\ pc = "uploading"
    /\ rec = "none"
    /\ rec' = "open"
    /\ mem' = [mem EXCEPT !.record = TRUE]
    /\ UNCHANGED <<options, pc, answer, status, final, offer, cp, remote, sink,
                   archive, restarts>>

\* The session has uploaded every chunk and the provider completed the upload.
ServeUpload ==
    /\ pc = "uploading"
    /\ rec = "open" /\ ~remote
    /\ remote' = TRUE
    /\ UNCHANGED <<options, pc, answer, status, final, offer, mem, cp, rec, sink,
                   archive, restarts>>

\* The sink persists revision 1, or has it already under this evidence id and so
\* this operation id.
ServeEvidence ==
    /\ pc = "persisting" /\ answer = "none"
    /\ dossiers[mem.evidence] \in {"none", "pending"}
    /\ dossiers' = [dossiers EXCEPT ![mem.evidence] = "pending"]
    /\ answer' = "stored"
    /\ UNCHANGED <<options, pc, status, final, offer, mem, cp, rec, remote, closed,
                   archive, restarts>>

\* The sink persists revision 2 on revision 1, or has it under this operation id.
ServeFinal ==
    /\ pc = "finalizing" /\ answer = "none"
    /\ mem.pending
    /\ \/ /\ dossiers[mem.evidence] = "pending"
          /\ dossiers' = [dossiers EXCEPT ![mem.evidence] = mem.outcome]
          /\ closed' = [closed EXCEPT ![mem.evidence] = mem.closing]
       \/ closed[mem.evidence] = mem.closing /\ UNCHANGED sink
    /\ answer' = "stored"
    /\ UNCHANGED <<options, pc, status, final, offer, mem, cp, rec, remote, archive, restarts>>

\* The archive takes the handoff, refuses it, or fails for the moment; under an
\* operation id it has decided it answers the same.
ServeHandoff ==
    /\ pc = "handing" /\ answer = "none"
    /\ \E result \in Outcome \ {"none"} :
         /\ archive[mem.operation] \in {"none", result}
         /\ answer' = result
         /\ archive' = IF result = "transient" THEN archive
                       ELSE [archive EXCEPT ![mem.operation] = result]
    /\ UNCHANGED <<options, pc, status, final, offer, mem, cp, rec, remote, sink, restarts>>

------------------------------------------------------------------------------
(***************************************************************************)
(* runStart and runUpload.                                                 *)
(***************************************************************************)

\* persistCheckpoint() resolves, or rejects: the put was lost, or its
\* acknowledgement, or the store holds another revision than expected.
PutOk(state) == pc = state /\ answer = "stored"
PutFails(state) ==
    /\ pc = state
    /\ CheckpointFails \/ (~mem.current /\ answer = "none")

\* The manifest and the profile evaluation are ready.
Prepared ==
    /\ pc = "preparing"
    /\ Save("prepared", FALSE, "prepared", "putPrepared")
    /\ UNCHANGED <<options, mem, cp, world, restarts>>

PreparationFails ==
    /\ \/ pc = "preparing"
       \/ PutFails("putPrepared")
    /\ GiveUp("preparation_failed")
    /\ UNCHANGED <<options, mem, cp, world, restarts>>

PreparedSaved ==
    /\ PutOk("putPrepared")
    /\ RunUpload(Acked)
    /\ UNCHANGED <<options, cp, world, restarts>>

\* The session is created and started, or resumed.
UploadingSaved ==
    /\ PutOk("putUploading")
    /\ Settle("uploading")
    /\ mem' = [Acked EXCEPT !.session = TRUE, !.request = {}]
    /\ UNCHANGED <<options, cp, world, restarts>>

UploadingUnsaved ==
    /\ PutFails("putUploading")
    /\ ReconciliationRequired("prepared")
    /\ UNCHANGED <<options, mem, cp, world, restarts>>

\* The session's promise resolves, also after a stop that came too late.  The
\* recorder does not record a completion after the failure of an earlier run.
SessionCompletes ==
    /\ pc = "uploading" /\ rec = "open" /\ remote
    /\ rec' = "completed"
    /\ \/ /\ ~mem.failed
          /\ Save("uploaded_unverified", FALSE, "uploaded_unverified", "putUploaded")
       \/ /\ mem.failed \/ RecorderFails
          /\ Fail("upload_failed", TRUE)
    /\ UNCHANGED <<options, mem, cp, remote, sink, archive, restarts>>

\* The session ends as it was asked; a record it had adopted is marked.
SessionStops ==
    /\ pc = "uploading"
    /\ \/ /\ "pause" \in mem.request
          /\ Save("paused", FALSE, "prepared", "putPaused")
          /\ UNCHANGED rec
       \/ /\ "cancel" \in mem.request
          /\ Move("canceled", TRUE, "idle")
          /\ rec' \in {rec, IF rec = "open" THEN "canceled" ELSE rec}
    /\ UNCHANGED <<options, mem, cp, remote, sink, archive, restarts>>

\* The session fails, or refuses a record that is over; a resume conflict is not
\* reported as a failure.
SessionFails ==
    /\ pc = "uploading"
    /\ Fail("upload_failed", FALSE)
    /\ mem' \in {mem, IF rec \in {"none", "open"} THEN [mem EXCEPT !.failed = TRUE] ELSE mem}
    /\ UNCHANGED <<options, cp, world, restarts>>

PausedSaved ==
    /\ PutOk("putPaused")
    /\ Settle("idle")
    /\ mem' = Acked
    /\ UNCHANGED <<options, cp, world, restarts>>

\* runStart and runResume give the workflow up; retry() rejects.
PausedUnsaved ==
    /\ PutFails("putPaused")
    /\ IF mem.retrying THEN Settle("idle") ELSE GiveUp("preparation_failed")
    /\ UNCHANGED <<options, mem, cp, world, restarts>>

UploadedSaved ==
    /\ PutOk("putUploaded")
    /\ RunVerification(Acked)
    /\ UNCHANGED <<options, cp, world, restarts>>

\* The put fails inside the try block of the upload.
UploadedUnsaved ==
    /\ PutFails("putUploaded")
    /\ Fail("upload_failed", FALSE)
    /\ UNCHANGED <<options, mem, cp, world, restarts>>

------------------------------------------------------------------------------
(***************************************************************************)
(* runVerification.                                                        *)
(***************************************************************************)

\* A result that comes after a stop ends the run.
Unless(continuation) ==
    IF final THEN Settle("idle") /\ UNCHANGED mem ELSE continuation

\* The verifier, or its reconcile(), has a result: verified, or not (terminally).
VerifierAnswers ==
    /\ pc \in {"verifying", "reconcilingVerifier"}
    /\ Unless(\/ /\ Save("verified", FALSE, "verified", "putVerified")
                 /\ mem' = [mem EXCEPT !.verified = TRUE]
              \/ /\ \E terminal \in BOOLEAN : Fail("verification_failed", terminal)
                 /\ UNCHANGED mem)
    /\ UNCHANGED <<options, cp, world, restarts>>

\* An adapter's promise rejects: what it did is asked for, or left open.
Throws(state, reconciling, authority) ==
    /\ pc = state
    /\ IF Has("reconcile") THEN Settle(reconciling) ELSE ReconciliationRequired(authority)
    /\ UNCHANGED <<options, mem, cp, world, restarts>>

VerifierThrows == Throws("verifying", "reconcilingVerifier", "uploaded_unverified")

\* reconcile() says "not_found" or rejects; no stop is looked for.
VerifierUnknown ==
    /\ pc = "reconcilingVerifier"
    /\ Fail("verification_failed", FALSE)
    /\ UNCHANGED <<options, mem, cp, world, restarts>>

VerifiedSaved ==
    /\ PutOk("putVerified")
    /\ RunEvidence(Acked)
    /\ UNCHANGED <<options, cp, world, restarts>>

VerifiedUnsaved ==
    /\ PutFails("putVerified")
    /\ Fail("verification_failed", FALSE)
    /\ UNCHANGED <<options, mem, cp, world, restarts>>

------------------------------------------------------------------------------
(***************************************************************************)
(* runInitialEvidencePersistence.                                          *)
(***************************************************************************)

\* Mutant of EvidencePersisted: the receipt is not waited for.
EvidenceAssumed ==
    /\ pc = "persisting"
    /\ Unless(/\ Save("evidence_persisted", ~Has("preservation"),
                      "evidence_persisted", "putEvidence")
              /\ mem' = [mem EXCEPT !.bundle = 1])
    /\ UNCHANGED <<options, cp, world, restarts>>

\* Revision 1 is persisted, by its receipt or by reconciliation.
EvidencePersisted ==
    /\ \/ pc = "persisting" /\ answer = "stored"
       \/ pc = "reconcilingEvidence" /\ dossiers[mem.evidence] # "none"
    /\ Unless(/\ Save("evidence_persisted", ~Has("preservation"),
                      "evidence_persisted", "putEvidence")
              /\ mem' = [mem EXCEPT !.bundle = 1])
    /\ UNCHANGED <<options, cp, world, restarts>>

EvidenceThrows == Throws("persisting", "reconcilingEvidence", "verified")

EvidenceNotFound ==
    /\ pc = "reconcilingEvidence" /\ dossiers[mem.evidence] = "none"
    /\ Fail("evidence_persistence_failed", FALSE)
    /\ UNCHANGED <<options, mem, cp, world, restarts>>

\* reconcile() rejects, or the bundle is not valid.
EvidenceFails ==
    /\ pc \in {"persisting", "reconcilingEvidence"}
    /\ Fail("evidence_persistence_failed", FALSE)
    /\ UNCHANGED <<options, mem, cp, world, restarts>>

EvidenceSaved ==
    /\ PutOk("putEvidence")
    /\ IF Has("preservation")
       THEN RunPreservation(Acked)
       ELSE Settle("cleaning") /\ mem' = Acked
    /\ UNCHANGED <<options, cp, world, restarts>>

EvidenceUnsaved ==
    /\ PutFails("putEvidence")
    /\ Fail("evidence_persistence_failed", FALSE)
    /\ UNCHANGED <<options, mem, cp, world, restarts>>

------------------------------------------------------------------------------
(***************************************************************************)
(* runPreservation and finalizePreservation.                               *)
(***************************************************************************)

\* The archive's result, by its receipt or by reconciliation; it is kept even
\* when a stop came first.
HandoffAnswers(result) ==
    /\ \/ pc = "handing" /\ answer = result
       \/ pc = "reconcilingHandoff" /\ archive[mem.operation] = result
    /\ LET m == [mem EXCEPT !.outcome = result] IN
       \/ final /\ Settle("idle") /\ mem' = m
       \/ ~final /\ result = "transient" /\ Fail("preservation_failed", FALSE) /\ mem' = m
       \/ ~final /\ result # "transient" /\ Finalize(m)
    /\ UNCHANGED <<options, cp, world, restarts>>

HandoffAnswered == \E result \in Outcome \ {"none"} : HandoffAnswers(result)

HandoffThrows == Throws("handing", "reconcilingHandoff", "evidence_persisted")

\* reconcile() says that the archive has not seen the operation.
HandoffNotFound ==
    /\ pc = "reconcilingHandoff" /\ archive[mem.operation] = "none"
    /\ Fail("preservation_failed", FALSE)
    /\ UNCHANGED <<options, mem, cp, world, restarts>>

HandoffReconcileFails ==
    /\ pc = "reconcilingHandoff"
    /\ ReconciliationRequired("evidence_persisted")
    /\ UNCHANGED <<options, mem, cp, world, restarts>>

\* Revision 2 is persisted: the outcome of the handoff is the workflow's.
FinalPersisted ==
    /\ \/ pc = "finalizing" /\ answer = "stored"
       \/ pc = "reconcilingFinal" /\ closed[mem.evidence] = mem.closing
    /\ Unless(/\ \/ mem.outcome = "preserved"
                    /\ Save("preserved", TRUE, "preserved", "putPreserved")
                 \/ mem.outcome = "failed" /\ Fail("preservation_failed", TRUE)
              /\ mem' = [mem EXCEPT !.bundle = 2, !.pending = FALSE])
    /\ UNCHANGED <<options, cp, world, restarts>>

FinalThrows ==
    /\ mem.pending
    /\ Throws("finalizing", "reconcilingFinal", "evidence_persisted")

FinalNotFound ==
    /\ pc = "reconcilingFinal" /\ closed[mem.evidence] # mem.closing
    /\ Fail("evidence_finalization_failed", FALSE)
    /\ UNCHANGED <<options, mem, cp, world, restarts>>

\* reconcile() rejects, or the final bundle is not valid.
FinalFails ==
    /\ pc = "reconcilingFinal" \/ (pc = "finalizing" /\ ~mem.pending)
    /\ Fail("evidence_finalization_failed", FALSE)
    /\ UNCHANGED <<options, mem, cp, world, restarts>>

PreservedSaved ==
    /\ PutOk("putPreserved")
    /\ Settle("cleaning")
    /\ mem' = Acked
    /\ UNCHANGED <<options, cp, world, restarts>>

PreservedUnsaved ==
    /\ PutFails("putPreserved")
    /\ Fail("evidence_finalization_failed", FALSE)
    /\ UNCHANGED <<options, mem, cp, world, restarts>>

\* cleanupResumeRecord: a delete that fails is reported and forgotten.
CleanedUp ==
    /\ pc = "cleaning"
    /\ rec' \in {rec, IF Has("mark-complete") \/ ~mem.record THEN rec ELSE "deleted"}
    /\ Settle("idle")
    /\ UNCHANGED <<options, mem, cp, remote, sink, archive, restarts>>

\* The checkpoint of a failure.
FailureSaved ==
    /\ PutOk("putFailed")
    /\ Settle("idle")
    /\ mem' = Acked
    /\ UNCHANGED <<options, cp, world, restarts>>

\* Mutant of FailureUnsaved: fail() fails again.
FailureUnsavedAgain ==
    /\ PutFails("putFailed")
    /\ Save(offer.status, final, offer.authority, "putFailed")
    /\ UNCHANGED <<options, mem, cp, world, restarts>>

FailureUnsaved ==
    /\ PutFails("putFailed")
    /\ Move("reconciliation_required", FALSE, "idle")
    /\ UNCHANGED <<options, mem, cp, world, restarts>>

ReconciliationSaved ==
    /\ PutOk("putReconcile")
    /\ Settle("idle")
    /\ mem' = Acked
    /\ UNCHANGED <<options, cp, world, restarts>>

ReconciliationUnsaved ==
    /\ PutFails("putReconcile")
    /\ Settle("idle")
    /\ UNCHANGED <<options, mem, cp, world, restarts>>

------------------------------------------------------------------------------
(***************************************************************************)
(* runResume.                                                              *)
(***************************************************************************)

\* Mutant of UploadRecovery: a failed upload is not one.
UploadRecoveryUnlessFailed == {"prepared", "uploading", "paused"}

\* isUploadRecoveryStatus, the statuses that await the verifier, and
\* isEvidencePendingStatus.
UploadRecovery == {"prepared", "uploading", "paused", "upload_failed"}
Unverified == {"uploaded_unverified", "verification_failed", "verifying"}
EvidencePending == {"verified", "persisting_evidence", "evidence_persistence_failed"}

\* The checkpoint cannot be read, or the profile or the source does not match.
LoadFails ==
    /\ pc = "loading"
    /\ GiveUp("preparation_failed")
    /\ UNCHANGED <<options, mem, cp, world, restarts>>

Linked == cp.record /\ rec # "deleted"

\* The checkpoint names no resume record, or the store has it no more.
LoadUnlinked ==
    /\ pc = "loading" /\ ~Linked
    /\ GiveUp("upload_failed")
    /\ UNCHANGED <<options, mem, cp, world, restarts>>

\* What the workflow object takes from the checkpoint.
Restored ==
    [NoMemory EXCEPT !.record = TRUE, !.evidence = cp.evidence,
                     !.operation = cp.operation, !.closing = cp.closing]
RestoredVerified == [Restored EXCEPT !.verified = TRUE]

\* The stage to continue with.  "reconciliation_required" is none of the sets: it
\* is taken for a status that follows the verification.
LoadOk ==
    /\ pc = "loading" /\ Linked
    /\ \/ /\ cp.status \in UploadRecovery
          /\ RunUpload([Restored EXCEPT !.resuming = TRUE])
       \/ /\ cp.status \in Unverified
          /\ RunVerification(Restored)
       \/ /\ cp.status \notin UploadRecovery \cup Unverified
          /\ \/ /\ ~cp.verified
                /\ Fail("verification_failed", TRUE)
                /\ mem' = Restored
             \/ /\ cp.verified /\ cp.status \in EvidencePending
                /\ RunEvidence(RestoredVerified)
             \/ /\ cp.verified /\ cp.status \notin EvidencePending
                /\ IF cp.evidence = 0 \/ cp.revision = 0
                   THEN Fail("evidence_persistence_failed", TRUE)
                   ELSE Settle("fetching")
                /\ mem' = RestoredVerified
    /\ UNCHANGED <<options, cp, world, restarts>>

\* The sink has the dossier revision that the checkpoint names.
DossierFound ==
    /\ pc = "fetching"
    /\ dossiers[mem.evidence] \in {"pending", "preserved", "failed"}
    /\ LET m == [mem EXCEPT !.bundle = cp.revision, !.outcome = cp.outcome]
           done == cp.status = "preserved" /\ dossiers[mem.evidence] = "preserved"
           handed == cp.status = "evidence_finalization_failed" /\ cp.outcome # "none" IN
       \/ done /\ Move("preserved", TRUE, "idle") /\ mem' = m
       \/ ~done /\ handed /\ Finalize(m)
       \/ ~done /\ ~handed /\ Has("preservation") /\ RunPreservation(m)
       \/ ~done /\ ~handed /\ ~Has("preservation")
          /\ GiveUp("preparation_failed") /\ mem' = m
    /\ UNCHANGED <<options, cp, world, restarts>>

\* The sink answers that it has no such dossier, or one that is not valid.
DossierMissing ==
    /\ pc = "fetching"
    /\ \/ ReconciliationRequired("verified")
       \/ Fail("evidence_persistence_failed", TRUE)
    /\ UNCHANGED <<options, mem, cp, world, restarts>>

------------------------------------------------------------------------------

Application ==
    Start \/ Crash \/ Resume \/ Pause \/ CancelUpload \/ CancelDone \/ Cancel \/ Retry
Callee ==
    ServePut \/ ServeRecord \/ ServeUpload \/ ServeEvidence \/ ServeFinal \/ ServeHandoff
Upload ==
    \/ Prepared \/ PreparationFails \/ PreparedSaved \/ UploadingSaved \/ UploadingUnsaved
    \/ SessionCompletes \/ SessionStops \/ SessionFails \/ PausedSaved \/ PausedUnsaved
    \/ UploadedSaved \/ UploadedUnsaved
Verification ==
    VerifierAnswers \/ VerifierThrows \/ VerifierUnknown \/ VerifiedSaved \/ VerifiedUnsaved
Evidence ==
    \/ EvidencePersisted \/ EvidenceThrows \/ EvidenceNotFound \/ EvidenceFails
    \/ EvidenceSaved \/ EvidenceUnsaved
Preservation ==
    \/ HandoffAnswered \/ HandoffThrows \/ HandoffNotFound \/ HandoffReconcileFails
    \/ FinalPersisted \/ FinalThrows \/ FinalNotFound \/ FinalFails
    \/ PreservedSaved \/ PreservedUnsaved \/ CleanedUp
Settling == FailureSaved \/ FailureUnsaved \/ ReconciliationSaved \/ ReconciliationUnsaved
Loading == LoadFails \/ LoadUnlinked \/ LoadOk \/ DossierFound \/ DossierMissing

Run == Upload \/ Verification \/ Evidence \/ Preservation \/ Settling \/ Loading
Next == Application \/ Callee \/ Run
Spec == Init /\ [][Next]_vars

\* Every awaited call settles.
FairSpec == Spec /\ WF_vars(Run) /\ WF_vars(Callee)

\* A stage that is entered for ever succeeds in the end, and the application
\* retries what may be retried.
RetrySpec ==
    /\ FairSpec
    /\ WF_vars(Start) /\ WF_vars(Retry)
    /\ SF_vars(ServeRecord) /\ SF_vars(ServeUpload) /\ SF_vars(SessionCompletes)
    /\ SF_vars(VerifierAnswers /\ status' = "verified")
    /\ SF_vars(ServeEvidence) /\ SF_vars(EvidencePersisted)
    /\ SF_vars(ServeHandoff /\ answer' # "transient")
    /\ SF_vars(HandoffAnswered /\ answer # "transient")
    /\ SF_vars(ServeFinal) /\ SF_vars(FinalPersisted)

------------------------------------------------------------------------------
(***************************************************************************)
(* Properties.                                                             *)
(***************************************************************************)

\* Every variable holds a value of its kind.
TypeOK ==
    /\ options \in SUBSET Options
    /\ pc \in RunStates \cup {"idle", "dead"}
    /\ answer \in Outcome \cup {"stored"}
    /\ status \in Status
    /\ final \in BOOLEAN
    /\ offer \in [status : Status \cup {"absent"}, authority : Authority \cup {"none"}]
    /\ mem \in Memories
    /\ cp \in Checkpoints
    /\ rec \in {"none", "open", "completed", "canceled", "deleted"}
    /\ remote \in BOOLEAN
    /\ dossiers \in [Ids -> {"none", "pending", "preserved", "failed"}]
    /\ closed \in [Ids -> Ids]
    /\ archive \in [Ids -> {"none", "preserved", "failed"}]
    /\ restarts \in 0 .. MaxRestarts

\* A state that tells of persisted evidence is backed by the dossier under the
\* evidence id of this object, and "preserved" by a final dossier and by the
\* archive's own decision, through retries, reconciliation and restarts.
EvidenceIsBacked ==
    /\ status \in {"evidence_persisted", "preserving", "finalizing_evidence", "preserved"} =>
          dossiers[mem.evidence] # "none"
    /\ status = "preserved" =>
          dossiers[mem.evidence] = "preserved" /\ archive[mem.operation] = "preserved"

\* The stored checkpoint never runs ahead of the sink and the archive: the
\* revision it names exists, a checkpoint that says "preserved" is backed by both.
CheckpointIsBacked ==
    /\ cp.revision # 0 => dossiers[cp.evidence] # "none"
    /\ cp.revision = 2 => dossiers[cp.evidence] \in {"preserved", "failed"}
    /\ cp.status = "preserved" => cp.revision = 2 /\ archive[cp.operation] = "preserved"
    /\ cp.authority = "preserved" => cp.status = "preserved"

\* The archive decides nothing before the audit anchor (revision 1) is durable,
\* and a final dossier tells what the archive did decide.
DossierTellsOutcome ==
    /\ \A o \in Ids : archive[o] # "none" => \E e \in Ids : dossiers[e] # "none"
    /\ \A e \in Ids : dossiers[e] \in {"preserved", "failed"} =>
                        \E o \in Ids : archive[o] = dossiers[e]

\* No word of the workflow, in its state, in its checkpoint or in a dossier, is
\* ahead of what the sink and the archive did, through retries, lost answers,
\* deaths and reconciliation (workflow.ts:546-843).
WordsAreBacked == TypeOK /\ EvidenceIsBacked /\ CheckpointIsBacked /\ DossierTellsOutcome

\* Once a checkpoint holds an evidence id or a preservation operation id, no
\* dossier and no handoff is made under another one: retries and restarts after
\* it repeat the same effect.
EffectsKeepTheirIdentity ==
    [][/\ \A e \in Ids :
            dossiers'[e] # dossiers[e] /\ cp.evidence # 0 => e = cp.evidence
       /\ \A o \in Ids :
            archive'[o] # archive[o] /\ cp.operation # 0 => o = cp.operation]_vars

\* An upload that a checkpoint records as complete stays recorded as complete:
\* no late failure report of a stale object reopens it.
UploadAuthorityIsKept ==
    [][cp.authority \notin {"none", "prepared"} => cp'.authority # "prepared"]_vars

\* When a call of an adapter settles with a result after the application stopped
\* the workflow, the run starts no further effect.
Settles == {"idle", "dead", "putFailed", "putReconcile"}
StopEndsTheRun ==
    [][final /\ pc \in EffectStates \cup ReconcileStates /\ pc' # pc =>
         pc' \in Settles \cup ReconcileStates]_vars

\* No step repeats an effect under another identity, takes a recorded upload back
\* or goes on after a stop (workflow.ts:412-504, 679-700, 898-941).
StepsKeepFaith == EffectsKeepTheirIdentity /\ UploadAuthorityIsKept /\ StopEndsTheRun

\* Every promise of start, resume and retry settles: there is no wait that a
\* stop, a conflict or a failed put leaves behind.
EveryRunSettles == (pc \in RunStates) ~> (pc \notin RunStates)

\* A status or a stored checkpoint that tells of a finished upload is true: the
\* provider has completed it.
UploadClaims ==
    {"uploaded_unverified", "verifying", "verified", "persisting_evidence",
     "evidence_persisted", "preserving", "finalizing_evidence", "preserved"}
ClaimsAreTrue ==
    /\ status \in UploadClaims => remote
    /\ cp.authority \notin {"none", "prepared"} => remote

\* In a process that is not killed and whose workflow is not stopped, retrying
\* brings the workflow to its end, to the state that asks for reconciliation, or to
\* an upload that ended before it had a resume record to retry from.
Undisturbed ==
    /\ [](restarts = 0 /\ status \notin {"canceled", "stopped"})
    /\ <>[][~(Pause \/ CancelUpload)]_vars
OutOfRetries ==
    \/ final
    \/ status = "reconciliation_required"
    \/ status \in {"paused", "upload_failed"} /\ ~mem.record
RetryFinishes == Undisturbed => <>OutOfRetries

\* "canceled" and "stopped" are terminal: a workflow object stays so.
StoppedIsFinal ==
    [][(status \in {"canceled", "stopped"} /\ pc' # "dead") => UNCHANGED status]_vars

\* An upload that a retry completes goes on to its verification.
RetriedUploadGoesOn ==
    [][(rec' = "completed" /\ rec # "completed" /\ mem.retrying)
        => status' = "uploaded_unverified"]_vars

\* The original is handed to the archive once.
HandoffHappensOnce == Cardinality({o \in Ids : archive[o] # "none"}) <= 1

==============================================================================
