---------------------------- MODULE EvidenceBundle ---------------------------
(***************************************************************************)
(* Two users of the provenance recorder, one at a time: an application     *)
(* (module Provenance), and the verified-ingest workflow, which seals the  *)
(* record of a verified upload, builds an evidence bundle on it            *)
(* (src/src/evidence-bundle.ts) and gives both to an evidence sink, whose  *)
(* answers can be lost; what it knows it saves in a checkpoint, whose put  *)
(* can be refused, and a process that dies is followed by one that starts  *)
(* from the checkpoint; a reader validates what it finds in the sink.      *)
(*                                                                         *)
(* The control of the workflow is that of module VerifiedIngest; here are  *)
(* the contents of a bundle.  The profile evaluation, the categories and   *)
(* the handoff are left out, and the digest of a bundle is its body, as    *)
(* that of an artifact is.  A call of the sink and the put that follows it *)
(* are one step: a death between the two leaves what a refused put and a   *)
(* death leave.                                                            *)
(***************************************************************************)
EXTENDS Provenance

CONSTANTS
    MaxSends,   \* a bound: calls of the evidence sink for one workflow
    MaxRestarts \* a bound: deaths of the workflow's process

\* The record of a workflow has six entries at least, and two evaluations: the
\* limits of a recorder are far above that.
ASSUME BundleAssumption ==
    /\ {MaxSends, MaxRestarts} \subseteq Nat
    /\ MaxEntries >= 6 /\ MaxCodes >= 2 /\ "passed" \in Results

VARIABLES
    user,     \* who records: the application or the workflow
    step,     \* what the workflow does next
    wanted,   \* a preservation target is configured
    evidence, \* the number of its evidenceId, 0 for none; the operation id of
              \* the persistence is made and saved with it
    closing,  \* the operation id of the finalization, 0 for none
    outcome,  \* preservationOutcome
    held,     \* the revision it has a receipt for (evidenceReference), 0 for none
    sealed,   \* its artifact, or None
    bundle,   \* its bundle, or None
    pending,  \* pendingFinalBundle, or None
    saved,    \* the checkpoint
    sink,     \* the dossiers in the sink
    altered,  \* a dossier is no longer what was persisted
    sends, restarts

memory == <<evidence, closing, outcome, held, sealed, bundle, pending>>
workflow == <<step, wanted, memory, saved, sink, altered, sends, restarts>>
vars == <<user, provenance, workflow>>

Handoff == {"preserved", "failed"}

\* Ids are numbered by the process that makes them.
Process == restarts + 1
OwnId(id) == IF id = 0 THEN Process ELSE id

StageOrder ==
    <<"preparation", "upload", "upload_completion", "verification", "evidence_persistence",
      "preservation", "evidence_finalization">>
FirstStages == <<"upload", "verification", "evidence_persistence">>

-----------------------------------------------------------------------------
\* createIngestEvidenceBundle: it wants a completion in the artifact it cites,
\* and says "completed" and "verified" whatever else that artifact says.
Bundle(body) == [body |-> body, digest |-> body]

Trust(a) == IF a.body.attestations = {} THEN "unsigned" ELSE "externally_attested"

\* head: the id, the revision, and the processes whose clock and attempts it holds:
\* the one that built it, and the one whose createdAt it has.
Body(head, a, preservation, terminal, stages) ==
    [head |-> head, cites |-> a.digest, actorTrust |-> Trust(a),
     preservation |-> preservation, terminal |-> terminal, stages |-> stages]

CanBundle(a) == Has(a.body, "completion")

\* runInitialEvidencePersistence
FirstBundle(id, a) ==
    Bundle(Body([id |-> id, revision |-> 1, made |-> Process, built |-> Process], a,
        IF wanted THEN "pending" ELSE "not_requested",
        [classification |-> IF wanted THEN "nonterminal" ELSE "success",
         state |-> "evidence_persisted", authority |-> "evidence_persisted"],
        FirstStages))

\* finalizePreservation, on the bundle it has: a first revision, or a final one
\* that it was given a receipt for before.
FinalBundle(prior, a, result) ==
    Bundle(Body([id |-> prior.body.head.id, revision |-> 2, made |-> prior.body.head.made,
                 built |-> Process], a, result,
        [classification |-> IF result = "preserved" THEN "success" ELSE "failure",
         state |-> IF result = "preserved" THEN "preserved" ELSE "preservation_failed",
         authority |-> IF result = "preserved" THEN "preserved" ELSE "evidence_persisted"],
        prior.body.stages \o <<"preservation", "evidence_finalization">>))

\* validStages: a stage at most once, in the order of STAGE_ORDER, and the three
\* every bundle has.
ValidStages(stages) ==
    /\ Len(stages) \in 1 .. Len(StageOrder)
    /\ \A i \in 1 .. Len(stages) - 1 :
        \E j, k \in DOMAIN StageOrder :
            StageOrder[j] = stages[i] /\ StageOrder[k] = stages[i + 1] /\ j < k
    /\ {"upload", "verification", "evidence_persistence"} \subseteq ToSet(stages)

\* bundleStateRelationships
StatesAgree(b) ==
    LET Is(revision, class, state, authority) ==
            /\ b.head.revision = revision
            /\ b.terminal = [classification |-> class, state |-> state, authority |-> authority]
    IN  CASE b.preservation = "not_requested" ->
                Is(1, "success", "evidence_persisted", "evidence_persisted")
          [] b.preservation = "pending" ->
                Is(1, "nonterminal", "evidence_persisted", "evidence_persisted")
          [] b.preservation = "preserved" -> Is(2, "success", "preserved", "preserved")
          [] b.preservation = "failed" ->
                Is(2, "failure", "preservation_failed", "evidence_persisted")

Cites(b, a) == b.cites = a.digest /\ b.actorTrust = Trust(a)

\* As BundleValid, with no look at the digests.
BundleWellFormed(b, a) == ValidStages(b.body.stages) /\ StatesAgree(b.body)

\* validateIngestEvidenceBundle, given the artifact the bundle should cite.
BundleValid(b, a) ==
    /\ b.digest = b.body
    /\ ValidStages(b.body.stages) /\ StatesAgree(b.body)
    /\ Cites(b.body, a)

-----------------------------------------------------------------------------
\* The recorder of a workflow whose upload was completed and verified: one that
\* saw the upload begin, or one rebuilt from a checkpoint.
Evaluated ==
    Appended([NewRecorder("passed") EXCEPT !.policies = Append(@, "passed")], "validation")
Verified(r) ==
    Appended([r EXCEPT !.verification = "verified", !.terminal = StatusOf("verified")],
             "verification")
Followed == Verified(Observed(Observed(Evaluated, "started"), "completed"))
Rebuilt == Verified(Observed(Evaluated, "completed"))

\* What a call gives the sink.
Dossier(revision, operation, b) ==
    [id |-> evidence, revision |-> revision, operation |-> operation,
     artifact |-> sealed, bundle |-> b]
First == Dossier(1, evidence, bundle)
Final == Dossier(2, closing, pending)

\* External: an evidence sink, as docs/server-operational-guide.md:88 wants it. It
\* takes a revision on top of the one before (expectedRevision) and replaces none;
\* it may fail before or after it took one.
MayTake(d) ==
    /\ \A e \in sink : e.id = d.id => e.revision < d.revision
    /\ d.revision = 2 => \E e \in sink : e.id = d.id
Send(d) ==
    /\ sends < MaxSends /\ sends' = sends + 1
    /\ sink' = sink \/ (MayTake(d) /\ sink' = sink \cup {d})

\* It says so at once or when asked again (reconcile), which is by operation.
Found(d) ==
    \E e \in sink' : e.id = d.id /\ e.revision = d.revision /\ e.operation = d.operation

\* persistCheckpoint. The statuses are those runResume tells apart.
Checkpoint(status) ==
    [status |-> status, evidence |-> evidence', revision |-> held',
     closing |-> closing', outcome |-> outcome']

\* fail: a put that is refused leaves a workflow that waits to be reconciled.
FailsAs(status, next) ==
    \/ saved' = Checkpoint(status) /\ step' = next
    \/ saved' = saved /\ step' = "unknown"

\* reconciliationRequired: it puts, and takes no notice of a refusal.
Ambiguous == step' = "unknown" /\ saved' \in {saved, Checkpoint("ambiguous")}

\* The workflow seals and bundles, or keeps the bundle of an earlier attempt.
SealAndBundle ==
    /\ step = "verified"
    /\ evidence' = OwnId(evidence)
    /\ sealed' = Artifact(rec)
    /\ bundle' = IF bundle # None /\ bundle.body.head.id = evidence'
                                  /\ bundle.body.head.revision = 1
                 THEN bundle ELSE FirstBundle(evidence', sealed')
    /\ UNCHANGED <<closing, outcome, held, pending>>
    /\ IF CanBundle(sealed') /\ BundleValid(bundle', sealed')
       THEN step' = "sending" /\ saved' = saved
       ELSE FailsAs("pending", "invalid")
    /\ UNCHANGED <<wanted, sink, altered, sends, restarts>>

\* The sink has it; a put that is refused makes the stage one to be retried.
FirstPersisted ==
    /\ step = "sending" /\ Send(First) /\ Found(First)
    /\ held' = 1
    /\ UNCHANGED <<evidence, closing, outcome, sealed, bundle, pending>>
    /\ \/ saved' = Checkpoint("persisted") /\ step' = IF wanted THEN "persisted" ELSE "done"
       \/ FailsAs("pending", "verified")
    /\ UNCHANGED <<wanted, altered, restarts>>

\* reconcile() does not find it, or fails itself: the persistence can be retried.
FirstFailed ==
    /\ step = "sending" /\ Send(First)
    /\ UNCHANGED memory /\ FailsAs("pending", "verified")
    /\ UNCHANGED <<wanted, altered, restarts>>

\* There is no reconcile().
FirstUnknown ==
    /\ step = "sending" /\ Send(First)
    /\ UNCHANGED memory /\ Ambiguous
    /\ UNCHANGED <<wanted, altered, restarts>>

\* The handoff ended, now or before a failure of the finalization, which keeps a
\* bundle it has already built.
Finalize(result) ==
    /\ step = "persisted" \/ (step = "unfinalized" /\ result = outcome)
    /\ outcome' = result /\ closing' = OwnId(closing)
    /\ pending' = IF pending # None THEN pending ELSE FinalBundle(bundle, sealed, result)
    /\ UNCHANGED <<evidence, held, sealed, bundle>>
    /\ IF BundleValid(pending', sealed)
       THEN step' = "finalizing" /\ saved' = saved
       ELSE FailsAs("unfinalized", "invalid")
    /\ UNCHANGED <<wanted, sink, altered, sends, restarts>>

\* A failed handoff ends in preservation_failed, which runResume takes as it takes
\* evidence_persisted.
FinalPersisted ==
    /\ step = "finalizing" /\ Send(Final) /\ Found(Final)
    /\ bundle' = pending /\ pending' = None /\ held' = 2
    /\ UNCHANGED <<evidence, closing, outcome, sealed>>
    /\ \/ outcome = "failed" /\ FailsAs("persisted", "done")
       \/ outcome = "preserved" /\ saved' = Checkpoint("preserved") /\ step' = "done"
       \/ outcome = "preserved" /\ FailsAs("unfinalized", "unfinalized")
    /\ UNCHANGED <<wanted, altered, restarts>>

FinalFailed ==
    /\ step = "finalizing" /\ Send(Final)
    /\ UNCHANGED memory /\ FailsAs("unfinalized", "unfinalized")
    /\ UNCHANGED <<wanted, altered, restarts>>

FinalUnknown ==
    /\ step = "finalizing" /\ Send(Final)
    /\ UNCHANGED memory /\ Ambiguous
    /\ UNCHANGED <<wanted, altered, restarts>>

-----------------------------------------------------------------------------
\* The process dies, or the application gives its workflow up, at any step; the
\* next one has the ids of the checkpoint and a recorder it rebuilds.
Restart ==
    /\ restarts < MaxRestarts /\ restarts' = restarts + 1
    /\ rec' = Rebuilt
    /\ evidence' = saved.evidence /\ closing' = saved.closing /\ pending' = None
    /\ UNCHANGED <<wanted, sink, altered, sends>>
Nothing == held' = 0 /\ outcome' = "none" /\ sealed' = None /\ bundle' = None

\* No evidence is persisted for all the checkpoint knows: it seals and bundles
\* anew, under the evidenceId the checkpoint names.
RestartPending ==
    /\ saved.status = "pending"
    /\ Restart /\ Nothing
    /\ step' = "verified" /\ saved' = saved

\* What the checkpoint says was persisted it does not name.
RestartUnnamed ==
    /\ saved.status # "pending" /\ saved.revision = 0
    /\ Restart /\ Nothing
    /\ FailsAs("pending", "refused")

\* As ArtifactOf, sealed once more.
ArtifactAnew(d) == Artifact(Rebuilt)

\* The artifact it goes on with is the one it reads back.
ArtifactOf(d) == d.artifact

Named(d) == d.id = saved.evidence /\ d.revision = saved.revision
Sound(d) ==
    /\ BundleValid(d.bundle, d.artifact)
    /\ d.bundle.body.head.id = d.id /\ d.bundle.body.head.revision = d.revision

\* It reads the dossier back that the checkpoint names, and goes on with it if it
\* is sound.
RestartPersisted ==
    /\ saved.status # "pending" /\ saved.revision # 0
    /\ Restart
    /\ \E d \in sink : Named(d) /\ Sound(d)
        /\ sealed' = ArtifactOf(d) /\ bundle' = d.bundle
        /\ step' = IF saved.status = "preserved" /\ d.bundle.body.preservation = "preserved"
                   THEN "done"
                   ELSE IF saved.status = "unfinalized" /\ saved.outcome # "none"
                   THEN "unfinalized"
                   ELSE IF wanted THEN "persisted" ELSE "refused"
    /\ held' = saved.revision /\ outcome' = saved.outcome
    /\ saved' = saved

RestartOnUnsound ==
    /\ saved.status # "pending" /\ saved.revision # 0
    /\ Restart /\ Nothing
    /\ \E d \in sink : Named(d) /\ ~Sound(d)
    /\ FailsAs("pending", "refused")

\* External: a dossier is read back with the bundle of another, with a stage or
\* a status that was not persisted.
AlterDossier ==
    /\ ~altered /\ altered' = TRUE
    /\ \E d \in sink :
        LET others == {e.bundle : e \in sink}
            changed == {[d.bundle EXCEPT !.body.preservation = "not_requested"],
                        [d.bundle EXCEPT !.body.stages = Front(@)],
                        Bundle([d.bundle.body EXCEPT !.stages = Reverse(@)])}
        IN  \E b \in (others \cup changed) \ {d.bundle} :
                sink' = (sink \ {d}) \cup {[d EXCEPT !.bundle = b]}
    /\ UNCHANGED <<step, wanted, memory, saved, sends, restarts>>

-----------------------------------------------------------------------------
\* The checkpoint "verified" is put; it names no evidence.
Init ==
    /\ user \in {"application", "workflow"}
    /\ wanted \in BOOLEAN
    /\ IF user = "application" THEN ProvenanceInit /\ wanted
       ELSE /\ rec = Followed /\ session = "completed" /\ first = "completed_unverified"
            /\ sealing = None /\ artifact = None /\ persisted = None
            /\ calls = 0 /\ seals = 0
    /\ step = "verified" /\ evidence = 0 /\ closing = 0 /\ outcome = "none" /\ held = 0
    /\ sealed = None /\ bundle = None /\ pending = None
    /\ saved = [status |-> "pending", evidence |-> 0, revision |-> 0, closing |-> 0,
                outcome |-> "none"]
    /\ sink = {} /\ altered = FALSE /\ sends = 0 /\ restarts = 0

Idle == UNCHANGED <<user, provenance>>
Restarted == UNCHANGED <<user, session, first, sealing, artifact, persisted, calls, seals>>

Next ==
    \/ user = "application" /\ ProvenanceNext /\ UNCHANGED <<user, workflow>>
    \/ user = "workflow" /\ Idle /\ SealAndBundle
    \/ user = "workflow" /\ Idle /\ FirstPersisted
    \/ user = "workflow" /\ Idle /\ FirstFailed
    \/ user = "workflow" /\ Idle /\ FirstUnknown
    \/ user = "workflow" /\ Idle /\ \E result \in Handoff : Finalize(result)
    \/ user = "workflow" /\ Idle /\ FinalPersisted
    \/ user = "workflow" /\ Idle /\ FinalFailed
    \/ user = "workflow" /\ Idle /\ FinalUnknown
    \/ user = "workflow" /\ Restarted /\ RestartPending
    \/ user = "workflow" /\ Restarted /\ RestartUnnamed
    \/ user = "workflow" /\ Restarted /\ RestartPersisted
    \/ user = "workflow" /\ Restarted /\ RestartOnUnsound
    \/ user = "workflow" /\ Idle /\ AlterDossier

Spec == Init /\ [][Next]_vars

-----------------------------------------------------------------------------
\* What the workflow builds is what the validator accepts: its own bundle stops it
\* only where it finalizes a final revision once more, after the put of "preserved"
\* was refused or a failed handoff was resumed (workflow.ts:609, 778).
BundlesAreValid == step = "invalid" => held = 2

\* A final revision in the sink stands on a first one that waited for the handoff,
\* and goes on with its stages; of the one it was built on it cites the artifact.
\* It need not be built on that one: see SameBytes.
Continues(e, d) ==
    /\ d.id = e.id /\ d.revision = 1
    /\ d.bundle.body.preservation = "pending"
    /\ IsPrefix(d.bundle.body.stages, e.bundle.body.stages)
    /\ d.bundle.body.head.made = e.bundle.body.head.made =>
        d.artifact = e.artifact /\ d.bundle.body.cites = e.bundle.body.cites
DossiersAgree ==
    ~altered => \A e \in sink : e.revision = 2 => \E d \in sink : Continues(e, d)

\* A revision the workflow has a receipt for is in the sink, and is the one it
\* holds, unless another process built the one in the sink.
HeldIsStored ==
    ~altered /\ held # 0 => \E d \in sink :
        /\ d.id = evidence /\ d.revision = held
        /\ d.bundle.body.head.built = bundle.body.head.built =>
            d.bundle = bundle /\ d.artifact = sealed

\* The revisions a workflow builds validate, belong together and are in the sink,
\* across lost answers, refused puts, retries and deaths (spec 019 FR-035).
RevisionsHold == BundlesAreValid /\ DossiersAgree /\ HeldIsStored

\* Whatever a dossier was changed to while the process was down, the workflow
\* goes on with evidence that agrees with itself and with the artifact it cites.
ContinuesOnSound ==
    bundle # None /\ sealed # None =>
        bundle.digest = bundle.body /\ bundle.body.cites = sealed.digest

\* What docs/verified-ingest-workflow.md:72 says of a rejected or lost persistence:
\* it is retried with the same evidence id, revision, bytes and operation id. A
\* process that resumes it has the ids, and builds another bundle (workflow.ts:348).
SameBytes ==
    step = "sending" /\ ~altered =>
        \A d \in sink : d.id = evidence /\ d.revision = 1 => d.bundle = bundle

\* What spec 019, data-model.md:89-90, says of a failed finalization: it is retried.
\* Once the final revision is persisted and the put of "preserved" is refused, each
\* retry finalizes that revision, names its stages twice and stops at its own
\* validation (workflow.ts:741, 759, 782, 818).
FinalizationRetries == step # "invalid"
=============================================================================
