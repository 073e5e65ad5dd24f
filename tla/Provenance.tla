------------------------------ MODULE Provenance -----------------------------
(***************************************************************************)
(* The provenance recorder of src/src/provenance.ts: the events of upload  *)
(* sessions and the calls of an application append entries to one          *)
(* recorder; seal() turns it into a hashed artifact, which is validated,   *)
(* exported and persisted.                                                 *)
(*                                                                         *)
(* Abstractions: an entry is its type.  The codes, times and metrics of an *)
(* entry, the manifest and the identity of the artifact are left out.  The *)
(* SHA-256 over the canonical form of a body is the body itself, which is  *)
(* what a digest can be compared for.  A call whose arguments are refused  *)
(* before the recorder changes is no step.                                 *)
(***************************************************************************)
EXTENDS Naturals, Sequences, FiniteSets, SequencesExt

CONSTANTS
    Progress,       \* the progress events of the sessions
    Profile,        \* options.disclosureProfile; annotations come with the full one
    Results,        \* results of a policy evaluation
    Codes,          \* conflict codes
    Ids,            \* ids of derivatives and of attestations
    MaxEntries,     \* MAX_ENTRIES
    MaxCodes,       \* MAX_CODES
    MaxDerivatives, \* MAX_DERIVATIVES
    MaxAttestations,\* MAX_ATTESTATIONS
    MaxCount,       \* a bound: resumes, and receipts an application adds
    MaxCalls,       \* a bound: calls of the application to the recorder
    MaxSeals        \* a bound: calls of seal()

VARIABLES
    session,   \* what the sessions that feed the recorder last reported
    first,     \* the first outcome they reported (history)
    rec,       \* the state of the recorder
    sealing,   \* the body seal() hashes, or None
    artifact,  \* the artifact the application holds, or None
    persisted, \* the artifact its sink holds, or None
    calls, seals

provenance == <<session, first, rec, sealing, artifact, persisted, calls, seals>>

None == [none |-> TRUE]

Disclosure == {"audit", "authorized-full"}
Verdict == {"verified", "failed", "unavailable"}
Terminal == {"active", "completed", "completed_unverified", "verification_failed",
             "upload_failed", "canceled"}

-----------------------------------------------------------------------------
\* What an event of a session appends.  "validated" appends nothing.
EntryOf ==
    [started |-> "session_created", snapshot |-> "progress_snapshot",
     chunkStarted |-> "chunk_started", chunkCompleted |-> "acknowledgement",
     retry |-> "retry", available |-> "recovery_available", resumed |-> "resume",
     checkpoint |-> "recovery_checkpoint", conflict |-> "recovery_conflict",
     cleanupFailed |-> "recovery_cleanup_failed", expired |-> "recovery_expired",
     paused |-> "pause", uploadPaused |-> "pause", canceled |-> "cancellation",
     uploadCanceled |-> "cancellation", completed |-> "completion", failed |-> "failure"]

EntryType == {EntryOf[e] : e \in DOMAIN EntryOf} \cup
    {"preparation", "validation", "verification", "derivative", "attestation",
     "application_assertion"}

ASSUME ProvenanceAssumption ==
    /\ Progress \subseteq {"snapshot", "chunkStarted", "chunkCompleted", "retry",
                           "available", "checkpoint", "conflict", "expired"}
    /\ Profile \in Disclosure
    /\ MaxEntries \in Nat /\ MaxEntries >= 2
    /\ {MaxCodes, MaxDerivatives, MaxAttestations, MaxCount, MaxCalls, MaxSeals} \subseteq Nat
    /\ MaxCodes >= 1

\* The states of the sessions in which an event is emitted, and the next one: a
\* stop is two events, and a session may go on after a pause or a failure.
From ==
    [e \in DOMAIN EntryOf |->
        CASE e = "started" -> {"idle"}
          [] e = "resumed" -> {"idle", "paused", "failed"}
          [] e = "uploadPaused" -> {"pausing"}
          [] e = "uploadCanceled" -> {"canceling"}
          [] e = "cleanupFailed" -> {"completed"}
          [] OTHER -> {"running"}]
To ==
    [e \in DOMAIN EntryOf |->
        CASE e = "paused" -> "pausing"
          [] e = "uploadPaused" -> "paused"
          [] e = "canceled" -> "canceling"
          [] e = "uploadCanceled" -> "canceled"
          [] e \in {"completed", "cleanupFailed"} -> "completed"
          [] e = "failed" -> "failed"
          [] OTHER -> "running"]

TerminalOf ==
    [canceled |-> "canceled", uploadCanceled |-> "canceled",
     completed |-> "completed_unverified", failed |-> "upload_failed"]

-----------------------------------------------------------------------------
\* The state constructor of ProvenanceRecorder.
NewRecorder(result) ==
    [entries |-> <<"preparation", "validation">>, policies |-> <<result>>,
     conflicts |-> {}, resumes |-> 0, receipts |-> 0, verification |-> "none",
     derivatives |-> {}, attestations |-> {}, terminal |-> "active",
     profile |-> Profile, annotated |-> Profile = "authorized-full"]

Full(r) == Len(r.entries) >= MaxEntries

\* append(): it throws when the recorder is full, and what the call changed
\* before stays changed.
Appended(r, type) ==
    IF Full(r) THEN r ELSE [r EXCEPT !.entries = Append(@, type)]

\* setTerminal() throws on a second, other status.
Closes(r, status) == r.terminal \in {"active", status}

\* observeIngestEvent.
Observed(r, e) ==
    LET type == EntryOf[e] IN
    CASE e \in DOMAIN TerminalOf ->
            IF Closes(r, TerminalOf[e])
            THEN Appended([r EXCEPT !.terminal = TerminalOf[e]], type) ELSE r
      [] e = "chunkCompleted" ->
            IF Full(r) THEN r ELSE [Appended(r, type) EXCEPT !.receipts = @ + 1]
      [] e = "resumed" -> Appended([r EXCEPT !.resumes = @ + 1], type)
      [] OTHER -> Appended(r, type)

\* The event "resume:conflict" carries a code, which is added once.
Conflicted(r, code) == Appended([r EXCEPT !.conflicts = @ \cup {code}], "recovery_conflict")

\* A bound: one thing is recorded during the last seal(), and nothing after it.
Recording == seals < MaxSeals \/ sealing = rec

\* A session keeps the throw of an observer to itself.
Observe(e) ==
    /\ Recording /\ session \in From[e]
    /\ e = "resumed" => rec.resumes < MaxCount
    /\ session' = To[e]
    /\ first' = IF first = "active" /\ e \in DOMAIN TerminalOf THEN TerminalOf[e] ELSE first
    /\ \/ e # "conflict" /\ rec' = Observed(rec, e)
       \/ e = "conflict" /\ \E c \in Codes : rec' = Conflicted(rec, c)
    /\ UNCHANGED <<sealing, artifact, persisted, calls, seals>>

-----------------------------------------------------------------------------
\* The calls of an application: each leaves the sessions and artifacts alone.
Recorded(r) ==
    /\ Recording /\ calls < MaxCalls /\ calls' = calls + 1
    /\ rec' = r
    /\ UNCHANGED <<session, first, sealing, artifact, persisted, seals>>

RecordEntry == ~Full(rec) /\ Recorded(Appended(rec, "application_assertion"))

\* recordRecovery adds the conflict code after the counts it may refuse.
RecordRecovery(code) ==
    Recorded(Appended([rec EXCEPT !.conflicts = @ \cup {code}], "application_assertion"))

RecordTransportEvidence ==
    /\ rec.receipts < MaxCount
    /\ Recorded(Appended([rec EXCEPT !.receipts = @ + 1], "application_assertion"))

\* As MayVerify, before the upload has an outcome too.
MayVerifyEarly(r) == r.terminal # "canceled"
MayVerify(r) == r.terminal \in {"completed_unverified", "completed", "verification_failed"}
StatusOf(verdict) ==
    CASE verdict = "verified" -> "completed"
      [] verdict = "failed" -> "verification_failed"
      [] verdict = "unavailable" -> "completed_unverified"

RecordVerification(verdict) ==
    /\ MayVerify(rec)
    /\ Recorded(Appended([rec EXCEPT !.verification = verdict,
                                     !.terminal = StatusOf(verdict)], "verification"))

\* The reference of a derivative with the same id is replaced; there is no limit.
RecordDerivative(id) ==
    Recorded(Appended([rec EXCEPT !.derivatives = @ \cup {id}], "derivative"))

RecordExternalAttestation(id) ==
    /\ id \notin rec.attestations
    /\ Cardinality(rec.attestations) < MaxAttestations
    /\ Recorded(Appended([rec EXCEPT !.attestations = @ \cup {id}], "attestation"))

RecordPolicyEvaluation(result) ==
    /\ Len(rec.policies) < MaxCodes
    /\ Recorded(Appended([rec EXCEPT !.policies = Append(@, result)], "validation"))

-----------------------------------------------------------------------------
\* validateArtifactShape, the parts a recorder can get wrong: its limits, and
\* the profile under which annotations are disclosed.
PoliciesFit(b) == Len(b.policies) \in 1 .. MaxCodes
RecoveryFits(b) == Cardinality(b.conflicts) <= MaxCodes
EntriesFit(b) == Len(b.entries) \in 1 .. MaxEntries
DerivativesFit(b) == Cardinality(b.derivatives) <= MaxDerivatives
AttestationsFit(b) == Cardinality(b.attestations) <= MaxAttestations
AnnotationsMayBeThere(b) == b.annotated => b.profile = "authorized-full"

WellShaped(b) ==
    /\ PoliciesFit(b) /\ RecoveryFits(b) /\ EntriesFit(b)
    /\ DerivativesFit(b) /\ AttestationsFit(b) /\ AnnotationsMayBeThere(b)

Has(b, type) == type \in ToSet(b.entries)
FirstIndex(b, type) == SelectInSeq(b.entries, LAMBDA t : t = type)

\* validateEntryRelationships.
WellOrdered(b) ==
    /\ Len(b.entries) >= 2 /\ b.entries[1] = "preparation" /\ b.entries[2] = "validation"
    /\ b.verification # "none" =>
        Has(b, "completion") /\ FirstIndex(b, "verification") > FirstIndex(b, "completion")

\* validateTerminalRelationships.
Outcomes(b) == {type \in {"completion", "cancellation", "failure"} : Has(b, type)}
ExpectedTerminal(b) ==
    IF Has(b, "failure") THEN "upload_failed"
    ELSE IF Has(b, "cancellation") THEN "canceled"
    ELSE IF ~Has(b, "completion") THEN "active"
    ELSE IF b.verification = "none" THEN "completed_unverified"
    ELSE StatusOf(b.verification)
TerminalAgrees(b) ==
    Cardinality(Outcomes(b)) <= 1 /\ ExpectedTerminal(b) = b.terminal

\* An artifact is a body and the digest of the body it was hashed from.
Artifact(b) == [body |-> b, digest |-> b]
HashAgrees(a) == a.digest = a.body

\* validateIngestProvenance.
Validates(a) ==
    /\ WellShaped(a.body) /\ WellOrdered(a.body) /\ TerminalAgrees(a.body)
    /\ HashAgrees(a)

-----------------------------------------------------------------------------
\* seal() takes the body before it awaits the digest; the recorder goes on.
Seal ==
    /\ sealing = None /\ seals < MaxSeals
    /\ sealing' = rec /\ seals' = seals + 1
    /\ UNCHANGED <<session, first, rec, artifact, persisted, calls>>

\* It checks the shape alone, and gives the artifact out frozen.
Sealed ==
    /\ sealing # None
    /\ sealing' = None
    /\ artifact' = IF WellShaped(sealing) THEN Artifact(sealing) ELSE artifact
    /\ UNCHANGED <<session, first, rec, persisted, calls, seals>>

\* exportIngestProvenance hashes the projection anew, after it validated.
Projected(b, profile) ==
    [b EXCEPT !.profile = profile, !.annotated = @ /\ profile = "authorized-full"]
Export(profile) ==
    /\ artifact # None /\ Validates(artifact)
    /\ artifact' = Artifact(Projected(artifact.body, profile))
    /\ UNCHANGED <<session, first, rec, sealing, persisted, calls, seals>>

\* persistIngestProvenance; a sink that throws leaves what it held.
Persist ==
    /\ artifact # None /\ Validates(artifact)
    /\ persisted' = artifact
    /\ UNCHANGED <<session, first, rec, sealing, artifact, calls, seals>>

\* External: the application reads back an artifact that lost an entry or was
\* given another status since it was sealed.
Alter ==
    /\ artifact # None
    /\ artifact' \in {[artifact EXCEPT !.body.entries = Front(@)],
                     [artifact EXCEPT !.body.terminal = "completed"]}
    /\ HashAgrees(artifact) /\ artifact' # artifact
    /\ UNCHANGED <<session, first, rec, sealing, persisted, calls, seals>>

-----------------------------------------------------------------------------
ProvenanceInit ==
    /\ session = "idle" /\ first = "active"
    /\ \E result \in Results : rec = NewRecorder(result)
    /\ sealing = None /\ artifact = None /\ persisted = None
    /\ calls = 0 /\ seals = 0

ProvenanceNext ==
    \/ \E e \in Progress \cup {"started", "resumed", "paused", "uploadPaused", "canceled",
                               "uploadCanceled", "completed", "failed", "cleanupFailed"} :
            Observe(e)
    \/ RecordEntry
    \/ \E c \in Codes : RecordRecovery(c)
    \/ RecordTransportEvidence
    \/ \E v \in Verdict : RecordVerification(v)
    \/ \E id \in Ids : RecordDerivative(id)
    \/ \E id \in Ids : RecordExternalAttestation(id)
    \/ \E result \in Results : RecordPolicyEvaluation(result)
    \/ Seal
    \/ Sealed
    \/ \E profile \in Disclosure : Export(profile)
    \/ Persist
    \/ Alter

ProvenanceSpec == ProvenanceInit /\ [][ProvenanceNext]_provenance

-----------------------------------------------------------------------------
\* Bodies the recorder can be in.
BodyOK(b) ==
    /\ b.entries \in Seq(EntryType) /\ Len(b.entries) <= MaxEntries
    /\ b.policies \in Seq(Results) /\ Len(b.policies) <= MaxCodes
    /\ b.conflicts \subseteq Codes
    /\ {b.resumes, b.receipts} \subseteq Nat
    /\ b.verification \in Verdict \cup {"none"}
    /\ b.derivatives \subseteq Ids /\ b.attestations \subseteq Ids
    /\ b.terminal \in Terminal
    /\ b.profile \in Disclosure /\ b.annotated \in BOOLEAN

\* Every value is in its range; a recorder within its limits holds no more
\* attestations and evaluations than an artifact may (provenance.ts:632-647).
TypeOK ==
    /\ session \in {To[e] : e \in DOMAIN To} \cup {"idle"}
    /\ first \in Terminal
    /\ BodyOK(rec) /\ Cardinality(rec.attestations) <= MaxAttestations
    /\ sealing = None \/ BodyOK(sealing)
    /\ \A a \in {artifact, persisted} : a # None => BodyOK(a.body) /\ BodyOK(a.digest)

\* Whatever sessions and the application told the recorder, and in whatever
\* order, what it seals is what the validator accepts, unless it was full:
\* seal() itself checks the shape only (provenance.ts:675).
SealedIsValid ==
    artifact # None /\ HashAgrees(artifact) /\ ~Full(artifact.body) => Validates(artifact)

\* The status is the first outcome a session reported, with the verdict on a
\* completed one: later events of a session, or of the next one that resumes
\* the upload, change nothing (setTerminal, provenance.ts:702).
FirstOutcomeStays ==
    IF first = "completed_unverified" THEN MayVerify(rec) ELSE rec.terminal = first

\* A sink never gets an artifact that was changed since it was sealed, however
\* often it was altered, exported and sealed again before.
PersistedIsSealed ==
    persisted # None =>
        HashAgrees(persisted) /\ IsPrefix(persisted.body.entries, rec.entries)

\* Whatever is told to a recorder, and however often it seals, what leaves it is
\* valid, unchanged and says how the upload ended first (provenance.ts:649-708,
\* 823-853).
RecorderIsTrue == TypeOK /\ SealedIsValid /\ FirstOutcomeStays /\ PersistedIsSealed
=============================================================================
