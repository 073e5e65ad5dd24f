# A verification of large-image-ingest in TLA+

`large-image-ingest` uploads very large inspection images in chunks, survives
closed tabs and dead processes, and keeps evidence of what happened: a durable
resume record per upload, a checkpoint per workflow, a dossier per original.
The difficulty is not in any one function. It is in what is left when a promise
rejects, an acknowledgement is lost, a process dies between two stores, or the
application calls `cancel()` in the middle of an await. That is what these
modules are about.

All paths below are relative to the repository; the SDK's source is `src/src/`.

## 1. The system

| Component | Source | State | Operations | Modelled |
| --- | --- | --- | --- | --- |
| Upload session | `session.ts`, `chunks.ts` | receipts, current record, transport session, lifecycle action, abort signal, snapshot | start, resume, pause, cancel, abort | `IngestSession` (sequential loop) |
| Parallel chunk pool | `session.ts:629-804`, `1248-1426` | cursor, commit queue, ambiguous and failed chunks | worker, commit, reconcile | `ParallelTransfer`, `ChunkEvidence` |
| Resume record | `resume.ts`, `web-storage-resume-store.ts` | ranges, receipts, bytes, next index, status, expiry | merge, normalize, parse, classify | `ResumeRanges`, `ChunkEvidence`, `IngestSession` |
| tus transport | `tus.ts` | upload URL, offset | create, PATCH, HEAD, complete, resume, terminate | `TusTransport` |
| S3 transport | `s3.ts` | upload id, parts, receipts | create, sign and put, complete, reconcile, abort | `S3Transport` |
| Checksum and Worker | `checksum.ts`, `browser.ts`, `checksum-worker-runtime.ts` | block buffer, worker, settled flag | calculate, progress, abort, fall back | `ChecksumRun` |
| Verified-ingest workflow | `workflow.ts`, `workflow-checkpoint.ts`, `workflow-types.ts` | state, checkpoint revision, operation ids, bundle, outcome | start, resume, retry, pause, cancel | `VerifiedIngest` |
| Provenance recorder | `provenance.ts` | up to 4096 entries, counts, terminal status | observe, record, seal, validate, export, persist | `Provenance` |
| Evidence bundle | `evidence-bundle.ts` | none (sealed values) | create, validate, finalize | `EvidenceBundle` |
| NAS gateway | `nas.ts` | staging directory, metadata file, chunk files, file lock, target | create, stage, get, finalize, cancel, clean up | `NasGateway` |
| React coordinator and controller | `react-ui/coordinator.ts`, `react-controller.ts` | generation, source, recovery choices, requested action, active session, verification | select, remove, start, resume, pause, cancel, discard, verify | `InspectionUpload` |
| Preservation export | `preservation.ts` | staging and destination directories | plan, write BagIt or OCFL, validate, publish | `PreservationExport` |
| Conformance suite | `conformance.ts` | results | run scenarios, judge, report, validate | `Conformance` (transport suite) |
| Domain profiles | `profiles.ts` | profiles | derive, validate, evaluate | `DomainProfiles` |
| Receipt verification | `verification.ts`, `node-verification.ts` | none | compare receipts with the manifest | `ChunkEvidence` (receipts) |
| Manifest, derivatives, TIFF, diagnostics, components, Node adapters | the other files | none | functions over values, rendering | no |

How they interact: the *workflow* creates one *session* per upload attempt,
observes its snapshots and events (which feed the *recorder*), and after the
upload calls four adapters of the application in turn: a verifier, an evidence
sink, a preservation handoff, and again the sink. After each step it puts a
checkpoint with the revision it expects (compare and swap). The *session* calls
a transport (create, upload, complete, abort, resume) and a resume store (get,
put, delete). The React layer holds one session or workflow and renders its
snapshots. All of it is one JavaScript thread: a handler is never interrupted
before its next `await`, and everything that is hard happens between two awaits.

What makes each correct:

- **Session.** The record never claims what the provider lacks; nothing is
  completed without every chunk; a stop is honored and durable; every promise
  settles; no failure makes an upload impossible to resume.
- **Resume record.** What the session writes, the parser accepts, and ranges,
  receipts and bytes tell the same story.
- **Workflow.** No status or checkpoint claims more than the provider, the sink
  and the archive hold; an effect keeps its identity over retries and restarts;
  a stop starts nothing new; a stage that failed can be retried to the end.
- **Transports.** A receipt is given only for what the remote has; a completed
  object is whole; what has broken can be tried again, and tries end.
- **Checksum.** The digest is that of the file; an aborted call gives none.
- **NAS gateway.** One writer per session; the metadata and the target agree with
  the disk after every death; what was committed stays.
- **Coordinator.** What is shown is about the run that is shown; a result of an
  older generation changes nothing.
- **Recorder and bundle.** What is sealed is valid and says how the upload ended
  first; revision 2 stands on a revision 1 that is in the sink.
- **Export, suite, profiles.** A package is whole or not there, whether its export
  was reported or died after the rename, and damage to it is found; a report says
  what was observed; no profile weakens its base silently.

## 2. The modules

| Module | What it is |
| --- | --- |
| `ResumableUpload` | What an upload promises, in six small actions: the abstract specification |
| `IngestSession` | `session.ts`: session objects, the provider, the resume store; implements `ResumableUpload` |
| `MCIngestSession` | Symmetry and view for the run with two handles |
| `IngestSessionProofs` | Theorems about the session, for any number of handles, and for one |
| `ParallelTransferProofs`, `VerifiedIngestProofs`, `NasGatewayProofs` | Theorems about the pool, the workflow, the gateway |
| `TransportProofs` | Theorems about `TusTransport`, `S3Transport`, `ChunkEvidence` and `ChecksumRun` |
| `EvidenceBundleProofs` | Theorems about the recorder, the workflow's bundles and the sink |
| `InspectionUploadProofs` | Theorems about the coordinator |
| `AssuranceProofs` | Theorems about `PreservationExport`, `Conformance` and `DomainProfiles` |
| `ParallelTransfer` | the pool of `session.ts`; implements `ResumableUpload` too |
| `ChunkEvidence` | the checksums kept of a chunk, at its four readers |
| `ResumeRanges` | the progress of a record: its writer against its parser |
| `TusTransport`, `S3Transport` | the two adapters against a provider whose connections break |
| `ChecksumRun` | one checksum, inline or in a Worker |
| `MCTransports` | the last five as one root module: each behaviour is of one of them |
| `VerifiedIngest` | `workflow.ts` with its checkpoint store, sink and archive |
| `Provenance` | the recorder under an application |
| `EvidenceBundle` | the recorder under the workflow, the bundle and the sink; composes `Provenance` |
| `NasGateway` | gateway processes over one staging directory |
| `InspectionUpload` | the coordinator over the controller; `MCInspectionUpload` names its files |
| `PreservationExport`, `Conformance`, `DomainProfiles` | export, transport suite, derived profiles |
| `MCAssurance` | the last three as one root module |

The modules of `MCTransports` and of `MCAssurance` share no state. The root module
lets a behaviour be of one of them while the variables of the others rest, so that
the number of states is the sum, not the product, and one run has one report.

### IngestSession

A *handle* is a place that holds one session object after another. `pc[h]` is
the await it stands at, `served[h]` whether the awaited call has taken effect.
The variables carry the fields of the class: `want` is `lifecycleAction` with the
abort signal, `acked` is `completedReceipts`, `record` is `currentRecord`,
`linked` says that `currentTransportSession` is set. `store`, `remote`, `parts`
and `lapsed` are the resume store, the provider and the clock.

A call is three things: the handle issues it (`Await`, or `Put` for the store,
which replaces `currentRecord` first, as the code does), the callee takes
effect (`Serve...`), and the promise settles (`...Ok` needs the effect, `...Fail`
does not ask). A lost acknowledgement is a `Serve` followed by a `Fail`; a dead
process is `Crash` anywhere. `Proceed` is the head of the upload loop, `Fail`
and `Settle` are `handleSessionError`, with its abort of the transport session,
the mark on the record and the error it finally rejects with, which is the one
of the *last* request while the mark is the one captured first.

Simplified: chunks are indexes and ranges are sets of them (`ResumeRanges` is
the justification); the record is v0.3; the source does not change during a run
(a mismatch on resume is `LoadRefused`); the remote handle's expiry is set once
and not renewed; a call that its caller has abandoned does not take effect later.

### ResumeRanges

`session.ts` and `resume.ts` each compute ranges, bytes and the next index, with
different code. The model writes a record chunk by chunk in any order, or in one
go from reconciled receipts, and starts either from a new record or from any
record the parser accepts, legacy (v0.1) ones included. The algorithms are folds.

### ParallelTransfer

Workers are processes: `at[w]` is the await a worker stands at, `job[w]` its
chunk. `left` is the rest of the plan behind the shared cursor. An answer goes to
`queue`, the promise chain `commitQueue`; its head is committed in two steps,
because `receipts` and `current` change before the put and `active` after it.
`Arrive` is the provider's: a part is there before its answer is, and the answer
may be lost with a failed request or with the page. `Catch` is the catch block that
keeps the first failure and calls the chunk of a later one ambiguous. A refused put
may have been stored all the same (`Refuse`). The mapping to `ResumableUpload` takes
the record's receipts for `confirmed`: they only grow, and only with what the
provider has.

### TusTransport and S3Transport

Each has the adapter, as much of the session as drives it (order, retries,
checkpoint) and the server. A request can be cut before, during or after its
effect; a page can end with a request on the way, which then arrives late.
`TusTransport` keeps the server's content as the sequence of units it was sent, so
that a wrong offset would show. `S3Transport` keeps receipts in the order they
came, and completes with the list the code sorts and sends.

### ChunkEvidence and ChecksumRun

A checksum is that of the source, of other bytes, or one that does not decode. A
transport has a style of attesting, which it may or may not advertise. The session,
the parser, the session that resumes and the verification read the same evidence,
each by its own code, and the module says where they agree. In `ChecksumRun` a byte
is its position and a digest the padded sequence of positions, so that a byte
hashed twice, skipped or in the wrong block makes another digest. Blocks have four
bytes instead of 64, and the length two instead of eight.

### NasGateway

A step of a process is one file-system call that another can observe: the lock is
made and then named, the metadata is written beside and renamed, chunk files have a
generation that a sweep may remove, the target is joined in a temporary file,
verified, and renamed. A dead process leaves its lock, which grows stale.
`Disorders` lists the races that a deployment may not exclude: two creators of one
id, two claimants of one stale lock (or a lock that grows stale under a living
owner), another session with the same target. Section 4 says which properties fail
when they are let in.

### InspectionUpload

The panel has a source, a generation, a run and a list of choices. `listings`,
`identity`, `matchings` and `verifiers` are the awaits that are out: each holds the
generation and the list it began with, and an answer is used or dropped by exactly
the comparisons of the code. A session is the phases its snapshots show.

### Provenance and EvidenceBundle

`Provenance` has every call of the recorder; an entry is its type, and a digest is
the body it was taken of, so that a changed body is told by comparison.
`seal()` is two steps, since hashing is awaited and events go on. `EvidenceBundle`
extends it with the workflow's use: seal, build, persist, hand over, finalize, with
a sink that fails before or after it stored, checkpoints that are refused, a process
that dies at any step and a dossier that is altered in between.

The sink is external and keeps the contract of `docs/server-operational-guide.md:88`:
it takes a revision on top of the one before and replaces none (`MayTake`), and says
by operation id what it has (`Found`). A checkpoint (`saved`) has what `runResume`
reads: the status, the evidence id and revision, the operation ids and the outcome.
Which resume follows is decided by them, as in the code: a persistence that is pending
is sealed and bundled anew under the restored ids (`RestartPending`), a revision that
the checkpoint names is read back and judged by `validateIngestEvidenceBundle`
(`RestartPersisted`, `RestartOnUnsound`). A bundle has in its head the processes whose
clock and attempts it holds, so that two bundles that different processes build under
one id differ. Two things are one step that are two in the code: a call of the sink and
the put that follows it (a death between them leaves what a refused put and a death
leave), and a handoff and its answer, which `VerifiedIngest` has in steps.

### PreservationExport, Conformance, DomainProfiles

Exporters stage, write file after file, validate, look at the destination, rename and
report, while sources change and others publish to the same place. An exporter can die
at each of these steps: one that dies between the rename and the report leaves a whole
package that nobody was told of (`unreported`). rename is that of POSIX, which replaces
an empty directory. The suite takes whatever a target answers,
good or bad, and its report is read by the validator that the code exports. A
profile is derived from a published one and another from it, stored and read again,
also after an edit by hand, and evaluated on every evidence.

### VerifiedIngest

One process, one workflow object, any number of its own retries; it can die
`MaxRestarts` times and be resumed from the checkpoint. `pc` is the await,
`status` and `final` the state's status and whether it is terminal, `mem` the
remaining fields, `offer` what the put in flight says of the status, `cp` the
stored checkpoint. Sessions are one awaited call with the outcomes that
`IngestSession` gives them. `cancel()` changes the state and aborts, and the
run is not told: whether it notices is exactly what the code's `isTerminal`
checks decide, so `final` is tested only where the code tests it (`Unless`).
The final bundle can be built on revision 1 only (`Finalize`), because the
bundle's stages would repeat otherwise and its validation rejects it.

## 3. The runs

Deadlock is off everywhere: an application may stop calling, and the bounds end.

| Run | Configuration | Question |
| --- | --- | --- |
| `ingest_solo` | 1 handle, 3 chunks, 2 attempts, the record is deleted at the end | is anything forgotten or sent twice, do stops hold, do runs settle, is `ResumableUpload` kept |
| `ingest_shared` | 2 handles, 2 chunks, 1 attempt, the record is kept | which safety survives two tabs on one record |
| `ingest_recovery` | 1 handle, 2 chunks, 1 attempt, the record is kept | does resuming always lead to the end |
| `parallel_transfer` | 2 workers, 3 chunks, 2 attempts, 2 runs, 1 refused put, 1 crash | outcomes of chunks, the record's story, settling, `ResumableUpload` |
| `parallel_readable` | 2 workers, 2 chunks, 1 refused put | see section 4 |
| `transports` | tus: 5 units in chunks of 2, 3 faults, 2 resumes; S3: 3 parts, 3 breaks, 2 resumes; evidence: 2 chunks, 2 mishaps; ranges: originals of 0 to 20 bytes in chunks of 3; checksum: files of 0 to 13 bytes, blocks of 4 | are receipts and completions backed, can everything written be read, do runs end |
| `workflow_faults` | 2 deaths, failing store, failing recorder | claims, identity, stops, settling |
| `workflow_reliable` | 2 deaths, reliable store | are upload claims true, does retrying finish |
| `evidence` | 6 entries, 2 calls of the application, 4 calls of the sink, 2 deaths | is what is sealed true, do revisions stand on each other |
| `nas_gateway` | 2 processes, 2 chunks, one of which may be there already, 3 calls, 1 death; with no race, and with those of creators and targets | exclusion, disk, what is committed, settling |
| `inspection` | 2 files, 2 records, 2 selections, refreshes, runs and verifications, 1 failure | stale results |
| `assurance` | 2 exporters, 1 derivative, 1 changed source; a suite with 2 surprises; 2 changes of a profile in two derivations | whole packages, true reports, true derivations |

What is checked of each:

- Session: `RecordedIsRemote`, `CompletionIsTotal` and `OutcomeIsTrue` are the
  safety of the upload. `NoRetransmission` and `RecordIsAhead` say that nothing
  durable is lost or sent again; they need one handle, since two tabs overwrite each
  other's record. `StopsHold` is three things a step may not do: take up a record
  that was given up, report a pause that is not stored, send after a stop.
  `EverySettles` and `UploadRecovers` are liveness, `KeepsPromise` the refinement.
- Pool: `OutcomesAreExact` (a chunk taken is sent, failed or of unknown fate, one of
  them), `RecordTellsProgress` (the store knows it at the end of the run),
  `PoolKeepsPromise` (the refinement, with what backs a record), `PoolSettles`.
- Transports and below: `ReceiptsAreStored` (with the remote content a prefix of the
  file), `ObjectIsWhole`, `EvidenceHolds` and `WrittenRecordResumes`,
  `RecordIsSound`, `ChecksumIsHonest`, and that all of them end (`RunsSettle`).
- Workflow: `WordsAreBacked` relates what a status, a checkpoint and a dossier say to
  the other parties' deeds; `ClaimsAreTrue` does for the upload. `StepsKeepFaith`
  restricts steps: identities, upload authority, nothing new after a stop.
  `EveryRunSettles` and `RetryFinishes` are liveness.
- Evidence: `RecorderIsTrue`; `RevisionsHold`: a bundle the workflow builds validates,
  a final revision in the sink stands on a first one, and a revision with a receipt is
  there. It claims no more than the code keeps: the bundle of a persistence that was
  resumed may be another than the one in the sink (`SameBytes` is violated), and a
  final revision that is finalized again does not validate (`FinalizationRetries`).
  `ContinuesOnSound`: whatever was altered, what goes on agrees with itself.
- Gateway: `OneWriter`, `StorageIsSound`, `CommittedStays`, `CallsSettle`.
- Panel: `PanelIsOfThisRun`, `NewestListIsTrue`, `PanelSettles`.
- Assurance: `ExportIsSound`, `DamageIsFound`, `ReportIsTrue`, `DerivationsHold`.

Several are conjunctions of named parts; each part has its own comment in the module.

Why these bounds. Three chunks give a first, a middle and a last one, so that a
run can be resumed at each; two attempts give one retry; a third attempt repeats
the second. Nothing bounds the number of resumes of a session: a handle can fail and
be resumed for ever and the state space is still finite. Two handles, workers,
gateways and exporters are the first number at which they interfere; for the
session the theorems hold for any number. With two workers on three chunks a
worker takes a second chunk while the other's answer waits. Two gateways with three
calls give a call that races another and one that finds what a death left. Two
deaths of a workflow allow one during the recovery from another; four calls of the sink
are a call and its retry for each revision, or one by each of the processes; identifiers are the
number of the process that made them. Originals of 0 to 20 bytes in chunks of 3 give
the empty original, exact multiples and short last chunks with up to seven chunks;
13 bytes in blocks of 4 give padding that fits its block and padding that needs
another, and more than one `MaxWord`. The recorder's 4096 entries are 6, of which a
workflow uses most, so that it is full in some behaviours. Every module names its
bounds in its CONSTANTS.

Symmetry is used in `ingest_shared`, which checks no liveness. Its view leaves
out the memory of dead objects, which no action reads and none of the invariants
there depends on in a way that could hide a violation: each is checked when it is
written, while the object still lives.

### Fairness

- `FairSpec` of the session is weak fairness of the handle's own steps: a promise
  that is awaited settles in the end, with or without success. The code has no
  other wait. The stops, the crash and the clock are never fair. The pool, the
  adapters, the checksum, the panel and the gateway have the same: weak fairness of
  each awaited promise, of each worker and of each process, and of nothing that the
  user, the network's faults or the clock does. A dead gateway's lock grows stale
  by the clock; a caller gives up at its own timeout, so that it need not.
- `RecoverySpec` is for the question "if the trouble ends". It adds strong
  fairness of success, call by call: a call made again and again succeeds once,
  and the application resumes after each failure. Without it an upload over a
  broken network is simply never finished. `Calm` is an assumption of the
  property, not of the specification.
- `FairSpec` of the workflow is the same for its run and its callees; `RetrySpec`
  adds that the application retries and that a stage entered for ever succeeds
  once.

## 4. Where the code and its documents disagree

`parallel_readable` shows it in a run: after a refused checkpoint the commit queue
goes on from the record before it, and stores ranges without the chunk whose receipt
it stores. The parser refuses such a record for ever.

Two more are about evidence that is persisted while the workflow does not learn or
does not record it:

- `workflow.ts:348`. A persistence fails, or is done and the put that says so is
  refused: the checkpoint has its evidence id and operation id. The process that
  resumes builds another bundle under them, while the sink may have the first. The
  sink refuses the replacement and says, asked by operation id, that it has the
  operation: the workflow goes on with a bundle that is not in the sink. The documents
  promise the same bytes, and reconciliation before a replay
  (`docs/verified-ingest-workflow.md:72`, `:73`). TLC shows it in five states: seal,
  persist with the failure saved, resume, seal again.
- `workflow.ts:818`. The final revision is persisted and the put of `preserved` is
  refused. The workflow says that the finalization failed, and each retry builds a
  final revision on the final one, whose stages then repeat, so that it never ends
  (spec 019 `data-model.md:89-90` has it retried).

Most of the others were found in the same way, with a property of the module; the last
column says how to see it violated, or that the code was read.

| Where | What happens | To see it |
| --- | --- | --- |
| `session.ts:490` | expiry is checked before status: resuming a kept *completed* record after its expiry overwrites it as *expired*; spec 001 says completed is terminal | `IngestSession` as in `ingest_recovery`, `Spec`, property `CompletedIsTerminal` |
| `workflow.ts:456` | the put of `uploaded_unverified` fails inside the upload's try block: every retry resumes a completed record and is refused | `workflow_reliable` with `CheckpointFails = TRUE`, `MaxRestarts = 0`, `RetryFinishes` |
| `workflow.ts:323` | a put that fails on entering an upload leaves `reconciliation_required`, which `runResume` takes for a status after the upload | `workflow_faults`, `ClaimsAreTrue` |
| `workflow.ts:248` | `cancel()` while preparing makes the state terminal, and the run goes on | `workflow_reliable`, `StoppedIsFinal` |
| `workflow.ts:687` | the handoff's operation id is not durable before the handoff: after a death the next process uses another one | `workflow_reliable`, `HandoffHappensOnce` |
| `workflow.ts:447` | a reported failure makes the recorder's status terminal: the completion of the retried upload is refused and the workflow ends failed | `workflow_reliable`, `RetriedUploadGoesOn` |
| `nas.ts:186` | two creators of one session id: the second's metadata replaces the first's with its acknowledged chunks | `nas_gateway` with `Disorders = {{"creators"}}`, `CommittedStays` without its antecedent `races = {}` |
| `nas.ts:893` | two claimants of a stale lock, or a lock that grows stale under its owner: two writers | `nas_gateway` with `Disorders = {{"claimants"}}`, `OneWriter` |
| `coordinator.ts:409` | a classification that a refresh overtakes puts the older list back, which no later one corrects | `inspection`, `ResumeIsChecked` |
| `provenance.ts:686` | a full recorder takes the status of a completion and not its entry; its artifact is never valid | `evidence`, `SealedIsValid` without `~Full` |
| `workflow.ts:348` | a resumed persistence builds another bundle under the ids of the first | `evidence`, `SameBytes` |
| `workflow.ts:818` | a finalization whose revision is stored and whose put was refused cannot be retried | `evidence`, `FinalizationRetries` |
| `preservation.ts:609` | an empty directory made between the last look at the destination and the rename is replaced; `docs/preservation.md:68` requires a destination that does not exist | `assurance`, `LateDestinationStays` |
| `session.ts:1405` | an attested checksum is compared only when the transport advertises attestation | `transports`, the invariant `\A r \in held : r.remote.value # "other"` |
| `profiles.ts:393` | a rule that is changed twice in one derivation derives and never validates | `assurance`, `DerivedStands` without `ChangedOnce` |
| `profiles.ts:439` | the base's metadata mappings are not inherited | read in the source |
| `preservation.ts:1053` | a path that is a directory of another is told only from its neighbour in sorted order | read in the source |
| `conformance.ts:494`, `:899` | an identifiable abandoned upload does not prove `abortable`; a canceled run is non-conformant instead of incomplete | read in the source |

In the passing runs the properties are stated for what the code does keep:
`ClaimsAreTrue` and `RetryFinishes` hold when the checkpoint store works,
`EffectsKeepTheirIdentity` from the first checkpoint that names the effect,
`CommittedStays` where ids and targets are not raced for, `NewestListIsTrue` unless
the older list has come back. Two more limits are the code's own rules and no
disagreement: a tus upload is resumed only when the server's offset is the record's
(`ResumeIsPossible` fails when a chunk was stored and its checkpoint was not), and a
finalization that dies after the rename is refused with `nas.target_exists` when it is
repeated without `overwrite`.

## 5. What is proved

A theorem holds for every value of the constants that the module's named assumption
admits: any number of handles, workers, gateways, exporters, chunks, attempts, faults,
deaths and calls. Each safety theorem has an inductive invariant, which TLC checked on
the run of its module before it was proved. Three facts give it: the initial states
satisfy it, every step keeps it (one lemma per action), and it implies the property.

| Theorem | States | For |
| --- | --- | --- |
| `TypeCorrect`, `RecordsAreBacked`, `CompletionHasAll`, `OutcomesAreTrue` | `TypeOK`, `RecordedIsRemote`, `CompletionIsTotal`, `OutcomeIsTrue` | any handles |
| `RecordStaysAhead`, `NothingSentTwice`, `StopsAreKept`, `Implements` | `RecordIsAhead`, `NoRetransmission`, `StopsHold`, `KeepsPromise` | one handle (`OneHandle`) |
| `PoolImplements`, `OutcomesExact`, `ProgressTold` | `PoolKeepsPromise`, `OutcomesAreExact`, `RecordTellsProgress` | any workers |
| `WordsHold`, `FaithIsKept` | `WordsAreBacked`, `StepsKeepFaith` | any faults of the stores |
| `ClaimsHold` | `ClaimsAreTrue` | a checkpoint store that works (`~CheckpointFails`) |
| `WritersAreAlone`, `DiskIsSound` | `OneWriter`, `StorageIsSound` | while no stale lock has two claimants (`Unclaimed`) |
| `CommitsStay` | `CommittedStays` | as the property is stated: where nothing is raced for |
| `TusReceiptsHold`, `S3ObjectIsWhole` | `ReceiptsAreStored`, `ObjectIsWhole` | any sizes and parts |
| `EvidenceIsTrue`, `WrittenRecordsResume` | `EvidenceHolds`, `WrittenRecordResumes` | any chunks |
| `ChecksumKeepsPromises` | `ChecksumIsHonest` | any file, slices and blocks |
| `RecorderHolds`, `RevisionsAreKept`, `EvidenceIsSound` | `RecorderIsTrue`, `RevisionsHold`, `ContinuesOnSound` | limits of six entries and two codes, or more |
| `ExportsAreSound`, `DamageShows` | `ExportIsSound`, `DamageIsFound` | any exporters and derivatives |
| `PanelShowsThisRun`, `ListBecomesTrue` | `PanelIsOfThisRun`, `NewestListIsTrue` | any files, records and selections |
| `ReportsAreTrue`, `DerivationsAreSound` | `ReportIsTrue`, `DerivationsHold` | any capabilities; any changes |

The conditions in the last column are not conveniences: without them the statement is
false, and section 4 says where. Two handles overwrite each other's record, so that a
stop one of them stored may be gone; a put that
fails on entering an upload makes `ClaimsAreTrue` false; two claimants of one stale
lock both write. The assumptions on constants (`SessionAssumption`, `GatewayAssumption`,
`BundleAssumption`, ...) are evaluated by TLC in the runs. They ask for numbers to be
numbers, for names of the models' own markers not to be used as identifiers, and, of the
recorder, for limits that the code's (4096 entries, 128 codes) exceed by far. With fewer
than six entries the record of a workflow would not hold its own completion.

The invariants, and why they are needed:

- **Session** (`UploadInv`). A completion is total only because the receipts that
  `completeUpload` counts were taken from answers, and a later run has them only
  because hydration copies the record's (`RunMatchesRecord`). For one handle the record
  in memory includes the durable one, because every put is of that record; a put then
  maps to `Confirm`, a delete to `Drop`, and all else to the provider's steps or a
  stutter. A stop is kept (`StopInv`) because the record of a run that is stopped holds
  all that it was acknowledged and says what it was stopped by, and because a run
  writes an active or a failed record only while the durable one is not over.
- **Pool** (`PoolInv`). The commit queue has each worker whose answer waits once, and
  only its head stores; what is taken from the plan is at a worker, in the queue or in
  the tracker, and nowhere twice; a run's receipts are parts and include the record's.
  Which chunk the cursor takes is the least that is left, which is where the
  well-foundedness of the naturals comes in.
- **Workflow** (`WordsInv`, `FaithInv`). What the object holds was done, what the
  checkpoint names was done, an identifier belongs to the process that made it, and a
  status that is offered or stored has its deed. A handler computes the next object
  from the present one, so the parts take the object as a parameter and are judged
  before the step. That is what makes a death at any step harmless: the object a new
  process builds from the checkpoint satisfies the same parts.
- **Gateway** (`GateInv`). The lock names the process that works under it; the snapshot
  a process read is the metadata as long as it holds the lock; files that the metadata
  names are there. All but types, paths and an empty directory is conditional on
  `Unclaimed`, and `CommitsStay` needs it for the steps, not only for the states.
- **Transports**. The server's content is the prefix of the file up to its offset, so a
  late request that still fits appends what belongs there (`TusInv`); the receipts of
  S3 are of parts that are there, each once, and sorting them gives the list of parts
  (`S3Inv`). `EvidenceInv` says which readers of a checksum agree, and with what.
- **Checksum** (`ChecksumInv`). A hasher has compressed whole blocks that are the
  beginning of the file and buffers the rest of what it took (`HasTaken`); one lemma
  shows that a slice keeps this however it falls on the blocks, another that the mark,
  the fewest zeros and the two words of the length are what FIPS 180-4 pads, in one
  block or in two. A Worker runs only while it is waited for, and its checksum has the
  report of the whole file before it in the mail. The length must fit its two words:
  the assumption says so, and a file's size is below 2^53.
- **Panel** (`PanelInv`). Every open await is tied to what it began with: the newest
  call of the verifier is about the manifest shown, a list in use or in flight is of a
  refresh that has answered and names its records, and as long as nothing failed the
  newest list is true of the file, or the identity or comparison that will make it
  true is under way. The types include that the generation counts the selections,
  without which an old answer could pass for a new one.
- **Recorder and bundles** (`BundleInv`). As long as the recorder was not full, its
  entries tell its status: one outcome, a verdict after a completion (`Told`). A body
  that was sealed is the beginning of what the recorder holds now. A dossier of
  the sink is a bundle that some process built on its artifact, or was altered and is
  not sound, and there is one for an id and a revision (`SinkInv`). What the workflow
  holds is such a bundle too, of this process or of one before (`HoldingInv`): the two
  need not be the same, for a resumed process has the ids and builds anew. Of the final
  revisions in the sink a process built one at most, the one it has (`OwnInv`), which is
  why a receipt names what the workflow holds unless another process stored that
  revision.
- **Export, suite, profiles** (`ExportInv`, `RunInv`, `ProfilesInv`). What an exporter
  planned are bytes it read and compared with their digest, what it staged is what it
  planned, and one exporter renamed the package that stands to its place (`Placed`),
  whether it has reported it, will, or died before it could. Results stand in the order of
  the scenarios, each from an answer or the code's own replacement of a bad one. The
  lists of a draft are the differences to its base unless a rule was changed twice.

Checked by TLC only, and why:

- All liveness: `EverySettles`, `UploadRecovers`, `PoolSettles`, `RunsSettle`,
  `EveryRunSettles`, `RetryFinishes`, `CallsSettle`, `PanelSettles`. Proofs about
  fairness and ENABLED are out of the provers' reach.
- `RecordIsSound`. The ranges of a record are computed by folds over sequences of any
  length, which need induction over data.

Every other invariant and action property of the passing runs is stated by a theorem.

Some definitions of the models have the form they have because the provers must be able
to unfold them: `CompletedParts` chooses the sorted list instead of sorting it, `Joined`
is the union of two functions, the guards of `ResultOf` exclude each other, and `Phase`
is the chain of conditions that `derivePhase` is.

## 6. Not modelled, and why

Manifests, validation and fingerprints of files, derivatives, previews and the TIFF
probe are functions over one value, without state or failure handling. Diagnostics
and errors format and redact. The React components, and the workflow controller,
render and forward. The Node adapters read file metadata; `node-verification.ts` is an
adapter that `VerifiedIngest` calls. What any adapter does inside a call is the
application's.

Within what is modelled: the session's `resumeFrom` snapshots and the wording of its
events; the identity and manifest fields of a record, which match or do not
(`LoadRefused`); headers, keys and credentials of the adapters; the compression of
SHA-256; canonical text forms of exported files; the shapes of identifiers, paths and
keys; the workflow conformance suite, whose runner is the transport suite's loop. In
`IngestSession` a call that its caller gave up on does not take effect later, since
nothing there tells it from another writer; the late requests are in the modules of
the transports.

## 7. Plan

1. *Done:* all modules of section 2 with their runs, and the theorems of section 5.
2. What is left of the proofs is what section 5 leaves to TLC.
3. Extensions if there is room: `resumeFrom`, the workflow suite, the record's identity
   fields against `classifyPersistentResume`.
