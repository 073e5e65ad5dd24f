--------------------------- MODULE InspectionUpload ---------------------------
(***************************************************************************)
(* The upload panel of one page: InspectionUploadCoordinator               *)
(* (src/src/react-ui/coordinator.ts) over the controller of                *)
(* src/src/react-controller.ts, which runs one session at a time.          *)
(*                                                                         *)
(* The user selects and removes files, drives the run and discards stored  *)
(* records; meanwhile the resume store lists its records, the source's     *)
(* identity is calculated, the records are compared with it, the session   *)
(* goes on and verifiers answer, each in its own time.                     *)
(*                                                                         *)
(* Abstractions: a session is the phases its snapshots show (module        *)
(* IngestSession has the rest), a record fits exactly one file, a list of  *)
(* choices carries the revision that its keys carry, and a verdict is      *)
(* "compatible" or "mismatch".  Recovery, discarding and a verifier are    *)
(* configured, and the transport supports persistent resume.               *)
(***************************************************************************)
EXTENDS Naturals, FiniteSets

CONSTANTS
    File, Record,   \* the files of the user, the records of the store
    Original,       \* the file whose upload a record continues
    NoFile, NoRecord,
    MaxSelections,  \* a bound: files selected or removed
    MaxRefreshes,   \* a bound: refreshes of the recovery list
    MaxRuns,        \* a bound: starts and resumes
    MaxVerifications, \* a bound: calls of the verifier
    MaxFailures     \* a bound: reads, lists and puts that reject

ASSUME InspectionAssumption ==
    /\ NoFile \notin File /\ NoRecord \notin Record
    /\ {MaxSelections, MaxRefreshes, MaxRuns, MaxVerifications, MaxFailures} \subseteq Nat

Verdicts == {"unlisted", "awaiting", "compatible", "mismatch"}
Verdict(r, f) == IF Original[r] = f THEN "compatible" ELSE "mismatch"

\* Recovery choices: the refresh whose keys they carry, what they say of each
\* record, and the file they were last compared with.
Choices == [revision : 0 .. MaxRefreshes, of : [Record -> Verdicts],
            file : File \cup {NoFile}]
Listed(choices) == {r \in Record : choices.of[r] # "unlisted"}
Compatible(choices) == {r \in Record : choices.of[r] = "compatible"}

NoChoices == [revision |-> 0, of |-> [r \in Record |-> "unlisted"], file |-> NoFile]

Runs == {"none", "preparing", "restoring", "uploading", "completing"}
Statuses == {"idle", "validating", "resuming", "uploading", "completing", "paused",
             "canceled", "failed", "completed"}

VARIABLES
    file,         \* source
    generation,   \* generation
    run,          \* the session of activeOperation, by how far it is
    lifecycle,    \* its lifecycleAction
    status,       \* the controller's status
    snapshot,     \* the session has published a snapshot
    manifest,     \* completedManifest, by the number of its run
    requested,    \* requestedAction
    choices,      \* recoveryChoices
    records,      \* recoveryRecords: their revision and the records
    selected,     \* selectedRecoveryKey: a revision and a record
    revision,     \* recoveryGeneration
    loading,      \* recoveryLoading
    listings,     \* the refreshes that wait for the store
    identity,     \* the generation whose identity is calculated, or 0
    matchings,    \* classifications past their identity: generation and result
    verification, \* verification: its status, and the manifest it is of
    verifiers,    \* verifier calls in flight: number, generation, manifest
    newest,       \* the number of the call whose signal is not aborted, or 0
    store,        \* the records in the resume store
    selections, runs, verifications, failures

selection == <<file, generation, selections>>
controller == <<run, lifecycle, status, snapshot, runs>>
recovery == <<choices, records, selected, revision, loading, listings, identity, matchings>>
checking == <<manifest, verification, verifiers, newest, verifications>>
vars == <<selection, controller, requested, recovery, checking, store, failures>>

NotConfigured == [status |-> "not_configured", manifest |-> 0]

Init ==
    /\ file = NoFile
    /\ generation = 0
    /\ run = "none"
    /\ lifecycle = "none"
    /\ status = "idle"
    /\ snapshot = FALSE
    /\ manifest = 0
    /\ requested = "none"
    /\ choices = NoChoices
    /\ records = [revision |-> 0, of |-> {}]
    /\ selected = [revision |-> 0, record |-> NoRecord]
    /\ revision = 0
    /\ loading = FALSE
    /\ listings = {}
    /\ identity = 0
    /\ matchings = {}
    /\ verification = NotConfigured
    /\ verifiers = {}
    /\ newest = 0
    /\ store = Record
    /\ selections = 0
    /\ runs = 0
    /\ verifications = 0
    /\ failures = 0

------------------------------------------------------------------------------
(***************************************************************************)
(* What the panel shows and offers.                                        *)
(***************************************************************************)

Phase ==
    IF file = NoFile THEN "empty"
    ELSE IF requested = "pause" /\ status \in {"uploading", "resuming"} THEN "pause_requested"
    ELSE IF requested = "cancel" THEN "cancel_requested"
    ELSE IF status = "idle" THEN "selected" ELSE status

Active ==
    Phase \in {"validating", "uploading", "pause_requested", "resuming", "cancel_requested",
               "completing"}

CanSelect == ~Active
CanRemove == file # NoFile /\ ~Active /\ Phase # "paused"
CanStart == Phase \in {"selected", "failed", "canceled"}
CanPause == Phase \in {"uploading", "resuming"}
CanResume == Compatible(choices) # {} /\ Phase \in {"selected", "paused", "failed"}
CanCancel == file # NoFile /\ (Active \/ Phase = "paused")
CanRetryVerification == file # NoFile /\ verification.status \in {"failed", "unavailable"}

------------------------------------------------------------------------------
(***************************************************************************)
(* Recovery choices.                                                       *)
(***************************************************************************)

\* refreshRecovery, up to the store's answer.
Refresh ==
    /\ revision < MaxRefreshes
    /\ revision' = revision + 1
    /\ loading' = TRUE
    /\ listings' = listings \cup {revision + 1}
    /\ UNCHANGED <<choices, records, selected, identity, matchings>>

\* classifyRecoveryChoices, up to the identity; the former one's is aborted.
Classify(g, listed) == identity' = IF listed = {} \/ g = 0 THEN identity ELSE g

\* Mutant of Newest: the comparison is the wrong way round.
Replaced(n) == n # revision

\* The answer of a refresh that a newer one has replaced is dropped.
Newest(n) == n = revision

\* The store lists its records: the choices are made anew.
List(n) ==
    /\ n \in listings
    /\ listings' = listings \ {n}
    /\ \/ /\ ~Newest(n)
          /\ UNCHANGED <<choices, records, selected, revision, loading, identity>>
       \/ /\ Newest(n)
          /\ choices' = [revision |-> n, file |-> NoFile,
                         of |-> [r \in Record |-> IF r \in store THEN "awaiting" ELSE "unlisted"]]
          /\ records' = [revision |-> n, of |-> store]
          /\ selected' = [revision |-> n, record |-> NoRecord]
          /\ loading' = FALSE
          /\ Classify(IF file = NoFile THEN 0 ELSE generation, store)
          /\ UNCHANGED revision
    /\ UNCHANGED <<selection, controller, requested, matchings, checking, store, failures>>

Fault ==
    /\ failures < MaxFailures
    /\ failures' = failures + 1

\* The store cannot list them.
ListFail(n) ==
    /\ n \in listings
    /\ Fault
    /\ listings' = listings \ {n}
    /\ loading' = (loading /\ n # revision)
    /\ UNCHANGED <<selection, controller, requested, choices, records, selected, revision,
                   identity, matchings, checking, store>>

\* The choices of now against the records of now.
Classified ==
    [choices EXCEPT !.file = file, !.of =
        [r \in Record |->
            IF r \in Listed(choices) /\ r \in records.of /\ choices.revision = records.revision
            THEN Verdict(r, file) ELSE choices.of[r]]]

\* The identity of the source is known, and the records are compared with it.
Identify ==
    /\ identity # 0
    /\ identity' = 0
    /\ matchings' = matchings \cup {[generation |-> identity, choices |-> Classified]}
    /\ UNCHANGED <<selection, controller, requested, choices, records, selected, revision,
                   loading, listings, checking, store, failures>>

\* The source cannot be read.
IdentifyFail ==
    /\ identity # 0
    /\ Fault
    /\ identity' = 0
    /\ UNCHANGED <<selection, controller, requested, choices, records, selected, revision,
                   loading, listings, matchings, checking, store>>

\* Mutant of OfThisSource: a late classification counts for a source.
OfAnySource(g) == file # NoFile

\* The generation guard of a late result.
OfThisSource(g) == g = generation /\ file # NoFile

\* The comparison is done: the list it was made of becomes the list shown.
Match(m) ==
    /\ m \in matchings
    /\ matchings' = matchings \ {m}
    /\ \/ ~OfThisSource(m.generation) /\ UNCHANGED <<choices, selected>>
       \/ /\ OfThisSource(m.generation)
          /\ choices' = m.choices
          /\ selected' = [revision |-> m.choices.revision,
                          record |-> IF Cardinality(Compatible(m.choices)) = 1
                                     THEN CHOOSE r \in Compatible(m.choices) : TRUE
                                     ELSE NoRecord]
    /\ UNCHANGED <<selection, controller, requested, records, revision, loading, listings,
                   identity, checking, store, failures>>

\* The application or the provider refreshes.
RefreshRecovery ==
    /\ Refresh
    /\ UNCHANGED <<selection, controller, requested, checking, store, failures>>

\* A confirmed discard of a listed choice; the store forgets its record.
Discard(r) ==
    /\ r \in Listed(choices) \cap records.of
    /\ choices.revision = records.revision
    /\ store' = store \ {r}
    /\ Refresh
    /\ UNCHANGED <<selection, controller, requested, checking, failures>>

------------------------------------------------------------------------------
(***************************************************************************)
(* The source.                                                             *)
(***************************************************************************)

\* What every change of the source resets; its controller is a new one or none.
Replace(f) ==
    /\ selections < MaxSelections
    /\ selections' = selections + 1
    /\ generation' = generation + 1
    /\ file' = f
    /\ run' = "none"
    /\ lifecycle' = "none"
    /\ status' = "idle"
    /\ snapshot' = FALSE
    /\ requested' = "none"
    /\ manifest' = 0
    /\ verification' = NotConfigured
    /\ newest' = 0
    /\ UNCHANGED <<runs, verifiers, verifications, store, failures>>

\* selectFile: the identity of the file before it is aborted, the choices stay.
SelectFile(f) ==
    /\ CanSelect
    /\ Replace(f)
    /\ identity' = IF Listed(choices) = {} THEN 0 ELSE generation + 1
    /\ UNCHANGED <<choices, records, selected, revision, loading, listings, matchings>>

Deselected == [selected EXCEPT !.record = NoRecord]

RemoveSource ==
    /\ CanRemove
    /\ Replace(NoFile)
    /\ identity' = 0
    /\ selected' = Deselected
    /\ choices' = [choices EXCEPT !.file = NoFile, !.of =
                      [r \in Record |-> IF r \in Listed(choices) THEN "awaiting" ELSE "unlisted"]]
    /\ UNCHANGED <<records, revision, loading, listings, matchings>>

------------------------------------------------------------------------------
(***************************************************************************)
(* The run, as the panel drives it and its snapshots show it.              *)
(***************************************************************************)

\* controller.start and resume: a new session, unless one runs.
Launch(action, first, shown) ==
    /\ run = "none"
    /\ runs < MaxRuns
    /\ runs' = runs + 1
    /\ requested' = action
    /\ run' = first
    /\ status' = shown
    /\ lifecycle' = "none"
    /\ snapshot' = FALSE
    /\ UNCHANGED <<selection, recovery, checking, store, failures>>

Start ==
    /\ CanStart
    /\ Launch("start", "preparing", "validating")

\* The key of the record is given, or the one selected.
Resume(r) ==
    /\ CanResume
    /\ choices.revision = records.revision
    /\ r \in Listed(choices) \cap records.of
    /\ Launch("resume", "restoring", "resuming")

Pause ==
    /\ CanPause
    /\ requested' = "pause"
    /\ lifecycle' = IF run = "none" THEN lifecycle ELSE "pause"
    /\ UNCHANGED <<selection, run, status, snapshot, runs, recovery, checking, store, failures>>

Cancel ==
    /\ CanCancel
    /\ requested' = "cancel"
    /\ lifecycle' = IF run = "none" THEN lifecycle ELSE "cancel"
    /\ UNCHANGED <<selection, run, status, snapshot, runs, recovery, checking, store, failures>>

\* controller.cancel() answers; the session may still run.
CancelAnswered ==
    /\ requested = "cancel"
    /\ requested' = "none"
    /\ UNCHANGED <<selection, controller, recovery, checking, store, failures>>

\* The session has its remote upload; its snapshots begin.
Prepared ==
    /\ run \in {"preparing", "restoring"}
    /\ run' = "uploading"
    /\ status' = "uploading"
    /\ snapshot' = TRUE
    /\ UNCHANGED <<selection, lifecycle, runs, requested, recovery, checking, store, failures>>

Uploaded ==
    /\ run = "uploading"
    /\ lifecycle = "none"
    /\ run' = "completing"
    /\ status' = "completing"
    /\ UNCHANGED <<selection, lifecycle, snapshot, runs, requested, recovery, checking, store,
                   failures>>

\* What the end of a run, shown with a status, leaves of the user's intent.
Answered(shown) ==
    requested' = IF \/ requested \in {"start", "resume"}
                    \/ requested = "pause" /\ shown = "paused"
                    \/ requested = "cancel" /\ shown = "canceled"
                 THEN "none" ELSE requested

\* beginVerification: the call before it is aborted.
Verify(m) ==
    /\ verifications < MaxVerifications
    /\ verifications' = verifications + 1
    /\ newest' = verifications + 1
    /\ verification' = [status |-> "pending", manifest |-> m]
    /\ verifiers' = verifiers \cup
           {[number |-> verifications + 1, generation |-> generation, manifest |-> m]}

\* The run completes, and its manifest is handed to the verifier.
Complete ==
    /\ run = "completing"
    /\ run' = "none"
    /\ status' = "completed"
    /\ manifest' = runs
    /\ Answered("completed")
    /\ Verify(runs)
    /\ UNCHANGED <<selection, lifecycle, snapshot, runs, recovery, store, failures>>

\* It fails or stops, and its last snapshot says so.
Fail ==
    /\ run # "none"
    /\ run' = "none"
    /\ status' = CASE lifecycle = "pause" -> "paused"
                   [] lifecycle = "cancel" -> "canceled"
                   [] OTHER -> "failed"
    /\ Answered(status')
    /\ UNCHANGED <<selection, lifecycle, snapshot, runs, recovery, checking, store, failures>>

\* The record cannot be marked: the run ends without a last snapshot, and the
\* controller goes on showing the one before.
FailUnmarked ==
    /\ run # "none"
    /\ Fault
    /\ run' = "none"
    /\ status' = IF snapshot THEN status ELSE "failed"
    /\ Answered(status')
    /\ UNCHANGED <<selection, lifecycle, snapshot, runs, recovery, checking, store>>

------------------------------------------------------------------------------
(***************************************************************************)
(* Verification of the stored original.                                    *)
(***************************************************************************)

RetryVerification ==
    /\ CanRetryVerification
    /\ manifest # 0
    /\ Verify(manifest)
    /\ UNCHANGED <<manifest, selection, controller, requested, recovery, store, failures>>

\* As IsCurrent, taking whatever a verifier answers.
IsAny(v) == v \in verifiers

\* The guard of a verifier's answer: its signal is that of the last call.
IsCurrent(v) == v.generation = generation /\ v.number = newest

\* A verifier answers or throws, which counts as unavailable.
VerifierAnswers(v, result) ==
    /\ v \in verifiers
    /\ verifiers' = verifiers \ {v}
    /\ verification' = IF IsCurrent(v) THEN [status |-> result, manifest |-> v.manifest]
                       ELSE verification
    /\ UNCHANGED <<manifest, newest, verifications, selection, controller, requested, recovery,
                   store, failures>>

Session == Prepared \/ Uploaded \/ Complete \/ Fail
Next ==
    \/ RefreshRecovery
    \/ \E r \in Record : Discard(r)
    \/ \E n \in listings : List(n)
    \/ \E n \in listings : ListFail(n)
    \/ Identify \/ IdentifyFail
    \/ \E m \in matchings : Match(m)
    \/ \E f \in File : SelectFile(f)
    \/ RemoveSource
    \/ Start
    \/ \E r \in Record : Resume(r)
    \/ Pause \/ Cancel \/ CancelAnswered
    \/ Prepared \/ Uploaded \/ Complete \/ Fail \/ FailUnmarked
    \/ RetryVerification
    \/ \E v \in verifiers : \E result \in {"verified", "failed", "unavailable"} :
          VerifierAnswers(v, result)

\* The store, the checksum and the verifier answer, and a session comes to its
\* end (module IngestSession); the user does nothing he must do.
Fairness ==
    /\ WF_vars(Session)
    /\ \A n \in 1 .. MaxRefreshes : WF_vars(List(n))
    /\ WF_vars(Identify)
    /\ WF_vars(\E m \in matchings : Match(m))
    /\ \A n \in 1 .. MaxVerifications :
          WF_vars(\E v \in verifiers : /\ v.number = n
                                       /\ \E result \in {"verified", "failed", "unavailable"} :
                                             VerifierAnswers(v, result))

Spec == Init /\ [][Next]_vars /\ Fairness

------------------------------------------------------------------------------
(***************************************************************************)
(* Properties.                                                             *)
(***************************************************************************)

\* Every variable keeps its type, and the record selected for resuming is one
\* that the list shown calls compatible.
TypeOK ==
    /\ file \in File \cup {NoFile}
    /\ generation \in 0 .. MaxSelections
    /\ run \in Runs
    /\ lifecycle \in {"none", "pause", "cancel"}
    /\ status \in Statuses
    /\ requested \in {"none", "start", "pause", "resume", "cancel"}
    /\ choices \in Choices
    /\ records.of \subseteq Record
    /\ selected.record \in Record \cup {NoRecord}
    /\ selected.record # NoRecord =>
          selected.revision = choices.revision /\ selected.record \in Compatible(choices)
    /\ listings \subseteq 1 .. revision
    /\ loading \in BOOLEAN
    /\ matchings \subseteq [generation : 1 .. MaxSelections, choices : Choices]
    /\ newest \in 0 .. verifications

\* FR-008 of specs/012-first-party-react-ui/spec.md: while a session runs, the
\* panel offers neither another source nor another start or resume, so that no
\* run is left behind by a change of source.
NoRunIsLeftBehind ==
    run # "none" => ~CanSelect /\ ~CanRemove /\ ~CanStart /\ ~CanResume

\* A stored-original verdict that the panel shows is of the manifest that the
\* shown run completed with, never of an earlier source's or of a call that a
\* retry has replaced: only the newest call changes what is shown.
VerdictIsOfThisRun ==
    verification.status # "not_configured" =>
        /\ status = "completed"
        /\ verification.manifest = manifest
        /\ (verification.status = "pending") <=>
               (\E v \in verifiers : v.number = newest /\ v.generation = generation)

\* What the panel shows and offers is about the run it shows, while sources, runs
\* and verifications replace each other (coordinator.ts:108-242, 325-445).
PanelIsOfThisRun == TypeOK /\ NoRunIsLeftBehind /\ VerdictIsOfThisRun

Quiet == listings = {} /\ identity = 0 /\ matchings = {} /\ failures = 0

\* Once the store, the checksum and the comparisons have answered and none has
\* failed, the list is true of the selected file, in whatever order they
\* answered; unless an older list has come to replace the newest.
NewestListIsTrue ==
    (Quiet /\ file # NoFile /\ choices.revision = records.revision) =>
        \A r \in Listed(choices) : choices.of[r] = Verdict(r, file)

\* The panel does not wait for ever: the list stops loading, a verification
\* that is pending is decided or given up, and a run ends.
PanelSettles ==
    /\ loading ~> ~loading
    /\ verification.status = "pending" ~> verification.status # "pending"
    /\ run # "none" ~> run = "none"

\* docs/react-ui.md:60: "Resume remains unavailable until whole-file identity
\* and transport evidence checks pass".  A comparison that a refresh overtakes
\* puts the older list back, whose keys name no record, so that no later
\* comparison corrects it: it offers to resume for the next source too.
ResumeIsChecked ==
    (Quiet /\ CanResume) => \A r \in Compatible(choices) : Original[r] = file
==============================================================================
