----------------------------- MODULE Conformance -----------------------------
(***************************************************************************)
(* runTransportConformance of src/src/conformance.ts: the scenarios of the *)
(* catalog are run one after the other against a target, what the target   *)
(* says it observed is judged, and the results become a report that the    *)
(* runner itself validates, as every reader of a report does.  A target    *)
(* can answer badly, throw or skip, and the run can be canceled at any     *)
(* time.                                                                   *)
(*                                                                         *)
(* Abstractions: an observation is the set of facts that it reports as a   *)
(* passing one has to, with what it says of cleanup and its limitation     *)
(* codes; counts of abandoned resources are 0 or 1; that an expired session *)
(* was reconciled is one fact with the proof of it; identifiers, the       *)
(* profile and durations are left out.                                     *)
(***************************************************************************)
EXTENDS Naturals, Sequences, FiniteSets

CONSTANTS
    Advertised,     \* the sets of capabilities a target may advertise
    MaxSurprises,   \* a bound: scenarios that do not go as a good target's go
    MaxLimitations  \* the limitation codes a report may have

Capability == {"resumable", "snapshotResume", "persistentResume", "abortable",
               "expirationAware", "parallelChunks", "chunkIntegrity"}

\* validateCapabilities: recovery is claimed with resumption only.
ASSUME ConformanceAssumption ==
    /\ \A c \in Advertised :
        /\ c \subseteq Capability
        /\ c \cap {"snapshotResume", "persistentResume"} # {} => "resumable" \in c
    /\ MaxSurprises \in Nat /\ MaxLimitations \in Nat

Scenarios == <<"validation", "mismatch", "interrupted", "invalidEvidence", "reconciliation",
               "storedOriginal", "ambiguous", "abandoned", "cleanupFailure", "integrity">>

Stored == {"storedByteCountMatched", "storedChecksumMatched"}
OneCompletion == Stored \cup {"authoritativeCompletionCount"}
NoMutation == {"remoteMutationCountBeforeAuthority"}
Ordered == {"parallelConcurrencyBounded", "canonicalReceiptOrder", "uniqueAcknowledgedProgress"}

\* The observation fields of each scenario, and of one more for a capability.
Required ==
    [validation |-> NoMutation \cup {"sourceValidationRejected", "sourceBytesUnchanged"},
     mismatch |-> NoMutation \cup {"sourceMismatchDetected", "sourceBytesUnchanged"},
     interrupted |-> Stored \cup {"sourceIdentityEstablished", "acknowledgedBytes",
                                  "retransmittedAcknowledgedBytes"},
     invalidEvidence |-> {"invalidEvidenceRejected", "remoteMutationCount"},
     reconciliation |-> NoMutation \cup {"reconciliationOutcomes"},
     storedOriginal |-> OneCompletion \cup {"transferFinalized", "sourceBytesUnchanged"},
     ambiguous |-> OneCompletion \cup {"ambiguousCompletionReconciled"},
     abandoned |-> {},
     cleanupFailure |-> OneCompletion \cup {"injectedCleanupFailureObserved",
                                            "authoritativeCompletionPreserved"},
     integrity |-> NoMutation \cup {"chunkIntegrityEvidenceValidated", "invalidEvidenceRejected"}]
Proof ==
    [snapshotResume |-> {"snapshotRecoveryProven"}, persistentResume |-> {"persistentRecoveryProven"},
     expirationAware |-> {"expirationReconciliationProven"}, parallelChunks |-> Ordered]
ProvenIn ==
    [resumable |-> "interrupted", snapshotResume |-> "interrupted",
     persistentResume |-> "interrupted", abortable |-> "abandoned",
     expirationAware |-> "reconciliation", chunkIntegrity |-> "integrity",
     parallelChunks |-> "integrity"]
ProofOf(c) == IF c \in DOMAIN Proof THEN Proof[c] ELSE {}
Proofs(s, capabilities) == UNION {ProofOf(c) : c \in {d \in capabilities : ProvenIn[d] = s}}

VARIABLES
    capabilities, \* target.capabilities
    running,      \* the runner awaits runScenario
    canceled,     \* options.signal
    results,      \* the results so far
    answers,      \* what the target answered to each scenario (history)
    surprises,
    report        \* the report, or that there is none, or none any more

None == [made |-> FALSE, invalid |-> FALSE]
Invalid == [made |-> FALSE, invalid |-> TRUE]

conformance == <<capabilities, running, canceled, results, answers, surprises, report>>

-----------------------------------------------------------------------------
Good(s) == [kind |-> "observation", ok |-> TRUE, facts |-> Required[s] \cup Proofs(s, Capability),
            cleanup |-> "completed", abandoned |-> 0, reference |-> FALSE, codes |-> {}]

\* The ways in which one answer differs from that of a good target.
Surprising(s) ==
    {[Good(s) EXCEPT !.facts = @ \ {f}] : f \in Good(s).facts}
    \cup {[Good(s) EXCEPT !.kind = "throw"], [Good(s) EXCEPT !.ok = FALSE],
          [Good(s) EXCEPT !.codes = {"a", "b"}],
          [Good(s) EXCEPT !.cleanup = "failed", !.abandoned = 1]}
    \cup {[Good(s) EXCEPT !.cleanup = "abandoned_identifiable", !.abandoned = 1,
                          !.reference = r] : r \in BOOLEAN}
    \cup {[Good(s) EXCEPT !.kind = "skip", !.ok = o, !.codes = {"a"}] : o \in BOOLEAN}

\* evaluateScenario, on the facts, the cleanup and the abandoned resources.
Passes(s, facts, cleanup, abandoned, reference) ==
    /\ Required[s] \cup Proofs(s, capabilities) \subseteq facts
    /\ s = "abandoned" =>
        \/ cleanup = "completed" /\ abandoned = 0
        \/ cleanup = "abandoned_identifiable" /\ abandoned > 0 /\ reference
    /\ s = "cleanupFailure" => cleanup = "completed"

\* A result keeps the evidence of an answer beside its status and cleanup.
NoEvidence == [facts |-> {}, abandoned |-> 0, reference |-> FALSE]

\* As PickEvidence, with the counts and without what they refer to.
PickEvidenceCounted(a) == [facts |-> a.facts, abandoned |-> a.abandoned, reference |-> FALSE]
PickEvidence(a) == [facts |-> a.facts, abandoned |-> a.abandoned, reference |-> a.reference]
PickNothing(a) == [NoEvidence EXCEPT !.abandoned = a.abandoned, !.reference = a.reference]

Result(status, cleanup, codes, evidence) ==
    [status |-> status, cleanup |-> cleanup, codes |-> codes, evidence |-> evidence]
Skipped == Result("skipped", "not_required", {"run-canceled"}, NoEvidence)
Failed == Result("failed", "not_required", {}, NoEvidence)

ResultOf(s, a) ==
    CASE a.kind = "throw" -> IF canceled THEN Skipped ELSE Failed
      [] a.kind # "throw" /\ ~a.ok -> Failed
      [] a.kind = "skip" /\ a.ok -> Result("skipped", a.cleanup, a.codes, PickNothing(a))
      [] OTHER -> Result(IF Passes(s, a.facts, a.cleanup, a.abandoned, a.reference)
                         THEN "passed" ELSE "failed", a.cleanup, a.codes, PickEvidence(a))

-----------------------------------------------------------------------------
(***************************************************************************)
(* The report.                                                             *)
(***************************************************************************)

ResultFor(rs, s) == rs[CHOOSE i \in DOMAIN Scenarios : Scenarios[i] = s]
Passed(rs, s) == ResultFor(rs, s).status = "passed"

\* evaluateTransportCapabilityEvidence: a capability needs its scenario passed,
\* the proof of it in the evidence and, to be abortable, a completed cleanup.
Proven(rs, c) ==
    /\ Passed(rs, ProvenIn[c])
    /\ ProofOf(c) \subseteq ResultFor(rs, ProvenIn[c]).evidence.facts
    /\ c = "abortable" => ResultFor(rs, "abandoned").cleanup = "completed"
CapabilityIssues(rs) == {c \in capabilities : ~Proven(rs, c)}

\* deriveOverallStatus.
OverallStatus(rs, issues) ==
    IF issues # {} \/ \E i \in DOMAIN rs : rs[i].status = "failed" THEN "non_conformant"
    ELSE IF \E i \in DOMAIN rs : rs[i].status = "skipped" THEN "incomplete"
    ELSE "conformant"

\* aggregateCleanup.
Cleanup(rs) ==
    LET found == {rs[i].cleanup : i \in DOMAIN rs} IN
    [status |-> IF "failed" \in found THEN "failed"
                ELSE IF "abandoned_identifiable" \in found THEN "abandoned_identifiable"
                ELSE IF "completed" \in found THEN "completed" ELSE "not_required",
     abandoned |-> Cardinality({i \in DOMAIN rs : rs[i].evidence.abandoned = 1})]

Limitations(rs) == UNION {rs[i].codes : i \in DOMAIN rs}

Report(rs) ==
    [made |-> TRUE, results |-> rs, issues |-> CapabilityIssues(rs),
     overall |-> OverallStatus(rs, CapabilityIssues(rs)),
     cleanup |-> Cleanup(rs), limitations |-> Limitations(rs)]

\* validateDeclaredIssues, validateCleanupSummary: what is declared is of its type.
ValidDeclarations(r) ==
    /\ r.issues \subseteq Capability
    /\ r.cleanup.status \in {"not_required", "completed", "failed", "abandoned_identifiable"}
    /\ r.cleanup.abandoned \in Nat
    /\ Cardinality(r.limitations) <= MaxLimitations

\* validateResults: every scenario of the catalog has its result, in its place,
\* and one that passed has the evidence for it.
ValidResults(rs) ==
    /\ Len(rs) = Len(Scenarios)
    /\ \A i \in DOMAIN rs : rs[i].status = "passed" =>
        LET e == rs[i].evidence IN
        Passes(Scenarios[i], e.facts, rs[i].cleanup, e.abandoned, e.reference)

\* validateTransportConformanceReport: what is derived is derived again.
Validates(r) ==
    /\ ValidDeclarations(r) /\ ValidResults(r.results)
    /\ r.issues = CapabilityIssues(r.results)
    /\ r.overall = OverallStatus(r.results, r.issues)
    /\ r.cleanup = Cleanup(r.results)
    /\ r.limitations = Limitations(r.results)

-----------------------------------------------------------------------------
NextScenario == Scenarios[Len(results) + 1]
More == ~running /\ report = None /\ Len(results) < Len(Scenarios)
Push(result) == results' = Append(results, result)
NoAnswer == [Good("abandoned") EXCEPT !.kind = "skip"]

\* The one scenario that is for a capability does not apply without it.
Inapplicable == NextScenario = "integrity" /\ "chunkIntegrity" \notin capabilities

Unsupported ==
    /\ More /\ Inapplicable
    /\ Push(Result("unsupported", "not_required", {"capability-not-advertised"}, NoEvidence))
    /\ answers' = Append(answers, NoAnswer)
    /\ UNCHANGED <<capabilities, running, canceled, surprises, report>>

SkipCanceled ==
    /\ More /\ ~Inapplicable /\ canceled
    /\ Push(Skipped) /\ answers' = Append(answers, NoAnswer)
    /\ UNCHANGED <<capabilities, running, canceled, surprises, report>>

RunScenario ==
    /\ More /\ ~Inapplicable /\ ~canceled
    /\ running' = TRUE
    /\ UNCHANGED <<capabilities, canceled, results, answers, surprises, report>>

\* runScenario settles; a target that is canceled may go on or throw.
ScenarioSettles ==
    /\ running /\ running' = FALSE
    /\ \E a \in {Good(NextScenario)} \cup Surprising(NextScenario) :
        /\ a # Good(NextScenario) => surprises < MaxSurprises
        /\ surprises' = surprises + (IF a = Good(NextScenario) THEN 0 ELSE 1)
        /\ Push(ResultOf(NextScenario, a)) /\ answers' = Append(answers, a)
    /\ UNCHANGED <<capabilities, canceled, report>>

\* A report that does not validate is thrown away with an error.
Finish ==
    /\ report = None /\ Len(results) = Len(Scenarios)
    /\ report' = IF Validates(Report(results)) THEN Report(results) ELSE Invalid
    /\ UNCHANGED <<capabilities, running, canceled, results, answers, surprises>>

CancelRun ==
    /\ ~canceled /\ report = None
    /\ canceled' = TRUE
    /\ UNCHANGED <<capabilities, running, results, answers, surprises, report>>

ConformanceInit ==
    /\ capabilities \in Advertised
    /\ running = FALSE /\ canceled = FALSE /\ results = << >> /\ answers = << >>
    /\ surprises = 0 /\ report = None

ConformanceNext ==
    \/ Unsupported
    \/ SkipCanceled
    \/ RunScenario
    \/ ScenarioSettles
    \/ Finish
    \/ CancelRun

ConformanceSpec == ConformanceInit /\ [][ConformanceNext]_conformance
-----------------------------------------------------------------------------
\* Whatever a target answers, the run ends in a report that its readers accept,
\* unless it has more limitation codes than a report may have: the evidence that
\* is kept is all that was judged (conformance.ts:424-463).
RunIsReported == report = Invalid => Cardinality(Limitations(results)) > MaxLimitations

\* "conformant" says that the target itself observed every scenario that applies
\* to it as it should be, and proved each capability it advertises; a skip, a
\* cancellation, a bad answer or a throw is enough to lose it (SC-009 of
\* specs/014-transport-conformance).
ConformantIsProven ==
    report.made /\ report.overall = "conformant" =>
        /\ \A i \in DOMAIN Scenarios :
            \/ Scenarios[i] = "integrity" /\ "chunkIntegrity" \notin capabilities
            \/ /\ answers[i].kind = "observation" /\ answers[i].ok
               /\ Required[Scenarios[i]] \subseteq answers[i].facts
        /\ \A c \in capabilities : \E i \in DOMAIN Scenarios :
            Scenarios[i] = ProvenIn[c] /\ ProofOf(c) \subseteq answers[i].facts

\* A skip of this scenario may say that its cleanup completed, and a pass of it
\* needs no more: what was skipped and what passed look the same but for the word.
LooksPassed(i, r) ==
    /\ Scenarios[i] = "abandoned" /\ r.results[i].status = "skipped"
    /\ r.results[i].cleanup = "completed"

\* What somebody made of a report: a better verdict, an issue or a clean-up
\* left out, or a result that passed after all, with all that follows from it.
Improved(r) ==
    {[r EXCEPT !.overall = o] : o \in {"conformant", "incomplete", "non_conformant"} \ {r.overall}}
    \cup {[r EXCEPT !.issues = @ \ {c}] : c \in r.issues}
    \cup {[r EXCEPT !.cleanup.abandoned = 0] : i \in 1 .. r.cleanup.abandoned}
    \cup {Report([r.results EXCEPT ![i].status = "passed"]) :
              i \in {j \in DOMAIN r.results :
                        r.results[j].status # "passed" /\ ~LooksPassed(j, r)}}

\* A reader's validation refuses each of them (conformance.ts:509-586).
ImprovedIsRefused == report.made => \A r \in Improved(report) : ~Validates(r)

\* A conformance report can be had, can be believed and cannot be improved.
ReportIsTrue == RunIsReported /\ ConformantIsProven /\ ImprovedIsRefused
=============================================================================
