----------------------------- MODULE S3Transport -----------------------------
(***************************************************************************)
(* The S3 multipart adapter of src/src/s3.ts: the parts of one multipart   *)
(* upload are sent side by side to the targets its broker signs, and the   *)
(* upload is completed, reconciled or aborted through the broker, while    *)
(* connections break and pages end.                                        *)
(*                                                                         *)
(* Abstractions: the ETag of a part is the number of its bytes' version,   *)
(* which is the same for every attempt; keys, headers and checksums are    *)
(* left out.  The session above it is module ParallelTransfer; here it     *)
(* keeps the receipts of the parts and asks for one thing at a time.       *)
(***************************************************************************)
EXTENDS Naturals, FiniteSets, Sequences, SequencesExt

CONSTANTS
    NumParts,     \* the chunks of the plan
    MaxPartTries, \* retryPolicy.maxAttempts
    MaxBreaks,    \* a bound: requests that break, at the provider or on the way
    MaxResumes,   \* a bound: runs that resume the upload
    Reconciles    \* the broker has reconcileMultipartUpload

ASSUME S3Assumption ==
    /\ {NumParts, MaxPartTries} \subseteq Nat \ {0}
    /\ {MaxBreaks, MaxResumes} \subseteq Nat
    /\ Reconciles \in BOOLEAN

Part == 1 .. NumParts

VARIABLES
    phase,     \* what the session does
    tries,     \* the attempts at each part in this run
    sending,   \* the parts whose answer it waits for
    etags,     \* its receipts, by part, in the order they came
    parts,     \* the parts the provider holds
    upload,    \* the multipart upload at the provider
    object,    \* the parts the completed object was made of
    late,      \* requests that may still reach the provider
    belief,    \* what completeSession last told the session
    breaks, resumes

s3 == <<phase, tries, sending, etags, parts, upload, object, late, belief, breaks, resumes>>

Breaks == breaks < MaxBreaks /\ breaks' = breaks + 1
Works == UNCHANGED breaks

\* createSession: validateUploadHandle wants an upload id and a key.
CreateMultipart ==
    /\ phase = "new"
    /\ \/ phase' = "sending" /\ upload' = "open" /\ Works
       \/ phase' = "stopped" /\ upload' \in {"none", "open"} /\ Breaks
    /\ UNCHANGED <<tries, sending, etags, parts, object, late, belief, resumes>>

Acknowledged == ToSet(etags)

\* uploadChunk: a signed target is asked for, and the part is PUT there.
PutPart(p) ==
    /\ phase = "sending" /\ p \notin Acknowledged \cup sending /\ tries[p] < MaxPartTries
    /\ tries' = [tries EXCEPT ![p] = @ + 1] /\ sending' = sending \cup {p}
    /\ late' = late \cup {p}
    /\ UNCHANGED <<phase, etags, parts, upload, object, belief, breaks, resumes>>

\* The provider stores a part of an open upload; a repeated one takes its place.
StorePart(p) ==
    /\ p \in late
    /\ parts' = IF upload = "open" THEN parts \cup {p} ELSE parts
    /\ late' = late \ {p}
    /\ IF p \in sending /\ upload = "open"
       THEN \/ sending' = sending \ {p} /\ etags' = Append(etags, p)
               /\ UNCHANGED phase /\ Works
            \/ sending' = sending \ {p} /\ UNCHANGED etags /\ Breaks
               /\ phase' = IF tries[p] < MaxPartTries THEN phase ELSE "stopped"
       ELSE /\ sending' = sending \ {p} /\ UNCHANGED etags /\ Works
            /\ phase' = IF p \in sending THEN "stopped" ELSE phase
    /\ UNCHANGED <<tries, upload, object, belief, resumes>>

\* A request breaks, or its answer has a retryable status, a final one or no
\* ETag; what was sent may arrive later.
BreakPart(p) ==
    /\ p \in sending /\ Breaks
    /\ sending' = sending \ {p}
    /\ late' \in {late, late \ {p}}
    /\ phase' \in {IF tries[p] < MaxPartTries THEN phase ELSE "stopped", "stopped"}
    /\ UNCHANGED <<tries, etags, parts, upload, object, belief, resumes>>

\* completeSession takes the receipts in the order of their part numbers, which
\* run from 1 without a gap when every chunk has one.
CompletedParts ==
    CHOOSE listed \in [1 .. Cardinality(Acknowledged) -> Acknowledged] :
        \A i, j \in DOMAIN listed : i < j => listed[i] < listed[j]

AllAcknowledged == Acknowledged = Part

AskCompletion ==
    /\ phase = "sending" /\ sending = {} /\ AllAcknowledged
    /\ phase' = "completing"
    /\ UNCHANGED <<tries, sending, etags, parts, upload, object, late, belief, breaks, resumes>>

\* The provider completes an open upload with the parts that are named, and
\* refuses one that is not there any more.
CanComplete == upload = "open" /\ Acknowledged \subseteq parts
Completes == upload' = "complete" /\ object' = CompletedParts

CompleteAnswered ==
    /\ phase = "completing" /\ CanComplete /\ Completes
    /\ phase' = "done" /\ belief' = "completed"
    /\ UNCHANGED <<tries, sending, etags, parts, late, breaks, resumes>>

\* The completion rejects: its answer was lost, or the provider has refused it.
CompleteRejects ==
    /\ phase = "completing"
    /\ \/ CanComplete /\ Breaks /\ (Completes \/ UNCHANGED <<upload, object>>)
       \/ ~CanComplete /\ Works /\ UNCHANGED <<upload, object>>
    /\ phase' = IF Reconciles THEN "reconciling" ELSE "stopped"
    /\ belief' = "unknown"
    /\ UNCHANGED <<tries, sending, etags, parts, late, resumes>>

\* As Settled, taking "unknown" for a completion.
SettledUnlessRefused(answer) == answer # "not_completed"
Settled(answer) == answer = "completed"

\* reconcileMultipartUpload answers the truth, or that it does not know; only
\* "completed" makes the rejected completion one that was made.
Reconcile ==
    /\ phase = "reconciling"
    /\ \E answer \in {IF upload = "complete" THEN "completed" ELSE "not_completed", "unknown"} :
        /\ IF answer = "unknown" THEN Breaks ELSE Works
        /\ phase' = IF Settled(answer) THEN "done" ELSE "stopped"
        /\ belief' = IF Settled(answer) THEN "completed" ELSE belief
    /\ UNCHANGED <<tries, sending, etags, parts, upload, object, late, resumes>>

\* The run is stopped or its page ends.
StopRun ==
    /\ phase \in {"sending", "completing", "reconciling"} /\ Breaks
    /\ phase' = "stopped" /\ sending' = {}
    /\ UNCHANGED <<tries, etags, parts, upload, object, late, belief, resumes>>

\* A receipt whose checkpoint was refused is lost with its page.
ForgetLast ==
    /\ phase = "stopped" /\ etags # << >> /\ Breaks
    /\ etags' = Front(etags)
    /\ UNCHANGED <<phase, tries, sending, parts, upload, object, late, belief, resumes>>

\* resumeSession takes upload id and key from the record and asks nothing.
ResumeUpload ==
    /\ phase = "stopped" /\ sending = {} /\ upload # "none"
    /\ resumes < MaxResumes /\ resumes' = resumes + 1
    /\ phase' = "sending" /\ tries' = [p \in Part |-> 0]
    /\ UNCHANGED <<sending, etags, parts, upload, object, late, belief, breaks>>

\* abortSession: the run's abort is answered, lost, or refused.
AbortUpload ==
    /\ phase = "stopped" /\ belief # "completed" /\ upload # "none"
    /\ phase' = "done" /\ belief' = "canceled"
    /\ \/ upload' = (IF upload = "open" THEN "aborted" ELSE upload) /\ Works
       \/ UNCHANGED upload /\ Breaks
    /\ UNCHANGED <<tries, sending, etags, parts, object, late, resumes>>

-----------------------------------------------------------------------------
S3Init ==
    /\ phase = "new" /\ tries = [p \in Part |-> 0] /\ sending = {} /\ etags = << >>
    /\ parts = {} /\ upload = "none" /\ object = << >> /\ late = {} /\ belief = "none"
    /\ breaks = 0 /\ resumes = 0

S3Step ==
    \/ CreateMultipart
    \/ \E p \in Part : PutPart(p) \/ StorePart(p)
    \/ AskCompletion \/ CompleteAnswered \/ CompleteRejects \/ Reconcile

S3Next ==
    \/ CreateMultipart
    \/ \E p \in Part : PutPart(p)
    \/ \E p \in Part : StorePart(p)
    \/ \E p \in Part : BreakPart(p)
    \/ AskCompletion
    \/ CompleteAnswered
    \/ CompleteRejects
    \/ Reconcile
    \/ StopRun
    \/ ForgetLast
    \/ ResumeUpload
    \/ AbortUpload

S3Spec == S3Init /\ [][S3Next]_s3 /\ WF_s3(S3Step)

-----------------------------------------------------------------------------
\* A receipt speaks of a part the provider holds.
ReceiptsNameParts == Acknowledged \subseteq parts

\* What a completed object is made of is every part, once and in order, however
\* the answers came and whichever parts were sent twice; and a session that was
\* told "completed" has such an object (s3.ts:273-312).
ObjectIsWhole ==
    /\ ReceiptsNameParts
    /\ upload = "complete" => object = [i \in Part |-> i]
    /\ belief = "completed" => upload = "complete"

=============================================================================
