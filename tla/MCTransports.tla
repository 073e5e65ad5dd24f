----------------------------- MODULE MCTransports ----------------------------
(***************************************************************************)
(* What lies under an upload session: the adapters of src/src/tus.ts and   *)
(* src/src/s3.ts, the evidence that is kept of a chunk, the ranges of the  *)
(* resume record, and the checksum of a file.  They share no state, so a   *)
(* behaviour is one of a single module and the variables of the others     *)
(* rest at one of their initial values.                                    *)
(***************************************************************************)
EXTENDS TusTransport, S3Transport, ChunkEvidence, ResumeRanges, ChecksumRun

VARIABLE under  \* the module whose behaviour this is

\* The choices that the initial states of a module leave, made for a module
\* that rests.
AnyTransport == transport = CHOOSE t \in Transport : TRUE
AnyFile ==
    /\ length = 0 /\ readSize = MinReadSize
    /\ asked = [of |-> "file", executor |-> FALSE, fallback |-> FALSE]
EmptyFile == totalBytes = 0 /\ Created

Init ==
    /\ under \in {"tus", "s3", "evidence", "ranges", "checksum"}
    /\ TusInit /\ S3Init
    /\ under # "evidence" => AnyTransport
    /\ EvidenceInit
    /\ IF under = "ranges" THEN RangesInit ELSE EmptyFile
    /\ under # "checksum" => AnyFile
    /\ ChecksumInit

Tus == under = "tus" /\ UNCHANGED <<s3, evidence, recorded, checksum, under>>
S3 == under = "s3" /\ UNCHANGED <<tus, evidence, recorded, checksum, under>>
Evidence == under = "evidence" /\ UNCHANGED <<tus, s3, recorded, checksum, under>>
Ranges == under = "ranges" /\ UNCHANGED <<tus, s3, evidence, checksum, under>>
Checksum == under = "checksum" /\ UNCHANGED <<tus, s3, evidence, recorded, under>>

Next ==
    \/ Tus /\ TusNext
    \/ S3 /\ S3Next
    \/ Evidence /\ EvidenceNext
    \/ Ranges /\ RangesNext
    \/ Checksum /\ ChecksumNext

Spec ==
    /\ Init
    /\ [][Next]_<<tus, s3, evidence, recorded, checksum, under>>
    /\ WF_tus(Tus /\ TusStep) /\ WF_s3(S3 /\ S3Step) /\ WF_checksum(Checksum /\ ChecksumStep)

\* A run over either transport ends, however its requests break, because tries
\* are counted and every request is answered or breaks (tus.ts:151-217,
\* s3.ts:208-325); so does a checksum, whatever becomes of its Worker
\* (browser.ts:31-80).
RunsSettle ==
    /\ (under = "tus" /\ at # "failed") ~> (at \in {"failed", "done"})
    /\ (under = "s3" /\ phase # "stopped") ~> (phase \in {"stopped", "done"})
    /\ (under = "checksum") ~> (place = "over")
=============================================================================
