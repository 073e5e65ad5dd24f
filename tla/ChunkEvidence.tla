---------------------------- MODULE ChunkEvidence ----------------------------
(***************************************************************************)
(* The evidence that a parallel upload keeps of every chunk: a checksum    *)
(* calculated here, and one that the transport attests.  Four readers      *)
(* judge it: the session when a chunk is answered and when a record is     *)
(* resumed (src/src/session.ts), the parser of resume records              *)
(* (src/src/resume.ts) and verifyUploadReceipts once the upload is         *)
(* complete (src/src/verification.ts).                                     *)
(*                                                                         *)
(* A transport may damage what it stores, answer badly or lose its answer, *)
(* and a stored record may be changed.  Chunks are sent one at a time and  *)
(* every checkpoint is stored: the pool and the puts that fail are those   *)
(* of module ParallelTransfer.                                             *)
(*                                                                         *)
(* Abstractions: a checksum is "source", that of the chunk's bytes,        *)
(* "other", that of other bytes, or "garbled", which does not decode, and  *)
(* it is calculated whenever the code reads the bytes again; the range of  *)
(* a binding is the chunk that it covers.                                  *)
(***************************************************************************)
EXTENDS Naturals, FiniteSets

CONSTANTS
    NumSlices,   \* chunkPlan.totalChunks
    MaxMishaps,  \* a bound: damages, bad answers and changes of a record
    MaxOpens     \* a bound: runs

ASSUME EvidenceAssumption == NumSlices \in Nat \ {0} /\ {MaxMishaps, MaxOpens} \subseteq Nat

Slice == 0 .. NumSlices - 1

\* What a transport attests of content in its style: ChunkChecksumEvidence.
Style == {"silent", "base64", "hex", "blank", "garbled", "crc32", "unsigned"}
Unattested == [value |-> "none", encoding |-> "none", algorithm |-> "none", role |-> "none"]
Attested(style, content) ==
    LET plain == [value |-> content, encoding |-> "base64", algorithm |-> "sha256",
                  role |-> "remote-attestation"] IN
    CASE style = "silent" -> Unattested
      [] style = "base64" -> plain
      [] style = "hex" -> [plain EXCEPT !.encoding = "hex"]
      [] style = "blank" -> [plain EXCEPT !.value = ""]
      [] style = "garbled" -> [plain EXCEPT !.value = "garbled"]
      [] style = "crc32" -> [plain EXCEPT !.algorithm = "crc32"]
      [] style = "unsigned" -> [plain EXCEPT !.role = "local-calculation"]

\* TransportCapabilities, and how the transport answers uploadChunk and
\* reconcileChunks.
Transport ==
    [attests : BOOLEAN, reconciles : BOOLEAN, repeats : BOOLEAN, sha256 : BOOLEAN,
     put : Style, list : Style]

\* UploadChunkReceipt as the session keeps it.
Receipt(c, remote) ==
    [chunk |-> c, sized |-> TRUE, named |-> TRUE, range |-> c, session |-> "this",
     local |-> "source", remote |-> remote]

VARIABLES
    transport,
    stage,     \* idle, open, done, or the conflict that resume() rejected with
    held,      \* completedReceipts
    saved,     \* the receipts of the resume record, and its completed ranges
    provider,  \* what the provider holds of each chunk
    mishaps, opens,
    tampered,  \* the record was changed by somebody (history)
    verified   \* what verifyUploadReceipts said of the completed upload

evidence == <<transport, stage, held, saved, provider, mishaps, opens, tampered, verified>>

Mishap == mishaps < MaxMishaps /\ mishaps' = mishaps + 1
NoMishap == UNCHANGED mishaps
Covered(rs) == {r.chunk : r \in rs}

-----------------------------------------------------------------------------
(***************************************************************************)
(* The session accepts an answer.                                          *)
(***************************************************************************)

\* validateParallelAdmission.
Admitted ==
    /\ transport.sha256
    /\ transport.repeats \/ transport.reconciles

\* validateReceipt, validateReceiptTransport and the scope of the evidence.
Describes(r, c) == r.chunk = c /\ r.sized /\ r.named /\ r.range = c /\ r.session = "this"

\* checksumValuesEqual, in whichever encoding: a value that does not decode
\* throws, which no caller takes for equal.
Decodes(value) == value \notin {"", "garbled"}
SameDigest(value, remote) == Decodes(remote.value) /\ remote.value = value

\* validateChunkIntegrity: a transport that attests has to, and to agree.
AttestedAsNeeded(r) ==
    transport.attests =>
        /\ r.remote # Unattested
        /\ r.remote.role = "remote-attestation" /\ r.remote.algorithm = "sha256"
        /\ SameDigest(r.local, r.remote)

Accepted(r, c) == Describes(r, c) /\ AttestedAsNeeded(r)

\* As Kept, without what the transport attested.
KeptLocal(r) == [r EXCEPT !.remote = Unattested]
\* { ...local, ...(remote ? { remote } : {}) }.
Kept(r) == r

\* What is wrong with an answer that is not about the chunk.
Misdescribed(r) ==
    {[r EXCEPT !.chunk = c] : c \in Slice \ {r.chunk}}
    \cup {[r EXCEPT !.range = c] : c \in Slice \ {r.chunk}}
    \cup {[r EXCEPT !.sized = FALSE], [r EXCEPT !.named = FALSE], [r EXCEPT !.session = "other"]}

\* checkpointChunk: the record lists every receipt.
Checkpointed(rs) == [receipts |-> rs, ranges |-> Covered(rs)]

\* uploadChunk answers: stored is what the provider made of the bytes.
AnswerWith(c, stored, r) ==
    /\ provider' = [provider EXCEPT ![c] = stored]
    /\ IF Accepted(r, c)
       THEN /\ held' = held \cup {Kept(r)} /\ saved' = Checkpointed(held')
            /\ UNCHANGED stage
       ELSE stage' = "idle" /\ UNCHANGED <<held, saved>>
    /\ UNCHANGED <<transport, opens, tampered, verified>>

Sent(c) == stage = "open" /\ c \in Slice \ Covered(held)

SendWell(c) ==
    /\ Sent(c) /\ NoMishap
    /\ AnswerWith(c, "source", Receipt(c, Attested(transport.put, "source")))

\* The bytes are damaged on their way.
SendDamaged(c) ==
    /\ Sent(c) /\ Mishap
    /\ AnswerWith(c, "other", Receipt(c, Attested(transport.put, "other")))

SendMisdescribed(c) ==
    /\ Sent(c) /\ Mishap
    /\ \E r \in Misdescribed(Receipt(c, Attested(transport.put, "source"))) :
        AnswerWith(c, "source", r)

\* The answer is lost or says something that is no receipt, and the run fails.
SendLost(c) ==
    /\ Sent(c) /\ Mishap
    /\ \E stored \in {"source", "other"} : provider' = [provider EXCEPT ![c] = stored]
    /\ stage' = "idle"
    /\ UNCHANGED <<transport, held, saved, opens, tampered, verified>>

\* The run is paused, or its page ends.
Leave ==
    /\ stage = "open" /\ stage' = "idle"
    /\ UNCHANGED <<transport, held, saved, provider, mishaps, opens, tampered, verified>>

-----------------------------------------------------------------------------
(***************************************************************************)
(* The record is resumed.                                                  *)
(***************************************************************************)

\* As Parses, for receipts of any upload session.
ParsesAnySession(rec) ==
    /\ \A r, s \in rec.receipts : r.chunk = s.chunk => r = s
    /\ \A r \in rec.receipts :
        /\ r.sized /\ r.named /\ r.range = r.chunk
        /\ r.remote.value # "" /\ r.local # ""
    /\ rec.ranges = Covered(rec.receipts)
\* findResumeRecordIssue for a record of schema v0.4.
Parses(rec) ==
    /\ \A r, s \in rec.receipts : r.chunk = s.chunk => r = s
    /\ \A r \in rec.receipts :
        /\ r.sized /\ r.named /\ r.range = r.chunk /\ r.session = "this"
        /\ r.remote.value # "" /\ r.local # ""
    /\ rec.ranges = Covered(rec.receipts)

\* validatePersistedParallelEvidence: the checksum is calculated again, the
\* attestation only has to be there.
StillTrue(r) ==
    /\ r.local = "source"
    /\ transport.attests => r.remote # Unattested

\* reconcileChunks, and receiptsDescribeSameRemoteChunk.
Listed(c) == Receipt(c, Attested(transport.list, provider[c]))
RemoteChunks == {c \in Slice : provider[c] # "none"}
Reconciled(rec) ==
    /\ \A c \in RemoteChunks : Accepted(Listed(c), c)
    /\ \A r \in rec.receipts : r.chunk \in RemoteChunks /\ Kept(Listed(r.chunk)) = r
Restored(rec) ==
    rec.receipts \cup (IF transport.reconciles THEN {Kept(Listed(c)) : c \in RemoteChunks} ELSE {})

Resumes(rec) ==
    /\ Parses(rec)
    /\ \A r \in rec.receipts : StillTrue(r)
    /\ transport.reconciles => Reconciled(rec)

OpenRun ==
    /\ stage = "idle" /\ opens < MaxOpens /\ opens' = opens + 1
    /\ Admitted
    /\ IF Resumes(saved)
       THEN /\ stage' = "open" /\ held' = Restored(saved) /\ saved' = Checkpointed(held')
       ELSE /\ stage' = "conflict" /\ UNCHANGED <<held, saved>>
    /\ UNCHANGED <<transport, provider, mishaps, tampered, verified>>

\* What can become of one receipt of a record: it is about another chunk, of
\* another upload, or its checksums are other ones.
Changed(r) ==
    {[r EXCEPT !.chunk = c] : c \in Slice} \cup {[r EXCEPT !.range = c] : c \in Slice}
    \cup {[r EXCEPT !.chunk = c, !.range = c, !.local = "other"] : c \in Slice \ {r.chunk}}
    \cup {[r EXCEPT !.session = "other"], [r EXCEPT !.local = "other"],
          [r EXCEPT !.remote = Unattested], [r EXCEPT !.remote.role = "local-calculation"],
          [r EXCEPT !.remote.value = "other"]}

\* One receipt is changed or taken away, or comes from another upload of this
\* source.  It happens once: a change upon a change could forge any receipt.
Tamper ==
    /\ stage = "idle" /\ ~tampered /\ Mishap /\ tampered' = TRUE
    /\ \/ \E r \in saved.receipts : \E s \in Changed(r) :
            saved' = Checkpointed((saved.receipts \ {r}) \cup {s})
       \/ \E r \in saved.receipts : saved' = [saved EXCEPT !.receipts = @ \ {r}]
       \/ \E c \in Slice \ Covered(saved.receipts) :
            saved' = Checkpointed(saved.receipts \cup
                {[Receipt(c, Attested(transport.put, "source")) EXCEPT !.session = "other"]})
    /\ UNCHANGED <<transport, stage, held, provider, opens, verified>>

-----------------------------------------------------------------------------
(***************************************************************************)
(* The upload is complete and its receipts are verified.                   *)
(***************************************************************************)

\* verifyUploadReceipts and verifyChunkIntegrityEvidence, for one receipt.
ChunkVerifies(r) ==
    /\ r.sized /\ r.named /\ r.range = r.chunk
    /\ r.remote # Unattested =>
        /\ r.remote.role = "remote-attestation" /\ r.remote.algorithm = "sha256"
        /\ SameDigest(r.local, r.remote)
VerifyReceipts(rs) ==
    /\ \A r, s \in rs : r.chunk = s.chunk => r = s
    /\ \A r \in rs : ChunkVerifies(r)
    /\ Covered(rs) = Slice

CompleteRun ==
    /\ stage = "open" /\ Covered(held) = Slice
    /\ stage' = "done" /\ verified' = VerifyReceipts(held)
    /\ UNCHANGED <<transport, held, saved, provider, mishaps, opens, tampered>>

EvidenceInit ==
    /\ transport \in Transport
    /\ stage = "idle" /\ held = {} /\ saved = Checkpointed({})
    /\ provider = [c \in Slice |-> "none"]
    /\ mishaps = 0 /\ opens = 0 /\ tampered = FALSE /\ verified = FALSE

EvidenceNext ==
    \/ \E c \in Slice : SendWell(c) \/ SendDamaged(c) \/ SendMisdescribed(c) \/ SendLost(c)
    \/ Leave
    \/ OpenRun
    \/ Tamper
    \/ CompleteRun

EvidenceSpec == EvidenceInit /\ [][EvidenceNext]_evidence
-----------------------------------------------------------------------------
\* With a transport that attests what it stored, a chunk that the session counts
\* is at the provider with the bytes of the source, in this upload: whatever was
\* damaged, answered badly or lost, and whatever became of one receipt of the
\* record between two runs (session.ts:1221-1312, 1397-1424; resume.ts:656-720).
AcknowledgedIsStored ==
    transport.attests /\ stage \in {"open", "done"} =>
        \A r \in held : provider[r.chunk] = "source"

\* A record that nobody touched is resumed, by a transport that attests as it
\* advertises and in one form, when it holds no damaged part: what the session
\* accepts, the parser, the resuming session and the reconciliation accept as
\* well (session.ts:1397-1424 against resume.ts:656-720, 874-961).
AsAdvertised ==
    IF transport.attests THEN transport.put \in {"base64", "hex"} ELSE transport.put # "blank"
WrittenRecordResumes ==
    stage = "conflict" =>
        \/ tampered \/ ~AsAdvertised
        \/ transport.reconciles /\ transport.list # transport.put
        \/ transport.reconciles /\ \E c \in Slice : provider[c] = "other"

\* A completed upload whose receipts verify has true evidence of every chunk, and
\* one whose transport attests, or says nothing, and whose record nobody touched
\* verifies (verification.ts:43-295).
CompletedVerifies ==
    stage = "done" =>
        /\ verified =>
            \A c \in Slice : \E r \in held :
                /\ r.chunk = c /\ r.range = c /\ r.local = "source"
                /\ r.remote.value \in {"none", "source"}
        /\ ~tampered /\ (transport.attests \/ {transport.put, transport.list} = {"silent"})
               => verified

\* From the answer of a chunk to the verification of the upload, no reader of the
\* evidence takes what is not so, and none refuses what the one before it wrote.
EvidenceHolds == AcknowledgedIsStored /\ CompletedVerifies
=============================================================================
