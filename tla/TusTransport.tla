----------------------------- MODULE TusTransport ----------------------------
(***************************************************************************)
(* The tus adapter of src/src/tus.ts, under an upload session that sends   *)
(* its chunks in order, retries a chunk, checkpoints it after its receipt  *)
(* and may lose its page, against a tus server whose connections break:    *)
(* a request can be cut, stored in part, or answered into the void.        *)
(*                                                                         *)
(* Abstractions: bytes are numbered units, and the server's content is the *)
(* sequence of the units it was sent.  Headers, metadata and credentials   *)
(* are left out.                                                           *)
(***************************************************************************)
EXTENDS Naturals, Sequences, FiniteSets

CONSTANTS
    FileSize,    \* file.size
    ChunkSize,   \* options.chunkSizeBytes
    MaxTries,    \* retryPolicy.maxAttempts
    MaxFaults,   \* a bound: cut requests, lost answers and refusals of the server
    MaxRuns,     \* a bound: runs that resume the upload
    Terminates   \* options.terminateOnAbort

ASSUME TusAssumption ==
    /\ {FileSize, ChunkSize, MaxTries} \subseteq Nat \ {0}
    /\ {MaxFaults, MaxRuns} \subseteq Nat
    /\ Terminates \in BOOLEAN

NumChunks == (FileSize + ChunkSize - 1) \div ChunkSize
Chunk == 0 .. NumChunks - 1
Start(c) == c * ChunkSize
Bound(x) == IF x > FileSize THEN FileSize ELSE x
End(c) == Bound(Start(c) + ChunkSize)
Units(from, to) == [i \in 1 .. to - from |-> from + i - 1]

VARIABLES
    at,       \* what the session waits for
    chunk,    \* the chunk it uploads
    try,      \* its attempt
    seen,     \* the offset the last HEAD answered
    receipts, \* the chunks it has receipts for
    record,   \* progress.uploadedBytes of the resume record
    content,  \* the units the server holds, Upload-Offset of them
    server,   \* the upload at the server: none, open, gone
    patches,  \* the PATCH requests on their way, the awaited one among them
    told,     \* how completeSession or the run ended
    faults, runs

tus == <<at, chunk, try, seen, receipts, record, content, server, patches, told, faults, runs>>

Offset == Len(content)

\* Something the network or the server does wrong, a bounded number of times.
Fault == faults < MaxFaults /\ faults' = faults + 1
Fine == UNCHANGED faults

-----------------------------------------------------------------------------
\* createSession: POST, with the capabilities of the server read before.
Create ==
    /\ at = "new"
    /\ \/ at' = "next" /\ server' = "open" /\ Fine
       \/ at' = "failed" /\ server' \in {"none", "open"} /\ Fault
    /\ UNCHANGED <<chunk, try, seen, receipts, record, content, patches, told, runs>>

\* The session goes on to the next chunk or to completion.
NextChunk ==
    /\ at = "next"
    /\ IF record >= FileSize THEN at' = "completing" /\ UNCHANGED <<chunk, try>>
       ELSE /\ at' = "reading" /\ try' = 1
            /\ chunk' = CHOOSE c \in Chunk : Start(c) = record
    /\ UNCHANGED <<seen, receipts, record, content, server, patches, told, faults, runs>>

\* A retryable error: the session tries the chunk again or gives the run up.
RetryOrFail == IF try < MaxTries THEN at' = "reading" /\ try' = try + 1
               ELSE at' = "failed" /\ UNCHANGED try
Fails == at' = "failed" /\ UNCHANGED try

\* As Reads, waiting for another offset.
ReadsAgain(offset) ==
    \/ offset = End(chunk) /\ at' = "receipt" /\ UNCHANGED try
    \/ offset = Start(chunk) /\ at' = "patching" /\ UNCHANGED try
    \/ offset \notin {Start(chunk), End(chunk)} /\ UNCHANGED <<at, try>>

\* uploadChunk reads the remote offset first: the chunk is there, is what comes
\* next, or the upload cannot go on.
Reads(offset) ==
    \/ offset = End(chunk) /\ at' = "receipt" /\ UNCHANGED try
    \/ offset = Start(chunk) /\ at' = "patching" /\ UNCHANGED try
    \/ offset \notin {Start(chunk), End(chunk)} /\ Fails

\* HEAD: assertUploadStillExists, a retryable status, or Upload-Offset.
ReadOffset ==
    /\ at = "reading"
    /\ \/ server = "open" /\ seen' = Offset /\ Reads(Offset) /\ Fine
       \/ server = "gone" /\ Fails /\ UNCHANGED seen /\ Fine
       \/ RetryOrFail /\ UNCHANGED seen /\ Fault
    /\ UNCHANGED <<chunk, receipts, record, content, server, patches, told, runs>>

SendPatch ==
    /\ at = "patching"
    /\ patches' = patches \cup
        {[offset |-> seen, body |-> Units(Start(chunk), End(chunk)), awaited |-> TRUE]}
    /\ at' = "answer"
    /\ UNCHANGED <<chunk, try, seen, receipts, record, content, server, told, faults, runs>>

\* What the session makes of the answer to a PATCH that stored n units of it,
\* when it still waits for one.
Answered(p, n) ==
    IF ~p.awaited THEN UNCHANGED <<at, try>>
    ELSE IF Offset + n = End(chunk) THEN at' = "receipt" /\ UNCHANGED try
    ELSE Fails
\* As Unanswered, taking no answer for a good one.
UnansweredTaken(p) == at' = (IF p.awaited THEN "receipt" ELSE at) /\ UNCHANGED try
Unanswered(p) == IF p.awaited THEN RetryOrFail ELSE UNCHANGED <<at, try>>

\* The server appends a body that comes at its offset, whole or cut, and answers
\* 204 with the new one; at another offset it answers 409, and 404 when it no
\* longer has the upload.
Serve ==
    \E p \in patches :
        /\ patches' = patches \ {p}
        /\ \/ /\ server = "open" /\ p.offset = Offset
              /\ content' = content \o p.body
              /\ \/ Answered(p, Len(p.body)) /\ Fine
                 \/ Unanswered(p) /\ Fault
           \/ /\ server = "open" /\ p.offset = Offset /\ Fault
              /\ \E n \in 1 .. Len(p.body) - 1 : content' = content \o SubSeq(p.body, 1, n)
              /\ Unanswered(p)
           \/ /\ server = "gone" \/ p.offset # Offset
              /\ IF p.awaited THEN Fails ELSE UNCHANGED <<at, try>>
              /\ UNCHANGED content /\ Fine
        /\ UNCHANGED <<chunk, seen, receipts, record, server, told, runs>>

\* The awaited request breaks: the server may get it later, or never.
Break ==
    \E p \in patches :
        /\ p.awaited /\ Fault /\ RetryOrFail
        /\ \/ patches' = patches \ {p}
           \/ patches' = (patches \ {p}) \cup {[p EXCEPT !.awaited = FALSE]}
        /\ UNCHANGED <<chunk, seen, receipts, record, content, server, told, runs>>

\* The upload expires, or the server answers 403, 404 or 410 for it.
Expire ==
    /\ server = "open" /\ Fault
    /\ server' = "gone"
    /\ UNCHANGED <<at, chunk, try, seen, receipts, record, content, patches, told, runs>>

\* createReceipt, and the checkpoint the session makes of it.
Checkpoint ==
    /\ at = "receipt" /\ at' = "next"
    /\ receipts' = receipts \cup {chunk} /\ record' = End(chunk)
    /\ UNCHANGED <<chunk, try, seen, content, server, patches, told, faults, runs>>

\* The receipt is not saved: the record stays behind the server.
Unsaved ==
    /\ at = "receipt" /\ at' = "failed"
    /\ Fault
    /\ UNCHANGED <<chunk, try, seen, receipts, record, content, server, patches, told, runs>>

\* The page ends while a request is on its way.
EndPage ==
    /\ at \in {"next", "reading", "patching", "answer", "receipt", "completing"} /\ Fault
    /\ at' = "failed"
    /\ patches' = {[p EXCEPT !.awaited = FALSE] : p \in patches}
    /\ UNCHANGED <<chunk, try, seen, receipts, record, content, server, told, runs>>

Agrees(offset) == offset = record

\* resumeSession from a record: the offset of the server has to be the record's.
Resume ==
    /\ at = "failed" /\ told = "none" /\ runs < MaxRuns /\ runs' = runs + 1
    /\ server # "none"
    /\ \/ server = "open" /\ Agrees(Offset) /\ at' = "next" /\ Fine
       \/ server = "open" /\ ~Agrees(Offset) /\ at' = "failed" /\ Fine
       \/ server = "gone" /\ at' = "failed" /\ Fine
    /\ try' = 0
    /\ UNCHANGED <<chunk, seen, receipts, record, content, server, patches, told>>

\* resumeSession from a snapshot asks the server nothing.
ResumeSnapshot ==
    /\ at = "failed" /\ told = "none" /\ runs < MaxRuns /\ runs' = runs + 1
    /\ server # "none"
    /\ at' = "next" /\ try' = 0
    /\ UNCHANGED <<chunk, seen, receipts, record, content, server, patches, told, faults>>

WholeAt(offset) == offset = FileSize

\* completeSession reads the offset once more.
Complete ==
    /\ at = "completing"
    /\ \/ server = "open" /\ WholeAt(Offset) /\ at' = "done" /\ told' = "completed" /\ Fine
       \/ server = "open" /\ ~WholeAt(Offset) /\ at' = "failed" /\ UNCHANGED told /\ Fine
       \/ server = "gone" /\ at' = "failed" /\ UNCHANGED told /\ Fine
       \/ at' = "failed" /\ UNCHANGED told /\ Fault
    /\ UNCHANGED <<chunk, try, seen, receipts, record, content, server, patches, runs>>

\* abortSession: DELETE where the option says so, and nothing otherwise.
Abort ==
    /\ at \in {"next", "failed"} /\ server = "open" /\ told = "none"
    /\ at' = "done" /\ told' = "canceled"
    /\ \/ server' = (IF Terminates THEN "gone" ELSE server) /\ Fine
       \/ Terminates /\ UNCHANGED server /\ Fault
    /\ UNCHANGED <<chunk, try, seen, receipts, record, content, patches, runs>>

-----------------------------------------------------------------------------
TusInit ==
    /\ at = "new" /\ chunk = 0 /\ try = 0 /\ seen = 0 /\ receipts = {} /\ record = 0
    /\ content = << >> /\ server = "none" /\ patches = {} /\ told = "none"
    /\ faults = 0 /\ runs = 0

TusStep ==
    Create \/ NextChunk \/ ReadOffset \/ SendPatch \/ Serve \/ Checkpoint \/ Complete
TusNext ==
    \/ Create
    \/ NextChunk
    \/ ReadOffset
    \/ SendPatch
    \/ Serve
    \/ Break
    \/ Expire
    \/ Checkpoint
    \/ Unsaved
    \/ EndPage
    \/ Resume
    \/ ResumeSnapshot
    \/ Complete
    \/ Abort

TusSpec == TusInit /\ [][TusNext]_tus /\ WF_tus(TusStep)

-----------------------------------------------------------------------------
\* Requests that are cut, arrive late or are sent again never disturb the order:
\* the server holds the units of the original from its beginning, each once.
RemoteIsPrefix == content = Units(0, Offset)

\* A receipt and a checkpoint speak of units the server holds, and an upload is
\* called complete only when it holds all of them.
ReceiptsAreStored ==
    /\ RemoteIsPrefix
    /\ \A c \in receipts : End(c) <= Offset
    /\ record <= Offset
    /\ told = "completed" => Offset = FileSize

\* A run that fails while the server still has the upload can be resumed.
ResumeIsPossible == at = "failed" /\ server = "open" /\ told = "none" => Agrees(Offset)
=============================================================================
