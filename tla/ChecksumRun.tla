------------------------------ MODULE ChecksumRun -----------------------------
(***************************************************************************)
(* One checksum of a file or a chunk: calculateChecksum and                *)
(* calculateBlobSha256 with the SHA-256 of src/src/checksum.ts, the Worker *)
(* executor of src/src/browser.ts and the Worker of                        *)
(* src/src/checksum-worker-runtime.ts.  The caller may abort it at any     *)
(* time, the Worker may fail at any time, and the call may then fall back  *)
(* to hashing inline.                                                      *)
(*                                                                         *)
(* Abstractions: a byte of the file is its position.  The compression of a *)
(* block is left out: a digest is the sequence of the bytes compressed.    *)
(* The two words of the length are two bytes, of MaxWord values each, and  *)
(* what a throwing observer is told is left out.                           *)
(***************************************************************************)
EXTENDS Naturals, Sequences

CONSTANTS
    BlockBytes,   \* the 64 bytes of a block
    MaxWord,      \* the 2^32 values of a word, here of a byte of the length
    MinReadSize,  \* MIN_CHECKSUM_CHUNK_SIZE
    ReadSizes,    \* options.chunkSize, legal or not
    MaxLength     \* a bound: file.size

ASSUME ChecksumAssumption ==
    /\ {BlockBytes, MaxLength} \subseteq Nat /\ BlockBytes > 2
    /\ MaxWord \in Nat /\ MaxWord % 8 = 0 /\ MaxWord > 0
    /\ 8 * MaxLength < MaxWord * MaxWord  \* a size is below 2^53, and 2^56 below 2^64
    /\ MinReadSize \in Nat /\ MinReadSize >= BlockBytes /\ ReadSizes \subseteq Nat

PadAt == BlockBytes - 2  \* the 56 of digest()
Byte(p) == <<"byte", p>>
Mark == <<"mark", 0>>
Zero == <<"zero", 0>>
Word(x) == <<"length", x>>
Lesser(x, y) == IF x < y THEN x ELSE y
FileBytes(from, to) == [i \in 1 .. to - from |-> Byte(from + i)]

VARIABLES
    length,    \* file.size
    readSize,  \* execution.chunkSize
    asked,     \* calculateBlobSha256 or calculateChecksum, options.executor and fallback
    aborted,   \* options.signal.aborted
    place,     \* new, waiting for the executor, answered by it, hashing inline, over
    hasher,    \* the Sha256 of the inline calculation
    worker,    \* whether the Worker runs, and its Sha256
    mail,      \* what the Worker posted and is not delivered yet
    answer,    \* what the executor's promise settled with
    loaded,    \* lastLoadedBytes + 1: nothing was reported yet at 0
    outcome    \* what the call settled with

checksum ==
    <<length, readSize, asked, aborted, place, hasher, worker, mail, answer, loaded, outcome>>

-----------------------------------------------------------------------------
(***************************************************************************)
(* Sha256.                                                                 *)
(***************************************************************************)
NewHasher ==
    [buffer |-> [i \in 1 .. BlockBytes |-> Zero], filled |-> 0, hashed |-> 0, taken |-> <<>>]

\* buffer.set(data, from)
SetAt(buffer, from, data) ==
    [i \in DOMAIN buffer |-> IF i \in from + 1 .. from + Len(data) THEN data[i - from] ELSE buffer[i]]
\* buffer.fill(0, from, to)
Fill(buffer, from, to) == [i \in DOMAIN buffer |-> IF i \in from + 1 .. to THEN Zero ELSE buffer[i]]

\* The blocks are compressed, in order.
Transform(taken, blocks) == taken \o blocks

Update(h, data) ==
    LET available == IF h.filled > 0 THEN Lesser(BlockBytes - h.filled, Len(data)) ELSE 0
        buffer == SetAt(h.buffer, h.filled, SubSeq(data, 1, available))
        full == h.filled > 0 /\ h.filled + available = BlockBytes
        whole == ((Len(data) - available) \div BlockBytes) * BlockBytes
        tail == SubSeq(data, available + whole + 1, Len(data)) IN
    [hashed |-> h.hashed + Len(data),
     taken |-> Transform(h.taken, (IF full THEN buffer ELSE <<>>)
                                     \o SubSeq(data, available + 1, available + whole)),
     buffer |-> SetAt(buffer, 0, tail),
     filled |-> IF tail # <<>> THEN Len(tail) ELSE IF full THEN 0 ELSE h.filled + available]

\* bitLengthHigh and bitLengthLow: 2^29 bytes are 2^32 bits.
LengthWords(n) == <<Word(n \div (MaxWord \div 8)), Word((n * 8) % MaxWord)>>

\* digest(): the mark, zeros and the length, in one more block or in two.
Digest(h) ==
    LET marked == SetAt(h.buffer, h.filled, <<Mark>>)
        spills == h.filled + 1 > PadAt
        spilled == Fill(marked, h.filled + 1, BlockBytes)
        last == IF spills THEN Fill(spilled, 0, PadAt) ELSE Fill(marked, h.filled + 1, PadAt) IN
    Transform(h.taken,
        (IF spills THEN spilled ELSE <<>>) \o SetAt(last, PadAt, LengthWords(h.hashed)))

\* The next slice of the file.
NextSlice(h) == FileBytes(h.hashed, Lesser(h.hashed + readSize, length))

-----------------------------------------------------------------------------
(***************************************************************************)
(* The call.                                                               *)
(***************************************************************************)
Pending == [kind |-> "none", digest |-> <<>>]
Verdict(kind) == [Pending EXCEPT !.kind = kind]
Over(result) == place' = "over" /\ outcome' = result

\* createProgressReporter: loaded is one more than lastLoadedBytes.
MayReport(x) == ~aborted /\ x + 1 >= loaded
Reported(x) == loaded' = IF MayReport(x) THEN x + 1 ELSE loaded

\* calculateChecksumInline before its first slice; only an empty file is reported.
StartInline ==
    /\ place' = "hashing" /\ UNCHANGED outcome
    /\ IF length = 0 /\ asked.of = "file" THEN Reported(0) ELSE UNCHANGED loaded

\* The call up to its first await.  An executor whose Worker cannot start, or
\* cannot be asked, has answered.
Begin ==
    /\ place = "new"
    /\ \/ readSize < MinReadSize /\ Over(Verdict("refused")) /\ UNCHANGED <<worker, answer, loaded>>
       \/ /\ readSize >= MinReadSize /\ aborted
          /\ Over(Verdict("canceled")) /\ UNCHANGED <<worker, answer, loaded>>
       \/ /\ readSize >= MinReadSize /\ ~aborted /\ ~asked.executor
          /\ StartInline /\ UNCHANGED <<worker, answer>>
       \/ /\ readSize >= MinReadSize /\ ~aborted /\ asked.executor
          /\ \/ place' = "waiting" /\ worker' = [worker EXCEPT !.runs = TRUE] /\ UNCHANGED answer
             \/ place' = "answered" /\ answer' = Verdict("failed") /\ UNCHANGED worker
          /\ UNCHANGED <<outcome, loaded>>
    /\ UNCHANGED <<length, readSize, asked, aborted, hasher, mail>>

\* finish() of the executor: once, the Worker is terminated and the promise settles.
Finished(result) ==
    /\ place' = "answered" /\ answer' = result /\ worker' = [worker EXCEPT !.runs = FALSE]

\* The signal is aborted; handleAbort of the executor.
AbortSignal ==
    /\ ~aborted /\ place # "over" /\ aborted' = TRUE
    /\ IF place = "waiting" THEN Finished(Verdict("canceled")) ELSE UNCHANGED <<place, answer, worker>>
    /\ UNCHANGED <<length, readSize, asked, hasher, mail, loaded, outcome>>

\* As Concluded, without the check of the signal after the executor's answer.
ConcludedAnyway ==
    CASE answer.kind = "canceled" -> Over(Verdict("canceled")) /\ UNCHANGED loaded
      [] answer.kind = "failed" /\ asked.fallback -> StartInline
      [] answer.kind = "failed" /\ ~asked.fallback -> Over(Verdict("failed")) /\ UNCHANGED loaded
      [] answer.kind = "checksum" -> Over(answer) /\ UNCHANGED loaded
\* calculateChecksum after its executor; what the Worker returns is well formed.
Concluded ==
    CASE aborted \/ answer.kind = "canceled" -> Over(Verdict("canceled")) /\ UNCHANGED loaded
      [] ~aborted /\ answer.kind = "failed" /\ asked.fallback -> StartInline
      [] ~aborted /\ answer.kind = "failed" /\ ~asked.fallback ->
            Over(Verdict("failed")) /\ UNCHANGED loaded
      [] ~aborted /\ answer.kind = "checksum" -> Over(answer) /\ UNCHANGED loaded
Conclude ==
    /\ place = "answered" /\ Concluded
    /\ UNCHANGED <<length, readSize, asked, aborted, hasher, worker, mail, answer>>

\* A slice of the file was read inline.
HashFileSlice ==
    /\ place = "hashing" /\ asked.of = "file" /\ hasher.hashed < length
    /\ IF aborted
       THEN Over(Verdict("canceled")) /\ UNCHANGED <<hasher, loaded>>
       ELSE /\ hasher' = Update(hasher, NextSlice(hasher)) /\ Reported(hasher'.hashed)
            /\ UNCHANGED <<place, outcome>>
    /\ UNCHANGED <<length, readSize, asked, aborted, worker, mail, answer>>

\* A slice of a blob was read: the signal is looked at before the next one.
HashBlobSlice ==
    /\ place = "hashing" /\ asked.of = "blob" /\ hasher.hashed < length
    /\ hasher' = Update(hasher, NextSlice(hasher))
    /\ IF aborted THEN Over(Verdict("canceled")) ELSE UNCHANGED <<place, outcome>>
    /\ UNCHANGED <<length, readSize, asked, aborted, worker, mail, answer, loaded>>

\* The source cannot be read.
ReadFails ==
    /\ place = "hashing" /\ hasher.hashed < length /\ Over(Verdict("failed"))
    /\ UNCHANGED <<length, readSize, asked, aborted, hasher, worker, mail, answer, loaded>>

HashEnds ==
    /\ place = "hashing" /\ hasher.hashed = length
    /\ Over(IF aborted THEN Verdict("canceled") ELSE [kind |-> "checksum", digest |-> Digest(hasher)])
    /\ UNCHANGED <<length, readSize, asked, aborted, hasher, worker, mail, answer, loaded>>

-----------------------------------------------------------------------------
(***************************************************************************)
(* The Worker, which calculates inline and posts what it does.             *)
(***************************************************************************)
Post(message) == mail' = Append(mail, message)

WorkerHashes ==
    /\ worker.runs /\ ~worker.ended /\ worker.sha.hashed < length
    /\ worker' = [worker EXCEPT !.sha = Update(@, NextSlice(@))]
    /\ Post([Verdict("progress") EXCEPT !.digest = <<Word(worker'.sha.hashed)>>])
    /\ UNCHANGED <<length, readSize, asked, aborted, place, hasher, answer, loaded, outcome>>

\* The Worker posts the checksum (for an empty file, after its only progress),
\* or it fails, breaks, or posts what is no message.
WorkerEnds ==
    /\ worker.runs /\ ~worker.ended /\ worker' = [worker EXCEPT !.ended = TRUE]
    /\ \/ /\ worker.sha.hashed = length
          /\ mail' = mail
                \o (IF length = 0 THEN <<[Verdict("progress") EXCEPT !.digest = <<Word(0)>>]>> ELSE <<>>)
                \o <<[kind |-> "checksum", digest |-> Digest(worker.sha)]>>
       \/ Post(Verdict("failed"))
    /\ UNCHANGED <<length, readSize, asked, aborted, place, hasher, answer, loaded, outcome>>

\* onmessage, onerror and onmessageerror: nothing once the executor settled.
Deliver ==
    /\ mail # <<>> /\ mail' = Tail(mail)
    /\ LET message == Head(mail) IN
       IF place # "waiting" THEN UNCHANGED <<place, answer, worker, loaded>>
       ELSE IF message.kind = "progress"
            THEN Reported(message.digest[1][2]) /\ UNCHANGED <<place, answer, worker>>
            ELSE Finished(message) /\ UNCHANGED loaded
    /\ UNCHANGED <<length, readSize, asked, aborted, hasher, outcome>>

ChecksumInit ==
    /\ length \in 0 .. MaxLength /\ readSize \in ReadSizes
    /\ asked \in [of : {"file"}, executor : BOOLEAN, fallback : BOOLEAN]
            \cup [of : {"blob"}, executor : {FALSE}, fallback : {FALSE}]
    /\ aborted = FALSE /\ place = "new" /\ hasher = NewHasher
    /\ worker = [runs |-> FALSE, ended |-> FALSE, sha |-> NewHasher] /\ mail = <<>>
    /\ answer = Pending /\ loaded = 0 /\ outcome = Pending

ChecksumStep ==
    \/ Begin \/ Conclude \/ HashFileSlice \/ HashBlobSlice \/ HashEnds
    \/ WorkerHashes \/ WorkerEnds \/ Deliver

ChecksumNext == ChecksumStep \/ AbortSignal \/ ReadFails

ChecksumSpec == ChecksumInit /\ [][ChecksumNext]_checksum /\ WF_checksum(ChecksumStep)
-----------------------------------------------------------------------------
\* FIPS 180-4 for n bytes: the message, the mark, the fewest zeros, the length.
Padded(n) ==
    LET zeros == CHOOSE k \in 0 .. BlockBytes - 1 : (n + 1 + k) % BlockBytes = PadAt
        words == CHOOSE w \in (0 .. MaxWord - 1) \X (0 .. MaxWord - 1) : w[1] * MaxWord + w[2] = 8 * n IN
    FileBytes(0, n) \o <<Mark>> \o [i \in 1 .. zeros |-> Zero] \o <<Word(words[1]), Word(words[2])>>

\* A checksum is that of the whole file, padded as SHA-256 says, however the
\* slices fall on the blocks, by the Worker or, after it failed, inline
\* (checksum.ts:104-136, 226-278).
DigestIsOfTheFile == outcome.kind = "checksum" => outcome.digest = Padded(length)

\* A call whose signal was aborted gives no checksum, whoever was calculating,
\* and leaves no Worker running; nor does any other call (checksum.ts:50-67,
\* browser.ts:45-74).
AbortedGivesNothing ==
    /\ [][aborted /\ outcome = Pending => outcome'.kind # "checksum"]_checksum
    /\ [](place = "over" => ~worker.runs)

\* The progress that the caller sees never goes back, also when the inline
\* calculation starts over after a Worker, ends at the whole file, and stops
\* with the signal (checksum.ts:158-188).
ProgressOnlyGrows ==
    /\ [][loaded' >= loaded /\ (loaded' # loaded => ~aborted /\ outcome = Pending)]_checksum
    /\ [](outcome.kind = "checksum" /\ asked.of = "file" => loaded = length + 1)

\* A call of calculateChecksum keeps all of its promises: the digest, the abort
\* and the progress, across Worker, fallback and inline calculation.
ChecksumIsHonest == []DigestIsOfTheFile /\ AbortedGivesNothing /\ ProgressOnlyGrows
=============================================================================
