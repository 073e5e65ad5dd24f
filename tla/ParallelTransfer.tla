--------------------------- MODULE ParallelTransfer ---------------------------
(***************************************************************************)
(* The pool of chunk workers of src/src/session.ts: a run of an upload     *)
(* session with options.parallel, over one remote multipart upload and one *)
(* resume record of schema v0.4.                                           *)
(*                                                                         *)
(* Workers take the planned chunks in order, checksum and send them side   *)
(* by side, and hand every accepted answer to one commit queue.  A run can *)
(* fail, be paused or canceled, or end with its page; a later run opens    *)
(* the record again.                                                       *)
(*                                                                         *)
(* Abstractions: a chunk is its index, a receipt with its integrity        *)
(* evidence the index of its chunk, and a set of completed ranges the set  *)
(* of indices in it.  What opens a run up to the record it restores, and   *)
(* the first record of start(), are those of module IngestSession.         *)
(***************************************************************************)
EXTENDS Naturals, FiniteSets, Sequences

CONSTANTS
    Worker,      \* effectiveConcurrency workers
    NumChunks,   \* chunkPlan.totalChunks
    MaxAttempts, \* retryPolicy.maxAttempts
    MaxRuns,     \* a bound: runs that resume the record
    MaxRefusals, \* a bound: puts that reject
    MaxCrashes   \* a bound: ends of the page during a run

ASSUME ParallelAssumption ==
    /\ IsFiniteSet(Worker) /\ Worker # {}
    /\ NumChunks \in Nat \ {0}
    /\ MaxAttempts \in Nat \ {0}
    /\ {MaxRuns, MaxRefusals, MaxCrashes} \subseteq Nat

Chunk == 0 .. NumChunks - 1

Status == {"active", "paused", "canceled", "failed", "completed"}
Records == [status : Status, ranges : SUBSET Chunk, receipts : SUBSET Chunk,
            ambiguous : SUBSET Chunk]
FirstRecord == [status |-> "active", ranges |-> {}, receipts |-> {}, ambiguous |-> {}]

VARIABLES
    phase,      \* idle, opening, running, completing or closing
    outcome,    \* how the last run ended
    at,         \* what each worker is about to do
    job,        \* the chunk it took
    attempt,    \* the attempt at it
    left,       \* remaining, from cursor on
    taken,      \* remaining, up to cursor
    receipts,   \* completedReceipts
    ambiguous,  \* ambiguousChunks
    failed,     \* failedChunks
    queue,      \* commitQueue: the workers whose answer waits in it
    active,     \* activeRecord
    current,    \* currentRecord
    failure,    \* the first failure of the pool
    stop,       \* lifecycleAction
    record,     \* the record in the resume store
    parts,      \* the remote parts
    remote,     \* the remote upload: open, complete or aborted
    reconciles, \* the transport can say which parts it holds
    runs, refusals, crashes

pool == <<at, job, attempt, left, taken, queue>>
memory == <<receipts, ambiguous, failed, active, current, failure>>
service == <<parts, remote, reconciles>>
bounds == <<runs, refusals, crashes>>
vars == <<phase, outcome, pool, memory, stop, record, service, bounds>>

Init ==
    /\ phase = "idle"
    /\ outcome = "none"
    /\ at = [w \in Worker |-> "done"]
    /\ job = [w \in Worker |-> 0]
    /\ attempt = [w \in Worker |-> 1]
    /\ left = {}
    /\ taken = {}
    /\ receipts = {}
    /\ ambiguous = {}
    /\ failed = {}
    /\ queue = << >>
    /\ active = FirstRecord
    /\ current = FirstRecord
    /\ failure = "none"
    /\ stop = "none"
    /\ record = FirstRecord
    /\ parts = {}
    /\ remote = "open"
    /\ reconciles \in BOOLEAN
    /\ runs = 0
    /\ refusals = 0
    /\ crashes = 0

Readable(r) == r.ranges = r.receipts

\* The abort signal: a pause, a cancel or the first failure has raised it.
Aborted == stop # "none" \/ failure # "none"

Goto(w, step) == at' = [at EXCEPT ![w] = step]

\* The loop of a worker comes round; the chunk it had is gone.
Free(w) ==
    /\ Goto(w, "free")
    /\ job' = [job EXCEPT ![w] = 0]
    /\ attempt' = [attempt EXCEPT ![w] = 1]

\* A put of r that rejects; a store can reject what it has kept all the same.
Refuse(r) ==
    /\ refusals < MaxRefusals
    /\ refusals' = refusals + 1
    /\ record' \in {record, r}
    /\ UNCHANGED <<runs, crashes>>

\* Mutant of WithStatus: the chunks of unknown fate are left out.
WithStatusOnly(r, status) == [r EXCEPT !.status = status]

\* A record marked at the end of a run.
WithStatus(r, status) == [r EXCEPT !.status = status, !.ambiguous = ambiguous]

------------------------------------------------------------------------------
(***************************************************************************)
(* A run opens.                                                            *)
(***************************************************************************)

\* resume() on a new session object, up to the transport's resumeSession.
Begin ==
    /\ phase = "idle"
    /\ runs < MaxRuns
    /\ Readable(record)
    /\ record.status \notin {"completed", "canceled"}
    /\ phase' = "opening"
    /\ outcome' = "none"
    /\ current' = record
    /\ receipts' = {}
    /\ ambiguous' = {}
    /\ failed' = {}
    /\ failure' = "none"
    /\ stop' = "none"
    /\ left' = {}
    /\ taken' = {}
    /\ runs' = runs + 1
    /\ UNCHANGED <<at, job, attempt, queue, active, record, service, refusals, crashes>>

\* Mutant of Adopted: a chunk of unknown fate is taken for a sent one.
AdoptedBlindly == record.receipts \cup record.ambiguous \cup (IF reconciles THEN parts ELSE {})

\* The receipts a run starts from: its record's, and those of the parts that
\* the transport can prove.
Adopted == record.receipts \cup (IF reconciles THEN parts ELSE {})

Opened == [status |-> "active", ranges |-> Adopted, receipts |-> Adopted, ambiguous |-> {}]

\* The restored record is stored, and the workers start on the rest.
Open ==
    /\ phase = "opening"
    /\ remote # "aborted"
    /\ phase' = "running"
    /\ receipts' = Adopted
    /\ ambiguous' = {}
    /\ active' = Opened
    /\ current' = Opened
    /\ record' = Opened
    /\ left' = Chunk \ Adopted
    /\ at' = [w \in Worker |-> "free"]
    /\ UNCHANGED <<outcome, failed, failure, stop, job, attempt, taken, queue, service, bounds>>

\* resumeSession rejects: a conflict, which leaves the record as it is.
OpenConflict ==
    /\ phase = "opening"
    /\ phase' = "closing"
    /\ failure' = "conflict"
    /\ UNCHANGED <<outcome, pool, receipts, ambiguous, failed, active, current, stop,
                   record, service, bounds>>

\* reconcileChunks rejects, after the record's receipts were taken over.
OpenFail ==
    /\ phase = "opening"
    /\ reconciles
    /\ phase' = "closing"
    /\ receipts' = record.receipts
    /\ ambiguous' = {}
    /\ failure' = "error"
    /\ UNCHANGED <<outcome, pool, failed, active, current, stop, record, service, bounds>>

\* The put of the restored record rejects.
OpenRefused ==
    /\ phase = "opening"
    /\ phase' = "closing"
    /\ receipts' = Adopted
    /\ ambiguous' = {}
    /\ current' = Opened
    /\ failure' = "conflict"
    /\ Refuse(Opened)
    /\ UNCHANGED <<outcome, pool, failed, active, stop, service>>

------------------------------------------------------------------------------
(***************************************************************************)
(* The workers.                                                            *)
(***************************************************************************)

Least(S) == CHOOSE c \in S : \A d \in S : c <= d

\* A worker takes the next chunk, or ends.
Take(w) ==
    /\ at[w] = "free"
    /\ failure = "none"
    /\ stop = "none"
    /\ left # {}
    /\ job' = [job EXCEPT ![w] = Least(left)]
    /\ left' = left \ {Least(left)}
    /\ taken' = taken \cup {Least(left)}
    /\ Goto(w, "hashing")
    /\ UNCHANGED <<phase, outcome, attempt, queue, memory, stop, record, service, bounds>>

\* Mutant of Leave: the loop's condition does not look at the failure.
LeaveAtEnd(w) ==
    /\ at[w] = "free"
    /\ stop # "none" \/ left = {}
    /\ failure' = IF failure = "none" /\ left # {} THEN "stop" ELSE failure
    /\ Goto(w, "done")
    /\ UNCHANGED <<phase, outcome, job, attempt, left, taken, queue, receipts, ambiguous,
                   failed, active, current, stop, record, service, bounds>>

\* The loop ends: no chunk is left, the pool has failed or a stop is noticed.
Leave(w) ==
    /\ at[w] = "free"
    /\ failure # "none" \/ stop # "none" \/ left = {}
    /\ failure' = IF failure = "none" /\ left # {} THEN "stop" ELSE failure
    /\ Goto(w, "done")
    /\ UNCHANGED <<phase, outcome, job, attempt, left, taken, queue, receipts, ambiguous,
                   failed, active, current, stop, record, service, bounds>>

\* Mutant of Catch: a sibling of the failed chunk is not recorded.
CatchFirst(w, kind) ==
    /\ failure' = IF failure = "none" THEN kind ELSE failure
    /\ ambiguous' = IF stop # "none" /\ failure = "none" THEN ambiguous \cup {job[w]} ELSE ambiguous
    /\ failed' = IF stop = "none" /\ failure = "none" THEN failed \cup {job[w]} ELSE failed

\* The catch of a worker: the first failure of the pool is kept and raises the
\* abort signal, the chunk of a later one is of unknown fate.
Catch(w, kind) ==
    \/ /\ failure = "none"
       /\ failure' = kind
       /\ IF stop = "none"
          THEN failed' = failed \cup {job[w]} /\ UNCHANGED ambiguous
          ELSE ambiguous' = ambiguous \cup {job[w]} /\ UNCHANGED failed
    \/ /\ failure # "none"
       /\ ambiguous' = ambiguous \cup ({job[w]} \ receipts)
       /\ UNCHANGED <<failure, failed>>

Abandon(w, kind) ==
    /\ Catch(w, kind)
    /\ Free(w)
    /\ UNCHANGED <<phase, outcome, left, taken, queue, receipts, stop>>

\* The chunk's checksum is calculated and its first attempt starts.
Hash(w) ==
    /\ at[w] = "hashing"
    /\ ~Aborted
    /\ Goto(w, "sending")
    /\ UNCHANGED <<phase, outcome, job, attempt, left, taken, queue, memory, stop, record,
                   service, bounds>>

\* The source cannot be read, or the signal ends the calculation.
HashFail(w) ==
    /\ at[w] = "hashing"
    /\ Abandon(w, "error")
    /\ UNCHANGED <<active, current, record, service, bounds>>

\* The answer is a valid receipt whose checksum agrees: it joins the queue.
SendOk(w) ==
    /\ at[w] = "sending"
    /\ remote = "open"
    /\ parts' = parts \cup {job[w]}
    /\ queue' = Append(queue, w)
    /\ Goto(w, "queued")
    /\ UNCHANGED <<phase, outcome, job, attempt, left, taken, memory, stop, record,
                   remote, reconciles, bounds>>

\* The remote has the part; its answer may still be lost with a failed request
\* or with the page.
Arrive(w) ==
    /\ at[w] = "sending"
    /\ remote = "open"
    /\ parts' = parts \cup {job[w]}
    /\ UNCHANGED <<phase, outcome, pool, memory, stop, record, remote, reconciles, bounds>>

\* The failure may pass, and the policy has an attempt left.
SendRetry(w) ==
    /\ at[w] = "sending"
    /\ ~Aborted
    /\ attempt[w] < MaxAttempts
    /\ attempt' = [attempt EXCEPT ![w] = attempt[w] + 1]
    /\ Goto(w, "waiting")
    /\ UNCHANGED <<phase, outcome, job, left, taken, queue, memory, stop, record, service,
                   bounds>>

\* It is the last attempt, the error is not retryable or the run is stopping.
SendFail(w) ==
    /\ at[w] = "sending"
    /\ Abandon(w, IF stop = "none" THEN "error" ELSE "stop")
    /\ UNCHANGED <<active, current, record, service, bounds>>

\* The delay is over, or the signal ends it.
Wake(w) ==
    /\ at[w] = "waiting"
    /\ ~Aborted
    /\ Goto(w, "sending")
    /\ UNCHANGED <<phase, outcome, job, attempt, left, taken, queue, memory, stop, record,
                   service, bounds>>

WakeStopped(w) ==
    /\ at[w] = "waiting"
    /\ Aborted
    /\ Abandon(w, "stop")
    /\ UNCHANGED <<active, current, record, service, bounds>>

------------------------------------------------------------------------------
(***************************************************************************)
(* The commit queue.                                                       *)
(***************************************************************************)

\* The record after a checkpoint: the last one's ranges with this chunk, and
\* the receipts of the session.
Checkpointed(w) ==
    [status |-> "active", ranges |-> active.ranges \cup {job[w]},
     receipts |-> receipts \cup {job[w]}, ambiguous |-> ambiguous]

\* The queue comes to an answer: its receipt is kept and its checkpoint put.
Commit(w) ==
    /\ at[w] = "queued"
    /\ w = Head(queue)
    /\ receipts' = receipts \cup {job[w]}
    /\ current' = Checkpointed(w)
    /\ Goto(w, "storing")
    /\ UNCHANGED <<phase, outcome, job, attempt, left, taken, queue, ambiguous, failed,
                   active, failure, stop, record, service, bounds>>

Committed(w) ==
    /\ at[w] = "storing"
    /\ record' = current
    /\ active' = current
    /\ queue' = Tail(queue)
    /\ Free(w)
    /\ UNCHANGED <<phase, outcome, left, taken, receipts, ambiguous, failed,
                   current, failure, stop, service, bounds>>

\* The put rejects; the queue goes on from the same activeRecord.
CommitRefused(w) ==
    /\ at[w] = "storing"
    /\ Refuse(current)
    /\ Catch(w, "conflict")
    /\ queue' = Tail(queue)
    /\ Free(w)
    /\ UNCHANGED <<phase, outcome, left, taken, receipts, active, current,
                   stop, service>>

------------------------------------------------------------------------------
(***************************************************************************)
(* The run ends.                                                           *)
(***************************************************************************)

\* Promise.all over the workers, then commitQueue.
AllDone == \A w \in Worker : at[w] = "done"

\* The pool throws its failure, or a stop is found before completion.
Join ==
    /\ phase = "running"
    /\ AllDone
    /\ Aborted
    /\ phase' = "closing"
    /\ UNCHANGED <<outcome, pool, memory, stop, record, service, bounds>>

JoinOk ==
    /\ phase = "running"
    /\ AllDone
    /\ ~Aborted
    /\ phase' = "completing"
    /\ UNCHANGED <<outcome, pool, memory, stop, record, service, bounds>>

Over(o) ==
    /\ phase' = "idle"
    /\ outcome' = o

\* completeSession answers; the completed record's put may fail unnoticed.
Complete ==
    /\ phase = "completing"
    /\ remote # "aborted"
    /\ receipts = Chunk
    /\ remote' = "complete"
    /\ current' = WithStatus(active, "completed")
    /\ Over("completed")
    /\ \/ record' = current' /\ UNCHANGED bounds
       \/ Refuse(current')
    /\ UNCHANGED <<pool, receipts, ambiguous, failed, active, failure, stop, parts, reconciles>>

\* It rejects, before or after it took effect.
CompleteFail ==
    /\ phase = "completing"
    /\ remote' \in {remote} \cup (IF remote = "open" THEN {"complete"} ELSE {})
    /\ phase' = "closing"
    /\ failure' = "error"
    /\ UNCHANGED <<outcome, pool, receipts, ambiguous, failed, active, current, stop, record,
                   parts, reconciles, bounds>>

\* A cancel aborts the remote upload first, or fails to.
Abort ==
    /\ phase = "closing"
    /\ stop = "cancel"
    /\ remote = "open"
    /\ remote' = "aborted"
    /\ UNCHANGED <<phase, outcome, pool, memory, stop, record, parts, reconciles, bounds>>

\* handleSessionError.
Close ==
    /\ phase = "closing"
    /\ LET mark == CASE stop = "pause" -> "paused"
                     [] stop = "cancel" -> "canceled"
                     [] OTHER -> "failed"
           marked == WithStatus(current, mark)
       IN  IF stop = "none" /\ (failure = "conflict" \/ current.status = "paused")
           THEN /\ Over("failed")
                /\ UNCHANGED <<current, record, bounds>>
           ELSE /\ current' = marked
                /\ Over(mark)
                /\ \/ record' = marked /\ UNCHANGED bounds
                   \/ Refuse(marked)
    /\ UNCHANGED <<pool, receipts, ambiguous, failed, active, failure, stop, service>>

Stop(action) ==
    /\ phase # "idle"
    /\ stop = "none"
    /\ stop' = action
    /\ UNCHANGED <<phase, outcome, pool, memory, record, service, bounds>>

Pause == Stop("pause")
Cancel == Stop("cancel")

\* The page ends.  A put in flight may still arrive.
Crash ==
    /\ phase # "idle"
    /\ crashes < MaxCrashes
    /\ crashes' = crashes + 1
    /\ phase' = "idle"
    /\ outcome' = "none"
    /\ at' = [w \in Worker |-> "done"]
    /\ job' = [w \in Worker |-> 0]
    /\ attempt' = [w \in Worker |-> 1]
    /\ left' = {}
    /\ taken' = {}
    /\ queue' = << >>
    /\ receipts' = {}
    /\ ambiguous' = {}
    /\ failed' = {}
    /\ active' = FirstRecord
    /\ current' = FirstRecord
    /\ failure' = "none"
    /\ stop' = "none"
    /\ record' \in {record} \cup {current : w \in {v \in Worker : at[v] = "storing"}}
    /\ UNCHANGED <<service, runs, refusals>>

WorkerStep(w) ==
    \/ Take(w) \/ Leave(w)
    \/ Hash(w) \/ HashFail(w)
    \/ Arrive(w) \/ SendOk(w) \/ SendRetry(w) \/ SendFail(w)
    \/ Wake(w) \/ WakeStopped(w)
    \/ Commit(w) \/ Committed(w) \/ CommitRefused(w)

RunStep ==
    \/ Open \/ OpenConflict \/ OpenFail \/ OpenRefused
    \/ Join \/ JoinOk \/ Complete \/ CompleteFail \/ Abort \/ Close

Next ==
    \/ Begin
    \/ Open \/ OpenConflict \/ OpenFail \/ OpenRefused
    \/ \E w \in Worker : WorkerStep(w)
    \/ Join \/ JoinOk \/ Complete \/ CompleteFail \/ Abort \/ Close
    \/ Pause \/ Cancel
    \/ Crash

\* Every promise the pool awaits settles: each worker goes on, and the run.
Fairness == WF_vars(RunStep) /\ \A w \in Worker : WF_vars(WorkerStep(w))

Spec == Init /\ [][Next]_vars /\ Fairness

------------------------------------------------------------------------------
(***************************************************************************)
(* Properties.                                                             *)
(***************************************************************************)

\* Every variable keeps its type, only a queued or storing worker is in the
\* queue, and the workers rest outside a run (uploadRemainingChunksParallel
\* awaits them all before it throws or returns).
TypeOK ==
    /\ phase \in {"idle", "opening", "running", "completing", "closing"}
    /\ outcome \in {"none", "failed", "paused", "canceled", "completed"}
    /\ at \in [Worker -> {"free", "hashing", "sending", "waiting", "queued", "storing", "done"}]
    /\ job \in [Worker -> Chunk]
    /\ attempt \in [Worker -> 1 .. MaxAttempts]
    /\ {left, taken, receipts, ambiguous, failed, parts} \subseteq SUBSET Chunk
    /\ queue \in Seq({w \in Worker : at[w] \in {"queued", "storing"}})
    /\ {active, current, record} \subseteq Records
    /\ failure \in {"none", "error", "conflict", "stop"}
    /\ stop \in {"none", "pause", "cancel"}
    /\ remote \in {"open", "complete", "aborted"}
    /\ phase # "running" => \A w \in Worker : at[w] = "done"

\* When the pool has come to rest, every chunk it took has exactly one outcome:
\* a receipt, a failure of its own or an unknown fate; a part that a request of
\* this run left at the remote is never counted as missing.  A chunk whose
\* checkpoint the store refused is the exception: it has its receipt as well.
OutcomesAreExact ==
    (phase = "closing" /\ refusals = 0) =>
        /\ taken \subseteq receipts \cup ambiguous \cup failed
        /\ (ambiguous \cup failed) \subseteq taken \ receipts
        /\ ambiguous \cap failed = {}

\* A run that is over, however it ended, has told the store all it learnt: as
\* long as no put was refused, the record lists every receipt the run held and
\* the chunks of unknown fate, and parseResumeRecord accepts it.
RecordTellsProgress ==
    (outcome # "none" /\ refusals = 0) =>
        /\ receipts \subseteq record.receipts
        /\ Readable(record)
        /\ outcome # "completed" => ambiguous \subseteq record.ambiguous

\* A chunk that a record claims is at the remote, whatever crashed or was
\* refused in between, and a record is completed only when the remote is, with
\* every chunk.
RecordIsBacked ==
    /\ record.receipts \cup record.ranges \subseteq parts
    /\ record.status = "completed" => remote = "complete" /\ parts = Chunk

\* The pool keeps the promise that a sequential upload keeps, from an upload that
\* is open and has nothing: a chunk is confirmed only when the provider has it, is
\* never given up, and the upload is completed only with every chunk
\* (session.ts:642-662, 887-955, 1248-1312).
Promise == INSTANCE ResumableUpload WITH
    phase <- IF remote = "complete" THEN "completed" ELSE remote,
    delivered <- parts,
    confirmed <- record.receipts,
    dropped <- FALSE
PoolKeepsPromise == [](TypeOK /\ RecordIsBacked) /\ Promise!Spec

\* Every run ends: a worker that fails, or a stop, never leaves the pool
\* waiting for a sibling, a delay or the commit queue.
PoolSettles == phase # "idle" ~> phase = "idle"

\* FR-015 of specs/020-parallel-upload-integrity/spec.md: persistent progress
\* represents the acknowledged chunks and their receipts.  After a refused put
\* the next commit of the queue stores a record whose ranges lack the refused
\* chunk and whose receipts have it, which parseResumeRecord rejects.
SparseRecordIsReadable == Readable(record)
==============================================================================
