---------------------------- MODULE IngestSession ----------------------------
(***************************************************************************)
(* The upload authority of the SDK, src/src/session.ts, for one original   *)
(* that is uploaded chunk by chunk with a durable resume record.           *)
(*                                                                         *)
(* A handle is a page or a worker that holds one LargeImageIngestSession   *)
(* object at a time.  The first object calls start(); every later one      *)
(* calls resume(recordId), because its predecessor failed, was paused, was *)
(* canceled or died with its process.  All share the resume store and the  *)
(* remote upload.  One handle is the use the documents allow; with two the *)
(* application resumes one record twice.                                   *)
(*                                                                         *)
(* JavaScript runs a handler to its next await without interruption, so an *)
(* action is the code between two awaits.  A call that is awaited is two   *)
(* steps: the callee takes effect (Serve...) and then the promise settles, *)
(* so that an acknowledgement can be lost and a process can die between    *)
(* the two.  The callee never takes effect after the caller has given up.  *)
(*                                                                         *)
(* Abstractions: completed ranges are the set of chunk indexes they cover  *)
(* (ResumeRanges checks that algebra), the source and the manifest do not  *)
(* change, the record is v0.3 and the transport acknowledges every chunk   *)
(* with a well-formed receipt or with none.                                *)
(***************************************************************************)
EXTENDS Naturals

CONSTANTS
    Handle,       \* the places that hold a session object
    NumChunks,    \* chunkPlan.totalChunks
    MaxAttempts,  \* retryPolicy.maxAttempts
    KeepRecord    \* options.resume.cleanup = "mark-complete"

ASSUME SessionAssumption ==
    /\ NumChunks \in Nat
    /\ MaxAttempts \in Nat \ {0}
    /\ KeepRecord \in BOOLEAN

Chunk == 0 .. NumChunks - 1

\* What a live handle is awaiting.
CallStates ==
    {"creating", "opening", "loading", "expiring", "restoring", "activating",
     "sending", "waiting", "saving", "completing", "finishing", "deleting",
     "aborting", "settling"}

\* The calls that are store.put(currentRecord).
PutStates == {"opening", "expiring", "activating", "saving", "finishing", "settling"}

Stops == {"pause", "cancel"}
RecordStatus == {"active", "paused", "failed", "completed", "canceled", "expired"}

\* A resume record: its status, the chunks its ranges cover, the chunks it
\* holds a receipt for.  "absent" stands for undefined.
Records ==
    [status : RecordStatus \cup {"absent"}, done : SUBSET Chunk, receipts : SUBSET Chunk]
NoRecord == [status |-> "absent", done |-> {}, receipts |-> {}]

VARIABLES
    pc,        \* what each handle is doing
    served,    \* the awaited call of a handle has taken effect at the callee
    want,      \* lifecycleAction, or "abort" after abort(): the signal is aborted
    acked,     \* the chunks in completedReceipts
    record,    \* currentRecord
    linked,    \* currentTransportSession is set
    chunk,     \* the chunk being sent
    attempt,   \* and the number of the attempt
    stop,      \* the lifecycleStatus that handleSessionError captured
    snapshot,  \* how currentSnapshot says the run ended; "none" while it runs
    outcome,   \* how the promise of start or resume settled
    store,     \* the resume store's record of this upload
    remote,    \* the provider's upload: none, open, completed or aborted
    parts,     \* the chunks the provider has stored
    lapsed     \* the remote handle's expiresAt has passed

call == <<pc, served>>
memory == <<acked, record, linked>>
cursor == <<chunk, attempt>>
ending == <<stop, snapshot, outcome>>
provider == <<remote, parts>>
vars == <<call, want, memory, cursor, ending, store, provider, lapsed>>

Live(h) == pc[h] \in CallStates
Stopped(h) == want[h] # "none"

Init ==
    /\ pc = [h \in Handle |-> "new"]
    /\ served = [h \in Handle |-> FALSE]
    /\ want = [h \in Handle |-> "none"]
    /\ acked = [h \in Handle |-> {}]
    /\ record = [h \in Handle |-> NoRecord]
    /\ linked = [h \in Handle |-> FALSE]
    /\ chunk = [h \in Handle |-> 0]
    /\ attempt = [h \in Handle |-> 0]
    /\ stop = [h \in Handle |-> "none"]
    /\ snapshot = [h \in Handle |-> "none"]
    /\ outcome = [h \in Handle |-> "none"]
    /\ store = NoRecord
    /\ remote = "none"
    /\ parts = {}
    /\ lapsed = FALSE

------------------------------------------------------------------------------
(***************************************************************************)
(* Steps that several handlers share.                                      *)
(***************************************************************************)

\* The handle issues the next call and awaits it.
Await(h, state) ==
    /\ pc' = [pc EXCEPT ![h] = state]
    /\ served' = [served EXCEPT ![h] = FALSE]

\* putResumeRecord: currentRecord is replaced before the store is asked.
Put(h, state, rec) ==
    /\ Await(h, state)
    /\ record' = [record EXCEPT ![h] = rec]

\* Mutant of StopOutcome: the request is reported in place of its outcome.
StopRequest(action) == action

\* normalizeStopError: the error a settled run rejects with.
StopOutcome(action) ==
    CASE action = "cancel" -> "canceled"
      [] action = "pause" -> "paused"
      [] OTHER -> "failed"

\* The run is over: the snapshot shows the captured status, the promise
\* rejects with what was asked last.
End(h, captured) ==
    /\ Await(h, "ended")
    /\ snapshot' = [snapshot EXCEPT ![h] = StopOutcome(captured)]
    /\ outcome' = [outcome EXCEPT ![h] = StopOutcome(want[h])]

\* isTerminalOrControlledStatus, and no record at all.
KeepsItsStatus(rec) == rec.status \in {"absent", "completed", "canceled", "expired", "paused"}

\* handleSessionError once any abortSession is over: the record is marked, then
\* the run ends.  A resume conflict leaves the record as it is.
Settle(h, captured, rec, conflict) ==
    IF \/ captured \in Stops /\ rec.status # "absent"
       \/ captured \notin Stops /\ ~conflict /\ ~KeepsItsStatus(rec)
    THEN /\ Put(h, "settling", [rec EXCEPT !.status = StopOutcome(captured)])
         /\ UNCHANGED <<snapshot, outcome>>
    ELSE /\ End(h, captured)
         /\ record' = [record EXCEPT ![h] = rec]

\* An error reaches the catch block of start or resume: handleSessionError.
Fail(h, rec, conflict) ==
    /\ stop' = [stop EXCEPT ![h] = want[h]]
    /\ \/ /\ want[h] = "cancel" /\ linked[h]
          /\ Put(h, "aborting", rec)
          /\ UNCHANGED <<snapshot, outcome>>
       \/ /\ ~(want[h] = "cancel" /\ linked[h])
          /\ Settle(h, want[h], rec, conflict)

\* Mutant of Complete: completeUpload does not count the receipts.
Uncounted(done) == TRUE

\* completeUpload: every planned chunk has a receipt.
Complete(done) == done = Chunk

\* The upload loop between two awaits: a stop request is noticed, the first
\* chunk without a receipt is sent, or the upload is completed.
Proceed(h, done) ==
    \/ /\ Stopped(h)
       /\ Fail(h, record[h], FALSE)
       /\ UNCHANGED cursor
    \/ /\ ~Stopped(h)
       /\ \E c \in Chunk \ done :
            /\ \A d \in Chunk \ done : c <= d
            /\ chunk' = [chunk EXCEPT ![h] = c]
       /\ attempt' = [attempt EXCEPT ![h] = 1]
       /\ Await(h, "sending")
       /\ UNCHANGED <<record, ending>>
    \/ /\ ~Stopped(h)
       /\ Complete(done)
       /\ Await(h, "completing")
       /\ UNCHANGED <<record, cursor, ending>>

------------------------------------------------------------------------------
(***************************************************************************)
(* The application: it creates handles and stops them; the process dies.   *)
(***************************************************************************)

\* The object of h is gone; a new one has an empty memory.
Fresh(h, state) ==
    /\ Await(h, state)
    /\ want' = [want EXCEPT ![h] = "none"]
    /\ acked' = [acked EXCEPT ![h] = {}]
    /\ record' = [record EXCEPT ![h] = NoRecord]
    /\ linked' = [linked EXCEPT ![h] = FALSE]
    /\ chunk' = [chunk EXCEPT ![h] = 0]
    /\ attempt' = [attempt EXCEPT ![h] = 0]
    /\ stop' = [stop EXCEPT ![h] = "none"]
    /\ snapshot' = [snapshot EXCEPT ![h] = "none"]
    /\ outcome' = [outcome EXCEPT ![h] = "none"]

\* start(), once: the manifest is valid and the chunk plan fits the transport.
Start(h) ==
    /\ \A g \in Handle : pc[g] = "new"
    /\ Fresh(h, "creating")
    /\ UNCHANGED <<store, provider, lapsed>>

\* resume(recordId) on a new object.
Resume(h) ==
    /\ ~Live(h)
    /\ \E g \in Handle : pc[g] # "new"
    /\ Fresh(h, "loading")
    /\ UNCHANGED <<store, provider, lapsed>>

\* pause() and cancel(): the later call decides.
Request(h, action) ==
    /\ Live(h)
    /\ want[h] # action
    /\ want' = [want EXCEPT ![h] = action]
    /\ UNCHANGED <<call, memory, cursor, ending, store, provider, lapsed>>

Pause(h) == Request(h, "pause")
Cancel(h) == Request(h, "cancel")

\* abort(): the signal alone; a lifecycle action already asked for stays.
Abort(h) ==
    /\ want[h] = "none"
    /\ Request(h, "abort")

\* The tab is closed or the process is killed.
Crash(h) ==
    /\ Live(h)
    /\ Fresh(h, "crashed")
    /\ UNCHANGED <<store, provider, lapsed>>

\* Time passes the expiry of the remote handle (it is not renewed).
Expire ==
    /\ ~lapsed
    /\ lapsed' = TRUE
    /\ UNCHANGED <<call, want, memory, cursor, ending, store, provider>>

------------------------------------------------------------------------------
(***************************************************************************)
(* The callees: the storage provider behind the transport, and the store.  *)
(***************************************************************************)

\* The awaited call of h takes effect, once.
Serve(h, states) ==
    /\ pc[h] \in states
    /\ ~served[h]
    /\ served' = [served EXCEPT ![h] = TRUE]
    /\ UNCHANGED <<pc, want, memory, cursor, ending, lapsed>>

ServeCreate(h) ==
    /\ Serve(h, {"creating"})
    /\ remote = "none"
    /\ remote' = "open"
    /\ UNCHANGED <<store, parts>>

ServeUpload(h) ==
    /\ Serve(h, {"sending"})
    /\ remote = "open"
    /\ parts' = parts \cup {chunk[h]}
    /\ UNCHANGED <<store, remote>>

\* The provider does not check that it holds every chunk.
ServeComplete(h) ==
    /\ Serve(h, {"completing"})
    /\ remote = "open"
    /\ remote' = "completed"
    /\ UNCHANGED <<store, parts>>

ServeAbort(h) ==
    /\ Serve(h, {"aborting"})
    /\ remote = "open"
    /\ remote' = "aborted"
    /\ UNCHANGED <<store, parts>>

ServePut(h) ==
    /\ Serve(h, PutStates)
    /\ store' = record[h]
    /\ UNCHANGED provider

ServeDelete(h) ==
    /\ Serve(h, {"deleting"})
    /\ store' = NoRecord
    /\ UNCHANGED provider

------------------------------------------------------------------------------
(***************************************************************************)
(* The handle: what it does when the awaited call settles.  A call that    *)
(* succeeds has been served; one that fails may have been.                 *)
(***************************************************************************)

\* start(): the transport session exists, the first record is written.
CreateOk(h) ==
    /\ pc[h] = "creating" /\ served[h]
    /\ linked' = [linked EXCEPT ![h] = TRUE]
    /\ Put(h, "opening", [status |-> "active", done |-> {}, receipts |-> {}])
    /\ UNCHANGED <<want, acked, cursor, ending, store, provider, lapsed>>

CreateFail(h) ==
    /\ pc[h] = "creating"
    /\ Fail(h, record[h], FALSE)
    /\ UNCHANGED <<want, acked, linked, cursor, store, provider, lapsed>>

\* resume(): the store fails or has no record, or a stop came first; there is no
\* chunk plan yet, so there is no snapshot either.
LoadFail(h) ==
    /\ pc[h] = "loading"
    /\ Await(h, "ended")
    /\ stop' = [stop EXCEPT ![h] = want[h]]
    /\ outcome' = [outcome EXCEPT ![h] = StopOutcome(want[h])]
    /\ UNCHANGED <<want, memory, cursor, snapshot, store, provider, lapsed>>

\* resume(): the record is over, the file, the plan, the transport or the
\* profile does not match it, or a stop interrupts the checksum.  The record was
\* not adopted, so it is not marked.
LoadRefused(h) ==
    /\ pc[h] = "loading"
    /\ store.status # "absent"
    /\ Fail(h, NoRecord, TRUE)
    /\ UNCHANGED <<want, acked, linked, cursor, store, provider, lapsed>>

\* isResumeRecordExpired.
Expired(rec) == rec.status = "expired" \/ lapsed

\* Mutant of Resumable: a failed record does not pass.
ResumableUnlessFailed(rec) == rec.status \in {"active", "paused"} /\ ~Expired(rec)

\* The record passes validateResumeRecord.
Resumable(rec) == rec.status \in {"active", "paused", "failed"} /\ ~Expired(rec)

\* Mutant of MarkExpired: the progress is lost.
MarkEmpty(rec) == [NoRecord EXCEPT !.status = "expired"]

MarkExpired(rec) == [rec EXCEPT !.status = "expired"]

\* validateResumeRecord: an expired record, whatever its status, is marked.
LoadExpired(h) ==
    /\ pc[h] = "loading"
    /\ ~Stopped(h)
    /\ store.status # "absent" /\ Expired(store)
    /\ Put(h, "expiring", MarkExpired(store))
    /\ UNCHANGED <<want, acked, linked, cursor, ending, store, provider, lapsed>>

\* validateResumeRecord: the record is adopted and the remote session restored.
LoadOk(h) ==
    /\ pc[h] = "loading"
    /\ ~Stopped(h)
    /\ Resumable(store)
    /\ Put(h, "restoring", store)
    /\ UNCHANGED <<want, acked, linked, cursor, ending, store, provider, lapsed>>

\* The expired record is written, or is not: a conflict either way.
ExpireDone(h) ==
    /\ pc[h] = "expiring"
    /\ Fail(h, record[h], TRUE)
    /\ UNCHANGED <<want, acked, linked, cursor, store, provider, lapsed>>

\* Mutant of Hydrate: the receipts are left in the record.
HydrateNone(rec) == {}

\* hydrateResumeRecord.
Hydrate(rec) == rec.receipts

\* The remote session is there; some providers find a completed one too.
RestoreOk(h) ==
    /\ pc[h] = "restoring"
    /\ remote \in {"open", "completed"}
    /\ linked' = [linked EXCEPT ![h] = TRUE]
    /\ acked' = [acked EXCEPT ![h] = Hydrate(record[h])]
    /\ Put(h, "activating", [record[h] EXCEPT !.status = "active"])
    /\ UNCHANGED <<want, cursor, ending, store, provider, lapsed>>

RestoreFail(h) ==
    /\ pc[h] = "restoring"
    /\ Fail(h, record[h], TRUE)
    /\ UNCHANGED <<want, acked, linked, cursor, store, provider, lapsed>>

\* The record is durable: the upload loop goes on.
Saved(h) ==
    /\ pc[h] \in {"opening", "activating", "saving"} /\ served[h]
    /\ Proceed(h, acked[h])
    /\ UNCHANGED <<want, acked, linked, store, provider, lapsed>>

\* putResumeRecord throws a resume conflict.
SaveFail(h) ==
    /\ pc[h] \in {"opening", "activating", "saving"}
    /\ Fail(h, record[h], TRUE)
    /\ UNCHANGED <<want, acked, linked, cursor, store, provider, lapsed>>

\* Mutant of SendOk: the chunk is recorded when it is sent.
SendUnconfirmed(h) ==
    /\ pc[h] = "sending"
    /\ acked' = [acked EXCEPT ![h] = @ \cup {chunk[h]}]
    /\ Put(h, "saving", [status |-> "active",
                         done |-> record[h].done \cup {chunk[h]},
                         receipts |-> acked'[h]])
    /\ UNCHANGED <<want, linked, cursor, ending, store, provider, lapsed>>

\* The chunk is acknowledged: storeReceipt and checkpointChunk.
SendOk(h) ==
    /\ pc[h] = "sending" /\ served[h]
    /\ acked' = [acked EXCEPT ![h] = @ \cup {chunk[h]}]
    /\ Put(h, "saving", [status |-> "active",
                         done |-> record[h].done \cup {chunk[h]},
                         receipts |-> acked'[h]])
    /\ UNCHANGED <<want, linked, cursor, ending, store, provider, lapsed>>

\* The chunk failed for good: stopped, not retryable, or the last attempt.
SendFail(h) ==
    /\ pc[h] = "sending"
    /\ Fail(h, record[h], FALSE)
    /\ UNCHANGED <<want, acked, linked, cursor, store, provider, lapsed>>

\* The chunk failed and is retried after the delay.
SendRetry(h) ==
    /\ pc[h] = "sending"
    /\ ~Stopped(h) /\ attempt[h] < MaxAttempts
    /\ Await(h, "waiting")
    /\ UNCHANGED <<want, memory, cursor, ending, store, provider, lapsed>>

\* Mutant of Retry: a stop is not looked at after the delay.
RetryAnyway(h) ==
    /\ pc[h] = "waiting"
    /\ attempt' = [attempt EXCEPT ![h] = @ + 1]
    /\ Await(h, "sending")
    /\ UNCHANGED <<want, memory, chunk, ending, store, provider, lapsed>>

\* Mutant of Retry: the attempts are not counted.
RetryUncounted(h) ==
    /\ pc[h] = "waiting" /\ ~Stopped(h)
    /\ attempt' = [attempt EXCEPT ![h] = @]
    /\ Await(h, "sending")
    /\ UNCHANGED <<want, memory, chunk, ending, store, provider, lapsed>>

\* The delay is over.
Retry(h) ==
    /\ pc[h] = "waiting" /\ ~Stopped(h)
    /\ attempt' = [attempt EXCEPT ![h] = @ + 1]
    /\ Await(h, "sending")
    /\ UNCHANGED <<want, memory, chunk, ending, store, provider, lapsed>>

\* A stop interrupts the delay.
Interrupt(h) ==
    /\ pc[h] = "waiting" /\ Stopped(h)
    /\ Fail(h, record[h], FALSE)
    /\ UNCHANGED <<want, acked, linked, cursor, store, provider, lapsed>>

\* Mutant of CompleteOk: a lost answer counts as a completion.
CompleteUnanswered(h) ==
    /\ pc[h] = "completing"
    /\ Put(h, "finishing", [record[h] EXCEPT !.status = "completed"])
    /\ UNCHANGED <<want, acked, linked, cursor, ending, store, provider, lapsed>>

\* completeSession succeeded, now or in a call whose answer was lost; a stop
\* that came meanwhile is not looked at.
CompleteOk(h) ==
    /\ pc[h] = "completing"
    /\ remote = "completed"
    /\ Put(h, "finishing", [record[h] EXCEPT !.status = "completed"])
    /\ UNCHANGED <<want, acked, linked, cursor, ending, store, provider, lapsed>>

CompleteFail(h) ==
    /\ pc[h] = "completing"
    /\ Fail(h, record[h], FALSE)
    /\ UNCHANGED <<want, acked, linked, cursor, store, provider, lapsed>>

\* completeResumeRecord ignores a store failure.
Finish(h) ==
    /\ \/ /\ pc[h] = "finishing" /\ KeepRecord
       \/ /\ pc[h] = "deleting"
    /\ Await(h, "ended")
    /\ snapshot' = [snapshot EXCEPT ![h] = "completed"]
    /\ outcome' = [outcome EXCEPT ![h] = "completed"]
    /\ UNCHANGED <<want, memory, cursor, stop, store, provider, lapsed>>

Delete(h) ==
    /\ pc[h] = "finishing" /\ ~KeepRecord
    /\ Await(h, "deleting")
    /\ UNCHANGED <<want, memory, cursor, ending, store, provider, lapsed>>

\* abortSession settled: its failure only replaces the reported error.
AbortDone(h) ==
    /\ pc[h] = "aborting"
    /\ Settle(h, stop[h], record[h], FALSE)
    /\ UNCHANGED <<want, acked, linked, cursor, stop, store, provider, lapsed>>

\* The record is marked and the run ends.
Marked(h) ==
    /\ pc[h] = "settling" /\ served[h]
    /\ End(h, stop[h])
    /\ UNCHANGED <<want, memory, cursor, stop, store, provider, lapsed>>

\* The store failed inside the catch block: the conflict is what start or
\* resume rejects with, and the snapshot still shows a running upload.
MarkFail(h) ==
    /\ pc[h] = "settling"
    /\ Await(h, "ended")
    /\ outcome' = [outcome EXCEPT ![h] = "failed"]
    /\ UNCHANGED <<want, memory, cursor, stop, snapshot, store, provider, lapsed>>

------------------------------------------------------------------------------
User(h) == Start(h) \/ Resume(h) \/ Pause(h) \/ Cancel(h) \/ Abort(h)

Callee(h) ==
    \/ ServeCreate(h) \/ ServeUpload(h) \/ ServeComplete(h)
    \/ ServeAbort(h) \/ ServePut(h) \/ ServeDelete(h)

\* The steps of the program itself.
Run(h) ==
    \/ CreateOk(h) \/ CreateFail(h)
    \/ LoadOk(h) \/ LoadExpired(h) \/ LoadFail(h) \/ LoadRefused(h) \/ ExpireDone(h)
    \/ RestoreOk(h) \/ RestoreFail(h)
    \/ Saved(h) \/ SaveFail(h)
    \/ SendOk(h) \/ SendFail(h) \/ SendRetry(h) \/ Retry(h) \/ Interrupt(h)
    \/ CompleteOk(h) \/ CompleteFail(h) \/ Delete(h) \/ Finish(h)
    \/ AbortDone(h) \/ Marked(h) \/ MarkFail(h)

Next == Expire \/ \E h \in Handle : User(h) \/ Callee(h) \/ Run(h) \/ Crash(h)

Spec == Init /\ [][Next]_vars

\* Every call a handle awaits settles in the end, one way or the other.
FairSpec == Spec /\ \A h \in Handle : WF_vars(Run(h))

\* A call that is tried for ever succeeds in the end, and the application resumes
\* what has not been completed.
Works(h) == LoadOk(h) \/ RestoreOk(h) \/ Saved(h) \/ SendOk(h) \/ CompleteOk(h)

RecoverySpec ==
    /\ FairSpec
    /\ \A h \in Handle :
         /\ WF_vars(Resume(h))
         /\ \A state \in {"loading", "restoring", "activating", "sending", "saving", "completing"} :
              SF_vars(pc[h] = state /\ Works(h))
         /\ \A state \in {"activating", "sending", "saving", "completing"} :
              SF_vars(pc[h] = state /\ Callee(h))

------------------------------------------------------------------------------
(***************************************************************************)
(* Properties.                                                             *)
(***************************************************************************)

Outcomes == {"none", "failed", "paused", "canceled", "completed"}

\* Every variable keeps its shape.
TypeOK ==
    /\ pc \in [Handle -> CallStates \cup {"new", "ended", "crashed"}]
    /\ served \in [Handle -> BOOLEAN]
    /\ want \in [Handle -> Stops \cup {"none", "abort"}]
    /\ acked \in [Handle -> SUBSET Chunk]
    /\ record \in [Handle -> Records]
    /\ linked \in [Handle -> BOOLEAN]
    /\ chunk \in [Handle -> Nat]
    /\ \A h \in Handle : pc[h] \in {"sending", "waiting"} => chunk[h] \in Chunk
    /\ attempt \in [Handle -> Nat]
    /\ stop \in [Handle -> Stops \cup {"none", "abort"}]
    /\ snapshot \in [Handle -> Outcomes]
    /\ outcome \in [Handle -> Outcomes]
    /\ store \in Records
    /\ remote \in {"none", "open", "completed", "aborted"}
    /\ parts \in SUBSET Chunk
    /\ lapsed \in BOOLEAN

\* The durable record, the record in memory and the receipts never claim a chunk
\* the provider has not stored, and the ranges of a record are backed by its
\* receipts: a resume never skips a chunk that is missing remotely.
RecordedIsRemote ==
    /\ store.done = store.receipts /\ store.done \subseteq parts
    /\ \A h \in Handle :
         /\ record[h].done = record[h].receipts
         /\ record[h].done \subseteq parts
         /\ acked[h] \subseteq parts

\* completeSession, which the provider does not check, never completes an upload
\* that lacks a chunk.
CompletionIsTotal == remote = "completed" => parts = Chunk

\* A run that resolves and a record that says completed are backed by a remote
\* completion, even when the answer to completeSession was lost.
OutcomeIsTrue ==
    /\ store.status = "completed" => remote = "completed"
    /\ \A h \in Handle : outcome[h] = "completed" => remote = "completed"

\* Between the first checkpoint and completeSession the receipts of a run are those
\* of its record; an answered upload has been stored; what is completed has all.
Uploading == {"opening", "activating", "sending", "waiting", "saving", "completing"}

RunMatchesRecord ==
    \A h \in Handle :
        /\ pc[h] = "creating" => acked[h] = {}
        /\ pc[h] \in Uploading => acked[h] = record[h].receipts
        /\ pc[h] = "sending" /\ served[h] => chunk[h] \in parts
        /\ pc[h] = "completing" => acked[h] = Chunk
        /\ record[h].status = "completed" => remote = "completed"
        /\ pc[h] \in {"finishing", "deleting"} => remote = "completed"

\* The inductive invariant of the four.
UploadInv == RecordedIsRemote /\ CompletionIsTotal /\ OutcomeIsTrue /\ RunMatchesRecord

\* A chunk that the durable record holds is not sent again by a later run.
NoRetransmission ==
    \A h \in Handle : pc[h] = "sending" => chunk[h] \notin store.done

\* One session at a time: from adoption to the end of the run its record holds all
\* that the durable one does, and a completed upload still has a durable record.
Busy == CallStates \ {"loading", "deleting"}

RecordIsAhead ==
    \A h \in Handle :
        /\ pc[h] = "new" => remote = "none" /\ store = NoRecord
        /\ pc[h] \in {"creating", "opening"} => remote # "completed"
        /\ pc[h] = "creating" => store = NoRecord /\ record[h] = NoRecord
        /\ pc[h] \in PutStates => record[h].status # "absent" /\ (served[h] => store = record[h])
        /\ pc[h] \in {"restoring", "sending", "waiting", "saving", "completing", "finishing"}
           => record[h].status # "absent" /\ store.status # "absent"
        /\ pc[h] \in {"sending", "waiting"} => chunk[h] \notin acked[h]
        /\ pc[h] \in Busy /\ remote = "completed" => store.status # "absent"
        /\ pc[h] \in Busy /\ record[h].status # "absent" => store.done \subseteq record[h].done

\* A record that was completed, canceled or expired is never taken up again.
TerminalRecordStays ==
    [][store.status \in {"completed", "canceled", "expired"}
        => store'.status \notin {"active", "failed"}]_vars

\* When the snapshot reports a pause, the durable record is paused and holds all
\* that was acknowledged: a new process resumes without loss.
PauseIsDurable ==
    [][\A h \in Handle :
         snapshot'[h] = "paused" /\ snapshot[h] # "paused" /\ record[h].status # "absent"
         => store.status = "paused" /\ acked[h] \subseteq store.done]_vars

\* After pause, cancel or abort no chunk is sent, no retry is made and
\* completeSession is not called, whatever the handle was awaiting.
StopIsHonored ==
    [][\A h \in Handle :
         Stopped(h) /\ pc'[h] \in {"sending", "completing"} => pc[h] = pc'[h]]_vars

\* What was asked of an upload is kept, together: a stop starts nothing more, a
\* reported pause can be resumed by another process without loss, and a record
\* that was given up is not taken up again (session.ts:107-124, 486-506, 1069-1132).
StopsHold == TerminalRecordStays /\ PauseIsDurable /\ StopIsHonored

\* Every run settles: retries end, and no stop leaves start or resume pending.
EverySettles == \A h \in Handle : Live(h) ~> ~Live(h)

\* From some time on nothing stops a handle and the remote upload stays valid.
Calm == <>[][\A h \in Handle : ~(Pause(h) \/ Cancel(h) \/ Abort(h) \/ Crash(h) \/ Expire)]_vars

\* The provider has all it will get, or the record may not be resumed.
Settled ==
    \/ remote \in {"completed", "aborted"}
    \/ store.status \in {"canceled", "expired"}
    \/ lapsed

\* An upload with a durable record is completed once the troubles end, through
\* any number of failed runs: no failure leaves a record that cannot be resumed.
UploadRecovers == Calm => (store.status # "absent" ~> Settled)

\* IngestSession implements ResumableUpload when one session runs at a time.
Promise == INSTANCE ResumableUpload WITH
    phase <- remote,
    delivered <- parts,
    confirmed <- store.done,
    dropped <- store.status = "absent" /\ remote = "completed"

\* The upload keeps that promise.
KeepsPromise == Promise!Spec

\* specs/001-persistent-resumable-upload/data-model.md, "completed -> terminal".
CompletedIsTerminal ==
    [][store.status = "completed" => store'.status \in {"completed", "absent"}]_vars
==============================================================================
