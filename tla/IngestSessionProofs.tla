------------------------- MODULE IngestSessionProofs -------------------------
(***************************************************************************)
(* Proofs about IngestSession, for any handles, chunks and attempts; and,  *)
(* when the application runs one session of an upload at a time, that it   *)
(* implements ResumableUpload, that no chunk the durable record holds is   *)
(* sent again, and that pauses and cancellations are kept.                 *)
(***************************************************************************)
EXTENDS IngestSession, TLAPS

\* The steps that only fail the run, with or without an adopted record.
Fails(h) ==
    /\ \E rec \in {record[h], NoRecord}, conflict \in BOOLEAN : Fail(h, rec, conflict)
    /\ UNCHANGED <<want, acked, linked, cursor, store, provider, lapsed>>

\* The handle enters a state of the ending: its record keeps its chunks, and its
\* promise is not said to be fulfilled.
Ending(h, rec) ==
    /\ \E s \in {"aborting", "settling", "ended"} : pc' = [pc EXCEPT ![h] = s]
    /\ served' = [served EXCEPT ![h] = FALSE]
    /\ \E s \in {rec.status, "failed", "paused", "canceled"} :
         record' = [record EXCEPT ![h] = [rec EXCEPT !.status = s]]
    /\ \E s \in {snapshot[h], "failed", "paused", "canceled"} :
         snapshot' = [snapshot EXCEPT ![h] = s]
    /\ \E o \in {outcome[h], "failed", "paused", "canceled"} :
         outcome' = [outcome EXCEPT ![h] = o]

------------------------------------------------------------------------------
LEMMA StopOutcomeType ==
    ASSUME NEW action
    PROVE  StopOutcome(action) \in {"failed", "paused", "canceled"}
BY DEF StopOutcome

LEMMA SettleEnds ==
    ASSUME TypeOK, NEW h \in Handle, NEW rec \in Records,
           NEW captured, NEW conflict,
           Settle(h, captured, rec, conflict)
    PROVE  Ending(h, rec)
<1>1. rec = [rec EXCEPT !.status = rec.status]
  BY DEF Records
<1>2. CASE Put(h, "settling", [rec EXCEPT !.status = StopOutcome(captured)])
           /\ UNCHANGED <<snapshot, outcome>>
  <2>1. snapshot' = [snapshot EXCEPT ![h] = snapshot[h]]
    BY <1>2 DEF TypeOK
  <2>2. outcome' = [outcome EXCEPT ![h] = outcome[h]]
    BY <1>2 DEF TypeOK
  <2> QED BY <1>2, <2>1, <2>2, StopOutcomeType DEF Put, Await, Ending
<1>3. CASE End(h, captured) /\ record' = [record EXCEPT ![h] = rec]
  BY <1>1, <1>3, StopOutcomeType DEF End, Await, Ending
<1> QED BY <1>2, <1>3 DEF Settle

LEMMA FailEnds ==
    ASSUME TypeOK, NEW h \in Handle, NEW rec \in Records, NEW conflict,
           Fail(h, rec, conflict)
    PROVE  /\ Ending(h, rec)
           /\ stop' = [stop EXCEPT ![h] = want[h]]
<1>1. stop' = [stop EXCEPT ![h] = want[h]]
  BY DEF Fail, TypeOK
<1>2. CASE Put(h, "aborting", rec) /\ UNCHANGED <<snapshot, outcome>>
  <2>1. rec = [rec EXCEPT !.status = rec.status]
    BY DEF Records
  <2>2. snapshot' = [snapshot EXCEPT ![h] = snapshot[h]]
    BY <1>2 DEF TypeOK
  <2>3. outcome' = [outcome EXCEPT ![h] = outcome[h]]
    BY <1>2 DEF TypeOK
  <2> QED BY <1>1, <1>2, <2>1, <2>2, <2>3 DEF Put, Await, Ending
<1>3. CASE Settle(h, want[h], rec, conflict)
  BY <1>1, <1>3, SettleEnds
<1> QED BY <1>2, <1>3 DEF Fail

\* The actions that do no more than fail the run.
FailureAction(h) ==
    \/ CreateFail(h) \/ LoadRefused(h) \/ ExpireDone(h) \/ RestoreFail(h) \/ SaveFail(h)
    \/ SendFail(h) \/ Interrupt(h) \/ CompleteFail(h)

LEMMA FailureEnds ==
    ASSUME TypeOK, NEW h \in Handle, FailureAction(h)
    PROVE  /\ \E rec \in {record[h], NoRecord} : Ending(h, rec)
           /\ stop' = [stop EXCEPT ![h] = want[h]]
           /\ UNCHANGED <<want, acked, linked, cursor, store, provider, lapsed>>
<1>1. record[h] \in Records /\ NoRecord \in Records
  BY DEF TypeOK, Records, NoRecord
<1>2. \E rec \in {record[h], NoRecord}, conflict \in BOOLEAN : Fail(h, rec, conflict)
  BY DEF FailureAction, CreateFail, LoadRefused, ExpireDone, RestoreFail, SaveFail,
         SendFail, Interrupt, CompleteFail
<1>3. UNCHANGED <<want, acked, linked, cursor, store, provider, lapsed>>
  BY DEF FailureAction, CreateFail, LoadRefused, ExpireDone, RestoreFail, SaveFail,
         SendFail, Interrupt, CompleteFail
<1> QED BY <1>1, <1>2, <1>3, FailEnds

LEMMA EndingTypes ==
    ASSUME TypeOK, NEW h \in Handle, NEW rec \in Records, Ending(h, rec)
    PROVE  /\ pc' \in [Handle -> CallStates \cup {"new", "ended", "crashed"}]
           /\ served' \in [Handle -> BOOLEAN]
           /\ record' \in [Handle -> Records]
           /\ snapshot' \in [Handle -> Outcomes]
           /\ outcome' \in [Handle -> Outcomes]
<1>1. PICK s \in {rec.status, "failed", "paused", "canceled"} :
        record' = [record EXCEPT ![h] = [rec EXCEPT !.status = s]]
  BY DEF Ending
<1>2. [rec EXCEPT !.status = s] \in Records
  BY DEF Records, RecordStatus
<1>3. record' \in [Handle -> Records]
  BY <1>1, <1>2 DEF TypeOK
<1> QED BY <1>3 DEF Ending, TypeOK, CallStates, Outcomes

\* The steps of the upload loop, whatever the next one is.
LEMMA ProceedStep ==
    ASSUME TypeOK, NEW h \in Handle, Proceed(h, acked[h])
    PROVE  \/ /\ Ending(h, record[h])
              /\ stop' = [stop EXCEPT ![h] = want[h]]
              /\ UNCHANGED cursor
           \/ /\ \E c \in Chunk \ acked[h] : chunk' = [chunk EXCEPT ![h] = c]
              /\ attempt' = [attempt EXCEPT ![h] = 1]
              /\ Await(h, "sending")
              /\ UNCHANGED <<record, ending>>
           \/ /\ acked[h] = Chunk
              /\ Await(h, "completing")
              /\ UNCHANGED <<record, cursor, ending>>
<1>1. record[h] \in Records
  BY DEF TypeOK
<1>2. CASE Fail(h, record[h], FALSE) /\ UNCHANGED cursor
  BY <1>1, <1>2, FailEnds
<1> QED BY <1>2 DEF Proceed, Complete

------------------------------------------------------------------------------
LEMMA TypeInit == Init => TypeOK
<1> SUFFICES ASSUME Init PROVE TypeOK
  OBVIOUS
<1>1. NoRecord \in Records
  BY DEF Records, NoRecord
<1> QED BY <1>1 DEF Init, TypeOK, Outcomes

LEMMA FreshTypes ==
    ASSUME TypeOK, NEW h \in Handle, NEW s \in {"creating", "loading", "crashed"}, Fresh(h, s),
           UNCHANGED <<store, provider, lapsed>>
    PROVE  TypeOK'
<1>1. NoRecord \in Records
  BY DEF Records, NoRecord
<1>2. \A g \in Handle : pc'[g] \in {"sending", "waiting"} => chunk'[g] = chunk[g] /\ pc'[g] = pc[g]
  BY DEF TypeOK, Fresh, Await
<1> QED BY <1>1, <1>2 DEF TypeOK, Fresh, Await, provider, Outcomes, CallStates

LEMMA UserTypes ==
    ASSUME TypeOK, NEW h \in Handle, User(h) \/ Crash(h) \/ Expire
    PROVE  TypeOK'
<1>1. CASE Start(h) \/ Resume(h) \/ Crash(h)
  BY <1>1, FreshTypes DEF Start, Resume, Crash
<1>2. CASE Pause(h) \/ Cancel(h) \/ Abort(h)
  BY <1>2 DEF TypeOK, Pause, Cancel, Abort, Request, Stops, call, memory, cursor, ending, provider
<1>3. CASE Expire
  BY <1>3 DEF TypeOK, Expire, call, memory, cursor, ending, provider
<1> QED BY <1>1, <1>2, <1>3 DEF User

LEMMA CalleeTypes ==
    ASSUME TypeOK, NEW h \in Handle, Callee(h)
    PROVE  TypeOK'
<1> USE DEF Serve, memory, cursor, ending, provider
<1>0. NoRecord \in Records
  BY DEF Records, NoRecord
<1>1. CASE ServeCreate(h) \/ ServeComplete(h) \/ ServeAbort(h)
  BY <1>1 DEF TypeOK, ServeCreate, ServeComplete, ServeAbort
<1>2. CASE ServeUpload(h)
  BY <1>2 DEF TypeOK, ServeUpload
<1>3. CASE ServePut(h)
  BY <1>3 DEF TypeOK, ServePut
<1>4. CASE ServeDelete(h)
  BY <1>0, <1>4 DEF TypeOK, ServeDelete
<1> QED BY <1>1, <1>2, <1>3, <1>4 DEF Callee

LEMMA FailureTypes ==
    ASSUME TypeOK, NEW h \in Handle, FailureAction(h)
    PROVE  TypeOK'
<1>1. PICK rec \in {record[h], NoRecord} : Ending(h, rec)
  BY FailureEnds
<1>2. rec \in Records
  BY DEF TypeOK, Records, NoRecord
<1>3. UNCHANGED <<want, acked, linked, cursor, store, provider, lapsed>>
      /\ stop' = [stop EXCEPT ![h] = want[h]]
  BY FailureEnds
<1>4. \A g \in Handle : pc'[g] \in {"sending", "waiting"} => pc'[g] = pc[g]
  BY <1>1 DEF Ending, TypeOK
<1> QED BY <1>1, <1>2, <1>3, <1>4, EndingTypes DEF TypeOK, cursor, provider

LEMMA ProceedTypes ==
    ASSUME TypeOK, NEW h \in Handle, Saved(h)
    PROVE  TypeOK'
<1>1. UNCHANGED <<want, acked, linked, store, provider, lapsed>> /\ Proceed(h, acked[h])
  BY DEF Saved
<1>2. CASE /\ Ending(h, record[h])
           /\ stop' = [stop EXCEPT ![h] = want[h]]
           /\ UNCHANGED cursor
  <2>1. record[h] \in Records
    BY DEF TypeOK
  <2>2. \A g \in Handle : pc'[g] \in {"sending", "waiting"} => pc'[g] = pc[g]
    BY <1>2 DEF Ending, TypeOK
  <2> QED BY <1>1, <1>2, <2>1, <2>2, EndingTypes DEF TypeOK, cursor, provider
<1>3. CASE /\ \E c \in Chunk \ acked[h] : chunk' = [chunk EXCEPT ![h] = c]
           /\ attempt' = [attempt EXCEPT ![h] = 1]
           /\ Await(h, "sending")
           /\ UNCHANGED <<record, ending>>
  <2>1. Chunk \subseteq Nat
    BY SessionAssumption DEF Chunk
  <2> QED BY <1>1, <1>3, <2>1 DEF TypeOK, Await, ending, provider, CallStates
<1>4. CASE Await(h, "completing") /\ UNCHANGED <<record, cursor, ending>>
  BY <1>1, <1>4 DEF TypeOK, Await, cursor, ending, provider, CallStates
<1> QED BY <1>1, <1>2, <1>3, <1>4, ProceedStep

LEMMA RunTypes ==
    ASSUME TypeOK, NEW h \in Handle, Run(h)
    PROVE  TypeOK'
<1> USE DEF memory, cursor, ending, provider, Await
<1>1. CASE FailureAction(h)
  BY <1>1, FailureTypes
<1>2. CASE Saved(h)
  BY <1>2, ProceedTypes
<1>3. CASE CreateOk(h)
  <2>1. [status |-> "active", done |-> {}, receipts |-> {}] \in Records
    BY DEF Records, RecordStatus
  <2> QED BY <1>3, <2>1 DEF CreateOk, TypeOK, Put, CallStates
<1>4. CASE LoadOk(h)
  BY <1>4 DEF LoadOk, TypeOK, Put, CallStates
<1>5. CASE LoadExpired(h)
  <2>1. MarkExpired(store) \in Records
    BY DEF TypeOK, Records, RecordStatus, MarkExpired
  <2> QED BY <1>5, <2>1 DEF LoadExpired, TypeOK, Put, CallStates
<1>6. CASE LoadFail(h)
  BY <1>6, StopOutcomeType DEF LoadFail, TypeOK, Outcomes
<1>7. CASE RestoreOk(h)
  <2>1. [record[h] EXCEPT !.status = "active"] \in Records /\ Hydrate(record[h]) \in SUBSET Chunk
    BY DEF TypeOK, Records, RecordStatus, Hydrate
  <2> QED BY <1>7, <2>1 DEF RestoreOk, TypeOK, Put, CallStates
<1>8. CASE SendOk(h)
  <2>1. chunk[h] \in Chunk
    BY <1>8 DEF SendOk, TypeOK
  <2>2. acked' \in [Handle -> SUBSET Chunk]
    BY <1>8, <2>1 DEF SendOk, TypeOK
  <2>3. [status |-> "active", done |-> record[h].done \cup {chunk[h]}, receipts |-> acked'[h]] \in Records
    BY <2>1, <2>2 DEF TypeOK, Records, RecordStatus
  <2> QED BY <1>8, <2>2, <2>3 DEF SendOk, TypeOK, Put, CallStates
<1>9. CASE SendRetry(h)
  BY <1>9 DEF SendRetry, TypeOK, CallStates
<1>10. CASE Retry(h)
  BY <1>10 DEF Retry, TypeOK, CallStates
<1>11. CASE CompleteOk(h)
  <2>1. [record[h] EXCEPT !.status = "completed"] \in Records
    BY DEF TypeOK, Records, RecordStatus
  <2> QED BY <1>11, <2>1 DEF CompleteOk, TypeOK, Put, CallStates
<1>12. CASE Marked(h)
  <2>1. StopOutcome(stop[h]) \in Outcomes /\ StopOutcome(want[h]) \in Outcomes
    BY StopOutcomeType DEF Outcomes
  <2> QED BY <1>12, <2>1 DEF Marked, End, TypeOK
<1>14. CASE Delete(h) \/ Finish(h) \/ MarkFail(h)
  BY <1>14 DEF Delete, Finish, MarkFail, TypeOK, CallStates, Outcomes
<1>13. CASE AbortDone(h)
  <2>1. Ending(h, record[h])
    BY <1>13, SettleEnds DEF AbortDone, TypeOK
  <2>2. \A g \in Handle : pc'[g] \in {"sending", "waiting"} => pc'[g] = pc[g]
    BY <2>1 DEF Ending, TypeOK
  <2> QED BY <1>13, <2>1, <2>2, EndingTypes DEF AbortDone, TypeOK
<1> QED BY <1>1, <1>2, <1>3, <1>4, <1>5, <1>6, <1>7, <1>8, <1>9, <1>10, <1>11, <1>12, <1>13, <1>14
        DEF Run, FailureAction

\* Every variable keeps its shape in every run of the program.
THEOREM TypeCorrect == Spec => []TypeOK
<1>1. TypeOK /\ [Next]_vars => TypeOK'
  <2> SUFFICES ASSUME TypeOK, [Next]_vars PROVE TypeOK'
    OBVIOUS
  <2>1. CASE UNCHANGED vars
    BY <2>1 DEF TypeOK, vars, call, memory, cursor, ending, provider
  <2>2. CASE Expire
    BY <2>2 DEF TypeOK, Expire, call, memory, cursor, ending, provider
  <2>3. CASE \E h \in Handle : User(h) \/ Callee(h) \/ Run(h) \/ Crash(h)
    BY <2>3, UserTypes, CalleeTypes, RunTypes
  <2> QED BY <2>1, <2>2, <2>3 DEF Next
<1> QED BY <1>1, TypeInit, PTL DEF Spec

------------------------------------------------------------------------------
(***************************************************************************)
(* The inductive invariant UploadInv, one lemma per group of actions.      *)
(***************************************************************************)

LEMMA NoRecordIsEmpty ==
    NoRecord.status = "absent" /\ NoRecord.done = {} /\ NoRecord.receipts = {}
BY DEF NoRecord

LEMMA UploadInit == Init => UploadInv
BY NoRecordIsEmpty
   DEF Init, UploadInv, RecordedIsRemote, CompletionIsTotal, OutcomeIsTrue, RunMatchesRecord,
       Uploading

\* A run that ends takes nothing from the provider or the store.
LEMMA EndingInv ==
    ASSUME TypeOK, UploadInv, NEW h \in Handle, NEW rec \in {record[h], NoRecord},
           Ending(h, rec), UNCHANGED <<acked, chunk, store, remote, parts>>
    PROVE  UploadInv'
<1>1. PICK s \in {rec.status, "failed", "paused", "canceled"} :
        record' = [record EXCEPT ![h] = [rec EXCEPT !.status = s]]
  BY DEF Ending
<1>2. PICK p \in {"aborting", "settling", "ended"} : pc' = [pc EXCEPT ![h] = p]
  BY DEF Ending
<1>3. PICK o \in {outcome[h], "failed", "paused", "canceled"} : outcome' = [outcome EXCEPT ![h] = o]
  BY DEF Ending
<1>4. served' = [served EXCEPT ![h] = FALSE]
  BY DEF Ending
<1>5. record'[h].done = rec.done /\ record'[h].receipts = rec.receipts /\ record'[h].status = s
  BY <1>1 DEF TypeOK, Records, NoRecord
<1>6. \A g \in Handle \ {h} : record'[g] = record[g] /\ pc'[g] = pc[g]
                              /\ outcome'[g] = outcome[g] /\ served'[g] = served[g]
  BY <1>1, <1>2, <1>3, <1>4 DEF TypeOK
<1>7. pc'[h] = p /\ outcome'[h] = o
  BY <1>2, <1>3 DEF TypeOK
<1>8. RecordedIsRemote'
  BY <1>5, <1>6, NoRecordIsEmpty DEF UploadInv, RecordedIsRemote
<1>9. OutcomeIsTrue'
  BY <1>6, <1>7 DEF UploadInv, OutcomeIsTrue
<1>10. RunMatchesRecord'
  BY <1>5, <1>6, <1>7 DEF UploadInv, RunMatchesRecord, Uploading, NoRecord
<1> QED BY <1>8, <1>9, <1>10 DEF UploadInv, CompletionIsTotal

LEMMA FreshInv ==
    ASSUME TypeOK, UploadInv, NEW h \in Handle, NEW s \in {"creating", "loading", "crashed"},
           Fresh(h, s), UNCHANGED <<store, remote, parts>>
    PROVE  UploadInv'
<1>1. /\ record'[h] = NoRecord /\ acked'[h] = {} /\ pc'[h] = s /\ outcome'[h] = "none"
      /\ \A g \in Handle \ {h} :
           /\ record'[g] = record[g] /\ acked'[g] = acked[g] /\ pc'[g] = pc[g]
           /\ outcome'[g] = outcome[g] /\ served'[g] = served[g] /\ chunk'[g] = chunk[g]
  BY DEF Fresh, Await, TypeOK
<1>2. RecordedIsRemote'
  BY <1>1, NoRecordIsEmpty DEF UploadInv, RecordedIsRemote
<1>3. OutcomeIsTrue'
  BY <1>1 DEF UploadInv, OutcomeIsTrue
<1>4. RunMatchesRecord'
  BY <1>1 DEF UploadInv, RunMatchesRecord, Uploading, NoRecord
<1> QED BY <1>2, <1>3, <1>4 DEF UploadInv, CompletionIsTotal

LEMMA UserInv ==
    ASSUME TypeOK, UploadInv, NEW h \in Handle, User(h) \/ Crash(h) \/ Expire
    PROVE  UploadInv'
<1>1. CASE Start(h) \/ Resume(h) \/ Crash(h)
  BY <1>1, FreshInv DEF Start, Resume, Crash, provider
<1>2. CASE Pause(h) \/ Cancel(h) \/ Abort(h) \/ Expire
  <2>1. UNCHANGED <<call, memory, cursor, ending, store, provider>>
    BY <1>2 DEF Pause, Cancel, Abort, Request, Expire
  <2> QED BY <2>1 DEF UploadInv, RecordedIsRemote, CompletionIsTotal, OutcomeIsTrue,
                RunMatchesRecord, call, memory, cursor, ending, provider
<1> QED BY <1>1, <1>2 DEF User

LEMMA CalleeInv ==
    ASSUME TypeOK, UploadInv, NEW h \in Handle, Callee(h)
    PROVE  UploadInv'
<1>1. /\ UNCHANGED <<pc, acked, record, chunk, outcome>>
      /\ ~served[h] /\ served' = [served EXCEPT ![h] = TRUE]
  BY DEF Callee, ServeCreate, ServeUpload, ServeComplete, ServeAbort, ServePut, ServeDelete,
         Serve, memory, cursor, ending
<1>2. CASE ServeCreate(h) \/ ServeAbort(h)
  <2>1. remote # "completed" /\ UNCHANGED <<store, parts>> /\ pc[h] # "sending"
    BY <1>2 DEF ServeCreate, ServeAbort, Serve, provider
  <2>2. remote' # "completed"
    BY <1>2 DEF ServeCreate, ServeAbort
  <2> QED BY <1>1, <2>1, <2>2 DEF UploadInv, RecordedIsRemote, CompletionIsTotal, OutcomeIsTrue,
                RunMatchesRecord, TypeOK
<1>3. CASE ServeUpload(h)
  <2>1. /\ remote = "open" /\ UNCHANGED <<store, remote>>
        /\ parts' = parts \cup {chunk[h]}
    BY <1>3 DEF ServeUpload
  <2> QED BY <1>1, <2>1 DEF UploadInv, RecordedIsRemote, CompletionIsTotal, OutcomeIsTrue,
                RunMatchesRecord, TypeOK
<1>4. CASE ServeComplete(h)
  <2>1. remote' = "completed" /\ UNCHANGED <<store, parts>> /\ pc[h] = "completing"
    BY <1>4 DEF ServeComplete, Serve
  <2>2. parts = Chunk
    BY <2>1 DEF UploadInv, RecordedIsRemote, RunMatchesRecord, TypeOK
  <2> QED BY <1>1, <2>1, <2>2 DEF UploadInv, RecordedIsRemote, CompletionIsTotal, OutcomeIsTrue,
                RunMatchesRecord, TypeOK
<1>5. CASE ServePut(h)
  <2>1. store' = record[h] /\ UNCHANGED <<remote, parts>> /\ pc[h] # "sending"
    BY <1>5 DEF ServePut, Serve, provider, PutStates
  <2> QED BY <1>1, <2>1 DEF UploadInv, RecordedIsRemote, CompletionIsTotal, OutcomeIsTrue,
                RunMatchesRecord, TypeOK
<1>6. CASE ServeDelete(h)
  <2>1. store' = NoRecord /\ UNCHANGED <<remote, parts>> /\ pc[h] # "sending"
    BY <1>6 DEF ServeDelete, Serve, provider
  <2> QED BY <1>1, <2>1 DEF UploadInv, RecordedIsRemote, CompletionIsTotal, OutcomeIsTrue,
                RunMatchesRecord, TypeOK, NoRecord
<1> QED BY <1>2, <1>3, <1>4, <1>5, <1>6 DEF Callee

LEMMA FailureInv ==
    ASSUME TypeOK, UploadInv, NEW h \in Handle, FailureAction(h)
    PROVE  UploadInv'
<1>1. \E rec \in {record[h], NoRecord} : Ending(h, rec)
  BY FailureEnds
<1>2. UNCHANGED <<acked, chunk, store, remote, parts>>
  BY FailureEnds DEF cursor, provider
<1> QED BY <1>1, <1>2, EndingInv

LEMMA SavedInv ==
    ASSUME TypeOK, UploadInv, NEW h \in Handle, Saved(h)
    PROVE  UploadInv'
<1>1. /\ UNCHANGED <<acked, store, remote, parts>>
      /\ Proceed(h, acked[h])
      /\ pc[h] \in Uploading
  BY DEF Saved, provider, Uploading
<1>2. CASE Ending(h, record[h]) /\ UNCHANGED cursor
  BY <1>1, <1>2, EndingInv DEF cursor
<1>3. CASE /\ \E c \in Chunk \ acked[h] : chunk' = [chunk EXCEPT ![h] = c]
           /\ Await(h, "sending")
           /\ UNCHANGED <<record, ending>>
  BY <1>1, <1>3 DEF UploadInv, RecordedIsRemote, CompletionIsTotal, OutcomeIsTrue,
       RunMatchesRecord, TypeOK, Await, ending, Uploading
<1>4. CASE acked[h] = Chunk /\ Await(h, "completing") /\ UNCHANGED <<record, cursor, ending>>
  BY <1>1, <1>4 DEF UploadInv, RecordedIsRemote, CompletionIsTotal, OutcomeIsTrue,
       RunMatchesRecord, TypeOK, Await, cursor, ending, Uploading
<1> QED BY <1>1, <1>2, <1>3, <1>4, ProceedStep

\* One handle replaces its record and its receipts and goes on.
LEMMA RecordStep ==
    ASSUME TypeOK, UploadInv, NEW h \in Handle,
           NEW p \in CallStates \ {"creating"}, NEW rec \in Records, NEW got \in SUBSET Chunk,
           Put(h, p, rec), acked' = [acked EXCEPT ![h] = got],
           UNCHANGED <<chunk, outcome, store, remote, parts>>,
           rec.done = rec.receipts, rec.done \subseteq parts, got \subseteq parts,
           p \in Uploading => got = rec.receipts,
           p = "completing" => got = Chunk,
           rec.status = "completed" \/ p \in {"finishing", "deleting"} => remote = "completed"
    PROVE  UploadInv'
<1>1. /\ record'[h] = rec /\ acked'[h] = got /\ pc'[h] = p /\ served'[h] = FALSE
      /\ \A g \in Handle \ {h} :
           record'[g] = record[g] /\ acked'[g] = acked[g] /\ pc'[g] = pc[g] /\ served'[g] = served[g]
  BY DEF Put, Await, TypeOK
<1>2. RecordedIsRemote'
  BY <1>1 DEF UploadInv, RecordedIsRemote
<1>3. OutcomeIsTrue' /\ CompletionIsTotal'
  BY DEF UploadInv, OutcomeIsTrue, CompletionIsTotal
<1>4. RunMatchesRecord'
  BY <1>1 DEF UploadInv, RunMatchesRecord
<1> QED BY <1>2, <1>3, <1>4 DEF UploadInv

LEMMA RunInv ==
    ASSUME TypeOK, UploadInv, NEW h \in Handle, Run(h)
    PROVE  UploadInv'
<1> USE DEF memory, cursor, ending, provider
<1>1. CASE FailureAction(h)
  BY <1>1, FailureInv
<1>2. CASE Saved(h)
  BY <1>2, SavedInv
<1>3. acked = [acked EXCEPT ![h] = acked[h]] /\ acked[h] \in SUBSET Chunk /\ acked[h] \subseteq parts
  BY DEF TypeOK, UploadInv, RecordedIsRemote
<1>4. record[h] \in Records /\ record[h].done = record[h].receipts /\ record[h].done \subseteq parts
  BY DEF TypeOK, UploadInv, RecordedIsRemote
<1>5. store \in Records /\ store.done = store.receipts /\ store.done \subseteq parts
  BY DEF TypeOK, UploadInv, RecordedIsRemote
<1>6. CASE CreateOk(h)
  <2> DEFINE rec == [status |-> "active", done |-> {}, receipts |-> {}]
  <2>1. rec \in Records /\ rec.done = {} /\ rec.receipts = {} /\ rec.status = "active"
    BY DEF Records, RecordStatus
  <2>2. acked[h] = {}
    BY <1>6 DEF CreateOk, UploadInv, RunMatchesRecord
  <2>3. Put(h, "opening", rec) /\ acked' = acked /\ UNCHANGED <<chunk, outcome, store, remote, parts>>
    BY <1>6 DEF CreateOk
  <2> HIDE DEF rec
  <2> QED BY <1>3, <2>1, <2>2, <2>3, RecordStep DEF CallStates
<1>7. CASE LoadOk(h)
  <2>1. store.status # "completed"
    BY <1>7 DEF LoadOk, Resumable
  <2>2. Put(h, "restoring", store) /\ acked' = acked /\ UNCHANGED <<chunk, outcome, store, remote, parts>>
    BY <1>7 DEF LoadOk
  <2> QED BY <1>3, <1>5, <2>1, <2>2, RecordStep DEF CallStates, Uploading
<1>8. CASE LoadExpired(h)
  <2>1. /\ MarkExpired(store) \in Records /\ MarkExpired(store).status = "expired"
        /\ MarkExpired(store).done = store.done /\ MarkExpired(store).receipts = store.receipts
    BY <1>5 DEF Records, RecordStatus, MarkExpired
  <2>2. /\ Put(h, "expiring", MarkExpired(store)) /\ acked' = acked
        /\ UNCHANGED <<chunk, outcome, store, remote, parts>>
    BY <1>8 DEF LoadExpired
  <2> QED BY <1>3, <1>5, <2>1, <2>2, RecordStep DEF CallStates, Uploading
<1>9. CASE RestoreOk(h)
  <2> DEFINE rec == [record[h] EXCEPT !.status = "active"]
  <2>1. /\ rec \in Records /\ rec.status = "active"
        /\ rec.done = record[h].done /\ rec.receipts = record[h].receipts
    BY <1>4 DEF Records, RecordStatus
  <2>2. /\ Put(h, "activating", rec) /\ acked' = [acked EXCEPT ![h] = record[h].receipts]
        /\ UNCHANGED <<chunk, outcome, store, remote, parts>>
    BY <1>9 DEF RestoreOk, Hydrate
  <2>3. record[h].receipts \in SUBSET Chunk /\ record[h].receipts \subseteq parts
    BY <1>4 DEF Records
  <2> HIDE DEF rec
  <2> QED BY <1>4, <2>1, <2>2, <2>3, RecordStep DEF CallStates
<1>10. CASE SendOk(h)
  <2> DEFINE got == acked[h] \cup {chunk[h]}
             rec == [status |-> "active", done |-> record[h].done \cup {chunk[h]}, receipts |-> got]
  <2>1. chunk[h] \in Chunk /\ chunk[h] \in parts /\ acked[h] = record[h].receipts
    BY <1>10 DEF SendOk, TypeOK, UploadInv, RunMatchesRecord, Uploading
  <2>2. /\ rec \in Records /\ rec.status = "active"
        /\ rec.done = record[h].done \cup {chunk[h]} /\ rec.receipts = got
    BY <1>3, <1>4, <2>1 DEF Records, RecordStatus
  <2>3. acked' = [acked EXCEPT ![h] = got] /\ acked'[h] = got
    BY <1>10 DEF SendOk, TypeOK
  <2>4. Put(h, "saving", rec) /\ UNCHANGED <<chunk, outcome, store, remote, parts>>
    BY <1>10, <2>3 DEF SendOk
  <2>5. got \in SUBSET Chunk /\ got \subseteq parts /\ rec.done = got
    BY <1>3, <1>4, <2>1, <2>2
  <2> HIDE DEF rec, got
  <2> QED BY <2>2, <2>3, <2>4, <2>5, RecordStep DEF CallStates
<1>11. CASE CompleteOk(h)
  <2> DEFINE rec == [record[h] EXCEPT !.status = "completed"]
  <2>1. /\ rec \in Records /\ rec.status = "completed"
        /\ rec.done = record[h].done /\ rec.receipts = record[h].receipts
    BY <1>4 DEF Records, RecordStatus
  <2>2. /\ Put(h, "finishing", rec) /\ acked' = acked /\ remote = "completed"
        /\ UNCHANGED <<chunk, outcome, store, remote, parts>>
    BY <1>11 DEF CompleteOk
  <2> HIDE DEF rec
  <2> QED BY <1>3, <1>4, <2>1, <2>2, RecordStep DEF CallStates, Uploading
<1>12. CASE LoadFail(h)
  <2>1. StopOutcome(want[h]) # "completed"
    BY StopOutcomeType
  <2> QED BY <1>12, <2>1 DEF LoadFail, Await, UploadInv, RecordedIsRemote, CompletionIsTotal,
                OutcomeIsTrue, RunMatchesRecord, TypeOK, Uploading
<1>13. CASE SendRetry(h) \/ Retry(h) \/ Delete(h) \/ MarkFail(h)
  BY <1>13 DEF SendRetry, Retry, Delete, MarkFail, Await, UploadInv, RecordedIsRemote,
       CompletionIsTotal, OutcomeIsTrue, RunMatchesRecord, TypeOK, Uploading
<1>14. CASE Finish(h)
  <2>1. remote = "completed"
    BY <1>14 DEF Finish, UploadInv, RunMatchesRecord
  <2> QED BY <1>14, <2>1 DEF Finish, Await, UploadInv, RecordedIsRemote,
                CompletionIsTotal, OutcomeIsTrue, RunMatchesRecord, TypeOK, Uploading
<1>15. CASE AbortDone(h)
  <2>1. Ending(h, record[h])
    BY <1>4, <1>15, SettleEnds DEF AbortDone
  <2> QED BY <1>15, <2>1, EndingInv DEF AbortDone
<1>16. CASE Marked(h)
  <2>1. StopOutcome(want[h]) # "completed"
    BY StopOutcomeType
  <2> QED BY <1>16, <2>1 DEF Marked, End, Await, UploadInv, RecordedIsRemote,
                CompletionIsTotal, OutcomeIsTrue, RunMatchesRecord, TypeOK, Uploading
<1> QED BY <1>1, <1>2, <1>6, <1>7, <1>8, <1>9, <1>10, <1>11, <1>12, <1>13, <1>14, <1>15, <1>16
        DEF Run, FailureAction

\* The inductive invariant holds of every run.
THEOREM UploadInvariant == Spec => []UploadInv
<1>1. TypeOK /\ UploadInv /\ [Next]_vars => UploadInv'
  <2> SUFFICES ASSUME TypeOK, UploadInv, [Next]_vars PROVE UploadInv'
    OBVIOUS
  <2>1. CASE UNCHANGED vars
    BY <2>1 DEF UploadInv, RecordedIsRemote, CompletionIsTotal, OutcomeIsTrue, RunMatchesRecord,
         vars, call, memory, cursor, ending, provider
  <2>2. CASE Expire
    BY <2>2 DEF UploadInv, RecordedIsRemote, CompletionIsTotal, OutcomeIsTrue, RunMatchesRecord,
         Expire, call, memory, cursor, ending, provider
  <2>3. CASE \E h \in Handle : User(h) \/ Callee(h) \/ Run(h) \/ Crash(h)
    BY <2>3, UserInv, CalleeInv, RunInv
  <2> QED BY <2>1, <2>2, <2>3 DEF Next
<1> QED BY <1>1, TypeCorrect, UploadInit, PTL DEF Spec

\* No record, durable or in memory, and no receipt claims a chunk that the provider
\* has not stored, whatever is lost and however many runs share the record.
THEOREM RecordsAreBacked == Spec => []RecordedIsRemote
<1>1. UploadInv => RecordedIsRemote
  BY DEF UploadInv
<1> QED BY <1>1, UploadInvariant, PTL

\* completeSession is called, and so the upload completed, only with every chunk.
THEOREM CompletionHasAll == Spec => []CompletionIsTotal
<1>1. UploadInv => CompletionIsTotal
  BY DEF UploadInv
<1> QED BY <1>1, UploadInvariant, PTL

\* A run that resolves and a record marked completed stand for a remote completion.
THEOREM OutcomesAreTrue == Spec => []OutcomeIsTrue
<1>1. UploadInv => OutcomeIsTrue
  BY DEF UploadInv
<1> QED BY <1>1, UploadInvariant, PTL
------------------------------------------------------------------------------
(***************************************************************************)
(* What IngestSession promises when the application runs one session of an *)
(* upload at a time: no chunk that the durable record holds is sent again, *)
(* it implements ResumableUpload, and it keeps what was asked of it.       *)
(***************************************************************************)

\* There is one place that holds a session object.
OneHandle == \A g, h \in Handle : g = h

LEMMA SettleMarks ==
    ASSUME TypeOK, NEW h \in Handle, NEW rec \in Records, NEW captured, NEW conflict,
           Settle(h, captured, rec, conflict)
    PROVE  /\ pc'[h] \in {"settling", "ended"} /\ served'[h] = FALSE
           /\ record'[h].done = rec.done
           /\ rec.status = "absent" => record'[h].status = "absent"
           /\ pc'[h] = "settling" => record'[h].status # "absent"
<1>1. CASE /\ Put(h, "settling", [rec EXCEPT !.status = StopOutcome(captured)])
           /\ rec.status # "absent"
  <2>1. /\ record'[h] = [rec EXCEPT !.status = StopOutcome(captured)]
        /\ pc'[h] = "settling" /\ served'[h] = FALSE
    BY <1>1 DEF Put, Await, TypeOK
  <2>2. record'[h].done = rec.done /\ record'[h].status = StopOutcome(captured)
    BY <2>1 DEF Records
  <2>3. StopOutcome(captured) # "absent"
    BY StopOutcomeType
  <2> QED BY <1>1, <2>1, <2>2, <2>3
<1>2. CASE End(h, captured) /\ record' = [record EXCEPT ![h] = rec]
  BY <1>2 DEF End, Await, TypeOK
<1> QED BY <1>1, <1>2 DEF Settle, KeepsItsStatus

LEMMA FailMarks ==
    ASSUME TypeOK, NEW h \in Handle, NEW rec \in Records, NEW conflict,
           Fail(h, rec, conflict)
    PROVE  /\ pc'[h] \in {"aborting", "settling", "ended"} /\ served'[h] = FALSE
           /\ record'[h].done = rec.done
           /\ rec.status = "absent" => record'[h].status = "absent"
           /\ pc'[h] = "settling" => record'[h].status # "absent"
<1>1. CASE Put(h, "aborting", rec)
  BY <1>1 DEF Put, Await, TypeOK
<1>2. CASE Settle(h, want[h], rec, conflict)
  BY <1>2, SettleMarks
<1> QED BY <1>1, <1>2 DEF Fail

------------------------------------------------------------------------------
(***************************************************************************)
(* RecordIsAhead is inductive with UploadInv.                              *)
(***************************************************************************)

LEMMA AheadInit == Init => RecordIsAhead
BY DEF Init, RecordIsAhead, PutStates, Busy, CallStates

\* The run fails: its record stays ahead until it is marked.
LEMMA EndAhead ==
    ASSUME OneHandle, RecordIsAhead, NEW h \in Handle, NEW rec,
           (pc[h] \in Busy /\ rec = record[h]) \/ (rec = NoRecord /\ store.status # "absent"),
           pc'[h] \in {"aborting", "settling", "ended"}, served'[h] = FALSE,
           record'[h].done = rec.done,
           rec.status = "absent" => record'[h].status = "absent",
           pc'[h] = "settling" => record'[h].status # "absent",
           UNCHANGED <<store, remote>>
    PROVE  RecordIsAhead'
<1>1. pc'[h] \in Busy /\ remote' = "completed" => store'.status # "absent"
  BY DEF RecordIsAhead
<1>2. record'[h].status # "absent" => store'.done \subseteq record'[h].done
  <2>1. CASE pc[h] \in Busy /\ rec = record[h]
    BY <2>1 DEF RecordIsAhead
  <2>2. CASE rec = NoRecord
    BY <2>2, NoRecordIsEmpty
  <2> QED BY <2>1, <2>2
<1> QED BY <1>1, <1>2 DEF OneHandle, RecordIsAhead, PutStates

LEMMA FailureAhead ==
    ASSUME OneHandle, TypeOK, RecordIsAhead, NEW h \in Handle, FailureAction(h)
    PROVE  RecordIsAhead'
<1>1. PICK rec \in {record[h], NoRecord}, conflict \in BOOLEAN :
        /\ Fail(h, rec, conflict)
        /\ (pc[h] \in Busy /\ rec = record[h]) \/ (rec = NoRecord /\ store.status # "absent")
  BY DEF FailureAction, CreateFail, LoadRefused, ExpireDone, RestoreFail, SaveFail,
         SendFail, Interrupt, CompleteFail, Busy, CallStates
<1>2. rec \in Records
  BY DEF TypeOK, Records, NoRecord
<1>3. UNCHANGED <<store, remote>>
  BY FailureEnds DEF provider
<1> QED BY <1>1, <1>2, <1>3, FailMarks, EndAhead

LEMMA SavedAhead ==
    ASSUME OneHandle, TypeOK, RecordIsAhead, NEW h \in Handle, Saved(h)
    PROVE  RecordIsAhead'
<1>1. /\ pc[h] \in PutStates /\ pc[h] \in Busy /\ served[h]
      /\ UNCHANGED <<acked, store, remote>> /\ Proceed(h, acked[h])
  BY DEF Saved, PutStates, Busy, CallStates, provider
<1>2. store = record[h] /\ store.status # "absent" /\ record[h] \in Records
  BY <1>1 DEF RecordIsAhead, TypeOK
<1>3. CASE Fail(h, record[h], FALSE)
  BY <1>1, <1>2, <1>3, FailMarks, EndAhead
<1>4. CASE /\ \E c \in Chunk \ acked[h] : chunk' = [chunk EXCEPT ![h] = c]
           /\ Await(h, "sending") /\ UNCHANGED record
  BY <1>1, <1>2, <1>4 DEF OneHandle, RecordIsAhead, Await, TypeOK, PutStates
<1>5. CASE Await(h, "completing") /\ UNCHANGED record
  BY <1>1, <1>2, <1>5 DEF OneHandle, RecordIsAhead, Await, TypeOK, PutStates
<1> QED BY <1>1, <1>3, <1>4, <1>5 DEF Proceed

\* The run adopts or extends its record and asks the store to keep it.
LEMMA PutAhead ==
    ASSUME OneHandle, TypeOK, RecordIsAhead, NEW h \in Handle, NEW rec,
           NEW p \in {"opening", "expiring", "restoring", "activating", "saving", "finishing"},
           Put(h, p, rec), UNCHANGED <<store, remote>>,
           rec.status # "absent", store.done \subseteq rec.done,
           p = "opening" => remote # "completed",
           p # "opening" => store.status # "absent"
    PROVE  RecordIsAhead'
<1>1. pc'[h] = p /\ served'[h] = FALSE /\ record'[h] = rec
  BY DEF Put, Await, TypeOK
<1> QED BY <1>1 DEF OneHandle, RecordIsAhead, PutStates

LEMMA RunAhead ==
    ASSUME OneHandle, TypeOK, UploadInv, RecordIsAhead, NEW h \in Handle, Run(h)
    PROVE  RecordIsAhead'
<1> USE DEF memory, cursor, ending, provider
<1>1. CASE FailureAction(h)
  BY <1>1, FailureAhead
<1>2. CASE Saved(h)
  BY <1>2, SavedAhead
<1>3. CASE CreateOk(h)
  <2> DEFINE rec == [status |-> "active", done |-> {}, receipts |-> {}]
  <2>1. Put(h, "opening", rec) /\ UNCHANGED <<store, remote>>
    BY <1>3 DEF CreateOk
  <2>2. store.done = {} /\ remote # "completed"
    BY <1>3, NoRecordIsEmpty DEF CreateOk, RecordIsAhead
  <2>3. rec.status # "absent" /\ store.done \subseteq rec.done
    BY <2>2
  <2> HIDE DEF rec
  <2> QED BY <2>1, <2>2, <2>3, PutAhead
<1>4. CASE LoadOk(h)
  BY <1>4, PutAhead DEF LoadOk, Resumable
<1>5. CASE LoadExpired(h)
  <2>1. MarkExpired(store).status = "expired" /\ MarkExpired(store).done = store.done
    BY DEF MarkExpired, TypeOK, Records
  <2>2. Put(h, "expiring", MarkExpired(store)) /\ UNCHANGED <<store, remote>> /\ store.status # "absent"
    BY <1>5 DEF LoadExpired
  <2>3. store.done \subseteq MarkExpired(store).done
    BY <2>1
  <2> QED BY <2>1, <2>2, <2>3, PutAhead
<1>6. CASE RestoreOk(h)
  <2> DEFINE rec == [record[h] EXCEPT !.status = "active"]
  <2>1. rec.status = "active" /\ rec.done = record[h].done
    BY DEF TypeOK, Records
  <2>2. store.status # "absent" /\ store.done \subseteq record[h].done
    BY <1>6 DEF RestoreOk, RecordIsAhead, Busy, CallStates
  <2>3. Put(h, "activating", rec) /\ UNCHANGED <<store, remote>>
    BY <1>6 DEF RestoreOk
  <2> HIDE DEF rec
  <2> QED BY <2>1, <2>2, <2>3, PutAhead
<1>7. CASE SendOk(h)
  <2> DEFINE rec == [status |-> "active",
                     done |-> record[h].done \cup {chunk[h]},
                     receipts |-> acked'[h]]
  <2>1. store.status # "absent" /\ store.done \subseteq record[h].done
    BY <1>7 DEF SendOk, RecordIsAhead, Busy, CallStates
  <2>2. rec.status = "active" /\ store.done \subseteq rec.done
    BY <2>1
  <2>3. Put(h, "saving", rec) /\ UNCHANGED <<store, remote>>
    BY <1>7 DEF SendOk
  <2> HIDE DEF rec
  <2> QED BY <2>1, <2>2, <2>3, PutAhead
<1>8. CASE CompleteOk(h)
  <2> DEFINE rec == [record[h] EXCEPT !.status = "completed"]
  <2>1. rec.status = "completed" /\ rec.done = record[h].done
    BY DEF TypeOK, Records
  <2>2. store.status # "absent" /\ store.done \subseteq record[h].done
    BY <1>8 DEF CompleteOk, RecordIsAhead, Busy, CallStates
  <2>3. Put(h, "finishing", rec) /\ UNCHANGED <<store, remote>>
    BY <1>8 DEF CompleteOk
  <2> HIDE DEF rec
  <2> QED BY <2>1, <2>2, <2>3, PutAhead
<1>9. CASE LoadFail(h) \/ Delete(h) \/ Finish(h) \/ Marked(h) \/ MarkFail(h)
  <2>1. pc'[h] \in {"ended", "deleting"}
    BY <1>9 DEF LoadFail, Delete, Finish, Marked, MarkFail, End, Await, TypeOK
  <2> QED BY <2>1 DEF OneHandle, RecordIsAhead, PutStates, Busy, CallStates
<1>10. CASE SendRetry(h) \/ Retry(h)
  <2>1. /\ UNCHANGED <<record, store, remote, acked, chunk>>
        /\ pc[h] \in {"sending", "waiting"} /\ pc'[h] \in {"sending", "waiting"}
    BY <1>10 DEF SendRetry, Retry, Await, TypeOK
  <2> QED BY <2>1 DEF OneHandle, RecordIsAhead, PutStates, Busy, CallStates
<1>11. CASE AbortDone(h)
  <2>1. record[h] \in Records /\ pc[h] \in Busy /\ UNCHANGED <<store, remote>>
    BY <1>11 DEF AbortDone, TypeOK, Busy, CallStates
  <2> QED BY <1>11, <2>1, SettleMarks, EndAhead DEF AbortDone
<1> QED BY <1>1, <1>2, <1>3, <1>4, <1>5, <1>6, <1>7, <1>8, <1>9, <1>10, <1>11
        DEF Run, FailureAction

LEMMA UserAhead ==
    ASSUME OneHandle, TypeOK, RecordIsAhead, NEW h \in Handle, User(h) \/ Crash(h) \/ Expire
    PROVE  RecordIsAhead'
<1>1. CASE Start(h)
  <2>1. /\ pc'[h] = "creating" /\ record'[h] = NoRecord /\ UNCHANGED <<store, remote>>
        /\ remote = "none" /\ store = NoRecord
    BY <1>1 DEF Start, Fresh, Await, TypeOK, provider, RecordIsAhead
  <2> QED BY <2>1, NoRecordIsEmpty DEF OneHandle, RecordIsAhead, PutStates
<1>2. CASE Resume(h) \/ Crash(h)
  <2>1. pc'[h] \in {"loading", "crashed"}
    BY <1>2 DEF Resume, Crash, Fresh, Await, TypeOK
  <2> QED BY <2>1 DEF OneHandle, RecordIsAhead, PutStates, Busy, CallStates
<1>3. CASE Pause(h) \/ Cancel(h) \/ Abort(h) \/ Expire
  <2>1. UNCHANGED <<call, memory, cursor, store, provider>>
    BY <1>3 DEF Pause, Cancel, Abort, Request, Expire
  <2> QED BY <2>1 DEF RecordIsAhead, call, memory, cursor, provider
<1> QED BY <1>1, <1>2, <1>3 DEF User

LEMMA CalleeAhead ==
    ASSUME OneHandle, TypeOK, RecordIsAhead, NEW h \in Handle, Callee(h)
    PROVE  RecordIsAhead'
<1>1. UNCHANGED <<pc, acked, record, chunk>> /\ ~served[h] /\ served'[h] = TRUE
  BY DEF Callee, ServeCreate, ServeUpload, ServeComplete, ServeAbort, ServePut, ServeDelete,
         Serve, memory, cursor, TypeOK
<1>2. CASE ServeCreate(h) \/ ServeUpload(h) \/ ServeAbort(h)
  <2>1. /\ UNCHANGED store /\ remote' # "completed"
        /\ pc[h] \in {"creating", "sending", "aborting"}
    BY <1>2 DEF ServeCreate, ServeUpload, ServeAbort, Serve
  <2> QED BY <1>1, <2>1 DEF OneHandle, RecordIsAhead, PutStates
<1>3. CASE ServeComplete(h)
  <2>1. UNCHANGED store /\ pc[h] = "completing"
    BY <1>3 DEF ServeComplete, Serve
  <2> QED BY <1>1, <2>1 DEF OneHandle, RecordIsAhead, PutStates
<1>4. CASE ServePut(h)
  <2>1. store' = record[h] /\ UNCHANGED remote /\ pc[h] \in PutStates
    BY <1>4 DEF ServePut, Serve, provider
  <2> QED BY <1>1, <2>1 DEF OneHandle, RecordIsAhead, PutStates
<1>5. CASE ServeDelete(h)
  <2>1. pc[h] = "deleting"
    BY <1>5 DEF ServeDelete, Serve
  <2> QED BY <1>1, <2>1 DEF OneHandle, RecordIsAhead, PutStates, Busy
<1> QED BY <1>2, <1>3, <1>4, <1>5 DEF Callee

\* While one session runs at a time its record is never behind the durable one.
THEOREM RecordStaysAhead ==
    ASSUME OneHandle
    PROVE  Spec => []RecordIsAhead
<1>1. TypeOK /\ UploadInv /\ RecordIsAhead /\ [Next]_vars => RecordIsAhead'
  <2> SUFFICES ASSUME TypeOK, UploadInv, RecordIsAhead, [Next]_vars PROVE RecordIsAhead'
    OBVIOUS
  <2>1. CASE UNCHANGED vars
    BY <2>1 DEF RecordIsAhead, vars, call, memory, cursor, provider
  <2>2. CASE Expire
    BY <2>2 DEF RecordIsAhead, Expire, call, memory, cursor, provider
  <2>3. CASE \E h \in Handle : User(h) \/ Callee(h) \/ Run(h) \/ Crash(h)
    BY <2>3, UserAhead, CalleeAhead, RunAhead
  <2> QED BY <2>1, <2>2, <2>3 DEF Next
<1> QED BY <1>1, TypeCorrect, UploadInvariant, AheadInit, PTL DEF Spec

\* A chunk that the durable record holds is not sent again, after any number of
\* failed, stopped and crashed runs.
THEOREM NothingSentTwice ==
    ASSUME OneHandle
    PROVE  Spec => []NoRetransmission
<1>1. TypeOK /\ UploadInv /\ RecordIsAhead => NoRetransmission
  <2> SUFFICES ASSUME TypeOK, UploadInv, RecordIsAhead, NEW h \in Handle, pc[h] = "sending"
               PROVE  chunk[h] \notin store.done
    BY DEF NoRetransmission
  <2>1. store.done \subseteq record[h].done /\ chunk[h] \notin acked[h]
    BY DEF RecordIsAhead, Busy, CallStates
  <2>2. acked[h] = record[h].receipts /\ record[h].done = record[h].receipts
    BY DEF UploadInv, RunMatchesRecord, RecordedIsRemote, Uploading
  <2> QED BY <2>1, <2>2
<1> QED BY <1>1, TypeCorrect, UploadInvariant, RecordStaysAhead, PTL

------------------------------------------------------------------------------
(***************************************************************************)
(* Refinement: the callees' steps are the abstract ones, all others        *)
(* stutter.                                                                *)
(***************************************************************************)

LEMMA CalleeKeepsPromise ==
    ASSUME TypeOK, UploadInv, RecordIsAhead, NEW h \in Handle, Callee(h)
    PROVE  [Promise!Next]_Promise!vars
<1> USE DEF Promise!Next, Promise!vars, Serve, provider
<1>1. CASE ServeCreate(h)
  BY <1>1 DEF ServeCreate, Promise!Open
<1>2. CASE ServeUpload(h)
  BY <1>2 DEF ServeUpload, Promise!Deliver, TypeOK
<1>3. CASE ServeComplete(h)
  <2>1. store.status # "absent" /\ parts = Chunk
    BY <1>3 DEF ServeComplete, RecordIsAhead, UploadInv, RunMatchesRecord, RecordedIsRemote, TypeOK
  <2> QED BY <1>3, <2>1 DEF ServeComplete, Promise!Complete
<1>4. CASE ServeAbort(h)
  BY <1>4 DEF ServeAbort, Promise!Abort
<1>5. CASE ServePut(h)
  <2>1. record[h].status # "absent" /\ store.done \subseteq record[h].done
    BY <1>5 DEF ServePut, RecordIsAhead, PutStates, Busy, CallStates
  <2>2. record[h].done \subseteq parts
    BY DEF UploadInv, RecordedIsRemote
  <2>3. ~(store.status = "absent" /\ remote = "completed")
    BY <1>5 DEF ServePut, RecordIsAhead, PutStates, Busy, CallStates
  <2> QED BY <1>5, <2>1, <2>2, <2>3 DEF ServePut, Promise!Confirm
<1>6. CASE ServeDelete(h)
  <2>1. remote = "completed"
    BY <1>6 DEF ServeDelete, UploadInv, RunMatchesRecord
  <2> QED BY <1>6, <2>1, NoRecordIsEmpty DEF ServeDelete, Promise!Drop
<1> QED BY <1>1, <1>2, <1>3, <1>4, <1>5, <1>6 DEF Callee

LEMMA OthersStutter ==
    ASSUME TypeOK, NEW h \in Handle, User(h) \/ Run(h) \/ Crash(h) \/ Expire
    PROVE  UNCHANGED <<store, remote, parts>>
<1>1. CASE FailureAction(h)
  BY <1>1, FailureEnds DEF provider
<1>2. CASE User(h) \/ Crash(h) \/ Expire
  BY <1>2 DEF User, Start, Resume, Pause, Cancel, Abort, Request, Crash, Expire, provider
<1>3. CASE CreateOk(h) \/ LoadOk(h) \/ LoadExpired(h) \/ LoadFail(h) \/ RestoreOk(h) \/ Saved(h)
  BY <1>3 DEF CreateOk, LoadOk, LoadExpired, LoadFail, RestoreOk, Saved, provider
<1>4. CASE SendOk(h) \/ SendRetry(h) \/ Retry(h) \/ CompleteOk(h) \/ Delete(h) \/ Finish(h)
           \/ AbortDone(h) \/ Marked(h) \/ MarkFail(h)
  BY <1>4 DEF SendOk, SendRetry, Retry, CompleteOk, Delete, Finish, AbortDone, Marked, MarkFail,
         provider
<1> QED BY <1>1, <1>2, <1>3, <1>4 DEF Run, FailureAction

\* The upload authority keeps the promise of ResumableUpload: confirmed chunks are
\* never given up, completion has every chunk, and the durable record is dropped
\* only after it.
THEOREM Implements ==
    ASSUME OneHandle
    PROVE  Spec => KeepsPromise
<1>1. Init => Promise!Init
  BY NoRecordIsEmpty DEF Init, Promise!Init
<1>2. TypeOK /\ UploadInv /\ RecordIsAhead /\ [Next]_vars => [Promise!Next]_Promise!vars
  <2> SUFFICES ASSUME TypeOK, UploadInv, RecordIsAhead, [Next]_vars
               PROVE  [Promise!Next]_Promise!vars
    OBVIOUS
  <2>1. CASE \E h \in Handle : Callee(h)
    BY <2>1, CalleeKeepsPromise
  <2>2. CASE ~\E h \in Handle : Callee(h)
    <3>1. UNCHANGED <<store, remote, parts>>
      <4>1. CASE UNCHANGED vars
        BY <4>1 DEF vars, provider
      <4>2. CASE Expire
        BY <4>2 DEF Expire, provider
      <4>3. CASE \E h \in Handle : User(h) \/ Run(h) \/ Crash(h)
        BY <4>3, OthersStutter
      <4> QED BY <2>2, <4>1, <4>2, <4>3 DEF Next
    <3> QED BY <3>1 DEF Promise!vars
  <2> QED BY <2>1, <2>2
<1> QED BY <1>1, <1>2, TypeCorrect, UploadInvariant, RecordStaysAhead, PTL
       DEF Spec, KeepsPromise, Promise!Spec
------------------------------------------------------------------------------
(***************************************************************************)
(* What was asked of an upload is kept.                                    *)
(***************************************************************************)

\* The durable record may still be taken up again.
StoreIsLive == store.status \notin {"completed", "canceled", "expired"}

\* A run marks a record as failed, or writes it as active, only while the durable
\* one is not over; and the record of a run that is stopped holds what it was
\* acknowledged and says what it was stopped by.
StopInv ==
    \A h \in Handle :
        /\ pc[h] = "loading" => record[h] = NoRecord
        /\ acked[h] \subseteq record[h].done
        /\ pc[h] \in Uploading => record[h].status = "active"
        /\ pc[h] = "expiring" => record[h].status = "expired"
        /\ pc[h] = "finishing" => record[h].status = "completed"
        /\ pc[h] = "aborting" => stop[h] = "cancel"
        /\ pc[h] = "settling" => record[h].status = StopOutcome(stop[h])
        /\ pc[h] \in Uploading \cup {"restoring"} => StoreIsLive
        /\ pc[h] = "settling" /\ record[h].status = "failed" => StoreIsLive

LEMMA StopInit == Init => StopInv
BY NoRecordIsEmpty DEF Init, StopInv, Uploading

\* A failing run is stopped as it was asked, or marks a record that is not over.
LEMMA FailStops ==
    ASSUME OneHandle, TypeOK, StopInv, NEW h \in Handle, NEW rec \in Records, NEW conflict,
           Fail(h, rec, conflict), UNCHANGED <<acked, store>>,
           rec = record[h] \/ (rec = NoRecord /\ pc[h] = "loading"),
           conflict \/ KeepsItsStatus(rec) \/ StoreIsLive
    PROVE  StopInv'
<1>1. /\ stop'[h] = want[h] /\ acked'[h] = acked[h] /\ acked[h] \subseteq rec.done
      /\ StoreIsLive => StoreIsLive'
  BY DEF Fail, TypeOK, StopInv, StoreIsLive
<1>2. CASE want[h] = "cancel" /\ Put(h, "aborting", rec)
  <2>1. pc'[h] = "aborting" /\ record'[h] = rec
    BY <1>2 DEF Put, Await, TypeOK
  <2> QED BY <1>1, <1>2, <2>1 DEF OneHandle, StopInv, Uploading
<1>3. CASE Settle(h, want[h], rec, conflict)
  <2>1. CASE /\ \/ want[h] \in Stops /\ rec.status # "absent"
                \/ want[h] \notin Stops /\ ~conflict /\ ~KeepsItsStatus(rec)
             /\ Put(h, "settling", [rec EXCEPT !.status = StopOutcome(want[h])])
    <3>1. pc'[h] = "settling" /\ record'[h] = [rec EXCEPT !.status = StopOutcome(want[h])]
      BY <2>1 DEF Put, Await, TypeOK
    <3>2. record'[h].status = StopOutcome(want[h]) /\ record'[h].done = rec.done
      BY <3>1 DEF Records
    <3>3. StopOutcome(want[h]) = "failed" => StoreIsLive'
      BY <1>1, <2>1 DEF StopOutcome, Stops
    <3> QED BY <1>1, <3>1, <3>2, <3>3 DEF OneHandle, StopInv, Uploading
  <2>2. CASE End(h, want[h]) /\ record' = [record EXCEPT ![h] = rec]
    <3>1. pc'[h] = "ended" /\ record'[h] = rec
      BY <2>2 DEF End, Await, TypeOK
    <3> QED BY <1>1, <3>1 DEF OneHandle, StopInv, Uploading
  <2> QED BY <1>3, <2>1, <2>2 DEF Settle
<1> QED BY <1>2, <1>3 DEF Fail

LEMMA FailureStops ==
    ASSUME OneHandle, TypeOK, RecordIsAhead, StopInv, NEW h \in Handle, FailureAction(h)
    PROVE  StopInv'
<1>0. /\ record[h] \in Records /\ NoRecord \in Records /\ UNCHANGED <<acked, store>>
      /\ TRUE \in BOOLEAN /\ FALSE \in BOOLEAN
  BY FailureEnds DEF TypeOK, Records, NoRecord
<1>1. CASE CreateFail(h)
  <2>1. KeepsItsStatus(record[h]) /\ Fail(h, record[h], FALSE)
    BY <1>1, NoRecordIsEmpty DEF CreateFail, RecordIsAhead, KeepsItsStatus
  <2> QED BY <1>0, <2>1, FailStops
<1>2. CASE LoadRefused(h)
  <2>1. pc[h] = "loading" /\ Fail(h, NoRecord, TRUE)
    BY <1>2 DEF LoadRefused
  <2> QED BY <1>0, <2>1, FailStops
<1>3. CASE ExpireDone(h) \/ RestoreFail(h) \/ SaveFail(h)
  <2>1. Fail(h, record[h], TRUE)
    BY <1>3 DEF ExpireDone, RestoreFail, SaveFail
  <2> QED BY <1>0, <2>1, FailStops
<1>4. CASE SendFail(h) \/ Interrupt(h) \/ CompleteFail(h)
  <2>1. StoreIsLive /\ Fail(h, record[h], FALSE)
    BY <1>4 DEF SendFail, Interrupt, CompleteFail, StopInv, Uploading
  <2> QED BY <1>0, <2>1, FailStops
<1> QED BY <1>1, <1>2, <1>3, <1>4 DEF FailureAction

LEMMA SavedStops ==
    ASSUME OneHandle, TypeOK, StopInv, NEW h \in Handle, Saved(h)
    PROVE  StopInv'
<1>1. /\ pc[h] \in Uploading /\ StoreIsLive /\ UNCHANGED <<acked, store>>
      /\ record[h] \in Records /\ Proceed(h, acked[h])
  BY DEF Saved, Uploading, StopInv, TypeOK
<1>2. CASE Fail(h, record[h], FALSE)
  BY <1>1, <1>2, FailStops
<1>3. CASE (Await(h, "sending") \/ Await(h, "completing")) /\ UNCHANGED <<record, ending>>
  <2>1. pc'[h] \in {"sending", "completing"} /\ record' = record
    BY <1>3 DEF Await, TypeOK
  <2> QED BY <1>1, <2>1 DEF OneHandle, StopInv, StoreIsLive, Uploading
<1> QED BY <1>1, <1>2, <1>3 DEF Proceed

\* The run replaces its record and goes on, with a durable one that is not over.
LEMMA PutStops ==
    ASSUME OneHandle, TypeOK, StopInv, NEW h \in Handle, NEW rec,
           NEW p \in {"opening", "expiring", "restoring", "activating", "saving", "finishing"},
           Put(h, p, rec), UNCHANGED store, acked'[h] \subseteq rec.done,
           p \in {"opening", "activating", "saving"} => rec.status = "active",
           p = "expiring" => rec.status = "expired",
           p = "finishing" => rec.status = "completed",
           p \notin {"expiring", "finishing"} => StoreIsLive
    PROVE  StopInv'
<1>1. pc'[h] = p /\ record'[h] = rec
  BY DEF Put, Await, TypeOK
<1> QED BY <1>1 DEF OneHandle, StopInv, StoreIsLive, Uploading

LEMMA RunStops ==
    ASSUME OneHandle, TypeOK, UploadInv, RecordIsAhead, StopInv, NEW h \in Handle, Run(h)
    PROVE  StopInv'
<1>0. /\ acked[h] \subseteq record[h].done /\ record[h] \in Records /\ store \in Records
      /\ record[h].done = record[h].receipts
  BY DEF StopInv, TypeOK, UploadInv, RecordedIsRemote
<1>1. CASE FailureAction(h)
  BY <1>1, FailureStops
<1>2. CASE Saved(h)
  BY <1>2, SavedStops
<1>3. CASE CreateOk(h)
  <2> DEFINE rec == [status |-> "active", done |-> {}, receipts |-> {}]
  <2>1. Put(h, "opening", rec) /\ UNCHANGED <<store, acked>> /\ pc[h] = "creating"
    BY <1>3 DEF CreateOk
  <2>2. StoreIsLive /\ acked[h] = {}
    BY <2>1, NoRecordIsEmpty DEF RecordIsAhead, StoreIsLive, UploadInv, RunMatchesRecord
  <2>3. rec.status = "active" /\ rec.done = {}
    OBVIOUS
  <2> HIDE DEF rec
  <2> QED BY <2>1, <2>2, <2>3, PutStops
<1>4. CASE LoadOk(h)
  <2>1. /\ Put(h, "restoring", store) /\ UNCHANGED <<store, acked>> /\ pc[h] = "loading"
        /\ StoreIsLive
    BY <1>4 DEF LoadOk, Resumable, StoreIsLive
  <2>2. acked[h] = {}
    BY <1>0, <2>1, NoRecordIsEmpty DEF StopInv
  <2> QED BY <2>1, <2>2, PutStops
<1>5. CASE LoadExpired(h)
  <2>1. Put(h, "expiring", MarkExpired(store)) /\ UNCHANGED <<store, acked>> /\ pc[h] = "loading"
    BY <1>5 DEF LoadExpired
  <2>2. acked[h] = {}
    BY <1>0, <2>1, NoRecordIsEmpty DEF StopInv
  <2>3. MarkExpired(store).status = "expired"
    BY <1>0 DEF MarkExpired, Records
  <2> QED BY <2>1, <2>2, <2>3, PutStops
<1>6. CASE RestoreOk(h)
  <2> DEFINE rec == [record[h] EXCEPT !.status = "active"]
  <2>1. Put(h, "activating", rec) /\ UNCHANGED store /\ acked'[h] = record[h].receipts
    BY <1>6 DEF RestoreOk, Hydrate, TypeOK
  <2>2. rec.status = "active" /\ rec.done = record[h].done
    BY <1>0 DEF Records
  <2>3. StoreIsLive
    BY <1>6 DEF RestoreOk, StopInv
  <2> HIDE DEF rec
  <2> QED BY <1>0, <2>1, <2>2, <2>3, PutStops
<1>7. CASE SendOk(h)
  <2> DEFINE rec == [status |-> "active", done |-> record[h].done \cup {chunk[h]},
                     receipts |-> acked'[h]]
  <2>1. Put(h, "saving", rec) /\ UNCHANGED store /\ acked'[h] = acked[h] \cup {chunk[h]}
    BY <1>7 DEF SendOk, TypeOK
  <2>2. rec.status = "active" /\ rec.done = record[h].done \cup {chunk[h]}
    OBVIOUS
  <2>3. StoreIsLive
    BY <1>7 DEF SendOk, StopInv, Uploading
  <2> HIDE DEF rec
  <2> QED BY <1>0, <2>1, <2>2, <2>3, PutStops
<1>8. CASE CompleteOk(h)
  <2> DEFINE rec == [record[h] EXCEPT !.status = "completed"]
  <2>1. Put(h, "finishing", rec) /\ UNCHANGED <<store, acked>>
    BY <1>8 DEF CompleteOk
  <2>2. rec.status = "completed" /\ rec.done = record[h].done
    BY <1>0 DEF Records
  <2> HIDE DEF rec
  <2> QED BY <1>0, <2>1, <2>2, PutStops
<1>9. CASE LoadFail(h) \/ Delete(h) \/ Finish(h) \/ Marked(h) \/ MarkFail(h)
  <2>1. pc'[h] \in {"ended", "deleting"} /\ UNCHANGED <<acked, record>>
    BY <1>9 DEF LoadFail, Delete, Finish, Marked, MarkFail, End, Await, TypeOK, memory
  <2> QED BY <1>0, <2>1 DEF OneHandle, StopInv, Uploading
<1>10. CASE SendRetry(h) \/ Retry(h)
  <2>1. /\ UNCHANGED <<acked, record, store>>
        /\ pc[h] \in {"sending", "waiting"} /\ pc'[h] \in {"sending", "waiting"}
    BY <1>10 DEF SendRetry, Retry, Await, TypeOK, memory
  <2> QED BY <1>0, <2>1 DEF OneHandle, StopInv, StoreIsLive, Uploading
<1>11. CASE AbortDone(h)
  <2>1. /\ stop[h] = "cancel" /\ UNCHANGED <<acked, stop, store>>
        /\ Settle(h, "cancel", record[h], FALSE)
    BY <1>11 DEF AbortDone, StopInv
  <2>2. CASE Put(h, "settling", [record[h] EXCEPT !.status = StopOutcome("cancel")])
    <3>1. pc'[h] = "settling" /\ record'[h] = [record[h] EXCEPT !.status = StopOutcome("cancel")]
      BY <2>2 DEF Put, Await, TypeOK
    <3>2. record'[h].status = StopOutcome(stop'[h]) /\ record'[h].done = record[h].done
          /\ record'[h].status = "canceled"
      BY <1>0, <2>1, <3>1 DEF Records, StopOutcome
    <3> QED BY <1>0, <2>1, <3>1, <3>2 DEF OneHandle, StopInv, Uploading
  <2>3. CASE End(h, "cancel") /\ record' = [record EXCEPT ![h] = record[h]]
    <3>1. pc'[h] = "ended" /\ record'[h] = record[h]
      BY <2>3 DEF End, Await, TypeOK
    <3> QED BY <1>0, <2>1, <3>1 DEF OneHandle, StopInv, Uploading
  <2> QED BY <2>1, <2>2, <2>3 DEF Settle
<1> QED BY <1>1, <1>2, <1>3, <1>4, <1>5, <1>6, <1>7, <1>8, <1>9, <1>10, <1>11
        DEF Run, FailureAction

LEMMA OthersStop ==
    ASSUME OneHandle, TypeOK, StopInv, NEW h \in Handle, User(h) \/ Callee(h) \/ Crash(h)
    PROVE  StopInv'
<1>1. CASE Start(h) \/ Resume(h) \/ Crash(h)
  <2>1. pc'[h] \in {"creating", "loading", "crashed"} /\ record'[h] = NoRecord /\ acked'[h] = {}
    BY <1>1 DEF Start, Resume, Crash, Fresh, Await, TypeOK
  <2> QED BY <2>1 DEF OneHandle, StopInv, Uploading
<1>2. CASE Pause(h) \/ Cancel(h) \/ Abort(h)
  <2>1. UNCHANGED <<pc, acked, record, stop, store>>
    BY <1>2 DEF Pause, Cancel, Abort, Request, call, memory, ending
  <2> QED BY <2>1 DEF StopInv, StoreIsLive
<1>3. CASE Callee(h)
  <2>1. UNCHANGED <<pc, acked, record, stop>>
    BY <1>3 DEF Callee, ServeCreate, ServeUpload, ServeComplete, ServeAbort, ServePut, ServeDelete,
           Serve, memory, ending
  <2>2. CASE ServePut(h)
    <3>1. store' = record[h] /\ pc[h] \in PutStates
      BY <2>2 DEF ServePut, Serve
    <3> QED BY <2>1, <3>1 DEF OneHandle, StopInv, StoreIsLive, PutStates, Uploading
  <2>3. CASE ServeDelete(h)
    <3>1. store' = NoRecord
      BY <2>3 DEF ServeDelete
    <3> QED BY <2>1, <3>1, NoRecordIsEmpty DEF StopInv, StoreIsLive
  <2>4. CASE UNCHANGED store
    BY <2>1, <2>4 DEF StopInv, StoreIsLive
  <2> QED BY <1>3, <2>2, <2>3, <2>4 DEF Callee, ServeCreate, ServeUpload, ServeComplete, ServeAbort
<1> QED BY <1>1, <1>2, <1>3 DEF User

\* Only a record that is not over is marked as failed or written as active.
LEMMA StopInvariant ==
    ASSUME OneHandle
    PROVE  Spec => []StopInv
<1>1. TypeOK /\ UploadInv /\ RecordIsAhead /\ StopInv /\ [Next]_vars => StopInv'
  <2> SUFFICES ASSUME TypeOK, UploadInv, RecordIsAhead, StopInv, [Next]_vars PROVE StopInv'
    OBVIOUS
  <2>1. CASE UNCHANGED vars
    BY <2>1 DEF StopInv, StoreIsLive, vars, call, memory, ending
  <2>2. CASE Expire
    BY <2>2 DEF StopInv, StoreIsLive, Expire, call, memory, ending
  <2>3. CASE \E h \in Handle : User(h) \/ Callee(h) \/ Run(h) \/ Crash(h)
    BY <2>3, RunStops, OthersStop
  <2> QED BY <2>1, <2>2, <2>3 DEF Next
<1> QED BY <1>1, TypeCorrect, UploadInvariant, RecordStaysAhead, StopInit, PTL DEF Spec

\* A step that changes the durable record is a call of one handle that takes effect.
LEMMA StoreSteps ==
    ASSUME TypeOK, Next, store' # store
    PROVE  \E h \in Handle : (ServePut(h) /\ store' = record[h]) \/ store' = NoRecord
<1>1. ~Expire /\ ~(\E h \in Handle : User(h) \/ Run(h) \/ Crash(h))
  BY OthersStutter DEF Expire
<1>2. PICK h \in Handle : Callee(h)
  BY <1>1 DEF Next
<1> QED BY <1>2 DEF Callee, ServeCreate, ServeUpload, ServeComplete, ServeAbort, ServePut, ServeDelete

LEMMA TerminalStays ==
    ASSUME OneHandle, TypeOK, StopInv, [Next]_vars,
           store.status \in {"completed", "canceled", "expired"}
    PROVE  store'.status \notin {"active", "failed"}
<1>1. CASE store' = store
  BY <1>1
<1>2. CASE store' # store
  <2>1. PICK h \in Handle : (ServePut(h) /\ store' = record[h]) \/ store' = NoRecord
    BY <1>2, StoreSteps DEF vars
  <2>2. CASE store' = NoRecord
    BY <2>2, NoRecordIsEmpty
  <2>3. CASE ServePut(h) /\ store' = record[h]
    <3>1. pc[h] \in PutStates /\ ~StoreIsLive
      BY <2>3 DEF ServePut, Serve, StoreIsLive
    <3>2. pc[h] = "settling" => record[h].status \in {"failed", "paused", "canceled"}
      BY StopOutcomeType DEF StopInv
    <3> QED BY <2>3, <3>1, <3>2 DEF StopInv, PutStates, Uploading
  <2> QED BY <2>1, <2>2, <2>3
<1> QED BY <1>1, <1>2

\* A run that ends without its record says that it is paused only if it had none.
LEMMA FailPauses ==
    ASSUME TypeOK, StopInv, NEW h \in Handle, NEW rec, NEW conflict,
           Fail(h, rec, conflict), rec = record[h] \/ (rec = NoRecord /\ pc[h] = "loading"),
           snapshot'[h] = "paused", snapshot[h] # "paused"
    PROVE  record[h].status = "absent"
<1>1. End(h, want[h]) /\ Settle(h, want[h], rec, conflict)
  BY DEF Fail, Settle
<1>2. snapshot'[h] = StopOutcome(want[h])
  BY <1>1 DEF End, TypeOK
<1>3. want[h] = "pause"
  BY <1>2 DEF StopOutcome
<1>4. CASE rec.status = "absent"
  BY <1>4, NoRecordIsEmpty DEF StopInv
<1>5. CASE rec.status # "absent"
  <2>1. Put(h, "settling", [rec EXCEPT !.status = StopOutcome(want[h])])
    BY <1>1, <1>3, <1>5 DEF Settle, Stops
  <2>2. UNCHANGED snapshot
    BY <1>1, <1>3, <1>5 DEF Settle, Stops
  <2> QED BY <2>2
<1> QED BY <1>4, <1>5

\* The snapshot turns to paused when the record was marked, or there was none.
LEMMA PauseSteps ==
    ASSUME TypeOK, StopInv, Next, NEW h \in Handle, OneHandle,
           snapshot'[h] = "paused", snapshot[h] # "paused", record[h].status # "absent"
    PROVE  Marked(h)
<1>0. PICK g \in Handle : Run(g) \/ User(g) \/ Callee(g) \/ Crash(g) \/ Expire
  BY DEF Next
<1>1. g = h
  BY DEF OneHandle
<1>2. ~(User(h) \/ Callee(h) \/ Crash(h) \/ Expire)
  BY DEF User, Start, Resume, Crash, Fresh, Pause, Cancel, Abort, Request, Callee, ServeCreate,
         ServeUpload, ServeComplete, ServeAbort, ServePut, ServeDelete, Serve, Expire, ending, TypeOK
<1>3. Run(h)
  BY <1>0, <1>1, <1>2
<1>4. ~FailureAction(h)
  <2> SUFFICES ASSUME FailureAction(h) PROVE FALSE
    OBVIOUS
  <2>1. CASE LoadRefused(h)
    <3>1. Fail(h, NoRecord, TRUE) /\ pc[h] = "loading"
      BY <2>1 DEF LoadRefused
    <3> QED BY <3>1, FailPauses
  <2>2. CASE ~LoadRefused(h)
    <3>1. Fail(h, record[h], TRUE) \/ Fail(h, record[h], FALSE)
      BY <2>2 DEF FailureAction, CreateFail, ExpireDone, RestoreFail, SaveFail, SendFail,
            Interrupt, CompleteFail
    <3> QED BY <3>1, FailPauses
  <2> QED BY <2>1, <2>2
<1>5. ~Saved(h)
  <2> SUFFICES ASSUME Saved(h) PROVE FALSE
    OBVIOUS
  <2>1. Fail(h, record[h], FALSE)
    BY DEF Saved, Proceed, ending
  <2> QED BY <2>1, FailPauses
<1>6. ~AbortDone(h)
  <2> SUFFICES ASSUME AbortDone(h) PROVE FALSE
    OBVIOUS
  <2>1. Settle(h, "cancel", record[h], FALSE)
    BY DEF AbortDone, StopInv
  <2>2. End(h, "cancel")
    BY <2>1 DEF Settle
  <2> QED BY <2>2 DEF End, StopOutcome, TypeOK
<1>7. ~(\/ CreateOk(h) \/ LoadOk(h) \/ LoadExpired(h) \/ LoadFail(h) \/ RestoreOk(h) \/ SendOk(h)
        \/ SendRetry(h) \/ Retry(h) \/ CompleteOk(h) \/ Delete(h) \/ Finish(h) \/ MarkFail(h))
  BY DEF CreateOk, LoadOk, LoadExpired, LoadFail, RestoreOk, SendOk, SendRetry, Retry, CompleteOk,
         Delete, Finish, MarkFail, ending, TypeOK
<1> QED BY <1>3, <1>4, <1>5, <1>6, <1>7 DEF Run, FailureAction

LEMMA PauseIsKept ==
    ASSUME OneHandle, TypeOK, RecordIsAhead, StopInv, [Next]_vars, NEW h \in Handle,
           snapshot'[h] = "paused", snapshot[h] # "paused", record[h].status # "absent"
    PROVE  store.status = "paused" /\ acked[h] \subseteq store.done
<1>1. Marked(h)
  BY PauseSteps DEF vars, ending
<1>2. pc[h] = "settling" /\ served[h] /\ End(h, stop[h])
  BY <1>1 DEF Marked
<1>3. snapshot'[h] = StopOutcome(stop[h]) /\ store = record[h]
  BY <1>2 DEF End, TypeOK, RecordIsAhead, PutStates
<1> QED BY <1>2, <1>3 DEF StopInv

\* Only the loop and a retry send a chunk, and only the loop completes: both look
\* at the stop first.
LEMMA StopsAreSeen ==
    ASSUME TypeOK, [Next]_vars, NEW h \in Handle, Stopped(h), pc'[h] \in {"sending", "completing"}
    PROVE  pc[h] = pc'[h]
<1>1. CASE UNCHANGED pc
  BY <1>1
<1>2. CASE ~UNCHANGED pc
  <2>1. PICK g \in Handle : Start(g) \/ Resume(g) \/ Crash(g) \/ Run(g)
    <3>1. Next /\ ~Expire
      BY <1>2 DEF vars, call, Expire
    <3>2. PICK g \in Handle : User(g) \/ Callee(g) \/ Run(g) \/ Crash(g)
      BY <3>1 DEF Next
    <3> QED BY <1>2, <3>2 DEF User, Pause, Cancel, Abort, Request, call, Callee, ServeCreate,
              ServeUpload, ServeComplete, ServeAbort, ServePut, ServeDelete, Serve
  <2>2. CASE Start(g) \/ Resume(g) \/ Crash(g)
    BY <2>2 DEF Start, Resume, Crash, Fresh, Await, TypeOK
  <2>3. CASE FailureAction(g) \/ AbortDone(g)
    <3>1. record[g] \in Records /\ NoRecord \in Records
      BY DEF TypeOK, Records, NoRecord
    <3>2. \E rec \in {record[g], NoRecord} : Ending(g, rec)
      BY <2>3, <3>1, FailureEnds, SettleEnds DEF AbortDone
    <3> QED BY <3>2 DEF Ending, TypeOK
  <2>4. CASE Saved(g)
    <3>1. CASE Fail(g, record[g], FALSE)
      <4>1. Ending(g, record[g])
        BY <3>1, FailEnds DEF TypeOK
      <4> QED BY <4>1 DEF Ending, TypeOK
    <3>2. CASE ~Stopped(g) /\ (Await(g, "sending") \/ Await(g, "completing"))
      BY <3>2 DEF Await, TypeOK
    <3> QED BY <2>4, <3>1, <3>2 DEF Saved, Proceed
  <2>5. CASE Retry(g)
    BY <2>5 DEF Retry, Await, TypeOK
  <2>6. CASE \/ CreateOk(g) \/ LoadOk(g) \/ LoadExpired(g) \/ LoadFail(g) \/ RestoreOk(g) \/ SendOk(g)
             \/ SendRetry(g) \/ CompleteOk(g) \/ Delete(g) \/ Finish(g) \/ Marked(g) \/ MarkFail(g)
    BY <2>6 DEF CreateOk, LoadOk, LoadExpired, LoadFail, RestoreOk, SendOk, SendRetry, CompleteOk,
          Delete, Finish, Marked, MarkFail, End, Put, Await, TypeOK
  <2> QED BY <2>1, <2>2, <2>3, <2>4, <2>5, <2>6 DEF Run, FailureAction
<1> QED BY <1>1, <1>2

\* What was asked of an upload is kept: a stop starts nothing more, a pause that
\* is reported can be resumed by another process without loss, and a record that
\* was given up is not taken up again (session.ts:107-124, 486-506, 1069-1132).
THEOREM StopsAreKept ==
    ASSUME OneHandle
    PROVE  Spec => StopsHold
<1>1. TypeOK /\ StopInv /\ [Next]_vars =>
        [store.status \in {"completed", "canceled", "expired"}
           => store'.status \notin {"active", "failed"}]_vars
  BY TerminalStays
<1>2. TypeOK /\ RecordIsAhead /\ StopInv /\ [Next]_vars =>
        [\A h \in Handle :
           snapshot'[h] = "paused" /\ snapshot[h] # "paused" /\ record[h].status # "absent"
           => store.status = "paused" /\ acked[h] \subseteq store.done]_vars
  BY PauseIsKept
<1>3. TypeOK /\ [Next]_vars =>
        [\A h \in Handle :
           Stopped(h) /\ pc'[h] \in {"sending", "completing"} => pc[h] = pc'[h]]_vars
  BY StopsAreSeen
<1>4. Spec => TerminalRecordStays
  BY <1>1, TypeCorrect, StopInvariant, PTL DEF Spec, TerminalRecordStays
<1>5. Spec => PauseIsDurable
  BY <1>2, TypeCorrect, RecordStaysAhead, StopInvariant, PTL DEF Spec, PauseIsDurable
<1>6. Spec => StopIsHonored
  BY <1>3, TypeCorrect, PTL DEF Spec, StopIsHonored
<1> QED BY <1>4, <1>5, <1>6 DEF StopsHold
=============================================================================
