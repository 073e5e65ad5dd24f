------------------------- MODULE VerifiedIngestProofs -------------------------
(***************************************************************************)
(* Proofs about VerifiedIngest, for any number of deaths and any options.  *)
(*                                                                         *)
(* The parts of an invariant that speak of the workflow object take it as  *)
(* a parameter m: a handler builds the next object from this one, and what *)
(* it builds is judged against the world before the step is taken.         *)
(***************************************************************************)
EXTENDS VerifiedIngest, TLAPS

\* What an archive decides for good.
Decided == {"preserved", "failed"}

\* Where a run can be, and the states of a resume record.
Places == RunStates \cup {"idle", "dead"}
Records == {"none", "open", "completed", "canceled", "deleted"}

\* What the workflow object takes for done was done.
MemoryIsBacked(m) ==
    /\ m.bundle # 0 => dossiers[m.evidence] # "none"
    /\ m.bundle = 2 => dossiers[m.evidence] \in Decided
    /\ m.outcome \in Decided => archive[m.operation] = m.outcome
    /\ m.closing # 0 => m.evidence # 0 /\ archive[m.operation] \in Decided
    /\ m.closing # 0 /\ closed[m.evidence] = m.closing =>
          dossiers[m.evidence] = archive[m.operation]

\* So was what the checkpoint names, and it is what the object goes on with.
RestartIsBacked(m) ==
    /\ cp.outcome \in Decided => archive[cp.operation] = cp.outcome
    /\ cp.closing # 0 => cp.evidence # 0 /\ archive[cp.operation] \in Decided
    /\ cp.closing # 0 /\ closed[cp.evidence] = cp.closing =>
          dossiers[cp.evidence] = archive[cp.operation]
    /\ cp.closing # 0 /\ m.closing = cp.closing => m.operation = cp.operation
    /\ cp.status = "evidence_finalization_failed" => cp.outcome \in Decided

\* An identifier is of the process that made it, and 0 names nothing.
IdsAreFresh(m) ==
    /\ \A e \in Ids : closed[e] <= restarts + 1
    /\ \A e \in Ids : closed[e] = restarts + 1 => m.closing = restarts + 1
    /\ m.closing <= restarts + 1 /\ cp.closing <= restarts + 1
    /\ cp.closing = restarts + 1 => m.closing = restarts + 1
    /\ dossiers[0] = "none" /\ closed[0] = 0 /\ archive[0] = "none"

\* A workflow object that is not ahead of the world.
Sound(m) ==
    m \in Memories /\ MemoryIsBacked(m) /\ RestartIsBacked(m) /\ IdsAreFresh(m)

\* What the run has behind it where it waits, at place p in state s.
StageIsReached(m, p, s) ==
    /\ p \in {"dead", "loading"} => m = NoMemory /\ s \in {"preparing", "canceled"}
    /\ p = "fetching" =>
          /\ cp.revision # 0 /\ s \in {"preparing", "canceled"}
          /\ m.evidence = cp.evidence /\ m.operation = cp.operation
          /\ m.closing = cp.closing /\ ~m.canceling
    /\ p \in {"persisting", "reconcilingEvidence"} => m.evidence # 0
    /\ p \in {"putEvidence", "handing", "reconcilingHandoff", "finalizing", "reconcilingFinal",
               "putPreserved"} => m.bundle # 0
    /\ p \in {"handing", "reconcilingHandoff"} =>
          m.operation # 0 /\ s # "evidence_finalization_failed"
    /\ p \in {"finalizing", "reconcilingFinal"} => m.outcome \in Decided /\ m.closing # 0
    /\ p = "putPreserved" =>
          /\ m.bundle = 2 /\ m.outcome = "preserved"
          /\ dossiers[m.evidence] = "preserved"

\* What the state says was earned.
StatusIsEarned(m, s) ==
    /\ s \in {"evidence_persisted", "preserving", "finalizing_evidence", "preserved",
              "preservation_failed", "evidence_finalization_failed"} => m.bundle # 0
    /\ s = "evidence_finalization_failed" => m.outcome \in Decided
    /\ s = "preserved" =>
          dossiers[m.evidence] = "preserved" /\ archive[m.operation] = "preserved"

\* So was what a checkpoint says while it is being put at place p.
OfferIsEarned(m, p, o) ==
    /\ o.status = "evidence_finalization_failed" => m.outcome \in Decided
    /\ o.status = "preserved" => p = "putPreserved"
    /\ o.authority = "preserved" => o.status = "preserved"

\* What the callee has done when its answer is on its way.
AnswerIsTrue ==
    /\ pc = "persisting" /\ answer = "stored" => dossiers[mem.evidence] # "none"
    /\ pc = "handing" /\ answer \in Decided => archive[mem.operation] = answer
    /\ pc = "finalizing" /\ answer = "stored" => closed[mem.evidence] = mem.closing

\* The inductive invariant behind WordsAreBacked.
WordsInv ==
    /\ WordsAreBacked
    /\ Sound(mem)
    /\ StageIsReached(mem, pc, status) /\ StatusIsEarned(mem, status)
    /\ OfferIsEarned(mem, pc, offer) /\ AnswerIsTrue

------------------------------------------------------------------------------
(***************************************************************************)
(* The steps that handlers share.                                          *)
(***************************************************************************)

\* What a handler leaves alone that neither puts a checkpoint nor has an effect.
Elsewhere ==
    /\ UNCHANGED <<options, cp, sink, archive, restarts>>
    /\ rec' \in Records /\ remote' \in BOOLEAN

LEMMA ElsewhereInRun ==
  ASSUME WordsInv, UNCHANGED <<options, cp, world, restarts>>
  PROVE  Elsewhere
BY DEF Elsewhere, world, sink, WordsInv, WordsAreBacked, TypeOK, Records

\* A transition without a checkpoint keeps the invariant when the new object is
\* sound and the new place and state are earned.
LEMMA MoveKeeps ==
  ASSUME WordsInv, Elsewhere, NEW s \in Status, NEW f \in BOOLEAN, NEW p \in Places,
         Move(s, f, p), Sound(mem'), StageIsReached(mem', p, s), StatusIsEarned(mem', s)
  PROVE  WordsInv'
<1>1. /\ status' = s /\ final' = f /\ pc' = p /\ answer' = "none"
      /\ offer' = NoOffer
  BY DEF Move
<1>2. UNCHANGED <<options, cp, dossiers, closed, archive, restarts>>
  BY DEF Elsewhere, sink
<1>3. offer'.status = "absent" /\ offer'.authority = "none"
  BY <1>1 DEF NoOffer
<1>4. offer' \in [status : Status \cup {"absent"}, authority : Authority \cup {"none"}]
  BY <1>1 DEF NoOffer
<1>5. TypeOK'
  BY <1>1, <1>2, <1>4
     DEF WordsInv, WordsAreBacked, TypeOK, Elsewhere, Sound, Places, Records, Outcome
<1>6. EvidenceIsBacked' /\ CheckpointIsBacked' /\ DossierTellsOutcome'
  BY <1>1, <1>2
     DEF WordsInv, WordsAreBacked, EvidenceIsBacked, CheckpointIsBacked,
         DossierTellsOutcome, Sound, MemoryIsBacked, StatusIsEarned
<1>7. Sound(mem)'
  BY <1>2 DEF Sound, MemoryIsBacked, RestartIsBacked, IdsAreFresh
<1>8. StageIsReached(mem, pc, status)' /\ StatusIsEarned(mem, status)'
  BY <1>1, <1>2 DEF StageIsReached, StatusIsEarned
<1>9. OfferIsEarned(mem, pc, offer)' /\ AnswerIsTrue'
  BY <1>1, <1>3 DEF OfferIsEarned, AnswerIsTrue, Decided
<1> QED BY <1>5, <1>6, <1>7, <1>8, <1>9 DEF WordsInv, WordsAreBacked

\* The same for a transition whose checkpoint is being put.
LEMMA SaveKeeps ==
  ASSUME WordsInv, Elsewhere, NEW s \in Status, NEW f \in BOOLEAN, NEW p \in Places,
         NEW a \in Authority, Save(s, f, a, p), Sound(mem'),
         StageIsReached(mem', p, s), StatusIsEarned(mem', s),
         s = "preserved" => p = "putPreserved", a = "preserved" => s = "preserved"
  PROVE  WordsInv'
<1>1. /\ status' = s /\ final' = f /\ pc' = p /\ answer' = "none"
      /\ offer' = [status |-> s, authority |-> a]
  BY DEF Save
<1>2. UNCHANGED <<options, cp, dossiers, closed, archive, restarts>>
  BY DEF Elsewhere, sink
<1>3. offer'.status = s /\ offer'.authority = a
  BY <1>1
<1>4. offer' \in [status : Status \cup {"absent"}, authority : Authority \cup {"none"}]
  BY <1>1
<1>5. TypeOK'
  BY <1>1, <1>2, <1>4
     DEF WordsInv, WordsAreBacked, TypeOK, Elsewhere, Sound, Places, Records, Outcome
<1>6. EvidenceIsBacked' /\ CheckpointIsBacked' /\ DossierTellsOutcome'
  BY <1>1, <1>2
     DEF WordsInv, WordsAreBacked, EvidenceIsBacked, CheckpointIsBacked,
         DossierTellsOutcome, Sound, MemoryIsBacked, StatusIsEarned
<1>7. Sound(mem)'
  BY <1>2 DEF Sound, MemoryIsBacked, RestartIsBacked, IdsAreFresh
<1>8. StageIsReached(mem, pc, status)' /\ StatusIsEarned(mem, status)'
  BY <1>1, <1>2 DEF StageIsReached, StatusIsEarned
<1>9. OfferIsEarned(mem, pc, offer)' /\ AnswerIsTrue'
  BY <1>1, <1>3 DEF OfferIsEarned, AnswerIsTrue, StatusIsEarned, Decided
<1> QED BY <1>5, <1>6, <1>7, <1>8, <1>9 DEF WordsInv, WordsAreBacked

\* fail(): the object is sound, and what the failure follows was done.
LEMMA FailKeeps ==
  ASSUME WordsInv, Elsewhere, NEW s \in DOMAIN LastAuthority, NEW f \in BOOLEAN,
         Fail(s, f), Sound(mem'), StatusIsEarned(mem', s)
  PROVE  WordsInv'
<1>1. PICK a \in Authority \ {"preserved"} : Save(s, f, a, "putFailed")
  BY DEF Fail, LastAuthority, Authority
<1>2. s \in Status \ {"preserved"} /\ "putFailed" \in Places
  BY DEF LastAuthority, Status, Failures, Places, RunStates, PutStates
<1>3. StageIsReached(mem', "putFailed", s)
  BY DEF StageIsReached
<1> QED BY <1>1, <1>2, <1>3, SaveKeeps

LEMMA SoundNow == WordsInv => Sound(mem)
BY DEF WordsInv

\* A failure that leaves the object alone.
LEMMA FailsHere ==
  ASSUME WordsInv, UNCHANGED <<options, mem, cp, world, restarts>>,
         NEW s \in DOMAIN LastAuthority, NEW f \in BOOLEAN, Fail(s, f),
         StatusIsEarned(mem, s)
  PROVE  WordsInv'
<1>1. Elsewhere /\ mem' = mem
  BY ElsewhereInRun
<1>2. Sound(mem') /\ StatusIsEarned(mem', s)
  BY <1>1, SoundNow DEF Sound, MemoryIsBacked, RestartIsBacked, IdsAreFresh, StatusIsEarned
<1> QED BY <1>1, <1>2, FailKeeps

\* A failure that no evidence precedes.
LEMMA FailsEarly ==
  ASSUME WordsInv, UNCHANGED <<options, mem, cp, world, restarts>>, NEW f \in BOOLEAN,
         NEW s \in {"upload_failed", "verification_failed", "evidence_persistence_failed"},
         Fail(s, f)
  PROVE  WordsInv'
<1>1. s \in DOMAIN LastAuthority /\ StatusIsEarned(mem, s)
  BY DEF LastAuthority, StatusIsEarned
<1> QED BY <1>1, FailsHere

LEMMA ReconciliationKeeps ==
  ASSUME WordsInv, UNCHANGED <<options, mem, cp, world, restarts>>,
         NEW a \in Authority \ {"preserved"}, ReconciliationRequired(a)
  PROVE  WordsInv'
<1>1. Elsewhere /\ mem' = mem
  BY ElsewhereInRun
<1>2. Sound(mem') /\ StatusIsEarned(mem', "reconciliation_required")
  BY <1>1, SoundNow DEF Sound, MemoryIsBacked, RestartIsBacked, IdsAreFresh, StatusIsEarned
<1>3. StageIsReached(mem', "putReconcile", "reconciliation_required")
  BY DEF StageIsReached
<1>4. "reconciliation_required" \in Status /\ "putReconcile" \in Places
  BY DEF Status, Places, RunStates, PutStates
<1> QED BY <1>1, <1>2, <1>3, <1>4, SaveKeeps DEF ReconciliationRequired

\* The workflow is given up, by a failure without a checkpoint or by a stop.
LEMMA GiveUpKeeps ==
  ASSUME WordsInv, Elsewhere, mem' = mem, NEW f \in BOOLEAN,
         NEW s \in {"preparation_failed", "upload_failed", "reconciliation_required",
                    "canceled"},
         Move(s, f, "idle")
  PROVE  WordsInv'
<1>1. Sound(mem') /\ StatusIsEarned(mem', s) /\ StageIsReached(mem', "idle", s)
  BY SoundNow
     DEF Sound, MemoryIsBacked, RestartIsBacked, IdsAreFresh, StatusIsEarned, StageIsReached
<1>2. s \in Status /\ "idle" \in Places
  BY DEF Status, Failures, Places
<1> QED BY <1>1, <1>2, MoveKeeps

\* The five fields that the invariant speaks of.
SameWords(m, n) ==
    /\ m.evidence = n.evidence /\ m.bundle = n.bundle /\ m.operation = n.operation
    /\ m.closing = n.closing /\ m.outcome = n.outcome

LEMMA SameWordsAreSound ==
  ASSUME NEW m, NEW n, Sound(m), n \in Memories, SameWords(m, n)
  PROVE  Sound(n)
BY DEF Sound, SameWords, MemoryIsBacked, RestartIsBacked, IdsAreFresh

\* The run goes on, or ends, where nothing is needed that it has not got.
LEMMA SettleKeeps ==
  ASSUME WordsInv, Elsewhere, mem' \in Memories, SameWords(mem, mem'),
         NEW p \in Places \ {"dead", "loading", "fetching"}, Settle(p),
         StageIsReached(mem, p, status)
  PROVE  WordsInv'
<1>1. Sound(mem) /\ UNCHANGED <<cp, dossiers, closed, archive, restarts>>
  BY SoundNow DEF Elsewhere, sink
<1>2. Sound(mem')
  BY <1>1, SameWordsAreSound
<1>3. StatusIsEarned(mem', status) /\ StageIsReached(mem', p, status)
  BY DEF WordsInv, SameWords, StatusIsEarned, StageIsReached
<1>4. status \in Status /\ final \in BOOLEAN
  BY DEF WordsInv, WordsAreBacked, TypeOK
<1> QED BY <1>2, <1>3, <1>4, MoveKeeps DEF Settle

\* Where a run can wait with nothing behind it.
Waits == {"idle", "cleaning", "preparing", "uploading", "reconcilingVerifier"}

LEMMA SettleAnywhere ==
  ASSUME WordsInv, Elsewhere, mem' \in Memories, SameWords(mem, mem'),
         NEW p \in Waits, Settle(p)
  PROVE  WordsInv'
<1>1. p \in Places \ {"dead", "loading", "fetching"} /\ StageIsReached(mem, p, status)
  BY DEF Waits, Places, RunStates, ReconcileStates, StageIsReached
<1> QED BY <1>1, SettleKeeps

LEMMA MemoryKept ==
  ASSUME WordsInv, mem' = mem PROVE mem' \in Memories /\ SameWords(mem, mem')
BY DEF WordsInv, Sound, SameWords

LEMMA AckedKeeps ==
  ASSUME WordsInv PROVE Acked \in Memories /\ SameWords(mem, Acked) /\ Sound(Acked)
<1>1. Acked \in Memories /\ SameWords(mem, Acked)
  BY DEF WordsInv, Sound, Acked, Memories, SameWords
<1> QED BY <1>1, SoundNow, SameWordsAreSound

------------------------------------------------------------------------------
(***************************************************************************)
(* The heads of the stages, and the identifiers they make.                 *)
(***************************************************************************)

LEMMA OwnIdIsOwn ==
  ASSUME TypeOK, NEW i \in Ids
  PROVE  /\ OwnId(i) \in Ids \ {0}
         /\ i # 0 => OwnId(i) = i
         /\ i = 0 => OwnId(i) = restarts + 1
BY WorkflowAssumption DEF TypeOK, OwnId, FreshId, Ids

LEMMA EvidenceIsSound ==
  ASSUME TypeOK, NEW m, Sound(m)
  PROVE  Sound([m EXCEPT !.evidence = OwnId(@)])
<1> DEFINE n == [m EXCEPT !.evidence = OwnId(@)]
<1>1. m.evidence \in Ids /\ n \in Memories /\ n.evidence = OwnId(m.evidence)
  BY OwnIdIsOwn DEF Sound, Memories
<1>2. /\ n.bundle = m.bundle /\ n.operation = m.operation
      /\ n.closing = m.closing /\ n.outcome = m.outcome
  BY DEF Sound, Memories
<1> HIDE DEF n
<1>3. MemoryIsBacked(n) /\ RestartIsBacked(n) /\ IdsAreFresh(n)
  BY <1>1, <1>2, OwnIdIsOwn
     DEF Sound, MemoryIsBacked, RestartIsBacked, IdsAreFresh, Decided
<1> QED BY <1>1, <1>3 DEF Sound, n

LEMMA OperationIsSound ==
  ASSUME TypeOK, NEW m, Sound(m)
  PROVE  Sound([m EXCEPT !.operation = OwnId(@)])
<1> DEFINE n == [m EXCEPT !.operation = OwnId(@)]
<1>1. m.operation \in Ids /\ n \in Memories /\ n.operation = OwnId(m.operation)
  BY OwnIdIsOwn DEF Sound, Memories
<1>2. /\ n.bundle = m.bundle /\ n.evidence = m.evidence
      /\ n.closing = m.closing /\ n.outcome = m.outcome
  BY DEF Sound, Memories
<1> HIDE DEF n
<1>3. MemoryIsBacked(n) /\ RestartIsBacked(n) /\ IdsAreFresh(n)
  BY <1>1, <1>2, OwnIdIsOwn
     DEF Sound, MemoryIsBacked, RestartIsBacked, IdsAreFresh, Decided
<1> QED BY <1>1, <1>3 DEF Sound, n

\* A finalization is identified once its evidence is and the archive has decided.
LEMMA ClosingIsSound ==
  ASSUME TypeOK, NEW m, Sound(m), m.evidence # 0, archive[m.operation] \in Decided
  PROVE  Sound([m EXCEPT !.pending = @ \/ m.bundle = 1, !.closing = OwnId(@)])
<1> DEFINE n == [m EXCEPT !.pending = @ \/ m.bundle = 1, !.closing = OwnId(@)]
<1>1. /\ m.closing \in Ids /\ m.evidence \in Ids
      /\ n \in Memories /\ n.closing = OwnId(m.closing)
  BY OwnIdIsOwn DEF Sound, Memories
<1>.  restarts \in Nat
  BY WorkflowAssumption DEF TypeOK
<1>2. /\ n.bundle = m.bundle /\ n.evidence = m.evidence
      /\ n.operation = m.operation /\ n.outcome = m.outcome
  BY DEF Sound, Memories
<1> HIDE DEF n
<1>3. MemoryIsBacked(n) /\ RestartIsBacked(n) /\ IdsAreFresh(n)
  BY <1>1, <1>2, OwnIdIsOwn
     DEF Sound, MemoryIsBacked, RestartIsBacked, IdsAreFresh, Decided
<1> QED BY <1>1, <1>3 DEF Sound, n

LEMMA RunUploadKeeps ==
  ASSUME WordsInv, Elsewhere, NEW m, Sound(m), RunUpload(m)
  PROVE  WordsInv'
<1>1. mem' = m /\ Save("uploading", FALSE, "prepared", "putUploading")
  BY DEF RunUpload
<1>2. StageIsReached(m, "putUploading", "uploading") /\ StatusIsEarned(m, "uploading")
  BY DEF StageIsReached, StatusIsEarned
<1>3. "uploading" \in Status /\ "putUploading" \in Places /\ "prepared" \in Authority
  BY DEF Status, Places, RunStates, PutStates, Authority
<1> QED BY <1>1, <1>2, <1>3, SaveKeeps

LEMMA RunVerificationKeeps ==
  ASSUME WordsInv, Elsewhere, NEW m, Sound(m), RunVerification(m)
  PROVE  WordsInv'
<1>1. mem' = m /\ Move("verifying", FALSE, "verifying")
  BY DEF RunVerification
<1>2. StageIsReached(m, "verifying", "verifying") /\ StatusIsEarned(m, "verifying")
  BY DEF StageIsReached, StatusIsEarned
<1>3. "verifying" \in Status /\ "verifying" \in Places
  BY DEF Status, Places, RunStates, EffectStates
<1> QED BY <1>1, <1>2, <1>3, MoveKeeps

LEMMA RunEvidenceKeeps ==
  ASSUME WordsInv, Elsewhere, NEW m, Sound(m), RunEvidence(m)
  PROVE  WordsInv'
<1> DEFINE n == [m EXCEPT !.evidence = OwnId(@)]
<1>1. mem' = n /\ Move("persisting_evidence", FALSE, "persisting")
  BY DEF RunEvidence
<1>2. TypeOK
  BY DEF WordsInv, WordsAreBacked
<1>3. Sound(n) /\ n.evidence # 0
  BY <1>2, EvidenceIsSound, OwnIdIsOwn DEF Sound, Memories
<1> HIDE DEF n
<1>4. /\ StageIsReached(n, "persisting", "persisting_evidence")
      /\ StatusIsEarned(n, "persisting_evidence")
  BY <1>3 DEF StageIsReached, StatusIsEarned
<1>5. "persisting_evidence" \in Status /\ "persisting" \in Places
  BY DEF Status, Places, RunStates, EffectStates
<1> QED BY <1>1, <1>3, <1>4, <1>5, MoveKeeps

LEMMA RunPreservationKeeps ==
  ASSUME WordsInv, Elsewhere, NEW m, Sound(m), m.bundle # 0, RunPreservation(m)
  PROVE  WordsInv'
<1> DEFINE n == [m EXCEPT !.operation = OwnId(@)]
<1>1. mem' = n /\ Move("preserving", FALSE, "handing")
  BY DEF RunPreservation
<1>2. TypeOK
  BY DEF WordsInv, WordsAreBacked
<1>3. Sound(n) /\ n.operation # 0 /\ n.bundle # 0
  BY <1>2, OperationIsSound, OwnIdIsOwn DEF Sound, Memories
<1> HIDE DEF n
<1>4. StageIsReached(n, "handing", "preserving") /\ StatusIsEarned(n, "preserving")
  BY <1>3 DEF StageIsReached, StatusIsEarned
<1>5. "preserving" \in Status /\ "handing" \in Places
  BY DEF Status, Places, RunStates, EffectStates
<1> QED BY <1>1, <1>3, <1>4, <1>5, MoveKeeps

LEMMA FinalizeKeeps ==
  ASSUME WordsInv, Elsewhere, NEW m, Sound(m), m.bundle # 0, m.outcome \in Decided,
         Finalize(m)
  PROVE  WordsInv'
<1> DEFINE n == [m EXCEPT !.pending = @ \/ m.bundle = 1, !.closing = OwnId(@)]
<1>1. mem' = n /\ Move("finalizing_evidence", FALSE, "finalizing")
  BY DEF Finalize
<1>2. TypeOK
  BY DEF WordsInv, WordsAreBacked
<1>3. m.evidence # 0 /\ archive[m.operation] \in Decided
  BY DEF Sound, MemoryIsBacked, IdsAreFresh
<1>4. Sound(n)
  BY <1>2, <1>3, ClosingIsSound
<1>5. n.closing # 0 /\ n.bundle # 0 /\ n.outcome \in Decided
  BY <1>2, OwnIdIsOwn DEF Sound, Memories
<1> HIDE DEF n
<1>6. /\ StageIsReached(n, "finalizing", "finalizing_evidence")
      /\ StatusIsEarned(n, "finalizing_evidence")
  BY <1>5 DEF StageIsReached, StatusIsEarned
<1>7. "finalizing_evidence" \in Status /\ "finalizing" \in Places
  BY DEF Status, Places, RunStates, EffectStates
<1> QED BY <1>1, <1>4, <1>6, <1>7, MoveKeeps

------------------------------------------------------------------------------
(***************************************************************************)
(* The application and its process.                                        *)
(***************************************************************************)

LEMMA NoMemoryIsTyped == NoMemory \in Memories
BY WorkflowAssumption DEF NoMemory, Memories, Ids, Outcome, Stops

\* A new object in a new process knows nothing, and its identifiers are new.
LEMMA CrashKeeps == ASSUME WordsInv, Crash PROVE WordsInv'
<1>1. /\ restarts' = restarts + 1 /\ restarts' \in 0 .. MaxRestarts
      /\ restarts \in Nat /\ restarts + 1 \in Nat
  BY WorkflowAssumption DEF Crash, WordsInv, WordsAreBacked, TypeOK
<1>2. /\ status' = "preparing" /\ final' = FALSE /\ pc' = "dead" /\ answer' = "none"
      /\ offer' = NoOffer /\ mem' = NoMemory
      /\ UNCHANGED <<options, cp, rec, remote, dossiers, closed, archive>>
  BY DEF Crash, Move, world, sink
<1>3. NoMemory \in Memories
  BY NoMemoryIsTyped
<1>4. offer' \in [status : Status \cup {"absent"}, authority : Authority \cup {"none"}]
  BY <1>2 DEF NoOffer
<1>5. TypeOK'
  BY <1>1, <1>2, <1>3, <1>4 DEF WordsInv, WordsAreBacked, TypeOK, Outcome, Status
<1>6. /\ NoMemory.bundle = 0 /\ NoMemory.closing = 0 /\ NoMemory.outcome = "none"
      /\ NoOffer.status = "absent" /\ NoOffer.authority = "none"
  BY DEF NoMemory, NoOffer
<1>7. EvidenceIsBacked' /\ CheckpointIsBacked' /\ DossierTellsOutcome'
  BY <1>2 DEF WordsInv, WordsAreBacked, EvidenceIsBacked, CheckpointIsBacked,
              DossierTellsOutcome
<1>8. MemoryIsBacked(mem)' /\ RestartIsBacked(mem)'
  BY <1>2, <1>6 DEF WordsInv, Sound, MemoryIsBacked, RestartIsBacked, Decided
<1>9. IdsAreFresh(mem)'
  <2>1. \A e \in Ids : closed[e] \in Nat /\ closed[e] <= restarts + 1
    BY WorkflowAssumption
       DEF WordsInv, WordsAreBacked, TypeOK, Sound, IdsAreFresh, Ids
  <2>2. cp.closing \in Nat /\ cp.closing <= restarts + 1
    BY WorkflowAssumption
       DEF WordsInv, WordsAreBacked, TypeOK, Checkpoints, Sound, IdsAreFresh, Ids
  <2>3. dossiers[0] = "none" /\ closed[0] = 0 /\ archive[0] = "none"
    BY DEF WordsInv, Sound, IdsAreFresh
  <2> QED BY <1>1, <1>2, <1>6, <2>1, <2>2, <2>3 DEF IdsAreFresh
<1>10. StageIsReached(mem, pc, status)' /\ StatusIsEarned(mem, status)'
  BY <1>2 DEF StageIsReached, StatusIsEarned
<1>11. OfferIsEarned(mem, pc, offer)' /\ AnswerIsTrue'
  BY <1>2, <1>6 DEF OfferIsEarned, AnswerIsTrue
<1> QED BY <1>2, <1>3, <1>5, <1>7, <1>8, <1>9, <1>10, <1>11
        DEF WordsInv, WordsAreBacked, Sound

\* What the application says to a run changes the state to a word that claims
\* nothing, or a field that the invariant does not speak of.
LEMMA CallKeeps ==
  ASSUME WordsInv, UNCHANGED <<options, pc, answer, offer, cp, world, restarts>>,
         mem' \in Memories, SameWords(mem, mem'), final' \in BOOLEAN,
         status' \in {status, "canceled", "stopped"},
         pc = "dead" => UNCHANGED <<mem, status>>,
         pc \in {"loading", "fetching"} => mem' = mem /\ status' # "stopped"
  PROVE  WordsInv'
<1>1. Sound(mem') /\ UNCHANGED <<cp, rec, remote, dossiers, closed, archive, restarts>>
  BY SoundNow, SameWordsAreSound DEF world, sink
<1>2. Sound(mem)'
  BY <1>1 DEF Sound, MemoryIsBacked, RestartIsBacked, IdsAreFresh
<1>3. status' \in Status
  BY DEF WordsInv, WordsAreBacked, TypeOK, Status
<1>4. TypeOK'
  BY <1>1, <1>3 DEF WordsInv, WordsAreBacked, TypeOK
<1>5. EvidenceIsBacked' /\ CheckpointIsBacked' /\ DossierTellsOutcome'
  BY <1>1 DEF WordsInv, WordsAreBacked, EvidenceIsBacked, CheckpointIsBacked,
              DossierTellsOutcome, SameWords
<1>6. StageIsReached(mem, pc, status)' /\ StatusIsEarned(mem, status)'
  BY <1>1 DEF WordsInv, StageIsReached, StatusIsEarned, SameWords
<1>7. OfferIsEarned(mem, pc, offer)' /\ AnswerIsTrue'
  BY <1>1 DEF WordsInv, OfferIsEarned, AnswerIsTrue, SameWords
<1> QED BY <1>2, <1>4, <1>5, <1>6, <1>7 DEF WordsInv, WordsAreBacked

LEMMA RetryKeeps == ASSUME WordsInv, Retry PROVE WordsInv'
<1> DEFINE m == [mem EXCEPT !.retrying = TRUE]
           n == [m EXCEPT !.resuming = TRUE]
<1>1. Elsewhere
  BY ElsewhereInRun DEF Retry
<1>2. m \in Memories /\ SameWords(mem, m) /\ n \in Memories /\ SameWords(mem, n)
  BY DEF WordsInv, Sound, Memories, SameWords
<1>3. Sound(m) /\ Sound(n)
  BY <1>2, SoundNow, SameWordsAreSound
<1>4. m.bundle = mem.bundle /\ m.outcome = mem.outcome
  BY <1>2 DEF SameWords
<1>5. \/ RunUpload(n)
      \/ RunVerification(m)
      \/ RunEvidence(m)
      \/ status = "preservation_failed" /\ RunPreservation(m)
      \/ status = "evidence_finalization_failed" /\ Finalize(m)
  BY DEF Retry
<1>6. /\ status \in {"preservation_failed", "evidence_finalization_failed"} => mem.bundle # 0
      /\ status = "evidence_finalization_failed" => mem.outcome \in Decided
  BY DEF WordsInv, StatusIsEarned
<1> HIDE DEF m, n
<1> QED BY <1>1, <1>3, <1>4, <1>5, <1>6, RunUploadKeeps, RunVerificationKeeps,
           RunEvidenceKeeps, RunPreservationKeeps, FinalizeKeeps

LEMMA ApplicationKeeps == ASSUME WordsInv, Application PROVE WordsInv'
<1>1. CASE Start
  BY <1>1, ElsewhereInRun, MemoryKept, SettleAnywhere DEF Start, Waits
<1>2. CASE Crash
  BY <1>2, CrashKeeps
<1>3. CASE Resume
  <2>1. Elsewhere /\ mem' = mem /\ Sound(mem') /\ Move(status, final, "loading")
    BY <1>3, ElsewhereInRun, SoundNow
       DEF Resume, Settle, Sound, MemoryIsBacked, RestartIsBacked, IdsAreFresh
  <2>2. StageIsReached(mem', "loading", status) /\ StatusIsEarned(mem', status)
    BY <1>3, <2>1 DEF Resume, WordsInv, StageIsReached, StatusIsEarned
  <2>3. status \in Status /\ final \in BOOLEAN /\ "loading" \in Places
    BY DEF WordsInv, WordsAreBacked, TypeOK, Places, RunStates
  <2> QED BY <2>1, <2>2, <2>3, MoveKeeps
<1>4. CASE Pause \/ CancelUpload \/ CancelDone
  <2>1. mem' \in Memories /\ SameWords(mem, mem')
    BY <1>4 DEF Pause, CancelUpload, CancelDone, WordsInv, Sound, Memories, SameWords, Stops
  <2>2. final' \in BOOLEAN /\ status' \in {status, "canceled"}
    BY <1>4 DEF Pause, CancelUpload, CancelDone, WordsInv, WordsAreBacked, TypeOK
  <2>3. pc \notin {"dead", "loading", "fetching"}
    BY <1>4 DEF Pause, CancelUpload, CancelDone, WordsInv, StageIsReached, NoMemory
  <2> QED BY <1>4, <2>1, <2>2, <2>3, CallKeeps DEF Pause, CancelUpload, CancelDone
<1>5. CASE Cancel
  <2>1. mem' \in Memories /\ SameWords(mem, mem')
    BY <1>5, MemoryKept DEF Cancel
  <2>2. final' \in BOOLEAN /\ status' \in {"canceled", "stopped"} /\ pc # "dead"
    BY <1>5 DEF Cancel
  <2>3. pc \in {"loading", "fetching"} => mem' = mem /\ status' # "stopped"
    BY <1>5 DEF Cancel, HasAuthority, WordsInv, StageIsReached
  <2> QED BY <1>5, <2>1, <2>2, <2>3, CallKeeps DEF Cancel
<1>6. CASE Retry
  BY <1>6, RetryKeeps
<1> QED BY <1>1, <1>2, <1>3, <1>4, <1>5, <1>6 DEF Application

------------------------------------------------------------------------------
(***************************************************************************)
(* The callees.                                                            *)
(***************************************************************************)

\* What a put stores is what the object was sound about.
LEMMA ServePutKeeps == ASSUME WordsInv, ServePut PROVE WordsInv'
<1>1. /\ cp' = Checkpoint /\ answer' = "stored" /\ pc \in PutStates
      /\ UNCHANGED <<options, pc, status, final, offer, rec, remote, dossiers, closed,
                     archive, restarts>>
  BY DEF ServePut, world, sink
<1>2. mem' \in Memories /\ SameWords(mem, mem')
  BY DEF ServePut, WordsInv, Sound, Memories, SameWords
<1>3. TypeOK /\ Sound(mem)
  BY DEF WordsInv, WordsAreBacked
<1>4. /\ cp'.status = offer.status /\ cp'.authority = offer.authority
      /\ cp'.evidence = mem.evidence /\ cp'.revision = mem.bundle
      /\ cp'.operation = mem.operation /\ cp'.closing = mem.closing
      /\ cp'.outcome = mem.outcome
  BY <1>1 DEF Checkpoint
<1>5. cp' \in Checkpoints
  <2>1. offer.status \in Status \cup {"absent"} /\ offer.authority \in Authority \cup {"none"}
    BY <1>3 DEF TypeOK
  <2>2. /\ mem.record \in BOOLEAN /\ mem.verified \in BOOLEAN /\ mem.evidence \in Ids
        /\ mem.bundle \in 0 .. 2 /\ mem.operation \in Ids /\ mem.closing \in Ids
        /\ mem.outcome \in Outcome
    BY <1>3 DEF Sound, Memories
  <2> QED BY <1>1, <2>1, <2>2 DEF Checkpoint, Checkpoints
<1>6. TypeOK'
  BY <1>1, <1>2, <1>3, <1>5 DEF TypeOK
<1>7. MemoryIsBacked(mem)'
  BY <1>1, <1>2, <1>3 DEF Sound, MemoryIsBacked, SameWords
<1>8. RestartIsBacked(mem)'
  BY <1>1, <1>2, <1>3, <1>4
     DEF WordsInv, OfferIsEarned, Sound, MemoryIsBacked, RestartIsBacked, SameWords
<1>9. IdsAreFresh(mem)'
  <2>1. mem.closing \in Nat /\ restarts \in Nat /\ mem.closing <= restarts + 1
    BY <1>3, WorkflowAssumption DEF Sound, IdsAreFresh, Memories, Ids, TypeOK
  <2> QED BY <1>1, <1>2, <1>3, <1>4, <2>1 DEF Sound, IdsAreFresh, SameWords
<1>10. EvidenceIsBacked' /\ DossierTellsOutcome'
  BY <1>1, <1>2 DEF WordsInv, WordsAreBacked, EvidenceIsBacked, DossierTellsOutcome, SameWords
<1>11. CheckpointIsBacked'
  BY <1>1, <1>3, <1>4
     DEF WordsInv, Sound, MemoryIsBacked, OfferIsEarned, StageIsReached, CheckpointIsBacked,
         Decided
<1>12. StageIsReached(mem, pc, status)' /\ StatusIsEarned(mem, status)'
  BY <1>1, <1>2 DEF WordsInv, StageIsReached, StatusIsEarned, SameWords, PutStates
<1>13. OfferIsEarned(mem, pc, offer)' /\ AnswerIsTrue'
  BY <1>1, <1>2 DEF WordsInv, OfferIsEarned, AnswerIsTrue, SameWords, PutStates
<1> QED BY <1>2, <1>6, <1>7, <1>8, <1>9, <1>10, <1>11, <1>12, <1>13
        DEF WordsInv, WordsAreBacked, Sound

LEMMA ServeSessionKeeps == ASSUME WordsInv, ServeRecord \/ ServeUpload PROVE WordsInv'
<1>1. /\ UNCHANGED <<options, pc, answer, status, final, offer, cp, dossiers, closed,
                     archive, restarts>>
      /\ rec' \in Records /\ remote' \in BOOLEAN
  BY DEF ServeRecord, ServeUpload, sink, WordsInv, WordsAreBacked, TypeOK, Records
<1>2. mem' \in Memories /\ SameWords(mem, mem') /\ pc = "uploading"
  BY DEF ServeRecord, ServeUpload, WordsInv, Sound, Memories, SameWords
<1>3. Sound(mem') 
  BY <1>2, SoundNow, SameWordsAreSound
<1>4. Sound(mem)'
  BY <1>1, <1>3 DEF Sound, MemoryIsBacked, RestartIsBacked, IdsAreFresh
<1>5. TypeOK'
  BY <1>1, <1>2 DEF WordsInv, WordsAreBacked, TypeOK, Records
<1>6. EvidenceIsBacked' /\ CheckpointIsBacked' /\ DossierTellsOutcome'
  BY <1>1, <1>2 DEF WordsInv, WordsAreBacked, EvidenceIsBacked, CheckpointIsBacked,
                    DossierTellsOutcome, SameWords
<1>7. /\ StageIsReached(mem, pc, status)' /\ StatusIsEarned(mem, status)'
      /\ OfferIsEarned(mem, pc, offer)' /\ AnswerIsTrue'
  BY <1>1, <1>2 DEF WordsInv, StageIsReached, StatusIsEarned, OfferIsEarned, AnswerIsTrue,
                    SameWords
<1> QED BY <1>4, <1>5, <1>6, <1>7 DEF WordsInv, WordsAreBacked

\* Revision 1 is under no identifier that has revision 2, and takes none away.
LEMMA ServeEvidenceKeeps == ASSUME WordsInv, ServeEvidence PROVE WordsInv'
<1>1. /\ pc = "persisting" /\ answer' = "stored"
      /\ dossiers[mem.evidence] \in {"none", "pending"}
      /\ dossiers' = [dossiers EXCEPT ![mem.evidence] = "pending"]
      /\ UNCHANGED <<options, pc, status, final, offer, mem, cp, rec, remote, closed,
                     archive, restarts>>
  BY DEF ServeEvidence
<1>2. TypeOK /\ Sound(mem) /\ mem.evidence # 0
  BY <1>1 DEF WordsInv, WordsAreBacked, StageIsReached
<1>3. /\ mem.evidence \in Ids /\ cp.evidence \in Ids
      /\ dossiers \in [Ids -> {"none", "pending", "preserved", "failed"}]
  BY <1>2 DEF TypeOK, Sound, Memories, Checkpoints
<1>4. /\ dossiers'[mem.evidence] = "pending"
      /\ \A e \in Ids \ {mem.evidence} : dossiers'[e] = dossiers[e]
      /\ dossiers' \in [Ids -> {"none", "pending", "preserved", "failed"}]
      /\ 0 \in Ids /\ dossiers'[0] = dossiers[0]
  BY <1>1, <1>2, <1>3, WorkflowAssumption DEF Ids
<1>5. TypeOK'
  BY <1>1, <1>2, <1>4 DEF TypeOK
<1>6. MemoryIsBacked(mem)'
  BY <1>1, <1>2, <1>3, <1>4 DEF Sound, MemoryIsBacked, Decided
<1>7. RestartIsBacked(mem)' /\ IdsAreFresh(mem)'
  BY <1>1, <1>2, <1>3, <1>4 DEF Sound, RestartIsBacked, IdsAreFresh, Decided
<1>8. EvidenceIsBacked' /\ CheckpointIsBacked'
  BY <1>1, <1>3, <1>4 DEF WordsInv, WordsAreBacked, EvidenceIsBacked, CheckpointIsBacked
<1>9. DossierTellsOutcome'
  BY <1>1, <1>3, <1>4 DEF WordsInv, WordsAreBacked, DossierTellsOutcome
<1>10. /\ StageIsReached(mem, pc, status)' /\ StatusIsEarned(mem, status)'
       /\ OfferIsEarned(mem, pc, offer)' /\ AnswerIsTrue'
  BY <1>1, <1>3, <1>4
     DEF WordsInv, StageIsReached, StatusIsEarned, OfferIsEarned, AnswerIsTrue
<1> QED BY <1>1, <1>2, <1>5, <1>6, <1>7, <1>8, <1>9, <1>10
        DEF WordsInv, WordsAreBacked, Sound

\* Revision 2 says what the archive did under the object's operation.
LEMMA ServeFinalKeeps == ASSUME WordsInv, ServeFinal PROVE WordsInv'
<1>1. /\ pc = "finalizing" /\ answer' = "stored"
      /\ UNCHANGED <<options, pc, status, final, offer, mem, cp, rec, remote, archive,
                     restarts>>
  BY DEF ServeFinal
<1>2. TypeOK /\ Sound(mem) /\ mem.outcome \in Decided /\ mem.closing # 0
  BY <1>1 DEF WordsInv, WordsAreBacked, StageIsReached
<1>3. /\ mem.evidence \in Ids /\ cp.evidence \in Ids /\ mem.closing \in Ids
      /\ mem.operation \in Ids
      /\ dossiers \in [Ids -> {"none", "pending", "preserved", "failed"}]
      /\ closed \in [Ids -> Ids]
  BY <1>2 DEF TypeOK, Sound, Memories, Checkpoints
<1>4. mem.evidence # 0 /\ archive[mem.operation] = mem.outcome
  BY <1>2 DEF Sound, MemoryIsBacked
<1>5. CASE dossiers[mem.evidence] = "pending"
           /\ dossiers' = [dossiers EXCEPT ![mem.evidence] = mem.outcome]
           /\ closed' = [closed EXCEPT ![mem.evidence] = mem.closing]
  <2>1. /\ dossiers'[mem.evidence] = mem.outcome /\ closed'[mem.evidence] = mem.closing
        /\ \A e \in Ids \ {mem.evidence} : dossiers'[e] = dossiers[e] /\ closed'[e] = closed[e]
        /\ dossiers' \in [Ids -> {"none", "pending", "preserved", "failed"}]
        /\ closed' \in [Ids -> Ids]
        /\ dossiers'[0] = dossiers[0] /\ closed'[0] = closed[0]
    BY <1>2, <1>3, <1>4, <1>5 DEF Decided
  <2>2. TypeOK'
    BY <1>1, <1>2, <2>1 DEF TypeOK
  <2>3. MemoryIsBacked(mem)'
    BY <1>1, <1>2, <1>3, <1>4, <2>1 DEF Sound, MemoryIsBacked, Decided
  <2>4. RestartIsBacked(mem)'
    BY <1>1, <1>2, <1>3, <1>4, <2>1 DEF Sound, RestartIsBacked
  <2>5. IdsAreFresh(mem)'
    BY <1>1, <1>2, <1>3, <1>4, <2>1 DEF Sound, IdsAreFresh
  <2>6. EvidenceIsBacked' /\ CheckpointIsBacked'
    BY <1>1, <1>2, <1>3, <1>5, <2>1
       DEF WordsInv, WordsAreBacked, EvidenceIsBacked, CheckpointIsBacked, Decided
  <2>7. DossierTellsOutcome'
    BY <1>1, <1>2, <1>3, <1>4, <1>5, <2>1
       DEF WordsInv, WordsAreBacked, DossierTellsOutcome, Decided
  <2>8. /\ StageIsReached(mem, pc, status)' /\ StatusIsEarned(mem, status)'
        /\ OfferIsEarned(mem, pc, offer)' /\ AnswerIsTrue'
    BY <1>1, <1>2, <1>3, <1>5, <2>1
       DEF WordsInv, StageIsReached, StatusIsEarned, OfferIsEarned, AnswerIsTrue
  <2> QED BY <1>1, <1>2, <2>2, <2>3, <2>4, <2>5, <2>6, <2>7, <2>8
          DEF WordsInv, WordsAreBacked, Sound
<1>6. CASE closed[mem.evidence] = mem.closing /\ UNCHANGED <<dossiers, closed>>
  BY <1>1, <1>6 DEF WordsInv, WordsAreBacked, TypeOK, EvidenceIsBacked, CheckpointIsBacked,
     DossierTellsOutcome, Sound, MemoryIsBacked, RestartIsBacked, IdsAreFresh,
     StageIsReached, StatusIsEarned, OfferIsEarned, AnswerIsTrue
<1> QED BY <1>5, <1>6 DEF ServeFinal, sink

\* The archive answers for an operation what it has decided about it.
LEMMA ServeHandoffKeeps == ASSUME WordsInv, ServeHandoff PROVE WordsInv'
<1>1. PICK result \in {"preserved", "failed", "transient"} :
        /\ archive[mem.operation] \in {"none", result}
        /\ answer' = result
        /\ archive' = IF result = "transient" THEN archive
                      ELSE [archive EXCEPT ![mem.operation] = result]
  BY DEF ServeHandoff, Outcome
<1>2. /\ pc = "handing"
      /\ UNCHANGED <<options, pc, status, final, offer, mem, cp, rec, remote, dossiers,
                     closed, restarts>>
  BY DEF ServeHandoff, sink
<1>3. /\ TypeOK /\ Sound(mem) /\ mem.operation # 0 /\ mem.bundle # 0
      /\ dossiers[mem.evidence] # "none"
  BY <1>2 DEF WordsInv, WordsAreBacked, StageIsReached, Sound, MemoryIsBacked
<1>4. /\ mem.operation \in Ids /\ cp.operation \in Ids /\ mem.evidence \in Ids
      /\ archive \in [Ids -> {"none", "preserved", "failed"}]
  BY <1>3 DEF TypeOK, Sound, Memories, Checkpoints
<1>5. /\ archive' \in [Ids -> {"none", "preserved", "failed"}]
      /\ \A o \in Ids : archive[o] # "none" => archive'[o] = archive[o]
      /\ answer' \in Decided => archive'[mem.operation] = answer'
      /\ archive'[0] = archive[0]
  BY <1>1, <1>3, <1>4 DEF Decided
<1>6. TypeOK'
  BY <1>1, <1>2, <1>3, <1>5 DEF TypeOK, Outcome
<1>7. MemoryIsBacked(mem)' /\ RestartIsBacked(mem)'
  BY <1>2, <1>3, <1>4, <1>5 DEF Sound, MemoryIsBacked, RestartIsBacked, Decided
<1>8. IdsAreFresh(mem)'
  BY <1>2, <1>3, <1>5 DEF Sound, IdsAreFresh
<1>9. EvidenceIsBacked' /\ CheckpointIsBacked'
  BY <1>2, <1>3, <1>4, <1>5
     DEF WordsInv, WordsAreBacked, EvidenceIsBacked, CheckpointIsBacked
<1>10. DossierTellsOutcome'
  BY <1>2, <1>3, <1>4, <1>5 DEF WordsInv, WordsAreBacked, DossierTellsOutcome
<1>11. /\ StageIsReached(mem, pc, status)' /\ StatusIsEarned(mem, status)'
       /\ OfferIsEarned(mem, pc, offer)' /\ AnswerIsTrue'
  BY <1>2, <1>4, <1>5
     DEF WordsInv, StageIsReached, StatusIsEarned, OfferIsEarned, AnswerIsTrue
<1> QED BY <1>2, <1>3, <1>6, <1>7, <1>8, <1>9, <1>10, <1>11
        DEF WordsInv, WordsAreBacked, Sound

------------------------------------------------------------------------------
(***************************************************************************)
(* The run.                                                                *)
(***************************************************************************)

LEMMA UploadKeeps == ASSUME WordsInv, Upload PROVE WordsInv'
<1>1. CASE Prepared
  <2>1. Elsewhere /\ SameWords(mem, mem') /\ Sound(mem')
    BY <1>1, ElsewhereInRun, MemoryKept, SoundNow, SameWordsAreSound DEF Prepared
  <2>2. StageIsReached(mem', "putPrepared", "prepared") /\ StatusIsEarned(mem', "prepared")
    BY DEF StageIsReached, StatusIsEarned
  <2>3. "prepared" \in Status /\ "putPrepared" \in Places /\ "prepared" \in Authority
    BY DEF Status, Places, RunStates, PutStates, Authority
  <2> QED BY <1>1, <2>1, <2>2, <2>3, SaveKeeps DEF Prepared
<1>2. CASE PreparationFails
  BY <1>2, ElsewhereInRun, GiveUpKeeps DEF PreparationFails, GiveUp
<1>3. CASE PreparedSaved
  BY <1>3, ElsewhereInRun, AckedKeeps, RunUploadKeeps DEF PreparedSaved
<1>4. CASE UploadingSaved
  <2>1. mem' \in Memories /\ SameWords(mem, mem')
    BY <1>4 DEF UploadingSaved, Acked, WordsInv, Sound, Memories, SameWords, Stops
  <2> QED BY <1>4, <2>1, ElsewhereInRun, SettleAnywhere DEF UploadingSaved, Waits
<1>5. CASE UploadingUnsaved
  BY <1>5, ReconciliationKeeps DEF UploadingUnsaved, Authority
<1>6. CASE SessionCompletes
  <2>1. Elsewhere /\ mem' = mem
    BY <1>6 DEF SessionCompletes, Elsewhere, sink, Records, WordsInv, WordsAreBacked, TypeOK
  <2>2. /\ Sound(mem')
        /\ \A s \in {"uploaded_unverified", "upload_failed"} : StatusIsEarned(mem', s)
    BY <2>1, MemoryKept, SoundNow, SameWordsAreSound DEF StatusIsEarned
  <2>3. CASE Save("uploaded_unverified", FALSE, "uploaded_unverified", "putUploaded")
    <3>1. StageIsReached(mem', "putUploaded", "uploaded_unverified")
      BY DEF StageIsReached
    <3>2. "uploaded_unverified" \in Status \cap Authority /\ "putUploaded" \in Places
      BY DEF Status, Places, RunStates, PutStates, Authority
    <3> QED BY <2>1, <2>2, <2>3, <3>1, <3>2, SaveKeeps
  <2>4. CASE Fail("upload_failed", TRUE)
    BY <2>1, <2>2, <2>4, FailKeeps DEF LastAuthority
  <2> QED BY <1>6, <2>3, <2>4 DEF SessionCompletes
<1>7. CASE SessionStops
  <2>1. Elsewhere /\ mem' = mem
    BY <1>7 DEF SessionStops, Elsewhere, sink, Records, WordsInv, WordsAreBacked, TypeOK
  <2>2. CASE Move("canceled", TRUE, "idle")
    BY <2>1, <2>2, GiveUpKeeps
  <2>3. CASE Save("paused", FALSE, "prepared", "putPaused")
    <3>1. /\ Sound(mem') /\ StatusIsEarned(mem', "paused")
          /\ StageIsReached(mem', "putPaused", "paused")
      BY <2>1, MemoryKept, SoundNow, SameWordsAreSound DEF StatusIsEarned, StageIsReached
    <3>2. "paused" \in Status /\ "putPaused" \in Places /\ "prepared" \in Authority
      BY DEF Status, Places, RunStates, PutStates, Authority
    <3> QED BY <2>1, <2>3, <3>1, <3>2, SaveKeeps
  <2> QED BY <1>7, <2>2, <2>3 DEF SessionStops
<1>8. CASE SessionFails
  <2>1. Elsewhere /\ mem' \in Memories /\ SameWords(mem, mem')
    BY <1>8, ElsewhereInRun DEF SessionFails, WordsInv, Sound, Memories, SameWords
  <2>2. Sound(mem') /\ StatusIsEarned(mem', "upload_failed")
    BY <2>1, SoundNow, SameWordsAreSound DEF StatusIsEarned
  <2> QED BY <1>8, <2>1, <2>2, FailKeeps DEF SessionFails, LastAuthority
<1>9. CASE PausedSaved
  BY <1>9, ElsewhereInRun, AckedKeeps, SettleAnywhere DEF PausedSaved, Waits
<1>10. CASE PausedUnsaved
  <2>1. Elsewhere /\ mem' = mem
    BY <1>10, ElsewhereInRun DEF PausedUnsaved
  <2>2. CASE Settle("idle")
    BY <2>1, <2>2, MemoryKept, SettleAnywhere DEF Waits
  <2>3. CASE GiveUp("preparation_failed")
    BY <2>1, <2>3, GiveUpKeeps DEF GiveUp
  <2> QED BY <1>10, <2>2, <2>3 DEF PausedUnsaved
<1>11. CASE UploadedSaved
  BY <1>11, ElsewhereInRun, AckedKeeps, RunVerificationKeeps DEF UploadedSaved
<1>12. CASE UploadedUnsaved
  BY <1>12, FailsEarly DEF UploadedUnsaved
<1> QED BY <1>1, <1>2, <1>3, <1>4, <1>5, <1>6, <1>7, <1>8, <1>9, <1>10, <1>11, <1>12
        DEF Upload

LEMMA VerificationKeeps == ASSUME WordsInv, Verification PROVE WordsInv'
<1>1. CASE VerifierAnswers
  <2>1. Elsewhere
    BY <1>1, ElsewhereInRun DEF VerifierAnswers
  <2>2. CASE Settle("idle") /\ mem' = mem
    BY <2>1, <2>2, MemoryKept, SettleAnywhere DEF Waits
  <2>3. CASE Save("verified", FALSE, "verified", "putVerified")
             /\ mem' = [mem EXCEPT !.verified = TRUE]
    <3>1. mem' \in Memories /\ SameWords(mem, mem')
      BY <2>3 DEF WordsInv, Sound, Memories, SameWords
    <3>2. /\ Sound(mem') /\ StageIsReached(mem', "putVerified", "verified")
          /\ StatusIsEarned(mem', "verified")
      BY <3>1, SoundNow, SameWordsAreSound DEF StageIsReached, StatusIsEarned
    <3>3. "verified" \in Status \cap Authority /\ "putVerified" \in Places
      BY DEF Status, Places, RunStates, PutStates, Authority
    <3> QED BY <2>1, <2>3, <3>2, <3>3, SaveKeeps
  <2>4. CASE /\ \E terminal \in BOOLEAN : Fail("verification_failed", terminal)
             /\ mem' = mem
    BY <1>1, <2>4, FailsEarly DEF VerifierAnswers
  <2> QED BY <1>1, <2>2, <2>3, <2>4 DEF VerifierAnswers, Unless
<1>2. CASE VerifierThrows
  <2>1. Elsewhere /\ mem' = mem
    BY <1>2, ElsewhereInRun DEF VerifierThrows, Throws
  <2>2. CASE Settle("reconcilingVerifier")
    BY <2>1, <2>2, MemoryKept, SettleAnywhere DEF Waits
  <2>3. CASE ReconciliationRequired("uploaded_unverified")
    BY <1>2, <2>3, ReconciliationKeeps DEF VerifierThrows, Throws, Authority
  <2> QED BY <1>2, <2>2, <2>3 DEF VerifierThrows, Throws
<1>3. CASE VerifierUnknown
  BY <1>3, FailsEarly DEF VerifierUnknown
<1>4. CASE VerifiedSaved
  BY <1>4, ElsewhereInRun, AckedKeeps, RunEvidenceKeeps DEF VerifiedSaved
<1>5. CASE VerifiedUnsaved
  BY <1>5, FailsEarly DEF VerifiedUnsaved
<1> QED BY <1>1, <1>2, <1>3, <1>4, <1>5 DEF Verification

\* The bundle and its receipt are recorded once the sink has the dossier.
LEMMA BundleIsSound ==
  ASSUME WordsInv, NEW m, NEW k \in 1 .. 2, m \in Memories,
         m.evidence = mem.evidence, m.operation = mem.operation,
         m.closing = mem.closing, m.outcome = mem.outcome, m.bundle = k,
         dossiers[mem.evidence] # "none", k = 2 => dossiers[mem.evidence] \in Decided
  PROVE  Sound(m)
BY DEF WordsInv, Sound, MemoryIsBacked, RestartIsBacked, IdsAreFresh

LEMMA EvidenceKeeps == ASSUME WordsInv, Evidence PROVE WordsInv'
<1>1. CASE EvidencePersisted
  <2>1. Elsewhere /\ dossiers[mem.evidence] # "none"
    BY <1>1, ElsewhereInRun DEF EvidencePersisted, WordsInv, AnswerIsTrue
  <2>2. CASE Settle("idle") /\ mem' = mem
    BY <2>1, <2>2, MemoryKept, SettleAnywhere DEF Waits
  <2>3. CASE /\ Save("evidence_persisted", ~Has("preservation"), "evidence_persisted",
                     "putEvidence")
             /\ mem' = [mem EXCEPT !.bundle = 1]
    <3>1. /\ mem' \in Memories /\ mem'.bundle = 1
          /\ mem'.evidence = mem.evidence /\ mem'.operation = mem.operation
          /\ mem'.closing = mem.closing /\ mem'.outcome = mem.outcome
      BY <2>3 DEF WordsInv, Sound, Memories
    <3>2. Sound(mem')
      BY <2>1, <3>1, BundleIsSound
    <3>3. /\ StageIsReached(mem', "putEvidence", "evidence_persisted")
          /\ StatusIsEarned(mem', "evidence_persisted")
      BY <3>1 DEF StageIsReached, StatusIsEarned
    <3>4. "evidence_persisted" \in Status \cap Authority /\ "putEvidence" \in Places
      BY DEF Status, Places, RunStates, PutStates, Authority
    <3>5. (~Has("preservation")) \in BOOLEAN
      BY DEF Has
    <3> QED BY <2>1, <2>3, <3>2, <3>3, <3>4, <3>5, SaveKeeps
  <2> QED BY <1>1, <2>2, <2>3 DEF EvidencePersisted, Unless
<1>2. CASE EvidenceThrows
  <2>1. Elsewhere /\ mem' = mem /\ pc = "persisting"
    BY <1>2, ElsewhereInRun DEF EvidenceThrows, Throws
  <2>2. CASE Settle("reconcilingEvidence")
    <3>1. StageIsReached(mem, "reconcilingEvidence", status)
      BY <2>1 DEF WordsInv, StageIsReached
    <3>2. "reconcilingEvidence" \in Places \ {"dead", "loading", "fetching"}
      BY DEF Places, RunStates, ReconcileStates
    <3> QED BY <2>1, <2>2, <3>1, <3>2, MemoryKept, SettleKeeps
  <2>3. CASE ReconciliationRequired("verified")
    BY <1>2, <2>3, ReconciliationKeeps DEF EvidenceThrows, Throws, Authority
  <2> QED BY <1>2, <2>2, <2>3 DEF EvidenceThrows, Throws
<1>3. CASE EvidenceNotFound \/ EvidenceFails \/ EvidenceUnsaved
  BY <1>3, FailsEarly DEF EvidenceNotFound, EvidenceFails, EvidenceUnsaved
<1>4. CASE EvidenceSaved
  <2>1. Elsewhere /\ Acked.bundle # 0
    BY <1>4, ElsewhereInRun, AckedKeeps
       DEF EvidenceSaved, PutOk, WordsInv, StageIsReached, SameWords
  <2>2. CASE RunPreservation(Acked)
    BY <2>1, <2>2, AckedKeeps, RunPreservationKeeps
  <2>3. CASE Settle("cleaning") /\ mem' = Acked
    BY <2>1, <2>3, AckedKeeps, SettleAnywhere DEF Waits
  <2> QED BY <1>4, <2>2, <2>3 DEF EvidenceSaved
<1> QED BY <1>1, <1>2, <1>3, <1>4 DEF Evidence

\* The outcome of the handoff is recorded once the archive has decided it, or
\* failed for the moment.
LEMMA OutcomeIsSound ==
  ASSUME WordsInv, NEW r \in Outcome, r \in Decided => archive[mem.operation] = r
  PROVE  Sound([mem EXCEPT !.outcome = r])
<1> DEFINE m == [mem EXCEPT !.outcome = r]
<1>1. /\ m \in Memories /\ m.outcome = r
      /\ m.evidence = mem.evidence /\ m.operation = mem.operation
      /\ m.closing = mem.closing /\ m.bundle = mem.bundle
  BY DEF WordsInv, Sound, Memories
<1> HIDE DEF m
<1>2. MemoryIsBacked(m) /\ RestartIsBacked(m) /\ IdsAreFresh(m)
  BY <1>1 DEF WordsInv, Sound, MemoryIsBacked, RestartIsBacked, IdsAreFresh
<1> QED BY <1>1, <1>2 DEF Sound, m

LEMMA HandoffAnsweredKeeps == ASSUME WordsInv, HandoffAnswered PROVE WordsInv'
<1>1. PICK r \in Outcome \ {"none"} : HandoffAnswers(r)
  BY DEF HandoffAnswered
<1> DEFINE m == [mem EXCEPT !.outcome = r]
<1>2. Elsewhere
  BY <1>1, ElsewhereInRun DEF HandoffAnswers
<1>3. mem.bundle # 0 /\ (r \in Decided => archive[mem.operation] = r)
  BY <1>1 DEF HandoffAnswers, WordsInv, StageIsReached, AnswerIsTrue
<1>4. Sound(m)
  BY <1>3, OutcomeIsSound
<1>5. /\ m.bundle = mem.bundle /\ m.outcome = r
      /\ m.evidence = mem.evidence /\ m.operation = mem.operation
  BY DEF WordsInv, Sound, Memories
<1>6. \/ final /\ Settle("idle") /\ mem' = m
      \/ Fail("preservation_failed", FALSE) /\ mem' = m
      \/ r # "transient" /\ Finalize(m)
  BY <1>1 DEF HandoffAnswers
<1> HIDE DEF m
<1>7. CASE final /\ Settle("idle") /\ mem' = m
  <2>1. StatusIsEarned(m, status)
    BY <1>1, <1>3, <1>5 DEF WordsInv, StatusIsEarned, StageIsReached, HandoffAnswers
  <2>2. StageIsReached(m, "idle", status) /\ status \in Status /\ final \in BOOLEAN
    BY DEF StageIsReached, WordsInv, WordsAreBacked, TypeOK
  <2>3. "idle" \in Places
    BY DEF Places
  <2> QED BY <1>2, <1>4, <1>7, <2>1, <2>2, <2>3, MoveKeeps DEF Settle
<1>8. CASE Fail("preservation_failed", FALSE) /\ mem' = m
  BY <1>2, <1>3, <1>4, <1>5, <1>8, FailKeeps DEF LastAuthority, StatusIsEarned
<1>9. CASE r # "transient" /\ Finalize(m)
  BY <1>2, <1>3, <1>4, <1>5, <1>9, FinalizeKeeps DEF Outcome, Decided
<1> QED BY <1>6, <1>7, <1>8, <1>9

LEMMA FinalPersistedKeeps == ASSUME WordsInv, FinalPersisted PROVE WordsInv'
<1>1. Elsewhere
  BY ElsewhereInRun DEF FinalPersisted
<1>2. /\ mem.outcome \in Decided /\ mem.closing # 0 /\ mem.bundle # 0
      /\ closed[mem.evidence] = mem.closing
  BY DEF FinalPersisted, WordsInv, StageIsReached, AnswerIsTrue
<1>3. dossiers[mem.evidence] = mem.outcome /\ archive[mem.operation] = mem.outcome
  BY <1>2 DEF WordsInv, Sound, MemoryIsBacked
<1>4. CASE Settle("idle") /\ mem' = mem
  BY <1>1, <1>4, MemoryKept, SettleAnywhere DEF Waits
<1>5. CASE mem' = [mem EXCEPT !.bundle = 2, !.pending = FALSE]
  <2>. mem \in Memories
    BY DEF WordsInv, Sound
  <2>5. mem' \in Memories
    <3>1. mem' = [[mem EXCEPT !.bundle = 2] EXCEPT !.pending = FALSE]
      BY <1>5
    <3>2. [mem EXCEPT !.bundle = 2] \in Memories
      BY DEF Memories
    <3> QED BY <3>1, <3>2 DEF Memories
  <2>1. /\ mem'.bundle = 2
        /\ mem'.evidence = mem.evidence /\ mem'.operation = mem.operation
        /\ mem'.closing = mem.closing /\ mem'.outcome = mem.outcome
    BY <1>5 DEF Memories
  <2>2. Sound(mem')
    BY <1>2, <1>3, <2>1, <2>5, BundleIsSound DEF Decided
  <2>3. CASE mem.outcome = "preserved" /\ Save("preserved", TRUE, "preserved", "putPreserved")
    <3>1. /\ StageIsReached(mem', "putPreserved", "preserved")
          /\ StatusIsEarned(mem', "preserved")
      BY <1>3, <2>1, <2>3 DEF StageIsReached, StatusIsEarned
    <3>2. "preserved" \in Status \cap Authority /\ "putPreserved" \in Places
      BY DEF Status, Places, RunStates, PutStates, Authority
    <3> QED BY <1>1, <2>2, <2>3, <3>1, <3>2, SaveKeeps
  <2>4. CASE Fail("preservation_failed", TRUE)
    <3>1. StatusIsEarned(mem', "preservation_failed")
      BY <2>1 DEF StatusIsEarned
    <3> QED BY <1>1, <2>2, <2>4, <3>1, FailKeeps DEF LastAuthority
  <2> QED BY <1>4, <1>5, <2>3, <2>4 DEF FinalPersisted, Unless
<1> QED BY <1>4, <1>5 DEF FinalPersisted, Unless

LEMMA PreservationKeeps == ASSUME WordsInv, Preservation PROVE WordsInv'
<1>1. CASE HandoffAnswered
  BY <1>1, HandoffAnsweredKeeps
<1>2. CASE HandoffThrows
  <2>1. Elsewhere /\ mem' = mem /\ pc = "handing"
    BY <1>2, ElsewhereInRun DEF HandoffThrows, Throws
  <2>2. CASE Settle("reconcilingHandoff")
    <3>1. StageIsReached(mem, "reconcilingHandoff", status)
      BY <2>1 DEF WordsInv, StageIsReached
    <3>2. "reconcilingHandoff" \in Places \ {"dead", "loading", "fetching"}
      BY DEF Places, RunStates, ReconcileStates
    <3> QED BY <2>1, <2>2, <3>1, <3>2, MemoryKept, SettleKeeps
  <2>3. CASE ReconciliationRequired("evidence_persisted")
    BY <1>2, <2>3, ReconciliationKeeps DEF HandoffThrows, Throws, Authority
  <2> QED BY <1>2, <2>2, <2>3 DEF HandoffThrows, Throws
<1>3. CASE HandoffNotFound
  <2>1. StatusIsEarned(mem, "preservation_failed")
    BY <1>3 DEF HandoffNotFound, WordsInv, StageIsReached, StatusIsEarned
  <2> QED BY <1>3, <2>1, FailsHere DEF HandoffNotFound, LastAuthority
<1>4. CASE HandoffReconcileFails
  BY <1>4, ReconciliationKeeps DEF HandoffReconcileFails, Authority
<1>5. CASE FinalPersisted
  BY <1>5, FinalPersistedKeeps
<1>6. CASE FinalThrows
  <2>1. Elsewhere /\ mem' = mem /\ pc = "finalizing"
    BY <1>6, ElsewhereInRun DEF FinalThrows, Throws
  <2>2. CASE Settle("reconcilingFinal")
    <3>1. StageIsReached(mem, "reconcilingFinal", status)
      BY <2>1 DEF WordsInv, StageIsReached
    <3>2. "reconcilingFinal" \in Places \ {"dead", "loading", "fetching"}
      BY DEF Places, RunStates, ReconcileStates
    <3> QED BY <2>1, <2>2, <3>1, <3>2, MemoryKept, SettleKeeps
  <2>3. CASE ReconciliationRequired("evidence_persisted")
    BY <1>6, <2>3, ReconciliationKeeps DEF FinalThrows, Throws, Authority
  <2> QED BY <1>6, <2>2, <2>3 DEF FinalThrows, Throws
<1>7. CASE FinalNotFound \/ FinalFails \/ PreservedUnsaved
  <2>1. mem.bundle # 0 /\ mem.outcome \in Decided
    BY <1>7 DEF FinalNotFound, FinalFails, PreservedUnsaved, PutFails, WordsInv,
                StageIsReached, Decided
  <2>2. StatusIsEarned(mem, "evidence_finalization_failed")
    BY <2>1 DEF StatusIsEarned
  <2> QED BY <1>7, <2>2, FailsHere
          DEF FinalNotFound, FinalFails, PreservedUnsaved, LastAuthority
<1>8. CASE PreservedSaved
  BY <1>8, ElsewhereInRun, AckedKeeps, SettleAnywhere DEF PreservedSaved, Waits
<1>9. CASE CleanedUp
  <2>1. Elsewhere /\ mem' = mem
    BY <1>9 DEF CleanedUp, Elsewhere, sink, Records, WordsInv, WordsAreBacked, TypeOK
  <2> QED BY <1>9, <2>1, MemoryKept, SettleAnywhere DEF CleanedUp, Waits
<1> QED BY <1>1, <1>2, <1>3, <1>4, <1>5, <1>6, <1>7, <1>8, <1>9 DEF Preservation

LEMMA SettlingKeeps == ASSUME WordsInv, Settling PROVE WordsInv'
<1>1. Elsewhere
  BY ElsewhereInRun
     DEF Settling, FailureSaved, FailureUnsaved, ReconciliationSaved, ReconciliationUnsaved
<1>2. CASE FailureSaved \/ ReconciliationSaved
  BY <1>1, <1>2, AckedKeeps, SettleAnywhere DEF FailureSaved, ReconciliationSaved, Waits
<1>3. CASE FailureUnsaved
  BY <1>1, <1>3, GiveUpKeeps DEF FailureUnsaved
<1>4. CASE ReconciliationUnsaved
  BY <1>1, <1>4, MemoryKept, SettleAnywhere DEF ReconciliationUnsaved, Waits
<1> QED BY <1>2, <1>3, <1>4 DEF Settling

\* What an object that has only read the checkpoint says is what the checkpoint
\* said, and that was sound.
LEMMA RestoredIsSound ==
  ASSUME WordsInv, pc = "loading"
  PROVE  /\ Sound(Restored) /\ Sound(RestoredVerified)
         /\ Sound([Restored EXCEPT !.resuming = TRUE])
<1>1. /\ TypeOK /\ mem = NoMemory /\ mem.closing = 0
      /\ RestartIsBacked(mem) /\ IdsAreFresh(mem)
  BY DEF WordsInv, WordsAreBacked, StageIsReached, Sound, NoMemory
<1>2. cp.evidence \in Ids /\ cp.operation \in Ids /\ cp.closing \in Ids
  BY <1>1 DEF TypeOK, Checkpoints
<1>3. /\ Restored \in Memories /\ Restored.bundle = 0 /\ Restored.outcome = "none"
      /\ Restored.evidence = cp.evidence /\ Restored.operation = cp.operation
      /\ Restored.closing = cp.closing
  <2>1. Restored \in Memories
    BY <1>2, NoMemoryIsTyped DEF Restored, Memories
  <2> QED BY <2>1 DEF Restored, NoMemory
<1>4. restarts + 1 # 0
  BY <1>1 DEF TypeOK
<1>5. Sound(Restored)
  BY <1>1, <1>3, <1>4 DEF Sound, MemoryIsBacked, RestartIsBacked, IdsAreFresh, Decided
<1>6. RestoredVerified \in Memories /\ SameWords(Restored, RestoredVerified)
  BY <1>3 DEF RestoredVerified, Memories, SameWords
<1>7. [Restored EXCEPT !.resuming = TRUE] \in Memories
      /\ SameWords(Restored, [Restored EXCEPT !.resuming = TRUE])
  BY <1>3 DEF Memories, SameWords
<1> QED BY <1>5, <1>6, <1>7, SameWordsAreSound

LEMMA LoadOkKeeps == ASSUME WordsInv, LoadOk PROVE WordsInv'
<1>1. /\ Elsewhere /\ pc = "loading" /\ Sound(Restored) /\ Sound(RestoredVerified)
      /\ Sound([Restored EXCEPT !.resuming = TRUE])
  BY ElsewhereInRun, RestoredIsSound DEF LoadOk
<1>2. CASE RunUpload([Restored EXCEPT !.resuming = TRUE])
  BY <1>1, <1>2, RunUploadKeeps
<1>3. CASE RunVerification(Restored)
  BY <1>1, <1>3, RunVerificationKeeps
<1>4. CASE Fail("verification_failed", TRUE) /\ mem' = Restored
  BY <1>1, <1>4, FailKeeps DEF LastAuthority, StatusIsEarned
<1>5. CASE RunEvidence(RestoredVerified)
  BY <1>1, <1>5, RunEvidenceKeeps
<1>6. CASE Fail("evidence_persistence_failed", TRUE) /\ mem' = RestoredVerified
  BY <1>1, <1>6, FailKeeps DEF LastAuthority, StatusIsEarned
<1>7. CASE cp.revision # 0 /\ Settle("fetching") /\ mem' = RestoredVerified
  <2>1. status \in {"preparing", "canceled"} /\ status \in Status /\ final \in BOOLEAN
    BY <1>1 DEF WordsInv, StageIsReached, WordsAreBacked, TypeOK
  <2>2. /\ RestoredVerified.evidence = cp.evidence /\ RestoredVerified.operation = cp.operation
        /\ RestoredVerified.closing = cp.closing /\ ~RestoredVerified.canceling
    BY DEF RestoredVerified, Restored, NoMemory
  <2>3. StageIsReached(mem', "fetching", status) /\ StatusIsEarned(mem', status)
    BY <1>7, <2>1, <2>2 DEF StageIsReached, StatusIsEarned
  <2>4. "fetching" \in Places
    BY DEF Places, RunStates
  <2> QED BY <1>1, <1>7, <2>1, <2>3, <2>4, MoveKeeps DEF Settle
<1> QED BY <1>2, <1>3, <1>4, <1>5, <1>6, <1>7 DEF LoadOk

LEMMA DossierFoundKeeps == ASSUME WordsInv, DossierFound PROVE WordsInv'
<1> DEFINE m == [mem EXCEPT !.bundle = cp.revision, !.outcome = cp.outcome]
<1>1. /\ Elsewhere /\ pc = "fetching" /\ cp.revision # 0
      /\ mem.evidence = cp.evidence /\ mem.operation = cp.operation
      /\ mem.closing = cp.closing
  BY ElsewhereInRun DEF DossierFound, WordsInv, StageIsReached
<1>2. cp.revision \in 0 .. 2 /\ cp.outcome \in Outcome
  BY DEF WordsInv, WordsAreBacked, TypeOK, Checkpoints
<1>3. /\ m \in Memories /\ m.bundle = cp.revision /\ m.outcome = cp.outcome
      /\ m.evidence = mem.evidence /\ m.operation = mem.operation /\ m.closing = mem.closing
  BY <1>2 DEF WordsInv, Sound, Memories
<1>4. \/ /\ cp.status = "preserved" /\ dossiers[mem.evidence] = "preserved"
         /\ Move("preserved", TRUE, "idle") /\ mem' = m
      \/ /\ cp.status = "evidence_finalization_failed" /\ cp.outcome # "none"
         /\ Finalize(m)
      \/ RunPreservation(m)
      \/ GiveUp("preparation_failed") /\ mem' = m
  BY DEF DossierFound
<1> HIDE DEF m
<1>5. Sound(m)
  BY <1>1, <1>3
     DEF WordsInv, WordsAreBacked, CheckpointIsBacked, Sound, MemoryIsBacked,
         RestartIsBacked, IdsAreFresh, Decided
<1>6. CASE /\ cp.status = "preserved" /\ dossiers[mem.evidence] = "preserved"
           /\ Move("preserved", TRUE, "idle") /\ mem' = m
  <2>1. StageIsReached(m, "idle", "preserved") /\ StatusIsEarned(m, "preserved")
    BY <1>1, <1>3, <1>6
       DEF StageIsReached, StatusIsEarned, WordsInv, WordsAreBacked, CheckpointIsBacked
  <2>2. "preserved" \in Status /\ "idle" \in Places
    BY DEF Status, Places
  <2> QED BY <1>1, <1>5, <1>6, <2>1, <2>2, MoveKeeps
<1>7. CASE cp.status = "evidence_finalization_failed" /\ Finalize(m)
  <2>1. m.outcome \in Decided /\ m.bundle # 0
    BY <1>1, <1>3, <1>7 DEF WordsInv, Sound, RestartIsBacked
  <2> QED BY <1>1, <1>5, <1>7, <2>1, FinalizeKeeps
<1>8. CASE RunPreservation(m)
  BY <1>1, <1>3, <1>5, <1>8, RunPreservationKeeps
<1>9. CASE GiveUp("preparation_failed") /\ mem' = m
  <2>1. StageIsReached(m, "idle", "preparation_failed")
        /\ StatusIsEarned(m, "preparation_failed")
    BY DEF StageIsReached, StatusIsEarned
  <2>2. "preparation_failed" \in Status /\ "idle" \in Places
    BY DEF Status, Failures, Places
  <2> QED BY <1>1, <1>5, <1>9, <2>1, <2>2, MoveKeeps DEF GiveUp
<1> QED BY <1>4, <1>6, <1>7, <1>8, <1>9

LEMMA LoadingKeeps == ASSUME WordsInv, Loading PROVE WordsInv'
<1>1. CASE LoadFails \/ LoadUnlinked
  BY <1>1, ElsewhereInRun, GiveUpKeeps DEF LoadFails, LoadUnlinked, GiveUp
<1>2. CASE DossierMissing
  BY <1>2, ReconciliationKeeps, FailsEarly DEF DossierMissing, Authority
<1> QED BY <1>1, <1>2, LoadOkKeeps, DossierFoundKeeps DEF Loading

------------------------------------------------------------------------------

LEMMA WordsInit == Init => WordsInv
<1> SUFFICES ASSUME Init PROVE WordsInv
  OBVIOUS
<1>1. NoMemory \in Memories /\ NoCheckpoint \in Checkpoints /\ 0 \in Ids
  BY WorkflowAssumption, NoMemoryIsTyped DEF NoCheckpoint, Checkpoints, Ids, Outcome
<1>2. NoOffer \in [status : Status \cup {"absent"}, authority : Authority \cup {"none"}]
  BY DEF NoOffer
<1>3. TypeOK
  <2>1. /\ dossiers \in [Ids -> {"none", "pending", "preserved", "failed"}]
        /\ closed \in [Ids -> Ids] /\ archive \in [Ids -> {"none", "preserved", "failed"}]
    BY <1>1 DEF Init
  <2>2. restarts \in 0 .. MaxRestarts
    BY WorkflowAssumption DEF Init
  <2>3. options \in SUBSET Options /\ mem \in Memories /\ cp \in Checkpoints
    BY <1>1 DEF Init
  <2> QED BY <1>2, <2>1, <2>2, <2>3 DEF Init, TypeOK, Outcome, Status
<1>4. /\ NoMemory.bundle = 0 /\ NoMemory.closing = 0 /\ NoMemory.outcome = "none"
      /\ NoOffer.status = "absent" /\ NoOffer.authority = "none"
      /\ NoCheckpoint.revision = 0 /\ NoCheckpoint.status = "absent"
      /\ NoCheckpoint.closing = 0 /\ NoCheckpoint.outcome = "none"
      /\ NoCheckpoint.authority = "none"
  BY DEF NoMemory, NoOffer, NoCheckpoint
<1>5. EvidenceIsBacked /\ CheckpointIsBacked /\ DossierTellsOutcome
  BY <1>4 DEF Init, EvidenceIsBacked, CheckpointIsBacked, DossierTellsOutcome
<1>6. Sound(mem)
  BY <1>1, <1>4
     DEF Init, Sound, MemoryIsBacked, RestartIsBacked, IdsAreFresh, Decided
<1>7. /\ StageIsReached(mem, pc, status) /\ StatusIsEarned(mem, status)
      /\ OfferIsEarned(mem, pc, offer) /\ AnswerIsTrue
  BY <1>4 DEF Init, StageIsReached, StatusIsEarned, OfferIsEarned, AnswerIsTrue
<1> QED BY <1>3, <1>5, <1>6, <1>7 DEF WordsInv, WordsAreBacked

LEMMA WordsNext == WordsInv /\ [Next]_vars => WordsInv'
<1> SUFFICES ASSUME WordsInv, [Next]_vars PROVE WordsInv'
  OBVIOUS
<1>1. CASE Callee
  BY <1>1, ServePutKeeps, ServeSessionKeeps, ServeEvidenceKeeps, ServeFinalKeeps,
     ServeHandoffKeeps DEF Callee
<1>2. CASE Run
  BY <1>2, UploadKeeps, VerificationKeeps, EvidenceKeeps, PreservationKeeps, SettlingKeeps,
     LoadingKeeps DEF Run
<1>3. CASE UNCHANGED vars
  BY <1>3
     DEF vars, world, sink, WordsInv, WordsAreBacked, TypeOK, EvidenceIsBacked,
         CheckpointIsBacked, DossierTellsOutcome, Sound, MemoryIsBacked, RestartIsBacked,
         IdsAreFresh, StageIsReached, StatusIsEarned, OfferIsEarned, AnswerIsTrue
<1> QED BY <1>1, <1>2, <1>3, ApplicationKeeps DEF Next

THEOREM WordsInvariant == Spec => []WordsInv
BY WordsInit, WordsNext, PTL DEF Spec

\* No word of the workflow, in its state, in its checkpoint or in a dossier, is
\* ahead of what the sink and the archive did (workflow.ts:546-843), for any
\* number of deaths, whichever stores fail and whatever is configured.
THEOREM WordsHold == Spec => []WordsAreBacked
<1>1. WordsInv => WordsAreBacked
  BY DEF WordsInv
<1> QED BY <1>1, WordsInvariant, PTL

------------------------------------------------------------------------------
(***************************************************************************)
(* The identity of the effects, and the authority of the upload.           *)
(***************************************************************************)

\* The run, or a retry, may still have an effect.
Active(p, f) == p \notin {"dead", "loading"} /\ ~(p = "idle" /\ f)

\* The object has the identifiers of the checkpoint.
Known(m) ==
    /\ cp.evidence # 0 => m.evidence = cp.evidence
    /\ cp.operation # 0 => m.operation = cp.operation

\* The checkpoint does not say yet that the upload is complete; or the object
\* does not have the revision it would take to say anything else.
Open(m) == cp.authority \in {"none", "prepared"} \/ ~m.current

\* The places and the states before the upload is recorded as complete.
UploadPlaces == {"preparing", "uploading"}
UploadPuts == {"putPrepared", "putUploading", "putPaused"}
UploadStatuses == {"preparing", "paused", "upload_failed"}

\* What a put that is under way may write, and what it wrote.
PutIsFaithful ==
    /\ status \in {offer.status, "stopped", "canceled"} /\ offer.status # "preparing"
    /\ pc \in UploadPuts => offer.authority = "prepared"
    /\ offer.status \in UploadRecovery => offer.authority = "prepared"
    /\ offer.authority = "prepared" \/ pc = "putUploaded" => Open(mem)
    /\ answer = "stored" =>
          cp.status = offer.status /\ cp.authority = offer.authority /\ ~mem.current
    /\ pc = "putReconcile" => offer.status = "reconciliation_required"
    /\ pc = "putEvidence" => final \/ Has("preservation")
    /\ pc = "putPreserved" => final

\* The inductive invariant behind StepsKeepFaith.
FaithInv ==
    /\ Active(pc, final) => Known(mem)
    /\ status = "preparing" => ~final
    /\ pc \in UploadPlaces \/ (pc = "idle" /\ ~final /\ status \in UploadStatuses) => Open(mem)
    /\ pc \in PutStates => PutIsFaithful
    /\ cp.status \in UploadRecovery => cp.authority = "prepared"
    /\ pc = "cleaning" => final

\* A transition without a checkpoint.
LEMMA FaithMoves ==
  ASSUME FaithInv, UNCHANGED cp, NEW s, NEW f \in BOOLEAN, NEW p, Move(s, f, p),
         p \notin PutStates,
         Active(p, f) => Known(mem'), s = "preparing" => f = FALSE,
         p \in UploadPlaces \/ (p = "idle" /\ f = FALSE /\ s \in UploadStatuses) => Open(mem'),
         p = "cleaning" => f = TRUE
  PROVE  FaithInv'
BY DEF FaithInv, Move, Known, Open

\* A transition whose checkpoint is being put.
LEMMA FaithSaves ==
  ASSUME FaithInv, UNCHANGED <<cp, options>>, NEW s, NEW f \in BOOLEAN, NEW a, NEW p,
         Save(s, f, a, p), p \in PutStates, Known(mem'), s # "preparing",
         p \in UploadPuts \/ s \in UploadRecovery => a = "prepared",
         a = "prepared" \/ p = "putUploaded" => Open(mem'),
         p = "putReconcile" => s = "reconciliation_required",
         p = "putEvidence" => f = TRUE \/ Has("preservation"),
         p = "putPreserved" => f = TRUE
  PROVE  FaithInv'
<1>1. /\ status' = s /\ final' = f /\ pc' = p /\ answer' = "none"
      /\ offer'.status = s /\ offer'.authority = a
  BY DEF Save
<1>2. PutIsFaithful'
  BY <1>1 DEF PutIsFaithful, Has, Open
<1>3. p \notin UploadPlaces \cup {"idle", "cleaning"}
  BY DEF UploadPlaces, PutStates
<1> QED BY <1>1, <1>2, <1>3 DEF FaithInv, Known

LEMMA FaithFails ==
  ASSUME FaithInv, UNCHANGED <<cp, options>>, NEW s \in DOMAIN LastAuthority, NEW f \in BOOLEAN,
         Fail(s, f), Known(mem'), s = "upload_failed" => Open(mem')
  PROVE  FaithInv'
<1>1. PICK a \in Authority :
        Save(s, f, a, "putFailed") /\ (a = "prepared" <=> s = "upload_failed")
  BY DEF Fail, LastAuthority, Authority
<1>2. s # "preparing" /\ (s \in UploadRecovery <=> s = "upload_failed")
  BY DEF LastAuthority, UploadRecovery
<1>3. "putFailed" \in PutStates \ UploadPuts
  BY DEF PutStates, UploadPuts
<1> QED BY <1>1, <1>2, <1>3, FaithSaves

LEMMA FaithReconciles ==
  ASSUME FaithInv, UNCHANGED <<cp, options, mem>>, NEW a, ReconciliationRequired(a),
         Known(mem), a = "prepared" => Open(mem)
  PROVE  FaithInv'
<1>1. "putReconcile" \in PutStates \ UploadPuts
      /\ "reconciliation_required" \notin UploadRecovery
  BY DEF PutStates, UploadPuts, UploadRecovery
<1>2. Known(mem') /\ (a = "prepared" => Open(mem')) /\ UNCHANGED <<cp, options>>
  BY DEF Known, Open
<1>3. Save("reconciliation_required", FALSE, a, "putReconcile")
  BY DEF ReconciliationRequired
<1> QED BY <1>1, <1>2, <1>3, FaithSaves

\* The identifiers that the object and the checkpoint share stay shared: the run
\* makes one only where there is none.
LEMMA KnownKept ==
  ASSUME NEW m \in Memories, Known(m)
  PROVE  /\ Known([m EXCEPT !.evidence = OwnId(@)])
         /\ Known([m EXCEPT !.operation = OwnId(@)])
         /\ Known([m EXCEPT !.pending = @ \/ m.bundle = 1, !.closing = OwnId(@)])
BY DEF Known, OwnId, Memories

LEMMA FaithfulStages ==
  ASSUME FaithInv, UNCHANGED <<cp, options>>, NEW m \in Memories, Known(m),
         \/ RunUpload(m) /\ Open(m)
         \/ RunVerification(m)
         \/ RunEvidence(m)
         \/ RunPreservation(m)
         \/ Finalize(m)
  PROVE  FaithInv'
<1>1. CASE RunUpload(m) /\ Open(m)
  <2>1. "putUploading" \in PutStates \cap UploadPuts
    BY DEF PutStates, UploadPuts
  <2>2. mem' = m /\ Save("uploading", FALSE, "prepared", "putUploading")
    BY <1>1 DEF RunUpload
  <2>3. Known(mem') /\ Open(mem')
    BY <1>1, <2>2
  <2> QED BY <2>1, <2>2, <2>3, FaithSaves
<1>2. CASE RunVerification(m)
  BY <1>2, FaithMoves DEF RunVerification, PutStates, UploadPlaces
<1>3. CASE RunEvidence(m)
  BY <1>3, KnownKept, FaithMoves DEF RunEvidence, PutStates, UploadPlaces
<1>4. CASE RunPreservation(m)
  BY <1>4, KnownKept, FaithMoves DEF RunPreservation, PutStates, UploadPlaces
<1>5. CASE Finalize(m)
  BY <1>5, KnownKept, FaithMoves DEF Finalize, PutStates, UploadPlaces
<1> QED BY <1>1, <1>2, <1>3, <1>4, <1>5

\* What every handler of a run starts from.
LEMMA FaithfulRun ==
  ASSUME WordsInv, FaithInv
  PROVE  /\ mem \in Memories /\ Acked \in Memories
         /\ pc \in RunStates \ {"loading"} => Active(pc, final)
         /\ Active(pc, final) => Known(mem) /\ Known(Acked)
         /\ pc \in PutStates /\ answer = "stored" =>
               PutIsFaithful /\ cp.authority = offer.authority /\ cp.status = offer.status
<1>1. mem \in Memories
  BY DEF WordsInv, Sound
<1>2. /\ Acked \in Memories /\ Acked.evidence = mem.evidence
      /\ Acked.operation = mem.operation
  BY <1>1 DEF Acked, Memories
<1>3. pc \in RunStates \ {"loading"} => Active(pc, final)
  BY DEF Active, RunStates, PutStates, EffectStates, ReconcileStates
<1> QED BY <1>1, <1>2, <1>3 DEF FaithInv, Known, PutIsFaithful

LEMMA FaithInApplication == ASSUME WordsInv, FaithInv, Application PROVE FaithInv'
<1>1. CASE Start
  <2>1. Active(pc, final) /\ Open(mem) /\ Known(mem)
    BY <1>1 DEF Start, FaithInv, Active, UploadStatuses
  <2>2. Known(mem') /\ Open(mem') /\ UNCHANGED cp /\ final = FALSE
    BY <1>1, <2>1 DEF Start, Known, Open, FaithInv, WordsInv, WordsAreBacked, TypeOK
  <2> QED BY <1>1, <2>2, FaithMoves DEF Start, Settle, PutStates
<1>2. CASE Crash
  BY <1>2, FaithMoves DEF Crash, Active, PutStates, UploadPlaces
<1>3. CASE Resume
  <2>1. final \in BOOLEAN /\ (status = "preparing" => final = FALSE)
    BY DEF FaithInv, WordsInv, WordsAreBacked, TypeOK
  <2> QED BY <1>3, <2>1, FaithMoves DEF Resume, Settle, Active, PutStates, UploadPlaces
<1>4. CASE Pause \/ CancelUpload \/ CancelDone \/ Cancel
  <2>1. /\ UNCHANGED <<pc, answer, offer, cp, options>>
        /\ mem'.evidence = mem.evidence /\ mem'.operation = mem.operation
        /\ mem'.current = mem.current
        /\ \/ UNCHANGED <<status, final>>
           \/ status' \in {"canceled", "stopped"} /\ final' = TRUE
    BY <1>4 DEF Pause, CancelUpload, CancelDone, Cancel, WordsInv, Sound, Memories
  <2> QED BY <2>1 DEF FaithInv, Active, Known, Open, PutIsFaithful, Has, UploadStatuses
<1>5. CASE Retry
  <2> DEFINE m == [mem EXCEPT !.retrying = TRUE]
             n == [m EXCEPT !.resuming = TRUE]
  <2>1. mem \in Memories /\ Active(pc, final) /\ Known(mem)
    BY <1>5 DEF Retry, FaithInv, Active, WordsInv, Sound
  <2>2. /\ m \in Memories /\ m.evidence = mem.evidence /\ m.operation = mem.operation
        /\ n \in Memories /\ n.evidence = mem.evidence /\ n.operation = mem.operation
        /\ n.current = mem.current
    BY <2>1 DEF Memories
  <2>3. Known(m) /\ Known(n) /\ (Open(mem) => Open(n))
    BY <2>1, <2>2 DEF Known, Open
  <2>4. \/ RunUpload(n) /\ Open(mem)
        \/ RunVerification(m) \/ RunEvidence(m) \/ RunPreservation(m) \/ Finalize(m)
    BY <1>5 DEF Retry, UploadMayBeRetried, FaithInv, UploadStatuses
  <2> HIDE DEF m, n
  <2> QED BY <1>5, <2>2, <2>3, <2>4, FaithfulStages DEF Retry
<1> QED BY <1>1, <1>2, <1>3, <1>4, <1>5 DEF Application

\* A put writes what was offered; afterwards the object waits for its answer.
LEMMA FaithInCallee == ASSUME WordsInv, FaithInv, Callee PROVE FaithInv'
<1>1. CASE ServePut
  <2>1. /\ pc \in PutStates /\ answer' = "stored" /\ PutIsFaithful
        /\ cp'.status = offer.status /\ cp'.authority = offer.authority
        /\ cp'.evidence = mem.evidence /\ cp'.operation = mem.operation
        /\ UNCHANGED <<options, pc, status, final, offer>>
    BY <1>1 DEF ServePut, Checkpoint, FaithInv
  <2>2. /\ mem'.evidence = mem.evidence /\ mem'.operation = mem.operation /\ ~mem'.current
    BY <1>1 DEF ServePut, WordsInv, Sound, Memories
  <2>3. Known(mem)' /\ Open(mem)'
    BY <2>1, <2>2 DEF Known, Open
  <2>4. PutIsFaithful'
    BY <2>1, <2>2, <2>3 DEF PutIsFaithful, Has
  <2> QED BY <2>1, <2>3, <2>4 DEF FaithInv, PutIsFaithful
<1>2. CASE ServeRecord \/ ServeUpload
  <2>1. /\ UNCHANGED <<options, pc, answer, status, final, offer, cp>>
        /\ mem'.evidence = mem.evidence /\ mem'.operation = mem.operation
        /\ mem'.current = mem.current
    BY <1>2 DEF ServeRecord, ServeUpload, WordsInv, Sound, Memories
  <2> QED BY <2>1 DEF FaithInv, Active, Known, Open, PutIsFaithful, Has
<1>3. CASE ServeEvidence \/ ServeFinal \/ ServeHandoff
  <2>1. UNCHANGED <<options, pc, status, final, offer, mem, cp>> /\ pc \notin PutStates
    BY <1>3 DEF ServeEvidence, ServeFinal, ServeHandoff, PutStates
  <2> QED BY <2>1 DEF FaithInv, Active, Known, Open
<1> QED BY <1>1, <1>2, <1>3 DEF Callee

LEMMA FaithInUpload == ASSUME WordsInv, FaithInv, Upload PROVE FaithInv'
<1>. /\ mem \in Memories /\ Acked \in Memories /\ UNCHANGED <<cp, options>>
     /\ UploadPuts \subseteq PutStates /\ "putUploaded" \in PutStates \ UploadPuts
  BY FaithfulRun DEF Upload, Prepared, PreparationFails, PreparedSaved, UploadingSaved,
     UploadingUnsaved, SessionCompletes, SessionStops, SessionFails, PausedSaved,
     PausedUnsaved, UploadedSaved, UploadedUnsaved, UploadPuts, PutStates
<1>0. pc \in RunStates \ {"loading"}
  BY DEF Upload, Prepared, PreparationFails, PreparedSaved, UploadingSaved,
     UploadingUnsaved, SessionCompletes, SessionStops, SessionFails, PausedSaved,
     PausedUnsaved, UploadedSaved, UploadedUnsaved, PutOk, PutFails, RunStates, PutStates
<1>a. Known(mem) /\ Known(Acked) /\ Active(pc, final)
  BY <1>0, FaithfulRun
<1>1. CASE Prepared
  <2>1. Known(mem') /\ Open(mem')
    BY <1>1, <1>a DEF Prepared, FaithInv, UploadPlaces, Known, Open
  <2>2. "putPrepared" \in UploadPuts
    BY DEF UploadPuts
  <2> QED BY <1>1, <2>1, <2>2, FaithSaves DEF Prepared, UploadPuts
<1>2. CASE PreparationFails
  BY <1>2, FaithMoves DEF PreparationFails, GiveUp, Active, PutStates, UploadPlaces
<1>3. CASE PreparedSaved
  <2>1. Open(Acked)
    BY <1>3, FaithfulRun DEF PreparedSaved, PutOk, PutIsFaithful, UploadPuts, Open
  <2> QED BY <1>3, <1>a, <2>1, FaithfulStages DEF PreparedSaved
<1>4. CASE UploadingSaved
  <2>1. Open(mem') /\ Settle("uploading")
    BY <1>4, FaithfulRun DEF UploadingSaved, PutOk, PutIsFaithful, UploadPuts, Open
  <2>2. Known(mem')
    BY <1>4, <1>a DEF UploadingSaved, Acked, Memories, Known
  <2>3. status # "preparing" /\ final \in BOOLEAN
    BY <1>4, FaithfulRun
       DEF UploadingSaved, PutOk, PutIsFaithful, UploadPuts, WordsInv, WordsAreBacked, TypeOK
  <2> QED BY <2>1, <2>2, <2>3, FaithMoves DEF Settle, PutStates
<1>5. CASE UploadingUnsaved
  <2>1. Open(mem)
    BY <1>5 DEF UploadingUnsaved, PutFails, FaithInv, PutIsFaithful, UploadPuts
  <2> QED BY <1>5, <1>a, <2>1, FaithReconciles DEF UploadingUnsaved
<1>6. CASE SessionCompletes
  <2>1. mem' = mem /\ Known(mem') /\ Open(mem')
    BY <1>6, <1>a DEF SessionCompletes, FaithInv, UploadPlaces, Known, Open
  <2>2. CASE Save("uploaded_unverified", FALSE, "uploaded_unverified", "putUploaded")
    BY <2>1, <2>2, FaithSaves DEF UploadRecovery
  <2>3. CASE Fail("upload_failed", TRUE)
    BY <2>1, <2>3, FaithFails DEF LastAuthority
  <2> QED BY <1>6, <2>2, <2>3 DEF SessionCompletes
<1>7. CASE SessionStops
  <2>1. mem' = mem /\ Known(mem') /\ Open(mem')
    BY <1>7, <1>a DEF SessionStops, FaithInv, UploadPlaces, Known, Open
  <2>2. CASE Save("paused", FALSE, "prepared", "putPaused")
    <3>1. "putPaused" \in UploadPuts
      BY DEF UploadPuts
    <3> QED BY <2>1, <2>2, <3>1, FaithSaves
  <2>3. CASE Move("canceled", TRUE, "idle")
    BY <2>3, FaithMoves DEF Active, PutStates, UploadPlaces
  <2> QED BY <1>7, <2>2, <2>3 DEF SessionStops
<1>8. CASE SessionFails
  <2>1. /\ mem'.evidence = mem.evidence /\ mem'.operation = mem.operation
        /\ mem'.current = mem.current
    BY <1>8 DEF SessionFails, Memories
  <2>2. Known(mem') /\ Open(mem')
    BY <1>8, <1>a, <2>1 DEF SessionFails, FaithInv, UploadPlaces, Known, Open
  <2> QED BY <1>8, <2>2, FaithFails DEF SessionFails, LastAuthority
<1>9. CASE PausedSaved
  <2>1. Open(mem') /\ Known(mem') /\ Settle("idle") /\ status # "preparing" /\ final \in BOOLEAN
    BY <1>9, <1>a, FaithfulRun
       DEF PausedSaved, PutOk, PutIsFaithful, UploadPuts, Open, WordsInv, WordsAreBacked, TypeOK
  <2> QED BY <2>1, FaithMoves DEF Settle, PutStates, UploadPlaces
<1>10. CASE PausedUnsaved
  <2>1. Open(mem') /\ Known(mem') /\ status # "preparing" /\ final \in BOOLEAN
    BY <1>10, <1>a DEF PausedUnsaved, PutFails, FaithInv, PutIsFaithful, UploadPuts, Open,
                       Known, WordsInv, WordsAreBacked, TypeOK
  <2>2. Settle("idle") \/ Move("preparation_failed", TRUE, "idle")
    BY <1>10 DEF PausedUnsaved, GiveUp
  <2> QED BY <2>1, <2>2, FaithMoves DEF Settle, PutStates, UploadPlaces
<1>11. CASE UploadedSaved
  BY <1>11, <1>a, FaithfulStages DEF UploadedSaved
<1>12. CASE UploadedUnsaved
  <2>1. Open(mem') /\ Known(mem')
    BY <1>12, <1>a DEF UploadedUnsaved, PutFails, FaithInv, PutIsFaithful, Open, Known
  <2> QED BY <1>12, <2>1, FaithFails DEF UploadedUnsaved, LastAuthority
<1> QED BY <1>1, <1>2, <1>3, <1>4, <1>5, <1>6, <1>7, <1>8, <1>9, <1>10, <1>11, <1>12
        DEF Upload

LEMMA FaithInStages ==
  ASSUME WordsInv, FaithInv, Verification \/ Evidence PROVE FaithInv'
<1>. /\ mem \in Memories /\ Acked \in Memories /\ UNCHANGED <<cp, options>>
     /\ {"putVerified", "putEvidence"} \subseteq PutStates \ UploadPuts
     /\ UploadRecovery \cap {"verified", "evidence_persisted"} = {}
  BY FaithfulRun DEF Verification, VerifierAnswers, VerifierThrows, VerifierUnknown,
     VerifiedSaved, VerifiedUnsaved, Evidence, EvidencePersisted, EvidenceThrows,
     EvidenceNotFound, EvidenceFails, EvidenceSaved, EvidenceUnsaved, Throws, UploadPuts,
     PutStates, UploadRecovery
<1>0. pc \in RunStates \ {"loading"}
  BY DEF Verification, VerifierAnswers, VerifierThrows, VerifierUnknown,
     VerifiedSaved, VerifiedUnsaved, Evidence, EvidencePersisted, EvidenceThrows,
     EvidenceNotFound, EvidenceFails, EvidenceSaved, EvidenceUnsaved, Throws, PutOk,
     PutFails, RunStates, PutStates, EffectStates, ReconcileStates
<1>a. Known(mem) /\ Known(Acked) /\ Active(pc, final)
  BY <1>0, FaithfulRun
<1>b. final \in BOOLEAN /\ (status = "preparing" => final = FALSE)
  BY DEF FaithInv, WordsInv, WordsAreBacked, TypeOK
<1>1. CASE mem' = mem /\ final /\ Settle("idle")
  <2>1. final = TRUE
    BY <1>1, <1>b
  <2> QED BY <1>1, <1>b, <2>1, FaithMoves DEF Settle, Active, PutStates, UploadPlaces
<1>2. CASE mem' = mem /\ \E s \in {"verification_failed", "evidence_persistence_failed"},
                            f \in BOOLEAN : Fail(s, f)
  <2>1. Known(mem')
    BY <1>2, <1>a DEF Known
  <2> QED BY <1>2, <2>1, FaithFails DEF LastAuthority
<1>3. CASE /\ mem' = mem
           /\ \/ Settle("reconcilingVerifier") \/ Settle("reconcilingEvidence")
              \/ ReconciliationRequired("uploaded_unverified")
              \/ ReconciliationRequired("verified")
  <2>1. Known(mem')
    BY <1>3, <1>a DEF Known
  <2>2. CASE Settle("reconcilingVerifier") \/ Settle("reconcilingEvidence")
    BY <1>b, <2>1, <2>2, FaithMoves DEF Settle, PutStates, UploadPlaces
  <2> QED BY <1>3, <1>a, <2>2, FaithReconciles
<1>4. CASE VerifierAnswers
  <2>1. CASE Save("verified", FALSE, "verified", "putVerified")
             /\ mem' = [mem EXCEPT !.verified = TRUE]
    <3>1. Known(mem')
      BY <1>a, <2>1 DEF Memories, Known
    <3> QED BY <2>1, <3>1, FaithSaves
  <2> QED BY <1>1, <1>2, <1>4, <2>1 DEF VerifierAnswers, Unless
<1>5. CASE EvidencePersisted
  <2>1. CASE /\ Save("evidence_persisted", ~Has("preservation"), "evidence_persisted",
                     "putEvidence")
             /\ mem' = [mem EXCEPT !.bundle = 1]
    <3>1. Known(mem')
      BY <1>a, <2>1 DEF Memories, Known
    <3>2. (~Has("preservation")) \in BOOLEAN
          /\ ((~Has("preservation")) = TRUE \/ Has("preservation"))
      BY DEF Has
    <3> QED BY <2>1, <3>1, <3>2, FaithSaves
  <2> QED BY <1>1, <1>5, <2>1 DEF EvidencePersisted, Unless
<1>6. CASE VerifierThrows \/ EvidenceThrows
  BY <1>3, <1>6 DEF VerifierThrows, EvidenceThrows, Throws
<1>7. CASE VerifierUnknown \/ VerifiedUnsaved \/ EvidenceNotFound \/ EvidenceFails
           \/ EvidenceUnsaved
  BY <1>2, <1>7
     DEF VerifierUnknown, VerifiedUnsaved, EvidenceNotFound, EvidenceFails, EvidenceUnsaved
<1>8. CASE VerifiedSaved
  BY <1>8, <1>a, FaithfulStages DEF VerifiedSaved
<1>9. CASE EvidenceSaved
  <2>1. CASE RunPreservation(Acked)
    BY <1>a, <2>1, FaithfulStages
  <2>2. CASE ~Has("preservation") /\ Settle("cleaning") /\ mem' = Acked
    <3>1. final = TRUE /\ Known(mem')
      BY <1>9, <1>a, <1>b, <2>2, FaithfulRun DEF EvidenceSaved, PutOk, PutIsFaithful
    <3> QED BY <2>2, <3>1, <1>b, FaithMoves DEF Settle, PutStates, UploadPlaces
  <2> QED BY <1>9, <2>1, <2>2 DEF EvidenceSaved
<1> QED BY <1>4, <1>5, <1>6, <1>7, <1>8, <1>9 DEF Verification, Evidence

LEMMA FaithInPreservation == ASSUME WordsInv, FaithInv, Preservation PROVE FaithInv'
<1>. /\ mem \in Memories /\ Acked \in Memories /\ UNCHANGED <<cp, options>>
     /\ "putPreserved" \in PutStates \ UploadPuts
     /\ "preserved" \notin UploadRecovery
  BY FaithfulRun DEF Preservation, HandoffAnswered, HandoffAnswers, HandoffThrows,
     HandoffNotFound, HandoffReconcileFails, FinalPersisted, FinalThrows, FinalNotFound,
     FinalFails, PreservedSaved, PreservedUnsaved, CleanedUp, Throws, UploadPuts, PutStates,
     UploadRecovery
<1>0. pc \in RunStates \ {"loading"}
  BY DEF Preservation, HandoffAnswered, HandoffAnswers, HandoffThrows,
     HandoffNotFound, HandoffReconcileFails, FinalPersisted, FinalThrows, FinalNotFound,
     FinalFails, PreservedSaved, PreservedUnsaved, CleanedUp, Throws, PutOk,
     PutFails, RunStates, PutStates, EffectStates, ReconcileStates
<1>a. Known(mem) /\ Known(Acked) /\ Active(pc, final)
  BY <1>0, FaithfulRun
<1>b. final \in BOOLEAN /\ (status = "preparing" => final = FALSE)
  BY DEF FaithInv, WordsInv, WordsAreBacked, TypeOK
<1>1. CASE final /\ Settle("idle")
  <2>1. final = TRUE
    BY <1>1, <1>b
  <2> QED BY <1>1, <1>b, <2>1, FaithMoves DEF Settle, Active, PutStates, UploadPlaces
<1>2. CASE mem' = mem /\ \E s \in {"preservation_failed", "evidence_finalization_failed"},
                            f \in BOOLEAN : Fail(s, f)
  <2>1. Known(mem')
    BY <1>2, <1>a DEF Known
  <2> QED BY <1>2, <2>1, FaithFails DEF LastAuthority
<1>3. CASE /\ mem' = mem
           /\ \/ Settle("reconcilingHandoff") \/ Settle("reconcilingFinal")
              \/ ReconciliationRequired("evidence_persisted")
  <2>1. Known(mem')
    BY <1>3, <1>a DEF Known
  <2>2. CASE Settle("reconcilingHandoff") \/ Settle("reconcilingFinal")
    BY <1>b, <2>1, <2>2, FaithMoves DEF Settle, PutStates, UploadPlaces
  <2> QED BY <1>3, <1>a, <2>2, FaithReconciles
<1>4. CASE HandoffAnswered
  <2>1. PICK r \in Outcome \ {"none"} : HandoffAnswers(r)
    BY <1>4 DEF HandoffAnswered
  <2> DEFINE m == [mem EXCEPT !.outcome = r]
  <2>2. m \in Memories /\ Known(m)
    BY <1>a DEF Memories, Known
  <2>3. \/ final /\ Settle("idle")
        \/ Fail("preservation_failed", FALSE) /\ mem' = m
        \/ Finalize(m)
    BY <2>1 DEF HandoffAnswers
  <2> HIDE DEF m
  <2>4. CASE Fail("preservation_failed", FALSE) /\ mem' = m
    BY <2>2, <2>4, FaithFails DEF LastAuthority
  <2> QED BY <1>1, <2>2, <2>3, <2>4, FaithfulStages
<1>5. CASE FinalPersisted
  <2>1. CASE mem' = [mem EXCEPT !.bundle = 2, !.pending = FALSE]
    <3>1. Known(mem')
      BY <1>a, <2>1 DEF Memories, Known
    <3>2. CASE Save("preserved", TRUE, "preserved", "putPreserved")
      BY <3>1, <3>2, FaithSaves
    <3>3. CASE Fail("preservation_failed", TRUE)
      BY <3>1, <3>3, FaithFails DEF LastAuthority
    <3> QED BY <1>1, <1>5, <3>2, <3>3 DEF FinalPersisted, Unless
  <2> QED BY <1>1, <1>5, <2>1 DEF FinalPersisted, Unless
<1>6. CASE HandoffThrows \/ FinalThrows \/ HandoffReconcileFails
  BY <1>3, <1>6 DEF HandoffThrows, FinalThrows, HandoffReconcileFails, Throws
<1>7. CASE HandoffNotFound \/ FinalNotFound \/ FinalFails \/ PreservedUnsaved
  BY <1>2, <1>7 DEF HandoffNotFound, FinalNotFound, FinalFails, PreservedUnsaved
<1>8. CASE PreservedSaved
  <2>1. final = TRUE /\ mem' = Acked /\ Settle("cleaning")
    BY <1>8, <1>b, FaithfulRun DEF PreservedSaved, PutOk, PutIsFaithful
  <2> QED BY <1>a, <1>b, <2>1, FaithMoves DEF Settle, PutStates, UploadPlaces
<1>9. CASE CleanedUp
  BY <1>1, <1>9 DEF CleanedUp, FaithInv
<1> QED BY <1>4, <1>5, <1>6, <1>7, <1>8, <1>9 DEF Preservation

LEMMA FaithInSettling == ASSUME WordsInv, FaithInv, Settling PROVE FaithInv'
<1>1. /\ UNCHANGED <<cp, options>> /\ pc \in PutStates /\ pc \in RunStates \ {"loading"}
      /\ final \in BOOLEAN
  BY DEF Settling, FailureSaved, FailureUnsaved, ReconciliationSaved, ReconciliationUnsaved,
         PutOk, PutFails, PutStates, RunStates, WordsInv, WordsAreBacked, TypeOK
<1>2. Known(mem) /\ Known(Acked) /\ PutIsFaithful
  BY <1>1, FaithfulRun DEF FaithInv
<1>3. CASE FailureSaved \/ ReconciliationSaved
  <2>1. Open(mem') \/ status \notin UploadStatuses
    BY <1>1, <1>2, <1>3, FaithfulRun
       DEF FailureSaved, ReconciliationSaved, PutOk, PutIsFaithful, UploadStatuses,
           UploadRecovery, Open
  <2>2. status # "preparing" /\ Known(mem') /\ Settle("idle")
    BY <1>2, <1>3 DEF FailureSaved, ReconciliationSaved, PutIsFaithful
  <2> QED BY <1>1, <2>1, <2>2, FaithMoves DEF Settle, PutStates, UploadPlaces
<1>4. CASE FailureUnsaved
  <2>1. Known(mem') /\ Move("reconciliation_required", FALSE, "idle")
    BY <1>2, <1>4 DEF FailureUnsaved, Known
  <2> QED BY <1>1, <2>1, FaithMoves DEF PutStates, UploadPlaces, UploadStatuses
<1>5. CASE ReconciliationUnsaved
  <2>1. Known(mem') /\ Settle("idle") /\ status \notin UploadStatuses
    BY <1>2, <1>5
       DEF ReconciliationUnsaved, PutFails, PutIsFaithful, UploadStatuses, Known
  <2>2. status # "preparing"
    BY <2>1 DEF UploadStatuses
  <2> QED BY <1>1, <2>1, <2>2, FaithMoves DEF Settle, PutStates, UploadPlaces
<1> QED BY <1>3, <1>4, <1>5 DEF Settling

LEMMA FaithInLoading == ASSUME WordsInv, FaithInv, Loading PROVE FaithInv'
<1>1. UNCHANGED <<cp, options>> /\ final \in BOOLEAN
      /\ (status = "preparing" => final = FALSE)
  BY DEF Loading, LoadFails, LoadUnlinked, LoadOk, DossierFound, DossierMissing, FaithInv,
         WordsInv, WordsAreBacked, TypeOK
<1>2. CASE LoadFails \/ LoadUnlinked
  BY <1>1, <1>2, FaithMoves
     DEF LoadFails, LoadUnlinked, GiveUp, Active, PutStates, UploadPlaces
<1>3. CASE LoadOk
  <2> DEFINE n == [Restored EXCEPT !.resuming = TRUE]
  <2>1. Restored \in Memories /\ RestoredVerified \in Memories /\ n \in Memories
    BY <1>3, RestoredIsSound DEF LoadOk, Sound
  <2>2. Known(Restored) /\ Known(RestoredVerified) /\ Known(n)
    BY DEF Restored, RestoredVerified, NoMemory, Known
  <2>3. \/ RunUpload(n) /\ Open(n)
        \/ RunVerification(Restored) \/ RunEvidence(RestoredVerified)
        \/ Fail("verification_failed", TRUE) /\ mem' = Restored
        \/ Fail("evidence_persistence_failed", TRUE) /\ mem' = RestoredVerified
        \/ Settle("fetching") /\ mem' = RestoredVerified
    BY <1>3 DEF LoadOk, FaithInv, Open
  <2> HIDE DEF n
  <2>4. CASE \/ Fail("verification_failed", TRUE) /\ mem' = Restored
             \/ Fail("evidence_persistence_failed", TRUE) /\ mem' = RestoredVerified
    BY <1>1, <2>2, <2>4, FaithFails DEF LastAuthority
  <2>5. CASE Settle("fetching") /\ mem' = RestoredVerified
    BY <1>1, <2>2, <2>5, FaithMoves DEF Settle, PutStates, UploadPlaces
  <2> QED BY <1>1, <2>1, <2>2, <2>3, <2>4, <2>5, FaithfulStages
<1>4. CASE DossierFound
  <2> DEFINE m == [mem EXCEPT !.bundle = cp.revision, !.outcome = cp.outcome]
  <2>1. mem \in Memories /\ Known(mem)
    BY <1>4, FaithfulRun DEF DossierFound, RunStates
  <2>2. cp.revision \in 0 .. 2 /\ cp.outcome \in Outcome
    BY DEF WordsInv, WordsAreBacked, TypeOK, Checkpoints
  <2>3. m \in Memories /\ Known(m)
    BY <2>1, <2>2 DEF Memories, Known
  <2>4. \/ RunPreservation(m) \/ Finalize(m)
        \/ Move("preserved", TRUE, "idle")
        \/ Move("preparation_failed", TRUE, "idle")
    BY <1>4 DEF DossierFound, GiveUp
  <2> HIDE DEF m
  <2>5. CASE Move("preserved", TRUE, "idle") \/ Move("preparation_failed", TRUE, "idle")
    BY <1>1, <2>5, FaithMoves DEF Active, PutStates, UploadPlaces
  <2> QED BY <1>1, <2>3, <2>4, <2>5, FaithfulStages
<1>5. CASE DossierMissing
  <2>1. Known(mem) /\ Known(mem') /\ mem' = mem
    BY <1>5, FaithfulRun DEF DossierMissing, RunStates, Known
  <2> QED BY <1>1, <1>5, <2>1, FaithReconciles, FaithFails DEF DossierMissing, LastAuthority
<1> QED BY <1>2, <1>3, <1>4, <1>5 DEF Loading

LEMMA FaithInit == Init => FaithInv
<1>1. Init => cp.status = "absent" /\ cp.authority = "none" /\ cp.evidence = 0
              /\ cp.operation = 0
  BY DEF Init, NoCheckpoint
<1> QED BY <1>1 DEF Init, FaithInv, Known, Open, PutStates, UploadRecovery

LEMMA FaithNext == WordsInv /\ FaithInv /\ [Next]_vars => FaithInv'
<1> SUFFICES ASSUME WordsInv, FaithInv, [Next]_vars PROVE FaithInv'
  OBVIOUS
<1>1. CASE Run
  BY <1>1, FaithInUpload, FaithInStages, FaithInPreservation, FaithInSettling, FaithInLoading
     DEF Run
<1>2. CASE UNCHANGED vars
  BY <1>2 DEF vars, FaithInv, Active, Known, Open, PutIsFaithful, Has
<1> QED BY <1>1, <1>2, FaithInApplication, FaithInCallee DEF Next

THEOREM FaithInvariant == Spec => []FaithInv
BY WordsInvariant, FaithInit, FaithNext, PTL DEF Spec

\* The steps that StepsKeepFaith allows.
SameEffect ==
    /\ \A e \in Ids : dossiers'[e] # dossiers[e] /\ cp.evidence # 0 => e = cp.evidence
    /\ \A o \in Ids : archive'[o] # archive[o] /\ cp.operation # 0 => o = cp.operation
AuthorityKept == cp.authority \notin {"none", "prepared"} => cp'.authority # "prepared"
StopEnds ==
    final /\ pc \in EffectStates \cup ReconcileStates /\ pc' # pc =>
        pc' \in Settles \cup ReconcileStates

\* An effect is made for the object's identifier, by a run that knows what the
\* checkpoint knows.
LEMMA EffectsAreTheSame == ASSUME WordsInv, FaithInv, Next PROVE SameEffect
<1>1. CASE ServeEvidence \/ ServeFinal
  <2>1. /\ Known(mem) /\ archive' = archive
        /\ dossiers \in [Ids -> {"none", "pending", "preserved", "failed"}]
    BY <1>1, FaithfulRun
       DEF ServeEvidence, ServeFinal, RunStates, EffectStates, WordsInv, WordsAreBacked, TypeOK
  <2>2. \A e \in Ids : dossiers'[e] # dossiers[e] => e = mem.evidence
    BY <1>1, <2>1 DEF ServeEvidence, ServeFinal, sink
  <2> QED BY <2>1, <2>2 DEF SameEffect, Known
<1>2. CASE ServeHandoff
  <2>1. /\ Known(mem) /\ dossiers' = dossiers
        /\ archive \in [Ids -> {"none", "preserved", "failed"}]
    BY <1>2, FaithfulRun
       DEF ServeHandoff, sink, RunStates, EffectStates, WordsInv, WordsAreBacked, TypeOK
  <2>2. \A o \in Ids : archive'[o] # archive[o] => o = mem.operation
    BY <1>2, <2>1 DEF ServeHandoff
  <2> QED BY <2>1, <2>2 DEF SameEffect, Known
<1>3. CASE UNCHANGED <<dossiers, archive>>
  BY <1>3 DEF SameEffect
<1>4. \/ ServeEvidence \/ ServeFinal \/ ServeHandoff
      \/ UNCHANGED <<dossiers, archive>>
  <2>1. CASE Application
    BY <2>1 DEF Application, Start, Crash, Resume, Pause, CancelUpload, CancelDone, Cancel,
                Retry, world, sink
  <2>2. CASE Callee
    BY <2>2 DEF Callee, ServePut, ServeRecord, ServeUpload, world, sink
  <2>3. CASE Upload \/ Settling \/ Loading
    BY <2>3 DEF Upload, Prepared, PreparationFails, PreparedSaved, UploadingSaved,
       UploadingUnsaved, SessionCompletes, SessionStops, SessionFails, PausedSaved,
       PausedUnsaved, UploadedSaved, UploadedUnsaved, Settling, FailureSaved,
       FailureUnsaved, ReconciliationSaved, ReconciliationUnsaved, Loading, LoadFails,
       LoadUnlinked, LoadOk, DossierFound, DossierMissing, world, sink
  <2>4. CASE Verification \/ Evidence
    BY <2>4 DEF Verification, VerifierAnswers, VerifierThrows, VerifierUnknown,
       VerifiedSaved, VerifiedUnsaved, Evidence, EvidencePersisted, EvidenceThrows,
       EvidenceNotFound, EvidenceFails, EvidenceSaved, EvidenceUnsaved, Throws, world, sink
  <2>5. CASE Preservation
    BY <2>5 DEF Preservation, HandoffAnswered, HandoffAnswers, HandoffThrows,
       HandoffNotFound, HandoffReconcileFails, FinalPersisted, FinalThrows, FinalNotFound,
       FinalFails, PreservedSaved, PreservedUnsaved, CleanedUp, Throws, world, sink
  <2> QED BY <2>1, <2>2, <2>3, <2>4, <2>5 DEF Next, Run
<1> QED BY <1>1, <1>2, <1>3, <1>4

\* Only a put writes the checkpoint, and it needs the current revision.
LEMMA AuthorityStays == ASSUME WordsInv, FaithInv, Next PROVE AuthorityKept
<1>1. CASE ServePut
  <2>1. cp'.authority = offer.authority /\ pc \in PutStates /\ mem.current
    BY <1>1 DEF ServePut, Checkpoint, MayPut
  <2> QED BY <2>1 DEF FaithInv, PutIsFaithful, Open, AuthorityKept
<1>2. CASE UNCHANGED cp
  BY <1>2 DEF AuthorityKept
<1>3. ServePut \/ UNCHANGED cp
  <2>1. CASE Application
    BY <2>1 DEF Application, Start, Crash, Resume, Pause, CancelUpload, CancelDone, Cancel,
                Retry
  <2>2. CASE Callee
    BY <2>2 DEF Callee, ServeRecord, ServeUpload, ServeEvidence, ServeFinal, ServeHandoff
  <2>3. CASE Upload \/ Settling \/ Loading
    BY <2>3 DEF Upload, Prepared, PreparationFails, PreparedSaved, UploadingSaved,
       UploadingUnsaved, SessionCompletes, SessionStops, SessionFails, PausedSaved,
       PausedUnsaved, UploadedSaved, UploadedUnsaved, Settling, FailureSaved,
       FailureUnsaved, ReconciliationSaved, ReconciliationUnsaved, Loading, LoadFails,
       LoadUnlinked, LoadOk, DossierFound, DossierMissing
  <2>4. CASE Verification \/ Evidence
    BY <2>4 DEF Verification, VerifierAnswers, VerifierThrows, VerifierUnknown,
       VerifiedSaved, VerifiedUnsaved, Evidence, EvidencePersisted, EvidenceThrows,
       EvidenceNotFound, EvidenceFails, EvidenceSaved, EvidenceUnsaved, Throws
  <2>5. CASE Preservation
    BY <2>5 DEF Preservation, HandoffAnswered, HandoffAnswers, HandoffThrows,
       HandoffNotFound, HandoffReconcileFails, FinalPersisted, FinalThrows, FinalNotFound,
       FinalFails, PreservedSaved, PreservedUnsaved, CleanedUp, Throws
  <2> QED BY <2>1, <2>2, <2>3, <2>4, <2>5 DEF Next, Run
<1> QED BY <1>1, <1>2, <1>3

\* A result that finds the run stopped settles it; a failure or a doubt puts a
\* checkpoint, and nothing else follows.
LEMMA StopsEnd == ASSUME Next PROVE StopEnds
<1> SUFFICES ASSUME final, pc \in EffectStates \cup ReconcileStates, pc' # pc
             PROVE  pc' \in Settles \cup ReconcileStates
  BY DEF StopEnds
<1>1. pc \notin PutStates \cup {"idle", "dead", "preparing", "uploading", "cleaning",
                                "loading", "fetching"}
  BY DEF EffectStates, ReconcileStates, PutStates
<1>2. CASE Application
  BY <1>1, <1>2 DEF Application, Start, Crash, Resume, Pause, CancelUpload, CancelDone,
                    Cancel, Retry, Move, Settles
<1>3. CASE Callee
  BY <1>1, <1>3 DEF Callee, ServePut, ServeRecord, ServeUpload, ServeEvidence, ServeFinal,
                    ServeHandoff
<1>4. CASE Upload \/ Settling \/ Loading
  BY <1>1, <1>4
     DEF Upload, Prepared, PreparationFails, PreparedSaved, UploadingSaved,
       UploadingUnsaved, SessionCompletes, SessionStops, SessionFails, PausedSaved,
       PausedUnsaved, UploadedSaved, UploadedUnsaved, Settling, FailureSaved,
       FailureUnsaved, ReconciliationSaved, ReconciliationUnsaved, Loading, LoadFails,
       LoadUnlinked, LoadOk, DossierFound, DossierMissing, PutOk, PutFails, PutStates
<1>5. CASE Verification \/ Evidence
  BY <1>1, <1>5
     DEF Verification, VerifierAnswers, VerifierThrows, VerifierUnknown,
       VerifiedSaved, VerifiedUnsaved, Evidence, EvidencePersisted, EvidenceThrows,
       EvidenceNotFound, EvidenceFails, EvidenceSaved, EvidenceUnsaved, Throws, Unless,
       PutOk, PutFails, PutStates, Settle, Move, Save, Fail, ReconciliationRequired,
       Settles, ReconcileStates
<1>6. CASE Preservation
  BY <1>1, <1>6
     DEF Preservation, HandoffAnswered, HandoffAnswers, HandoffThrows,
       HandoffNotFound, HandoffReconcileFails, FinalPersisted, FinalThrows, FinalNotFound,
       FinalFails, PreservedSaved, PreservedUnsaved, CleanedUp, Throws, Unless, PutOk,
       PutFails, PutStates, Settle, Move, Save, Fail, ReconciliationRequired, Settles,
       ReconcileStates
<1> QED BY <1>2, <1>3, <1>4, <1>5, <1>6 DEF Next, Run

\* No step repeats an effect under another identity, takes a recorded upload back
\* or goes on after a stop (workflow.ts:412-504, 679-700, 898-941), for any number
\* of deaths and whichever stores fail.
THEOREM FaithIsKept == Spec => StepsKeepFaith
<1>1. WordsInv /\ FaithInv /\ [Next]_vars => [SameEffect]_vars
  BY EffectsAreTheSame
<1>2. WordsInv /\ FaithInv /\ [Next]_vars => [AuthorityKept]_vars
  BY AuthorityStays
<1>3. [Next]_vars => [StopEnds]_vars
  BY StopsEnd
<1>4. Spec => [][SameEffect]_vars
  BY <1>1, WordsInvariant, FaithInvariant, PTL DEF Spec
<1>5. Spec => [][AuthorityKept]_vars
  BY <1>2, WordsInvariant, FaithInvariant, PTL DEF Spec
<1>6. Spec => [][StopEnds]_vars
  BY <1>3, PTL DEF Spec
<1> QED BY <1>4, <1>5, <1>6
        DEF StepsKeepFaith, EffectsKeepTheirIdentity, UploadAuthorityIsKept, StopEndsTheRun,
            SameEffect, AuthorityKept, StopEnds

------------------------------------------------------------------------------
(***************************************************************************)
(* The claims of a finished upload, where the checkpoint store is reliable.*)
(***************************************************************************)

\* The places, the states and the checkpoints that follow a finished upload.
AfterUpload ==
    {"putUploaded", "putVerified", "putEvidence", "putPreserved", "putReconcile", "fetching"}
        \cup EffectStates \cup ReconcileStates
AfterUploadStatus ==
    UploadClaims \cup
    {"verification_failed", "evidence_persistence_failed", "preservation_failed",
     "evidence_finalization_failed"}
Before == UploadRecovery \cup {"absent"}

\* A put that has taken effect is acknowledged.
PutsAreReliable ==
    /\ pc \in PutStates => (mem.current <=> answer = "none")
    /\ pc \notin PutStates => mem.current

\* The inductive invariant behind ClaimsAreTrue.
ClaimsInv ==
    /\ PutsAreReliable
    /\ pc \in AfterUpload \/ status \in AfterUploadStatus => remote
    /\ offer.status \notin Before \/ offer.authority \notin {"none", "prepared"} => remote
    /\ cp.status \notin Before \/ cp.authority \notin {"none", "prepared"} => remote
    /\ pc = "loading" => cp.status # "absent"

LEMMA ClaimsMove ==
  ASSUME ClaimsInv, UNCHANGED <<cp, remote>>, NEW s, NEW f, NEW p, Move(s, f, p),
         p \notin PutStates \cup {"loading"}, mem'.current,
         p \in AfterUpload \/ s \in AfterUploadStatus => remote
  PROVE  ClaimsInv'
<1>1. /\ status' = s /\ pc' = p /\ answer' = "none"
      /\ offer'.status = "absent" /\ offer'.authority = "none"
  BY DEF Move, NoOffer
<1> QED BY <1>1 DEF ClaimsInv, PutsAreReliable, Before

LEMMA ClaimsSave ==
  ASSUME ClaimsInv, UNCHANGED <<cp, remote>>, NEW s, NEW f, NEW p, NEW a, Save(s, f, a, p),
         p \in PutStates, mem'.current,
         \/ remote
         \/ /\ p \notin AfterUpload /\ s \notin AfterUploadStatus
            /\ s \in Before /\ a \in {"none", "prepared"}
  PROVE  ClaimsInv'
<1>1. /\ status' = s /\ pc' = p /\ answer' = "none"
      /\ offer'.status = s /\ offer'.authority = a /\ p # "loading"
  BY DEF Save, PutStates
<1> QED BY <1>1 DEF ClaimsInv, PutsAreReliable

\* A run that goes on after the upload may take any state.
LEMMA ClaimsAfter ==
  ASSUME ClaimsInv, UNCHANGED <<cp, remote>>, NEW s, NEW f, NEW p, mem'.current, remote,
         \/ p \notin PutStates \cup {"loading"} /\ Move(s, f, p)
         \/ p \in PutStates /\ \E a : Save(s, f, a, p)
  PROVE  ClaimsInv'
BY ClaimsMove, ClaimsSave

LEMMA ClaimsFail ==
  ASSUME ClaimsInv, UNCHANGED <<cp, remote>>, NEW s, NEW f, Fail(s, f), mem'.current,
         remote \/ s = "upload_failed"
  PROVE  ClaimsInv'
<1>1. \E a : Save(s, f, a, "putFailed") /\ (s = "upload_failed" => a = "prepared")
  BY DEF Fail, LastAuthority
<1>2. "putFailed" \in PutStates
  BY DEF PutStates
<1>3. /\ "putFailed" \notin AfterUpload /\ "upload_failed" \notin AfterUploadStatus
      /\ "upload_failed" \in Before
  BY DEF AfterUpload, AfterUploadStatus, Before, UploadRecovery, UploadClaims, EffectStates,
         ReconcileStates
<1> QED BY <1>1, <1>2, <1>3, ClaimsSave

LEMMA ClaimsStages ==
  ASSUME ClaimsInv, UNCHANGED <<cp, remote>>, NEW m \in Memories, m.current,
         \/ RunUpload(m)
         \/ /\ remote
            /\ RunVerification(m) \/ RunEvidence(m) \/ RunPreservation(m) \/ Finalize(m)
  PROVE  ClaimsInv'
<1>1. CASE RunUpload(m)
  <2>1. /\ "putUploading" \in PutStates \ AfterUpload
        /\ "uploading" \in Before \ AfterUploadStatus
    BY DEF PutStates, AfterUpload, AfterUploadStatus, Before, UploadRecovery, UploadClaims,
           EffectStates, ReconcileStates
  <2>2. mem'.current /\ Save("uploading", FALSE, "prepared", "putUploading")
    BY <1>1 DEF RunUpload
  <2> QED BY <2>1, <2>2, ClaimsSave
<1>2. CASE remote /\ RunVerification(m)
  BY <1>2, ClaimsMove DEF RunVerification, PutStates
<1>3. CASE remote /\ RunEvidence(m)
  BY <1>3, ClaimsMove DEF RunEvidence, PutStates, Memories
<1>4. CASE remote /\ RunPreservation(m)
  BY <1>4, ClaimsMove DEF RunPreservation, PutStates, Memories
<1>5. CASE remote /\ Finalize(m)
  BY <1>5, ClaimsMove DEF Finalize, PutStates, Memories
<1> QED BY <1>1, <1>2, <1>3, <1>4, <1>5

\* A put that the store takes is acknowledged, and no other put is refused.
LEMMA NoPutFails ==
  ASSUME ~CheckpointFails, ClaimsInv, NEW p \in PutStates PROVE ~PutFails(p)
BY DEF ClaimsInv, PutsAreReliable, PutFails

LEMMA AckedIsCurrent ==
  ASSUME WordsInv PROVE Acked \in Memories /\ Acked.current = TRUE
BY AckedKeeps DEF WordsInv, Sound, Acked, Memories

LEMMA ClaimsInApplication == ASSUME WordsInv, ClaimsInv, Application PROVE ClaimsInv'
<1>. mem \in Memories
  BY DEF WordsInv, Sound
<1>1. CASE Start
  BY <1>1, ClaimsMove
     DEF Start, Settle, ClaimsInv, PutsAreReliable, PutStates, AfterUpload, EffectStates,
         ReconcileStates, world
<1>2. CASE Crash
  BY <1>2, ClaimsMove
     DEF Crash, NoMemory, PutStates, AfterUpload, AfterUploadStatus, UploadClaims,
         EffectStates, ReconcileStates, world
<1>3. CASE Resume
  <2>1. /\ pc' = "loading" /\ mem'.current /\ cp'.status # "absent"
        /\ UNCHANGED <<status, cp, remote>>
        /\ offer'.status = "absent" /\ offer'.authority = "none"
    BY <1>3 DEF Resume, Settle, Move, NoOffer, ClaimsInv, PutsAreReliable, PutStates, world
  <2> QED BY <2>1
          DEF ClaimsInv, PutsAreReliable, PutStates, AfterUpload, EffectStates,
              ReconcileStates, Before
<1>4. CASE Pause \/ CancelUpload \/ CancelDone \/ Cancel
  <2>1. /\ UNCHANGED <<pc, answer, offer, cp, remote>> /\ mem'.current = mem.current
        /\ status' \in {status, "canceled", "stopped"}
    BY <1>4 DEF Pause, CancelUpload, CancelDone, Cancel, Memories, world
  <2> QED BY <2>1 DEF ClaimsInv, PutsAreReliable, AfterUploadStatus, UploadClaims
<1>5. CASE Retry
  <2> DEFINE m == [mem EXCEPT !.retrying = TRUE]
             n == [m EXCEPT !.resuming = TRUE]
  <2>1. mem.current /\ UNCHANGED <<cp, remote>>
    BY <1>5 DEF Retry, ClaimsInv, PutsAreReliable, PutStates, world
  <2>2. m \in Memories /\ m.current /\ n \in Memories /\ n.current
    BY <2>1 DEF Memories
  <2>3. \/ RunUpload(n)
        \/ remote /\ (RunVerification(m) \/ RunEvidence(m) \/ RunPreservation(m) \/ Finalize(m))
    BY <1>5 DEF Retry, ClaimsInv, AfterUploadStatus
  <2> HIDE DEF m, n
  <2> QED BY <2>1, <2>2, <2>3, ClaimsStages
<1> QED BY <1>1, <1>2, <1>3, <1>4, <1>5 DEF Application

LEMMA ClaimsInCallee == ASSUME WordsInv, ClaimsInv, Callee PROVE ClaimsInv'
<1>. mem \in Memories
  BY DEF WordsInv, Sound
<1>1. CASE ServePut
  <2>1. /\ pc \in PutStates /\ answer' = "stored" /\ ~mem'.current
        /\ cp'.status = offer.status /\ cp'.authority = offer.authority
        /\ UNCHANGED <<pc, status, offer, remote>>
    BY <1>1 DEF ServePut, Checkpoint, Memories, world
  <2> QED BY <2>1 DEF ClaimsInv, PutsAreReliable, PutStates
<1>2. CASE ServeRecord \/ ServeUpload
  <2>1. /\ UNCHANGED <<pc, answer, status, offer, cp>> /\ mem'.current = mem.current
        /\ (remote => remote')
    BY <1>2 DEF ServeRecord, ServeUpload, Memories
  <2> QED BY <2>1 DEF ClaimsInv, PutsAreReliable
<1>3. CASE ServeEvidence \/ ServeFinal \/ ServeHandoff
  <2>1. UNCHANGED <<pc, status, offer, mem, cp, remote>> /\ pc \notin PutStates
    BY <1>3 DEF ServeEvidence, ServeFinal, ServeHandoff, PutStates
  <2> QED BY <2>1 DEF ClaimsInv, PutsAreReliable
<1> QED BY <1>1, <1>2, <1>3 DEF Callee

LEMMA ClaimsInUpload ==
  ASSUME ~CheckpointFails, WordsInv, ClaimsInv, Upload PROVE ClaimsInv'
<1>. /\ mem \in Memories /\ UNCHANGED <<cp, remote>>
     /\ {"putPrepared", "putPaused"} \subseteq PutStates \ AfterUpload
     /\ {"prepared", "paused"} \subseteq Before \ AfterUploadStatus
     /\ {"putUploading", "putUploaded"} \subseteq PutStates
     /\ {"idle", "uploading"} \cap (PutStates \cup AfterUpload) = {}
     /\ {"canceled", "preparation_failed"} \cap AfterUploadStatus = {}
  BY DEF WordsInv, Sound, Upload, Prepared, PreparationFails, PreparedSaved, UploadingSaved,
     UploadingUnsaved, SessionCompletes, SessionStops, SessionFails, PausedSaved,
     PausedUnsaved, UploadedSaved, UploadedUnsaved, world, PutStates, AfterUpload, Before,
     UploadRecovery, AfterUploadStatus, UploadClaims, EffectStates, ReconcileStates
<1>1. CASE Prepared
  BY <1>1, ClaimsSave DEF Prepared, ClaimsInv, PutsAreReliable, PutStates
<1>2. CASE PreparationFails
  <2>1. pc = "preparing" /\ mem'.current
    BY <1>2, NoPutFails DEF PreparationFails, ClaimsInv, PutsAreReliable, PutStates
  <2> QED BY <1>2, <2>1, ClaimsMove DEF PreparationFails, GiveUp
<1>3. CASE PreparedSaved
  BY <1>3, AckedIsCurrent, ClaimsStages DEF PreparedSaved
<1>4. CASE UploadingSaved
  <2>1. mem'.current
    BY <1>4 DEF UploadingSaved, Acked, Memories
  <2>2. status \in AfterUploadStatus => remote
    BY DEF ClaimsInv
  <2> QED BY <1>4, <2>1, <2>2, ClaimsMove DEF UploadingSaved, Settle
<1>5. CASE UploadingUnsaved \/ PausedUnsaved \/ UploadedUnsaved
  BY <1>5, NoPutFails DEF UploadingUnsaved, PausedUnsaved, UploadedUnsaved
<1>6. CASE SessionCompletes
  <2>1. mem'.current /\ remote
    BY <1>6 DEF SessionCompletes, ClaimsInv, PutsAreReliable, PutStates
  <2> QED BY <1>6, <2>1, ClaimsSave, ClaimsFail DEF SessionCompletes
<1>7. CASE SessionStops
  <2>1. mem'.current
    BY <1>7 DEF SessionStops, ClaimsInv, PutsAreReliable, PutStates
  <2> QED BY <1>7, <2>1, ClaimsSave, ClaimsMove DEF SessionStops
<1>8. CASE SessionFails
  <2>1. mem'.current
    BY <1>8 DEF SessionFails, Memories, ClaimsInv, PutsAreReliable, PutStates
  <2> QED BY <1>8, <2>1, ClaimsFail DEF SessionFails
<1>9. CASE PausedSaved
  <2>1. mem'.current /\ (status \in AfterUploadStatus => remote)
    BY <1>9, AckedIsCurrent DEF PausedSaved, ClaimsInv
  <2> QED BY <1>9, <2>1, ClaimsMove DEF PausedSaved, Settle
<1>10. CASE UploadedSaved
  <2>1. remote
    BY <1>10 DEF UploadedSaved, PutOk, ClaimsInv, AfterUpload
  <2> QED BY <1>10, <2>1, AckedIsCurrent, ClaimsStages DEF UploadedSaved
<1> QED BY <1>1, <1>2, <1>3, <1>4, <1>5, <1>6, <1>7, <1>8, <1>9, <1>10 DEF Upload

\* After the upload every handler settles, saves, fails or enters a stage; the
\* object stays current, for no put fails.
LEMMA ClaimsInVerification ==
  ASSUME ~CheckpointFails, WordsInv, ClaimsInv, Verification PROVE ClaimsInv'
<1>. /\ mem \in Memories /\ UNCHANGED <<cp, remote>> /\ remote
     /\ {"putVerified", "putReconcile"} \subseteq PutStates
     /\ {"idle", "reconcilingVerifier"} \cap PutStates = {}
  BY DEF WordsInv, Sound, Verification, VerifierAnswers, VerifierThrows, VerifierUnknown,
     VerifiedSaved, VerifiedUnsaved, Throws, PutOk, PutFails, world, PutStates, ClaimsInv,
     AfterUpload, EffectStates, ReconcileStates
<1>1. CASE VerifierAnswers
  <2>1. mem'.current
    BY <1>1 DEF VerifierAnswers, Unless, Memories, ClaimsInv, PutsAreReliable, PutStates
  <2> QED BY <1>1, <2>1, ClaimsAfter, ClaimsFail DEF VerifierAnswers, Unless, Settle
<1>2. CASE VerifierThrows
  <2>1. mem'.current
    BY <1>2 DEF VerifierThrows, Throws, ClaimsInv, PutsAreReliable, PutStates
  <2> QED BY <1>2, <2>1, ClaimsAfter
          DEF VerifierThrows, Throws, Settle, ReconciliationRequired
<1>3. CASE VerifierUnknown
  <2>1. mem'.current
    BY <1>3 DEF VerifierUnknown, ClaimsInv, PutsAreReliable, PutStates
  <2> QED BY <1>3, <2>1, ClaimsFail DEF VerifierUnknown
<1>4. CASE VerifiedSaved
  BY <1>4, AckedIsCurrent, ClaimsStages DEF VerifiedSaved
<1>5. CASE VerifiedUnsaved
  BY <1>5, NoPutFails DEF VerifiedUnsaved
<1> QED BY <1>1, <1>2, <1>3, <1>4, <1>5 DEF Verification

LEMMA ClaimsInEvidence ==
  ASSUME ~CheckpointFails, WordsInv, ClaimsInv, Evidence PROVE ClaimsInv'
<1>. /\ mem \in Memories /\ UNCHANGED <<cp, remote>> /\ remote
     /\ {"putEvidence", "putReconcile"} \subseteq PutStates
     /\ {"idle", "cleaning", "reconcilingEvidence"} \cap PutStates = {}
  BY DEF WordsInv, Sound, Evidence, EvidencePersisted, EvidenceThrows, EvidenceNotFound,
     EvidenceFails, EvidenceSaved, EvidenceUnsaved, Throws, PutOk, PutFails, world,
     PutStates, ClaimsInv, AfterUpload, EffectStates, ReconcileStates
<1>1. CASE EvidencePersisted
  <2>1. mem'.current
    BY <1>1 DEF EvidencePersisted, Unless, Memories, ClaimsInv, PutsAreReliable, PutStates
  <2> QED BY <1>1, <2>1, ClaimsAfter DEF EvidencePersisted, Unless, Settle
<1>2. CASE EvidenceThrows
  <2>1. mem'.current
    BY <1>2 DEF EvidenceThrows, Throws, ClaimsInv, PutsAreReliable, PutStates
  <2> QED BY <1>2, <2>1, ClaimsAfter
          DEF EvidenceThrows, Throws, Settle, ReconciliationRequired
<1>3. CASE EvidenceNotFound \/ EvidenceFails
  <2>1. mem'.current
    BY <1>3 DEF EvidenceNotFound, EvidenceFails, ClaimsInv, PutsAreReliable, PutStates
  <2> QED BY <1>3, <2>1, ClaimsFail DEF EvidenceNotFound, EvidenceFails
<1>4. CASE EvidenceSaved
  BY <1>4, AckedIsCurrent, ClaimsStages, ClaimsAfter DEF EvidenceSaved, Settle
<1>5. CASE EvidenceUnsaved
  BY <1>5, NoPutFails DEF EvidenceUnsaved
<1> QED BY <1>1, <1>2, <1>3, <1>4, <1>5 DEF Evidence

LEMMA ClaimsInPreservation ==
  ASSUME ~CheckpointFails, WordsInv, ClaimsInv, Preservation PROVE ClaimsInv'
<1>. /\ mem \in Memories /\ UNCHANGED <<cp, remote>>
     /\ {"putPreserved", "putReconcile"} \subseteq PutStates
     /\ {"idle", "cleaning", "reconcilingHandoff", "reconcilingFinal"} \cap PutStates = {}
  BY DEF WordsInv, Sound, Preservation, HandoffAnswered, HandoffAnswers, HandoffThrows,
     HandoffNotFound, HandoffReconcileFails, FinalPersisted, FinalThrows, FinalNotFound,
     FinalFails, PreservedSaved, PreservedUnsaved, CleanedUp, Throws, world, PutStates
<1>0. ~CleanedUp => remote
  BY DEF Preservation, HandoffAnswered, HandoffAnswers, HandoffThrows,
     HandoffNotFound, HandoffReconcileFails, FinalPersisted, FinalThrows, FinalNotFound,
     FinalFails, PreservedSaved, PreservedUnsaved, Throws, PutOk, PutFails,
     ClaimsInv, AfterUpload, EffectStates, ReconcileStates
<1>1. CASE HandoffAnswered
  <2>1. PICK r \in Outcome \ {"none"} : HandoffAnswers(r)
    BY <1>1 DEF HandoffAnswered
  <2> DEFINE m == [mem EXCEPT !.outcome = r]
  <2>2. m \in Memories /\ m.current /\ remote
    BY <1>0, <2>1
       DEF HandoffAnswers, Memories, ClaimsInv, PutsAreReliable, PutStates, CleanedUp
  <2>3. \/ Settle("idle") /\ mem' = m
        \/ Fail("preservation_failed", FALSE) /\ mem' = m
        \/ Finalize(m)
    BY <2>1 DEF HandoffAnswers
  <2> HIDE DEF m
  <2> QED BY <2>2, <2>3, ClaimsAfter, ClaimsFail, ClaimsStages DEF Settle
<1>2. CASE HandoffThrows \/ FinalThrows \/ HandoffReconcileFails
  <2>1. mem'.current /\ remote
    BY <1>0, <1>2 DEF HandoffThrows, FinalThrows, HandoffReconcileFails, Throws, ClaimsInv,
                      PutsAreReliable, PutStates, CleanedUp
  <2> QED BY <1>2, <2>1, ClaimsAfter
          DEF HandoffThrows, FinalThrows, HandoffReconcileFails, Throws, Settle,
              ReconciliationRequired
<1>3. CASE HandoffNotFound \/ FinalNotFound \/ FinalFails
  <2>1. mem'.current /\ remote
    BY <1>0, <1>3 DEF HandoffNotFound, FinalNotFound, FinalFails, ClaimsInv,
                      PutsAreReliable, PutStates, CleanedUp
  <2> QED BY <1>3, <2>1, ClaimsFail DEF HandoffNotFound, FinalNotFound, FinalFails
<1>4. CASE FinalPersisted
  <2>1. mem'.current /\ remote
    BY <1>0, <1>4 DEF FinalPersisted, Unless, Memories, ClaimsInv, PutsAreReliable,
                      PutStates, CleanedUp
  <2> QED BY <1>4, <2>1, ClaimsAfter, ClaimsFail DEF FinalPersisted, Unless, Settle
<1>5. CASE PreservedSaved
  <2>1. mem'.current /\ remote
    BY <1>0, <1>5, AckedIsCurrent DEF PreservedSaved, PutOk, CleanedUp
  <2> QED BY <1>5, <2>1, ClaimsAfter DEF PreservedSaved, Settle
<1>6. CASE PreservedUnsaved
  BY <1>6, NoPutFails DEF PreservedUnsaved
<1>7. CASE CleanedUp
  <2>1. mem'.current /\ (status \in AfterUploadStatus => remote) /\ "idle" \notin AfterUpload
    BY <1>7 DEF CleanedUp, ClaimsInv, PutsAreReliable, PutStates, AfterUpload,
                EffectStates, ReconcileStates
  <2> QED BY <1>7, <2>1, ClaimsMove DEF CleanedUp, Settle
<1> QED BY <1>1, <1>2, <1>3, <1>4, <1>5, <1>6, <1>7 DEF Preservation

LEMMA ClaimsInSettling ==
  ASSUME ~CheckpointFails, WordsInv, ClaimsInv, Settling PROVE ClaimsInv'
<1>1. /\ {"putFailed", "putReconcile"} \subseteq PutStates
      /\ "idle" \notin PutStates \cup AfterUpload
  BY DEF PutStates, AfterUpload, EffectStates, ReconcileStates
<1>2. CASE FailureUnsaved \/ ReconciliationUnsaved
  BY <1>1, <1>2, NoPutFails DEF FailureUnsaved, ReconciliationUnsaved
<1>3. CASE FailureSaved \/ ReconciliationSaved
  <2>1. /\ UNCHANGED <<cp, remote>> /\ mem'.current
        /\ Settle("idle") /\ (status \in AfterUploadStatus => remote)
    BY <1>3, AckedIsCurrent DEF FailureSaved, ReconciliationSaved, ClaimsInv, world
  <2> QED BY <1>1, <2>1, ClaimsMove DEF Settle
<1> QED BY <1>2, <1>3 DEF Settling

LEMMA ClaimsInLoading == ASSUME WordsInv, ClaimsInv, Loading PROVE ClaimsInv'
<1>. /\ UNCHANGED <<cp, remote>> /\ mem \in Memories /\ mem.current
     /\ {"idle", "fetching"} \cap PutStates = {} /\ "putReconcile" \in PutStates
     /\ "idle" \notin AfterUpload
     /\ {"preparation_failed", "upload_failed"} \cap AfterUploadStatus = {}
  BY DEF Loading, LoadFails, LoadUnlinked, LoadOk, DossierFound, DossierMissing, world,
         WordsInv, Sound, ClaimsInv, PutsAreReliable, PutStates, AfterUpload,
         AfterUploadStatus, UploadClaims, EffectStates, ReconcileStates
<1>1. CASE LoadFails \/ LoadUnlinked
  BY <1>1, ClaimsMove DEF LoadFails, LoadUnlinked, GiveUp
<1>2. CASE LoadOk
  <2> DEFINE n == [Restored EXCEPT !.resuming = TRUE]
  <2>1. Restored \in Memories /\ RestoredVerified \in Memories /\ n \in Memories
    BY <1>2, RestoredIsSound DEF LoadOk, Sound
  <2>2. Restored.current /\ RestoredVerified.current /\ n.current
    BY DEF Restored, RestoredVerified, NoMemory
  <2>3. \/ RunUpload(n)
        \/ /\ remote
           /\ \/ RunVerification(Restored) \/ RunEvidence(RestoredVerified)
              \/ Fail("verification_failed", TRUE) /\ mem' = Restored
              \/ Fail("evidence_persistence_failed", TRUE) /\ mem' = RestoredVerified
              \/ Settle("fetching") /\ mem' = RestoredVerified
    BY <1>2 DEF LoadOk, ClaimsInv, Before, Unverified, UploadRecovery
  <2> HIDE DEF n
  <2> QED BY <2>1, <2>2, <2>3, ClaimsStages, ClaimsFail, ClaimsAfter DEF Settle
<1>3. CASE DossierFound
  <2> DEFINE m == [mem EXCEPT !.bundle = cp.revision, !.outcome = cp.outcome]
  <2>1. cp.revision \in 0 .. 2 /\ cp.outcome \in Outcome
    BY DEF WordsInv, WordsAreBacked, TypeOK, Checkpoints
  <2>2. m \in Memories /\ m.current /\ remote
    BY <1>3, <2>1 DEF Memories, DossierFound, ClaimsInv, AfterUpload
  <2>3. \/ RunPreservation(m) \/ Finalize(m)
        \/ mem' = m /\ (Move("preserved", TRUE, "idle")
                        \/ Move("preparation_failed", TRUE, "idle"))
    BY <1>3 DEF DossierFound, GiveUp
  <2> HIDE DEF m
  <2> QED BY <2>2, <2>3, ClaimsStages, ClaimsAfter
<1>4. CASE DossierMissing
  <2>1. remote /\ mem' = mem
    BY <1>4 DEF DossierMissing, ClaimsInv, AfterUpload
  <2> QED BY <1>4, <2>1, ClaimsAfter, ClaimsFail DEF DossierMissing, ReconciliationRequired
<1> QED BY <1>1, <1>2, <1>3, <1>4 DEF Loading

LEMMA ClaimsInit == Init => ClaimsInv
BY DEF Init, ClaimsInv, PutsAreReliable, NoMemory, NoOffer, NoCheckpoint, Before,
       PutStates, AfterUpload, AfterUploadStatus, UploadClaims, EffectStates, ReconcileStates

LEMMA ClaimsNext ==
  ASSUME ~CheckpointFails PROVE WordsInv /\ ClaimsInv /\ [Next]_vars => ClaimsInv'
<1> SUFFICES ASSUME WordsInv, ClaimsInv, [Next]_vars PROVE ClaimsInv'
  OBVIOUS
<1>1. CASE Run
  BY <1>1, ClaimsInUpload, ClaimsInVerification, ClaimsInEvidence, ClaimsInPreservation,
     ClaimsInSettling, ClaimsInLoading DEF Run
<1>2. CASE UNCHANGED vars
  BY <1>2 DEF vars, world, ClaimsInv, PutsAreReliable
<1> QED BY <1>1, <1>2, ClaimsInApplication, ClaimsInCallee DEF Next

\* A state or a checkpoint that tells of a finished upload is true, through
\* retries, deaths and a failing recorder, where the checkpoint store does not
\* fail.  Where it does, the process that resumes from "reconciliation_required"
\* takes an upload for finished that is not.
THEOREM ClaimsHold ==
  ASSUME ~CheckpointFails PROVE Spec => []ClaimsAreTrue
<1>1. WordsInv /\ ClaimsInv /\ [Next]_vars => ClaimsInv'
  BY ClaimsNext
<1>2. ClaimsInv => ClaimsAreTrue
  BY DEF ClaimsInv, ClaimsAreTrue, AfterUploadStatus
<1> QED BY <1>1, <1>2, ClaimsInit, WordsInvariant, PTL DEF Spec
==============================================================================
