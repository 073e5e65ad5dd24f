------------------------ MODULE InspectionUploadProofs ------------------------
(***************************************************************************)
(* Proofs about the React coordinator, for any files, records, selections  *)
(* and refreshes: what the panel shows of a run is of that run, and the    *)
(* recovery list is true once every answer is in.                          *)
(***************************************************************************)
EXTENDS InspectionUpload, FiniteSetTheorems, TLAPS

(***************************************************************************)
(* The inductive invariant PanelInv: TypeOK and five more parts.           *)
(***************************************************************************)

\* The types that TypeOK leaves open.
ShapesKept ==
    /\ generation = selections
    /\ revision \in 0 .. MaxRefreshes
    /\ records \in [revision : 0 .. MaxRefreshes, of : SUBSET Record]
    /\ selected \in [revision : 0 .. MaxRefreshes, record : Record \cup {NoRecord}]
    /\ store \subseteq Record
    /\ {runs, verifications, failures, manifest} \subseteq Nat
    /\ verification \in
         [status : {"not_configured", "pending", "verified", "failed", "unavailable"},
          manifest : Nat]
    /\ verifiers \subseteq [number : 1 .. verifications, generation : Nat, manifest : Nat]

\* A session runs only for a selected file, and the status shown is a running one.
RunIsShown ==
    run # "none" => file # NoFile /\ status \in {"validating", "resuming", "uploading", "completing"}

\* The newest call of the verifier is about the manifest shown, as long as it runs.
NewestCallCounts ==
    /\ \A v, w \in verifiers : v.number = w.number => v = w
    /\ \A v \in verifiers : v.number = newest =>
          v.generation = generation /\ v.manifest = manifest /\ verification.status = "pending"
    /\ verification.status = "pending" => \E v \in verifiers : v.number = newest
    /\ verification.status # "not_configured" =>
          status = "completed" /\ verification.manifest = manifest

\* A list of the newest refresh names the records of that refresh; every list in
\* use or in flight is of a refresh that has answered.
OfAnswered(list) ==
    /\ list.revision <= records.revision
    /\ list.revision = records.revision => Listed(list) = records.of

ListsAreAnswered ==
    /\ records.revision <= revision /\ records.revision \notin listings
    /\ OfAnswered(choices)
    /\ \A m \in matchings : OfAnswered(m.choices)

\* A list says of each record it names how it fits the selected file.
IsTrue(list) == \A r \in Listed(list) : list.of[r] = Verdict(r, file)

\* The newest list is true, or its identity is calculated or its comparison made;
\* what is compared for this source is compared with its file.
TruthIsComing ==
    /\ file # NoFile => generation > 0
    /\ \A m \in matchings : m.generation <= generation
    /\ identity # 0 => identity = generation /\ file # NoFile
    /\ \A m \in matchings :
          (m.generation = generation /\ file # NoFile /\ m.choices.revision = records.revision)
             => IsTrue(m.choices)
    /\ (file # NoFile /\ choices.revision = records.revision /\ failures = 0) =>
          \/ IsTrue(choices)
          \/ identity # 0
          \/ \E m \in matchings :
                m.generation = generation /\ m.choices.revision = records.revision

PanelInv ==
    /\ TypeOK /\ ShapesKept /\ RunIsShown /\ NewestCallCounts
    /\ ListsAreAnswered /\ TruthIsComing

------------------------------------------------------------------------------
(***************************************************************************)
(* The lists that the actions make.                                        *)
(***************************************************************************)

LEMMA ClassifiedList ==
    ASSUME TypeOK, ShapesKept
    PROVE  /\ Classified \in Choices
           /\ Classified.revision = choices.revision
           /\ Listed(Classified) = Listed(choices)
           /\ choices.revision = records.revision =>
                 \A r \in Listed(choices) \cap records.of : Classified.of[r] = Verdict(r, file)
<1> DEFINE said == [r \in Record |->
              IF r \in Listed(choices) /\ r \in records.of /\ choices.revision = records.revision
              THEN Verdict(r, file) ELSE choices.of[r]]
<1>1. choices \in Choices /\ choices.of \in [Record -> Verdicts] /\ file \in File \cup {NoFile}
  BY DEF TypeOK, Choices
<1>2. \A r \in Record : Verdict(r, file) \in Verdicts \ {"unlisted"}
  BY DEF Verdict, Verdicts
<1>3. said \in [Record -> Verdicts]
  BY <1>1, <1>2
<1>4. Classified = [choices EXCEPT !.file = file, !.of = said]
  BY DEF Classified
<1>5. \A r \in Record : said[r] # "unlisted" <=> choices.of[r] # "unlisted"
  BY <1>2 DEF Listed
<1> HIDE DEF said
<1>6. Classified \in Choices /\ Classified.of = said /\ Classified.revision = choices.revision
  BY <1>1, <1>3, <1>4 DEF Choices
<1>7. Listed(Classified) = Listed(choices)
  BY <1>5, <1>6 DEF Listed
<1>8. choices.revision = records.revision =>
        \A r \in Listed(choices) \cap records.of : Classified.of[r] = Verdict(r, file)
  BY <1>6 DEF said, Listed
<1> QED BY <1>6, <1>7, <1>8

\* What the store has listed, before the comparison.
Unclassified(n) ==
    [revision |-> n, file |-> NoFile,
     of |-> [r \in Record |-> IF r \in store THEN "awaiting" ELSE "unlisted"]]

LEMMA UnclassifiedList ==
    ASSUME ShapesKept, NEW n \in 0 .. MaxRefreshes
    PROVE  Unclassified(n) \in Choices /\ Listed(Unclassified(n)) = store
<1>1. Unclassified(n) \in Choices
  BY DEF Unclassified, Choices, Verdicts
<1>2. Listed(Unclassified(n)) = store
  BY DEF Unclassified, Listed, ShapesKept
<1> QED BY <1>1, <1>2

\* The list that a removed source leaves.
Undecided ==
    [choices EXCEPT !.file = NoFile, !.of =
        [r \in Record |-> IF r \in Listed(choices) THEN "awaiting" ELSE "unlisted"]]

LEMMA UndecidedList ==
    ASSUME TypeOK
    PROVE  /\ Undecided \in Choices /\ Undecided.revision = choices.revision
           /\ Listed(Undecided) = Listed(choices)
<1> DEFINE said == [r \in Record |-> IF r \in Listed(choices) THEN "awaiting" ELSE "unlisted"]
<1>1. choices \in Choices /\ said \in [Record -> Verdicts]
  BY DEF TypeOK, Verdicts
<1>2. Undecided = [choices EXCEPT !.file = NoFile, !.of = said]
  BY DEF Undecided
<1>3. \A r \in Record : said[r] # "unlisted" <=> r \in Listed(choices)
  OBVIOUS
<1> HIDE DEF said
<1>4. Undecided \in Choices /\ Undecided.of = said /\ Undecided.revision = choices.revision
  BY <1>1, <1>2 DEF Choices
<1> QED BY <1>3, <1>4 DEF Listed

\* The one compatible record that a comparison selects is a compatible one.
LEMMA OnlyOneIsSelected ==
    ASSUME NEW list, NEW r,
           r = IF Cardinality(Compatible(list)) = 1 THEN CHOOSE s \in Compatible(list) : TRUE
               ELSE NoRecord
    PROVE  r # NoRecord => r \in Compatible(list)
<1> SUFFICES ASSUME r # NoRecord PROVE r \in Compatible(list)
  OBVIOUS
<1>1. Cardinality(Compatible(list)) = 1
  OBVIOUS
<1>2. Compatible(list) # {}
  BY <1>1, FS_EmptySet
<1>3. r = CHOOSE s \in Compatible(list) : TRUE
  BY <1>1
<1> QED BY <1>2, <1>3

------------------------------------------------------------------------------
(***************************************************************************)
(* Init, and the phase while a session runs.                               *)
(***************************************************************************)

LEMMA Bounds ==
    /\ MaxSelections \in Nat /\ MaxRefreshes \in Nat /\ MaxRuns \in Nat
    /\ MaxVerifications \in Nat /\ MaxFailures \in Nat
BY InspectionAssumption

LEMMA PanelInit == Init => PanelInv
<1> SUFFICES ASSUME Init PROVE PanelInv
  OBVIOUS
<1> USE Bounds, InspectionAssumption
<1>1. NoChoices \in Choices /\ NoChoices.revision = 0 /\ Listed(NoChoices) = {}
  BY DEF NoChoices, Choices, Verdicts, Listed
<1>2. TypeOK
  <2>1. /\ file \in File \cup {NoFile} /\ generation \in 0 .. MaxSelections /\ run \in Runs
        /\ lifecycle \in {"none", "pause", "cancel"} /\ status \in Statuses
        /\ requested \in {"none", "start", "pause", "resume", "cancel"}
    BY DEF Init, Runs, Statuses
  <2>2. choices \in Choices /\ records.of \subseteq Record
    BY <1>1 DEF Init
  <2>3. selected.record = NoRecord /\ loading \in BOOLEAN
    BY DEF Init
  <2>4. listings \subseteq 1 .. revision /\ newest \in 0 .. verifications
    BY DEF Init
  <2>5. matchings \subseteq [generation : 1 .. MaxSelections, choices : Choices]
    BY DEF Init
  <2> QED BY <2>1, <2>2, <2>3, <2>4, <2>5 DEF TypeOK
<1>3. ShapesKept
  BY DEF Init, ShapesKept, NotConfigured
<1>4. RunIsShown /\ NewestCallCounts
  BY DEF Init, RunIsShown, NewestCallCounts, NotConfigured
<1>5. ListsAreAnswered
  BY <1>1 DEF Init, ListsAreAnswered, OfAnswered
<1>6. TruthIsComing
  BY DEF Init, TruthIsComing
<1> QED BY <1>2, <1>3, <1>4, <1>5, <1>6 DEF PanelInv

LEMMA RunningPhase ==
    ASSUME RunIsShown, run # "none"
    PROVE  Phase \in {"validating", "uploading", "pause_requested", "resuming", "cancel_requested",
                      "completing"}
BY DEF RunIsShown, Phase

LEMMA PhaseOfNoFile == file = NoFile => Phase = "empty"
BY DEF Phase

LEMMA CompletedPhase ==
    ASSUME status = "completed"
    PROVE  Phase \in {"empty", "cancel_requested", "completed"}
BY DEF Phase

LEMMA StartsIdle ==
    ASSUME PanelInv, Start \/ \E r \in Record : Resume(r)
    PROVE  file # NoFile /\ run = "none" /\ status # "completed"
<1>1. Phase \in {"selected", "failed", "canceled", "paused"} /\ run = "none"
  BY DEF Start, Resume, CanStart, CanResume, Launch
<1> QED BY <1>1, PhaseOfNoFile, CompletedPhase

\* The source is changed only while no session runs.
LEMMA ReplacesIdle ==
    ASSUME PanelInv, RemoveSource \/ \E f \in File : SelectFile(f)
    PROVE  run = "none"
BY RunningPhase DEF PanelInv, RemoveSource, SelectFile, CanRemove, CanSelect, Active
------------------------------------------------------------------------------
(***************************************************************************)
(* The actions by what they work on, and what they leave alone.            *)
(***************************************************************************)

\* The recovery list.
Recovering ==
    \/ RefreshRecovery \/ \E r \in Record : Discard(r)
    \/ \E n \in listings : List(n) \/ ListFail(n)
    \/ Identify \/ IdentifyFail \/ \E m \in matchings : Match(m)

\* The source.
Sourcing == RemoveSource \/ \E f \in File : SelectFile(f)

\* The run, up to its end.
Running ==
    \/ Start \/ \E r \in Record : Resume(r)
    \/ Pause \/ Cancel \/ CancelAnswered
    \/ Prepared \/ Uploaded \/ Fail \/ FailUnmarked

\* A run that completes, and the verifiers.
Verifying ==
    \/ Complete \/ RetryVerification
    \/ \E v \in verifiers : \E result \in {"verified", "failed", "unavailable"} :
          VerifierAnswers(v, result)

LEMMA NextGroups == Next => Recovering \/ Sourcing \/ Running \/ Verifying
BY DEF Next, Recovering, Sourcing, Running, Verifying

LEMMA RecoveringFrame == Recovering => UNCHANGED <<selection, controller, requested, checking>>
BY DEF Recovering, RefreshRecovery, Discard, List, ListFail, Identify, IdentifyFail, Match

LEMMA RunningFrame == Running => UNCHANGED <<selection, recovery, checking, store>>
BY DEF Running, Start, Resume, Launch, Pause, Cancel, CancelAnswered, Prepared, Uploaded, Fail,
       FailUnmarked

LEMMA VerifyingFrame == Verifying => UNCHANGED <<selection, recovery, store, failures>>
BY DEF Verifying, Complete, RetryVerification, VerifierAnswers

LEMMA SourcingFrame ==
    Sourcing => UNCHANGED <<records, revision, loading, listings, matchings, store, failures,
                            runs, verifiers, verifications>>
BY DEF Sourcing, RemoveSource, SelectFile, Replace

------------------------------------------------------------------------------
(***************************************************************************)
(* The parts about the run and the verifier.                               *)
(***************************************************************************)

LEMMA RunningStaysShown ==
    ASSUME PanelInv, Next
    PROVE  RunIsShown'
<1>1. CASE Recovering
  BY <1>1, RecoveringFrame DEF PanelInv, RunIsShown, selection, controller
<1>2. CASE Sourcing
  <2>1. run' = "none"
    BY <1>2 DEF Sourcing, RemoveSource, SelectFile, Replace
  <2> QED BY <2>1 DEF RunIsShown
<1>3. CASE Running
  <2>1. UNCHANGED file
    BY <1>3, RunningFrame DEF selection
  <2>2. CASE Start \/ \E r \in Record : Resume(r)
    <3>1. status' \in {"validating", "resuming"} /\ file # NoFile
      BY <2>2, StartsIdle DEF Start, Resume, Launch
    <3> QED BY <2>1, <3>1 DEF RunIsShown
  <2>3. CASE Pause \/ Cancel \/ CancelAnswered
    <3>1. UNCHANGED <<run, status>>
      BY <2>3 DEF Pause, Cancel, CancelAnswered, controller
    <3> QED BY <2>1, <3>1 DEF PanelInv, RunIsShown
  <2>4. CASE Prepared \/ Uploaded
    <3>1. status' \in {"uploading", "completing"} /\ run # "none"
      BY <2>4 DEF Prepared, Uploaded
    <3> QED BY <2>1, <3>1 DEF PanelInv, RunIsShown
  <2>5. CASE Fail \/ FailUnmarked
    BY <2>5 DEF Fail, FailUnmarked, RunIsShown
  <2> QED BY <1>3, <2>2, <2>3, <2>4, <2>5 DEF Running
<1>4. CASE Verifying
  <2>1. CASE Complete
    BY <2>1 DEF Complete, RunIsShown
  <2>2. CASE ~Complete
    <3>1. UNCHANGED <<file, run, status>>
      BY <1>4, <2>2 DEF Verifying, RetryVerification, VerifierAnswers, selection, controller
    <3> QED BY <3>1 DEF PanelInv, RunIsShown
  <2> QED BY <2>1, <2>2
<1> QED BY <1>1, <1>2, <1>3, <1>4, NextGroups

\* A call of the verifier begins, and is the newest.
LEMMA VerifyCounts ==
    ASSUME PanelInv, NEW m \in Nat, Verify(m), status' = "completed", manifest' = m,
           UNCHANGED generation
    PROVE  NewestCallCounts'
<1> DEFINE new == [number |-> verifications + 1, generation |-> generation, manifest |-> m]
<1>1. verifiers' = verifiers \cup {new} /\ newest' = verifications + 1
      /\ verification' = [status |-> "pending", manifest |-> m]
  BY DEF Verify
<1>2. verifications \in Nat /\ \A v \in verifiers : v.number \in 1 .. verifications
  BY DEF PanelInv, ShapesKept
<1>3. \A v \in verifiers : v.number # verifications + 1
  BY <1>2
<1>4. new.number = verifications + 1 /\ new.generation = generation /\ new.manifest = m
  OBVIOUS
<1> HIDE DEF new
<1> QED BY <1>1, <1>3, <1>4 DEF PanelInv, NewestCallCounts

LEMMA NewestStillCounts ==
    ASSUME PanelInv, Next
    PROVE  NewestCallCounts'
<1>1. CASE Recovering
  BY <1>1, RecoveringFrame DEF PanelInv, NewestCallCounts, selection, controller, checking
<1>2. CASE Sourcing
  <2>1. newest' = 0 /\ verification'.status = "not_configured" /\ UNCHANGED verifiers
    BY <1>2 DEF Sourcing, RemoveSource, SelectFile, Replace, NotConfigured
  <2>2. \A v \in verifiers : v.number # 0
    BY DEF PanelInv, ShapesKept
  <2> QED BY <2>1, <2>2 DEF PanelInv, NewestCallCounts
<1>3. CASE Running
  <2>1. UNCHANGED <<generation, manifest, verification, verifiers, newest>>
    BY <1>3, RunningFrame DEF selection, checking
  <2>2. status = "completed" => status' = "completed"
    <3>1. CASE Start \/ \E r \in Record : Resume(r)
      BY <3>1, StartsIdle
    <3>2. CASE Pause \/ Cancel \/ CancelAnswered
      BY <3>2 DEF Pause, Cancel, CancelAnswered, controller
    <3>3. CASE Prepared \/ Uploaded \/ Fail \/ FailUnmarked
      BY <3>3 DEF Prepared, Uploaded, Fail, FailUnmarked, PanelInv, RunIsShown
    <3> QED BY <1>3, <3>1, <3>2, <3>3 DEF Running
  <2> QED BY <2>1, <2>2 DEF PanelInv, NewestCallCounts
<1>4. CASE Verifying
  <2>1. CASE Complete
    BY <2>1, VerifyCounts DEF Complete, selection, PanelInv, ShapesKept
  <2>2. CASE RetryVerification
    <3>1. verification.status # "not_configured" /\ manifest \in Nat
      BY <2>2 DEF RetryVerification, CanRetryVerification, PanelInv, ShapesKept
    <3>2. status = "completed" /\ UNCHANGED <<status, manifest, generation>> /\ Verify(manifest)
      BY <2>2, <3>1 DEF RetryVerification, controller, selection, PanelInv, NewestCallCounts
    <3> QED BY <3>1, <3>2, VerifyCounts
  <2>3. ASSUME NEW v \in verifiers, NEW result \in {"verified", "failed", "unavailable"},
               VerifierAnswers(v, result)
        PROVE  NewestCallCounts'
    <3>1. /\ verifiers' = verifiers \ {v}
          /\ UNCHANGED <<newest, generation, manifest, status>>
      BY <2>3 DEF VerifierAnswers, selection, controller
    <3>2. CASE IsCurrent(v)
      <4>1. verification' = [status |-> result, manifest |-> v.manifest]
        BY <2>3, <3>2 DEF VerifierAnswers
      <4>2. v.manifest = manifest /\ verification.status = "pending" /\ v.number = newest
        BY <3>2 DEF IsCurrent, PanelInv, NewestCallCounts
      <4>3. \A w \in verifiers' : w.number # newest
        BY <3>1, <4>2 DEF PanelInv, NewestCallCounts
      <4> QED BY <3>1, <4>1, <4>2, <4>3 DEF PanelInv, NewestCallCounts
    <3>3. CASE ~IsCurrent(v)
      <4>1. verification' = verification
        BY <2>3, <3>3 DEF VerifierAnswers
      <4>2. v.number # newest
        BY <3>3 DEF IsCurrent, PanelInv, NewestCallCounts
      <4> QED BY <3>1, <4>1, <4>2 DEF PanelInv, NewestCallCounts
    <3> QED BY <3>2, <3>3
  <2> QED BY <1>4, <2>1, <2>2, <2>3 DEF Verifying
<1> QED BY <1>1, <1>2, <1>3, <1>4, NextGroups
------------------------------------------------------------------------------
(***************************************************************************)
(* The parts about the recovery list.                                      *)
(***************************************************************************)

\* What a newest answer of the store makes of the list.
Relisted(n) ==
    /\ n = revision /\ n \in 1 .. MaxRefreshes /\ records.revision < n
    /\ choices' = Unclassified(n) /\ choices'.revision = n
    /\ choices' \in Choices /\ Listed(choices') = store
    /\ records' = [revision |-> n, of |-> store]
    /\ selected' = [revision |-> n, record |-> NoRecord]
    /\ listings' = listings \ {n} /\ loading' = FALSE
    /\ identity' = IF store = {} \/ file = NoFile \/ generation = 0
                   THEN identity ELSE generation
    /\ UNCHANGED <<revision, matchings, store, failures>>

LEMMA NewestAnswer ==
    ASSUME PanelInv, NEW n \in listings, List(n), Newest(n)
    PROVE  Relisted(n)
<1> USE Bounds
<1>1. n = revision /\ n \in 1 .. MaxRefreshes
  BY DEF Newest, PanelInv, TypeOK, ShapesKept
<1>2. records.revision < n
  BY <1>1 DEF PanelInv, ShapesKept, ListsAreAnswered
<1>3. choices' = Unclassified(n) /\ records' = [revision |-> n, of |-> store]
      /\ selected' = [revision |-> n, record |-> NoRecord]
      /\ listings' = listings \ {n} /\ loading' = FALSE
      /\ UNCHANGED <<revision, matchings, store, failures>>
      /\ Classify(IF file = NoFile THEN 0 ELSE generation, store)
  BY DEF List, Unclassified
<1>4. identity' = IF store = {} \/ file = NoFile \/ generation = 0 THEN identity ELSE generation
  BY <1>3 DEF Classify
<1>5. choices' \in Choices /\ Listed(choices') = store
  BY <1>1, <1>3, UnclassifiedList DEF PanelInv
<1>6. choices'.revision = n
  BY <1>3 DEF Unclassified
<1> QED BY <1>1, <1>2, <1>3, <1>4, <1>5, <1>6 DEF Relisted

\* A refresh asks the store again, under a number of its own.
Relisting ==
    /\ revision' = revision + 1 /\ revision' \in 1 .. MaxRefreshes
    /\ listings' = listings \cup {revision + 1} /\ loading' = TRUE
    /\ store' \subseteq store
    /\ UNCHANGED <<choices, records, selected, identity, matchings, failures>>

LEMMA RefreshAsks ==
    ASSUME PanelInv, RefreshRecovery \/ \E r \in Record : Discard(r)
    PROVE  Relisting
<1>1. Refresh /\ store' \subseteq store /\ UNCHANGED failures
  BY DEF RefreshRecovery, Discard
<1> QED BY <1>1, Bounds DEF Refresh, PanelInv, ShapesKept, Relisting

LEMMA ListsStayAnswered ==
    ASSUME PanelInv, Next
    PROVE  ListsAreAnswered'
<1> USE DEF ListsAreAnswered, OfAnswered
<1>0. choices.revision \in Nat /\ records.revision \in Nat /\ revision \in Nat
      /\ \A m \in matchings : m.choices.revision \in Nat /\ m.choices \in Choices
  BY Bounds DEF PanelInv, TypeOK, ShapesKept, Choices
<1>1. CASE RefreshRecovery \/ \E r \in Record : Discard(r)
  <2>1. records.revision # revision + 1 /\ records.revision <= revision + 1
    BY <1>0 DEF PanelInv
  <2> QED BY <1>1, <2>1, RefreshAsks DEF PanelInv, Listed, Relisting
<1>2. ASSUME NEW n \in listings, List(n) PROVE ListsAreAnswered'
  <2>1. CASE ~Newest(n)
    BY <1>2, <2>1 DEF List, PanelInv, Listed
  <2>2. CASE Newest(n)
    <3>1. /\ choices'.revision = n /\ Listed(choices') = store /\ records'.revision = n
          /\ records'.of = store /\ n = revision' /\ n \notin listings'
          /\ records.revision < n /\ matchings' = matchings /\ n \in Nat
      <4>1. Relisted(n)
        BY <1>2, <2>2, NewestAnswer
      <4> QED BY <1>0, <4>1 DEF Relisted
    <3>2. \A m \in matchings : m.choices.revision < n
      BY <1>0, <3>1 DEF PanelInv
    <3> QED BY <1>0, <3>1, <3>2 DEF PanelInv
  <2> QED BY <2>1, <2>2
<1>3. ASSUME NEW n \in listings, ListFail(n) PROVE ListsAreAnswered'
  BY <1>3 DEF ListFail, PanelInv, Listed
<1>4. CASE Identify
  <2>1. /\ matchings' = matchings \cup {[generation |-> identity, choices |-> Classified]}
        /\ UNCHANGED <<choices, records, revision, listings>>
    BY <1>4 DEF Identify
  <2>2. Classified.revision = choices.revision /\ Listed(Classified) = Listed(choices)
    BY ClassifiedList DEF PanelInv
  <2> HIDE DEF OfAnswered
  <2>3. OfAnswered(Classified)
    BY <2>2 DEF OfAnswered, PanelInv
  <2>4. \A list : OfAnswered(list) => OfAnswered(list)'
    BY <2>1 DEF OfAnswered, Listed
  <2>5. \A m \in matchings' : OfAnswered(m.choices)
    BY <2>1, <2>3 DEF PanelInv
  <2> QED BY <2>1, <2>5 DEF OfAnswered, Listed, PanelInv
<1>5. CASE IdentifyFail
  BY <1>5 DEF IdentifyFail, PanelInv, Listed
<1>6. ASSUME NEW m \in matchings, Match(m) PROVE ListsAreAnswered'
  BY <1>6 DEF Match, PanelInv, Listed
<1>7. CASE Sourcing
  <2>1. UNCHANGED <<records, revision, listings, matchings>>
    BY <1>7, SourcingFrame
  <2>2. choices' = choices \/ choices' = Undecided
    BY <1>7 DEF Sourcing, RemoveSource, SelectFile, Undecided
  <2> QED BY <2>1, <2>2, UndecidedList DEF PanelInv, Listed
<1>8. CASE Running \/ Verifying
  BY <1>8, RunningFrame, VerifyingFrame DEF recovery, PanelInv, Listed
<1> QED BY <1>1, <1>2, <1>3, <1>4, <1>5, <1>6, <1>7, <1>8, NextGroups DEF Recovering

LEMMA TruthStillComes ==
    ASSUME PanelInv, Next
    PROVE  TruthIsComing'
<1> USE DEF TruthIsComing, IsTrue
<1>0. /\ generation \in Nat /\ failures \in Nat
      /\ choices.revision \in Nat /\ records.revision \in Nat /\ revision \in Nat
      /\ identity \in Nat
      /\ \A m \in matchings : m.generation \in Nat \ {0} /\ m.choices.revision \in Nat
  BY Bounds DEF PanelInv, TypeOK, ShapesKept, Choices, TruthIsComing
<1>1. CASE RefreshRecovery \/ \E r \in Record : Discard(r)
  <2>1. UNCHANGED <<file, generation, choices, records, identity, matchings, failures>>
    BY <1>1, RefreshAsks, RecoveringFrame DEF Recovering, selection, Relisting
  <2> QED BY <2>1 DEF PanelInv, Listed, Verdict
<1>2. ASSUME NEW n \in listings, List(n) PROVE TruthIsComing'
  <2>0. UNCHANGED <<file, generation, failures, matchings>>
    BY <1>2 DEF List, selection
  <2>1. CASE ~Newest(n)
    <3>1. UNCHANGED <<choices, records, identity>>
      BY <1>2, <2>1 DEF List
    <3> QED BY <2>0, <3>1 DEF PanelInv, Listed, Verdict
  <2>2. CASE Newest(n)
    <3>1. /\ records'.revision = n /\ Listed(choices') = store /\ records.revision < n
          /\ identity' = IF store = {} \/ file = NoFile \/ generation = 0
                         THEN identity ELSE generation
      <4>1. Relisted(n)
        BY <1>2, <2>2, NewestAnswer
      <4> QED BY <4>1 DEF Relisted
    <3>2. \A m \in matchings : m.choices.revision # records'.revision
      BY <1>0, <3>1 DEF PanelInv, ListsAreAnswered, OfAnswered
    <3>3. file # NoFile => IsTrue(choices)' \/ identity' # 0
      BY <2>0, <3>1 DEF PanelInv
    <3> QED BY <2>0, <3>1, <3>2, <3>3 DEF PanelInv
  <2> QED BY <2>1, <2>2
<1>3. ASSUME NEW n \in listings, ListFail(n) PROVE TruthIsComing'
  BY <1>0, <1>3 DEF ListFail, Fault, selection, PanelInv, Listed, Verdict
<1>4. CASE Identify
  <2> DEFINE new == [generation |-> identity, choices |-> Classified]
  <2>1. /\ matchings' = matchings \cup {new} /\ identity' = 0 /\ identity # 0
        /\ UNCHANGED <<file, generation, choices, records, failures>>
    BY <1>4 DEF Identify, selection
  <2>2. /\ Classified.revision = choices.revision /\ Listed(Classified) = Listed(choices)
        /\ choices.revision = records.revision =>
              \A r \in Listed(choices) \cap records.of : Classified.of[r] = Verdict(r, file)
    BY ClassifiedList DEF PanelInv
  <2>3. new.generation = generation /\ new.choices = Classified
    BY <2>1 DEF PanelInv
  <2> HIDE DEF new
  <2>4. choices.revision = records.revision => IsTrue(Classified)
    BY <2>2 DEF PanelInv, ListsAreAnswered, OfAnswered
  <2>5. \A list : IsTrue(list) => IsTrue(list)'
    BY <2>1 DEF Listed, Verdict
  <2> HIDE DEF IsTrue
  <2>6. \A m \in matchings' :
           m.generation = generation /\ file # NoFile /\ m.choices.revision = records.revision
             => IsTrue(m.choices)
    BY <2>1, <2>2, <2>3, <2>4 DEF PanelInv
  <2>7. \A m \in matchings' :
           m.generation = generation' /\ file' # NoFile /\ m.choices.revision = records'.revision
             => IsTrue(m.choices)'
    BY <2>1, <2>6 DEF IsTrue, Listed, Verdict
  <2>8. \A m \in matchings' : m.generation <= generation
    BY <1>0, <2>1, <2>3 DEF PanelInv
  <2> QED BY <2>1, <2>2, <2>3, <2>7, <2>8 DEF PanelInv
<1>5. CASE IdentifyFail
  BY <1>0, <1>5 DEF IdentifyFail, Fault, selection, PanelInv, Listed, Verdict
<1>6. ASSUME NEW m \in matchings, Match(m) PROVE TruthIsComing'
  <2>1. /\ matchings' = matchings \ {m}
        /\ UNCHANGED <<file, generation, records, identity, failures>>
    BY <1>6 DEF Match, selection
  <2>2. CASE OfThisSource(m.generation)
    <3>1. choices' = m.choices
      BY <1>6, <2>2 DEF Match
    <3>2. choices'.revision = records.revision => IsTrue(choices)'
      BY <2>1, <2>2, <3>1 DEF OfThisSource, PanelInv, Listed, Verdict
    <3> QED BY <2>1, <3>1, <3>2 DEF PanelInv, Listed, Verdict
  <2>3. CASE ~OfThisSource(m.generation)
    <3>1. choices' = choices
      BY <1>6, <2>3 DEF Match
    <3> QED BY <2>1, <2>3, <3>1 DEF OfThisSource, PanelInv, Listed, Verdict
  <2> QED BY <2>2, <2>3
<1>7. CASE Sourcing
  <2>1. UNCHANGED <<records, matchings, failures>> /\ generation' = generation + 1
    BY <1>7, SourcingFrame DEF Sourcing, RemoveSource, SelectFile, Replace
  <2>2. \A m \in matchings : m.generation # generation' /\ m.generation <= generation'
    BY <1>0, <2>1 DEF PanelInv
  <2>3. CASE RemoveSource
    <3>1. file' = NoFile /\ identity' = 0
      BY <2>3 DEF RemoveSource, Replace
    <3> QED BY <2>1, <2>2, <3>1
  <2>4. ASSUME NEW f \in File, SelectFile(f) PROVE TruthIsComing'
    <3>1. /\ file' = f /\ f # NoFile /\ choices' = choices
          /\ identity' = IF Listed(choices) = {} THEN 0 ELSE generation + 1
      BY <2>4, InspectionAssumption DEF SelectFile, Replace
    <3>2. Listed(choices)' = Listed(choices)
      BY <3>1 DEF Listed
    <3> QED BY <1>0, <2>1, <2>2, <3>1, <3>2
  <2> QED BY <1>7, <2>3, <2>4 DEF Sourcing
<1>8. CASE Running \/ Verifying
  <2>1. UNCHANGED <<file, generation, choices, records, identity, matchings>>
    BY <1>8, RunningFrame, VerifyingFrame DEF recovery, selection
  <2>2. failures' = 0 => failures = 0
    <3>1. CASE Verifying
      BY <3>1, VerifyingFrame
    <3>2. CASE Running
      BY <1>0, <3>2 DEF Running, Start, Resume, Launch, Pause, Cancel, CancelAnswered, Prepared,
            Uploaded, Fail, FailUnmarked, Fault
    <3> QED BY <1>8, <3>1, <3>2
  <2> QED BY <2>1, <2>2 DEF PanelInv, Listed, Verdict
<1> QED BY <1>1, <1>2, <1>3, <1>4, <1>5, <1>6, <1>7, <1>8, NextGroups DEF Recovering
------------------------------------------------------------------------------
(***************************************************************************)
(* The types, by what each group of actions can disturb.                   *)
(***************************************************************************)

\* The types of the source and of the run.
RunTypes ==
    /\ file \in File \cup {NoFile} /\ generation \in 0 .. MaxSelections /\ generation = selections
    /\ run \in Runs /\ lifecycle \in {"none", "pause", "cancel"} /\ status \in Statuses
    /\ requested \in {"none", "start", "pause", "resume", "cancel"}
    /\ {runs, failures} \subseteq Nat

\* The types of the recovery list.
ListTypes ==
    /\ choices \in Choices /\ records \in [revision : 0 .. MaxRefreshes, of : SUBSET Record]
    /\ selected \in [revision : 0 .. MaxRefreshes, record : Record \cup {NoRecord}]
    /\ selected.record # NoRecord =>
          selected.revision = choices.revision /\ selected.record \in Compatible(choices)
    /\ revision \in 0 .. MaxRefreshes /\ listings \subseteq 1 .. revision
    /\ matchings \subseteq [generation : 1 .. MaxSelections, choices : Choices]
    /\ store \subseteq Record

\* The types of the verification.
CheckTypes ==
    /\ newest \in 0 .. verifications /\ {verifications, manifest} \subseteq Nat
    /\ verification \in
         [status : {"not_configured", "pending", "verified", "failed", "unavailable"},
          manifest : Nat]
    /\ verifiers \subseteq [number : 1 .. verifications, generation : Nat, manifest : Nat]

LEMMA TypesTogether ==
    TypeOK /\ ShapesKept <=> RunTypes /\ ListTypes /\ CheckTypes /\ loading \in BOOLEAN
<1>1. TypeOK /\ ShapesKept => RunTypes /\ CheckTypes /\ loading \in BOOLEAN
  BY DEF TypeOK, ShapesKept, RunTypes, CheckTypes
<1>2. TypeOK /\ ShapesKept => ListTypes
  BY DEF TypeOK, ShapesKept, ListTypes
<1>3. RunTypes /\ ListTypes /\ CheckTypes => ShapesKept
  BY DEF ShapesKept, RunTypes, ListTypes, CheckTypes
<1>4. RunTypes /\ ListTypes /\ CheckTypes /\ loading \in BOOLEAN => TypeOK
  BY DEF TypeOK, RunTypes, ListTypes, CheckTypes
<1> QED BY <1>1, <1>2, <1>3, <1>4

LEMMA TypesTogetherNext ==
    (RunTypes /\ ListTypes /\ CheckTypes /\ loading \in BOOLEAN)' => (TypeOK /\ ShapesKept)'
BY TypesTogether, PTL

LEMMA AnsweredType ==
    ASSUME NEW shown \in Statuses, Answered(shown), RunTypes
    PROVE  requested' \in {"none", "start", "pause", "resume", "cancel"}
BY DEF Answered, RunTypes

LEMMA RunTypesKept ==
    ASSUME PanelInv, Next
    PROVE  RunTypes'
<1>0. RunTypes
  BY TypesTogether DEF PanelInv
<1>1. CASE Recovering
  <2>1. failures' \in Nat
    BY <1>0, <1>1 DEF RunTypes, Recovering, RefreshRecovery, Discard, List, ListFail, Fault, Identify,
          IdentifyFail, Match
  <2> QED BY <1>0, <1>1, <2>1, RecoveringFrame DEF RunTypes, selection, controller
<1>2. CASE Sourcing
  <2>1. file' \in File \cup {NoFile} /\ selections < MaxSelections
    BY <1>2 DEF Sourcing, RemoveSource, SelectFile, Replace
  <2>2. /\ generation' = generation + 1 /\ selections' = selections + 1 /\ run' = "none"
        /\ lifecycle' = "none" /\ status' = "idle" /\ requested' = "none"
        /\ UNCHANGED <<runs, failures>>
    BY <1>2 DEF Sourcing, RemoveSource, SelectFile, Replace
  <2> QED BY <1>0, <2>1, <2>2, Bounds DEF RunTypes, Runs, Statuses
<1>3. CASE Running
  <2>1. UNCHANGED <<file, generation, selections>>
    BY <1>3, RunningFrame DEF selection
  <2>2. CASE Start \/ (\E r \in Record : Resume(r)) \/ Pause \/ Cancel \/ CancelAnswered
             \/ Prepared \/ Uploaded
    BY <1>0, <2>1, <2>2 DEF Start, Resume, Launch, Pause, Cancel, CancelAnswered, Prepared, Uploaded,
          RunTypes, Runs, Statuses, controller
  <2>3. CASE Fail \/ FailUnmarked
    <3>1. status' \in Statuses /\ Answered(status')
      BY <1>0, <2>3 DEF Fail, FailUnmarked, RunTypes, Statuses
    <3>2. run' = "none" /\ UNCHANGED <<lifecycle, runs>> /\ failures' \in {failures, failures + 1}
      BY <2>3 DEF Fail, FailUnmarked, Fault
    <3> QED BY <1>0, <2>1, <3>1, <3>2, AnsweredType DEF RunTypes, Runs
  <2> QED BY <1>3, <2>2, <2>3 DEF Running
<1>4. CASE Verifying
  <2>1. UNCHANGED <<file, generation, selections, failures>>
    BY <1>4, VerifyingFrame DEF selection
  <2>2. CASE Complete
    <3>1. status' = "completed" /\ Answered("completed") /\ run' = "none"
          /\ UNCHANGED <<lifecycle, runs>>
      BY <2>2 DEF Complete
    <3>2. "completed" \in Statuses
      BY DEF Statuses
    <3> QED BY <1>0, <2>1, <3>1, <3>2, AnsweredType DEF RunTypes, Runs
  <2>3. CASE ~Complete
    <3>1. UNCHANGED <<run, lifecycle, status, requested, runs>>
      BY <1>4, <2>3 DEF Verifying, RetryVerification, VerifierAnswers, controller
    <3> QED BY <1>0, <2>1, <3>1 DEF RunTypes
  <2> QED BY <2>2, <2>3
<1> QED BY <1>1, <1>2, <1>3, <1>4, NextGroups

LEMMA ListTypesKept ==
    ASSUME PanelInv, Next
    PROVE  ListTypes'
<1>0. ListTypes
  BY TypesTogether DEF PanelInv
<1>00. generation \in 0 .. MaxSelections /\ (identity # 0 => identity = generation)
  BY DEF PanelInv, TypeOK, TruthIsComing
<1>1. CASE RefreshRecovery \/ \E r \in Record : Discard(r)
  <2>1. Relisting
    BY <1>1, RefreshAsks
  <2>2. listings' \subseteq 1 .. revision' /\ revision' \in 0 .. MaxRefreshes
    BY <1>0, <2>1, Bounds DEF ListTypes, Relisting
  <2> QED BY <1>0, <2>1, <2>2 DEF ListTypes, Compatible, Relisting
<1>2. ASSUME NEW n \in listings, List(n) PROVE ListTypes'
  <2>1. CASE ~Newest(n)
    BY <1>0, <1>2, <2>1 DEF List, ListTypes, Compatible
  <2>2. CASE Newest(n)
    <3>1. Relisted(n)
      BY <1>2, <2>2, NewestAnswer
    <3>2. n \in 0 .. MaxRefreshes
      BY <3>1, Bounds DEF Relisted
    <3> QED BY <1>0, <3>1, <3>2 DEF Relisted, ListTypes
  <2> QED BY <2>1, <2>2
<1>3. ASSUME NEW n \in listings, ListFail(n) PROVE ListTypes'
  BY <1>0, <1>3 DEF ListFail, ListTypes, Compatible
<1>4. CASE Identify
  <2>1. /\ matchings' = matchings \cup {[generation |-> identity, choices |-> Classified]}
        /\ UNCHANGED <<choices, records, selected, revision, listings, store>> /\ identity # 0
    BY <1>4 DEF Identify
  <2>2. Classified \in Choices
    BY ClassifiedList DEF PanelInv
  <2>3. identity \in 1 .. MaxSelections
    BY <1>00, <2>1, Bounds
  <2> QED BY <1>0, <2>1, <2>2, <2>3 DEF ListTypes, Compatible
<1>5. CASE IdentifyFail
  BY <1>0, <1>5 DEF IdentifyFail, ListTypes, Compatible
<1>6. ASSUME NEW m \in matchings, Match(m) PROVE ListTypes'
  <2>1. matchings' = matchings \ {m} /\ UNCHANGED <<records, revision, listings, store>>
    BY <1>6 DEF Match
  <2>2. CASE ~OfThisSource(m.generation)
    <3>1. UNCHANGED <<choices, selected>>
      BY <1>6, <2>2 DEF Match
    <3> QED BY <1>0, <2>1, <3>1 DEF ListTypes, Compatible
  <2>3. CASE OfThisSource(m.generation)
    <3> DEFINE r == IF Cardinality(Compatible(m.choices)) = 1
                    THEN CHOOSE s \in Compatible(m.choices) : TRUE ELSE NoRecord
    <3>1. choices' = m.choices /\ selected' = [revision |-> m.choices.revision, record |-> r]
      BY <1>6, <2>3 DEF Match
    <3>2. r # NoRecord => r \in Compatible(m.choices)
      BY OnlyOneIsSelected
    <3> HIDE DEF r
    <3>3. m.choices \in Choices /\ m.choices.revision \in 0 .. MaxRefreshes
      BY <1>0 DEF ListTypes, Choices
    <3>4. Compatible(m.choices) \subseteq Record
      BY DEF Compatible
    <3>5. Compatible(choices)' = Compatible(m.choices)
      BY <3>1 DEF Compatible
    <3> QED BY <1>0, <2>1, <3>1, <3>2, <3>3, <3>4, <3>5 DEF ListTypes
  <2> QED BY <2>2, <2>3
<1>7. CASE Sourcing
  <2>1. UNCHANGED <<records, revision, listings, matchings, store>>
    BY <1>7, SourcingFrame
  <2>2. CASE RemoveSource
    <3>1. choices' = Undecided /\ selected' = [selected EXCEPT !.record = NoRecord]
      BY <2>2 DEF RemoveSource, Undecided, Deselected
    <3>2. Undecided \in Choices
      BY UndecidedList DEF PanelInv
    <3> QED BY <1>0, <2>1, <3>1, <3>2 DEF ListTypes
  <2>3. CASE \E f \in File : SelectFile(f)
    <3>1. UNCHANGED <<choices, selected>>
      BY <2>3 DEF SelectFile
    <3> QED BY <1>0, <2>1, <3>1 DEF ListTypes, Compatible
  <2> QED BY <1>7, <2>2, <2>3 DEF Sourcing
<1>8. CASE Running \/ Verifying
  BY <1>0, <1>8, RunningFrame, VerifyingFrame DEF recovery, ListTypes, Compatible
<1> QED BY <1>1, <1>2, <1>3, <1>4, <1>5, <1>6, <1>7, <1>8, NextGroups DEF Recovering

LEMMA VerifyTypes ==
    ASSUME CheckTypes, RunTypes, NEW m \in Nat, Verify(m), manifest' = m
    PROVE  CheckTypes'
<1> DEFINE new == [number |-> verifications + 1, generation |-> generation, manifest |-> m]
<1>1. /\ verifiers' = verifiers \cup {new} /\ newest' = verifications + 1
      /\ verifications' = verifications + 1 /\ verification' = [status |-> "pending", manifest |-> m]
  BY DEF Verify
<1>2. verifications \in Nat /\ generation \in Nat
  BY Bounds DEF CheckTypes, RunTypes
<1>3. new \in [number : 1 .. verifications + 1, generation : Nat, manifest : Nat]
  BY <1>2
<1>4. verifiers \subseteq [number : 1 .. verifications + 1, generation : Nat, manifest : Nat]
  BY <1>2 DEF CheckTypes
<1> HIDE DEF new
<1> QED BY <1>1, <1>2, <1>3, <1>4 DEF CheckTypes

LEMMA CheckTypesKept ==
    ASSUME PanelInv, Next
    PROVE  CheckTypes'
<1>0. CheckTypes /\ RunTypes
  BY TypesTogether DEF PanelInv
<1>1. CASE Recovering \/ Running
  BY <1>0, <1>1, RecoveringFrame, RunningFrame DEF CheckTypes, checking
<1>2. CASE Sourcing
  <2>1. /\ manifest' = 0 /\ verification' = NotConfigured /\ newest' = 0
        /\ UNCHANGED <<verifiers, verifications>>
    BY <1>2 DEF Sourcing, RemoveSource, SelectFile, Replace
  <2> QED BY <1>0, <2>1 DEF CheckTypes, NotConfigured
<1>3. CASE Verifying
  <2>1. CASE Complete
    BY <1>0, <2>1, VerifyTypes DEF Complete, RunTypes
  <2>2. CASE RetryVerification
    BY <1>0, <2>2, VerifyTypes DEF RetryVerification, CheckTypes
  <2>3. ASSUME NEW v \in verifiers, NEW result \in {"verified", "failed", "unavailable"},
               VerifierAnswers(v, result)
        PROVE  CheckTypes'
    BY <1>0, <2>3 DEF VerifierAnswers, CheckTypes
  <2> QED BY <1>3, <2>1, <2>2, <2>3 DEF Verifying
<1> QED BY <1>1, <1>2, <1>3, NextGroups

LEMMA LoadingIsBoolean ==
    ASSUME PanelInv, Next
    PROVE  loading' \in BOOLEAN
<1>0. loading \in BOOLEAN
  BY DEF PanelInv, TypeOK
<1>1. CASE RefreshRecovery \/ \E r \in Record : Discard(r)
  BY <1>1, RefreshAsks DEF Relisting
<1>2. ASSUME NEW n \in listings, List(n) PROVE loading' \in BOOLEAN
  BY <1>0, <1>2 DEF List
<1>3. ASSUME NEW n \in listings, ListFail(n) PROVE loading' \in BOOLEAN
  BY <1>3 DEF ListFail
<1>4. CASE ~(\/ RefreshRecovery \/ \E r \in Record : Discard(r)
             \/ \E n \in listings : List(n) \/ ListFail(n))
  <2>1. UNCHANGED loading
    BY <1>4, NextGroups, RunningFrame, VerifyingFrame, SourcingFrame
       DEF Recovering, Identify, IdentifyFail, Match, recovery
  <2> QED BY <1>0, <2>1
<1> QED BY <1>1, <1>2, <1>3, <1>4

------------------------------------------------------------------------------
(***************************************************************************)
(* The theorems.                                                           *)
(***************************************************************************)

LEMMA PanelStutters ==
    ASSUME PanelInv, UNCHANGED vars
    PROVE  PanelInv'
<1> USE DEF vars, selection, controller, recovery, checking
<1>1. TypeOK' /\ ShapesKept'
  BY DEF PanelInv, TypeOK, ShapesKept, Compatible
<1>2. RunIsShown' /\ NewestCallCounts'
  BY DEF PanelInv, RunIsShown, NewestCallCounts
<1>3. ListsAreAnswered' /\ TruthIsComing'
  BY DEF PanelInv, ListsAreAnswered, OfAnswered, TruthIsComing, IsTrue, Listed, Verdict
<1> QED BY <1>1, <1>2, <1>3 DEF PanelInv

\* Types, the run shown, the newest call of the verifier and the answered lists
\* are kept by every step of the panel (coordinator.ts:73-460).
THEOREM PanelIsKept == Spec => []PanelInv
<1>1. PanelInv /\ [Next]_vars => PanelInv'
  <2> SUFFICES ASSUME PanelInv, [Next]_vars PROVE PanelInv'
    OBVIOUS
  <2>1. CASE UNCHANGED vars
    BY <2>1, PanelStutters
  <2>2. CASE Next
    <3>1. TypeOK' /\ ShapesKept'
      BY <2>2, TypesTogetherNext, RunTypesKept, ListTypesKept, CheckTypesKept, LoadingIsBoolean
    <3>2. RunIsShown' /\ NewestCallCounts' /\ ListsAreAnswered' /\ TruthIsComing'
      BY <2>2, RunningStaysShown, NewestStillCounts, ListsStayAnswered, TruthStillComes
    <3> QED BY <3>1, <3>2 DEF PanelInv
  <2> QED BY <2>1, <2>2
<1> QED BY <1>1, PanelInit, PTL DEF Spec

\* No run is left behind by a change of source, and a stored-original verdict on
\* the panel is of the manifest that the shown run completed with, however
\* sources, runs, retries and late verifiers overtake each other
\* (coordinator.ts:108-242, 325-445).
THEOREM PanelShowsThisRun == Spec => []PanelIsOfThisRun
<1>1. PanelInv => PanelIsOfThisRun
  <2> SUFFICES ASSUME PanelInv PROVE PanelIsOfThisRun
    OBVIOUS
  <2>1. NoRunIsLeftBehind
    <3> SUFFICES ASSUME run # "none"
                 PROVE  ~CanSelect /\ ~CanRemove /\ ~CanStart /\ ~CanResume
      BY DEF NoRunIsLeftBehind
    <3> QED BY RunningPhase DEF PanelInv, CanSelect, CanRemove, CanStart, CanResume, Active
  <2>2. VerdictIsOfThisRun
    BY DEF VerdictIsOfThisRun, PanelInv, NewestCallCounts
  <2> QED BY <2>1, <2>2 DEF PanelInv, PanelIsOfThisRun
<1> QED BY <1>1, PanelIsKept, PTL

\* Once every answer is in and none failed, the list is true of the selected file,
\* in whatever order the store, the checksum and the comparisons answered and
\* however often the source was replaced meanwhile (coordinator.ts:244-323).
THEOREM ListBecomesTrue == Spec => []NewestListIsTrue
<1>1. PanelInv => NewestListIsTrue
  BY DEF PanelInv, TruthIsComing, IsTrue, NewestListIsTrue, Quiet
<1> QED BY <1>1, PanelIsKept, PTL
=============================================================================
