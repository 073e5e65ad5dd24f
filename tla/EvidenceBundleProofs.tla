------------------------ MODULE EvidenceBundleProofs ------------------------
(***************************************************************************)
(* What leaves a provenance recorder, and what a workflow builds on it,    *)
(* for every recorder with the limits of BundleAssumption, any codes, ids  *)
(* and policies, and any number of calls, seals, sends and deaths.         *)
(*                                                                         *)
(* First the recorder: each call and event appends at most one entry, and  *)
(* the entries tell the status as long as the recorder was not full        *)
(* (Told).  Then the workflow: a dossier of the sink is a bundle that      *)
(* some process built on its artifact or is not sound (SinkInv), and so is *)
(* what the workflow holds (HoldingInv); of the final revisions in the     *)
(* sink a process built one at most, the one it has (OwnInv).              *)
(***************************************************************************)
EXTENDS EvidenceBundle, FiniteSetTheorems, SequenceTheorems, WellFoundedInduction,
        NaturalsInduction, TLAPS

-----------------------------------------------------------------------------
(***************************************************************************)
(* The bodies of a recorder.                                               *)
(***************************************************************************)
Bodies ==
    [entries : Seq(EntryType), policies : Seq(Results), conflicts : SUBSET Codes,
     resumes : Nat, receipts : Nat, verification : Verdict \cup {"none"},
     derivatives : SUBSET Ids, attestations : SUBSET Ids, terminal : Terminal,
     profile : Disclosure, annotated : BOOLEAN]

Within(b) ==
    /\ Len(b.entries) <= MaxEntries /\ Len(b.policies) <= MaxCodes
    /\ IsFiniteSet(b.attestations) /\ Cardinality(b.attestations) <= MaxAttestations

\* A verdict comes after a completion.
VerdictsAreLate(s) ==
    \A i \in DOMAIN s : s[i] = "verification" =>
        \E j \in DOMAIN s : j < i /\ s[j] = "completion"

\* What the entries of a recorder say, as long as it was not full: they begin as
\* they must, a verdict comes after a completion, and there is one outcome, which
\* is the status.
Told(b) ==
    ~Full(b) =>
        /\ Len(b.entries) >= 2 /\ b.entries[1] = "preparation" /\ b.entries[2] = "validation"
        /\ b.verification # "none" => Has(b, "verification")
        /\ VerdictsAreLate(b.entries)
        /\ \A s, t \in Outcomes(b) : s = t
        /\ ExpectedTerminal(b) = b.terminal

Begins(s, t) == Len(s) <= Len(t) /\ \A i \in 1 .. Len(s) : s[i] = t[i]

\* c has one more entry than b, unless b was full.
Grows(b, c, type) == c.entries = IF Full(b) THEN b.entries ELSE Append(b.entries, type)

Plain == EntryType \ {"completion", "cancellation", "failure", "verification"}

LEMMA EntriesAre ==
    EntryType = {"session_created", "progress_snapshot", "chunk_started", "acknowledgement",
                 "retry", "recovery_available", "resume", "recovery_checkpoint",
                 "recovery_conflict", "recovery_cleanup_failed", "recovery_expired", "pause",
                 "cancellation", "completion", "failure", "preparation", "validation",
                 "verification", "derivative", "attestation", "application_assertion"}
BY DEF EntryType, EntryOf

LEMMA BodyIsOK == ASSUME NEW b \in Bodies, Within(b) PROVE BodyOK(b)
BY DEF Bodies, Within, BodyOK

LEMMA AppendedIs ==
    ASSUME NEW b \in Bodies, Within(b), NEW type \in EntryType
    PROVE  /\ Appended(b, type) \in Bodies /\ Within(Appended(b, type))
           /\ Grows(b, Appended(b, type), type)
           /\ Begins(b.entries, Appended(b, type).entries)
           /\ Appended(b, type).verification = b.verification
           /\ Appended(b, type).terminal = b.terminal
<1>1. CASE Full(b)
  BY <1>1 DEF Appended, Grows, Begins, Bodies
<1>2. CASE ~Full(b)
  <2> DEFINE c == Appended(b, type)
  <2>1. c = [b EXCEPT !.entries = Append(@, type)]
    BY <1>2 DEF Appended
  <2>2. b.entries \in Seq(EntryType) /\ Len(b.entries) \in Nat
    BY DEF Bodies
  <2>3. /\ Append(b.entries, type) \in Seq(EntryType)
        /\ Len(Append(b.entries, type)) = Len(b.entries) + 1
        /\ \A i \in 1 .. Len(b.entries) : Append(b.entries, type)[i] = b.entries[i]
    BY <2>2
  <2>4. c \in Bodies /\ c.entries = Append(b.entries, type)
    BY <2>1, <2>3 DEF Bodies
  <2>5. /\ c.policies = b.policies /\ c.attestations = b.attestations
        /\ c.verification = b.verification /\ c.terminal = b.terminal
    BY <2>1 DEF Bodies
  <2>6. Within(c)
    BY <1>2, <2>2, <2>3, <2>4, <2>5, ProvenanceAssumption DEF Within, Full
  <2> QED BY <1>2, <2>2, <2>3, <2>4, <2>5, <2>6 DEF Grows, Begins
<1> QED BY <1>1, <1>2

\* What entries there are after one more.
LEMMA GrownHas ==
    ASSUME NEW b \in Bodies, NEW c \in Bodies, NEW type \in EntryType, Grows(b, c, type),
           ~Full(c)
    PROVE  /\ ~Full(b)
           /\ Len(c.entries) = Len(b.entries) + 1
           /\ \A i \in 1 .. Len(b.entries) : c.entries[i] = b.entries[i]
           /\ c.entries[Len(b.entries) + 1] = type
           /\ DOMAIN c.entries = 1 .. Len(b.entries) + 1
           /\ DOMAIN b.entries = 1 .. Len(b.entries) /\ Len(b.entries) \in Nat
           /\ \A s : Has(c, s) <=> Has(b, s) \/ s = type
<1>1. b.entries \in Seq(EntryType) /\ Len(b.entries) \in Nat
  BY DEF Bodies
<1>2. ~Full(b)
  BY DEF Grows, Full
<1>3. c.entries = Append(b.entries, type)
  BY <1>2 DEF Grows
<1>4. /\ Len(c.entries) = Len(b.entries) + 1
      /\ \A i \in 1 .. Len(b.entries) : c.entries[i] = b.entries[i]
      /\ c.entries[Len(b.entries) + 1] = type
      /\ DOMAIN c.entries = 1 .. Len(b.entries) + 1
      /\ DOMAIN b.entries = 1 .. Len(b.entries)
  BY <1>1, <1>3
<1>5. ASSUME NEW s PROVE Has(c, s) <=> Has(b, s) \/ s = type
  <2>1. Has(c, s) <=> \E i \in 1 .. Len(b.entries) + 1 : c.entries[i] = s
    BY <1>4 DEF Has, ToSet
  <2>2. Has(b, s) <=> \E i \in 1 .. Len(b.entries) : b.entries[i] = s
    BY <1>4 DEF Has, ToSet
  <2> QED BY <1>1, <1>4, <2>1, <2>2
<1> QED BY <1>1, <1>2, <1>4, <1>5

LEMMA StillLate ==
    ASSUME NEW n \in Nat, NEW s, NEW t, DOMAIN s = 1 .. n, DOMAIN t = 1 .. n + 1,
           \A i \in 1 .. n : t[i] = s[i], VerdictsAreLate(s),
           t[n + 1] = "verification" => \E j \in DOMAIN s : s[j] = "completion"
    PROVE  VerdictsAreLate(t)
<1> SUFFICES ASSUME NEW i \in DOMAIN t, t[i] = "verification"
             PROVE  \E j \in DOMAIN t : j < i /\ t[j] = "completion"
  BY DEF VerdictsAreLate
<1>1. PICK j \in DOMAIN s : j < i /\ s[j] = "completion"
  <2>1. CASE i = n + 1
    BY <2>1
  <2>2. CASE i # n + 1
    <3>1. i \in DOMAIN s /\ s[i] = "verification"
      BY <2>2
    <3> QED BY <3>1 DEF VerdictsAreLate
  <2> QED BY <2>1, <2>2
<1>2. j \in DOMAIN t /\ t[j] = "completion"
  BY <1>1
<1> QED BY <1>1, <1>2

\* One more entry that is no outcome and no verdict.
LEMMA PlainIsTold ==
    ASSUME NEW b \in Bodies, NEW c \in Bodies, NEW type \in Plain, Grows(b, c, type),
           c.verification = b.verification, c.terminal = b.terminal, Told(b)
    PROVE  Told(c)
<1> SUFFICES ASSUME ~Full(c) PROVE Told(c)
  BY DEF Told
<1>0. type \in EntryType /\ type \notin {"completion", "cancellation", "failure", "verification"}
  BY DEF Plain
<1>1. /\ ~Full(b)
      /\ Len(c.entries) = Len(b.entries) + 1
      /\ \A i \in 1 .. Len(b.entries) : c.entries[i] = b.entries[i]
      /\ c.entries[Len(b.entries) + 1] = type
      /\ DOMAIN c.entries = 1 .. Len(b.entries) + 1
      /\ DOMAIN b.entries = 1 .. Len(b.entries) /\ Len(b.entries) \in Nat
      /\ \A s : Has(c, s) <=> Has(b, s) \/ s = type
  BY <1>0, GrownHas
<1>2. /\ Len(b.entries) >= 2 /\ b.entries[1] = "preparation" /\ b.entries[2] = "validation"
      /\ b.verification # "none" => Has(b, "verification")
      /\ VerdictsAreLate(b.entries)
      /\ \A s, t \in Outcomes(b) : s = t
      /\ ExpectedTerminal(b) = b.terminal
  BY <1>1 DEF Told
<1>3. Len(c.entries) >= 2 /\ c.entries[1] = "preparation" /\ c.entries[2] = "validation"
  BY <1>1, <1>2
<1>4. c.verification # "none" => Has(c, "verification")
  BY <1>1, <1>2
<1>5. VerdictsAreLate(c.entries)
  BY <1>0, <1>1, <1>2, StillLate
<1>6. Outcomes(c) = Outcomes(b)
  BY <1>0, <1>1 DEF Outcomes
<1>7. ExpectedTerminal(c) = ExpectedTerminal(b)
  <2>1. \A s \in {"failure", "cancellation", "completion"} : Has(c, s) <=> Has(b, s)
    BY <1>0, <1>1
  <2> QED BY <2>1 DEF ExpectedTerminal
<1> QED BY <1>2, <1>3, <1>4, <1>5, <1>6, <1>7 DEF Told

StatusFor == [completion |-> "completed_unverified", cancellation |-> "canceled",
              failure |-> "upload_failed"]

\* One more outcome, when there is no other.
LEMMA OutcomeIsTold ==
    ASSUME NEW b \in Bodies, NEW c \in Bodies,
           NEW type \in {"completion", "cancellation", "failure"}, Grows(b, c, type),
           b.terminal \in {"active", StatusFor[type]},
           c.verification = b.verification, c.terminal = StatusFor[type], Told(b)
    PROVE  Told(c)
<1> SUFFICES ASSUME ~Full(c) PROVE Told(c)
  BY DEF Told
<1>0. type \in EntryType /\ type # "verification"
  BY EntriesAre
<1>1. /\ ~Full(b)
      /\ Len(c.entries) = Len(b.entries) + 1
      /\ \A i \in 1 .. Len(b.entries) : c.entries[i] = b.entries[i]
      /\ c.entries[Len(b.entries) + 1] = type
      /\ DOMAIN c.entries = 1 .. Len(b.entries) + 1
      /\ DOMAIN b.entries = 1 .. Len(b.entries) /\ Len(b.entries) \in Nat
      /\ \A s : Has(c, s) <=> Has(b, s) \/ s = type
  BY <1>0, GrownHas
<1>2. /\ Len(b.entries) >= 2 /\ b.entries[1] = "preparation" /\ b.entries[2] = "validation"
      /\ b.verification # "none" => Has(b, "verification")
      /\ VerdictsAreLate(b.entries)
      /\ \A s, t \in Outcomes(b) : s = t
      /\ ExpectedTerminal(b) = b.terminal
  BY <1>1 DEF Told
<1>3. Len(c.entries) >= 2 /\ c.entries[1] = "preparation" /\ c.entries[2] = "validation"
  BY <1>1, <1>2
<1>4. c.verification # "none" => Has(c, "verification")
  BY <1>1, <1>2
<1>5. VerdictsAreLate(c.entries)
  BY <1>0, <1>1, <1>2, StillLate
<1>6. Has(b, "verification") => Has(b, "completion")
  BY <1>2 DEF Has, ToSet, VerdictsAreLate
<1>7. b.verification \in {"none", "verified", "failed", "unavailable"}
  BY DEF Bodies, Verdict
<1>8. \A s \in {"completion", "cancellation", "failure"} : Has(b, s) => s = type
  <2>0. StatusOf("verified") = "completed" /\ StatusOf("failed") = "verification_failed"
        /\ StatusOf("unavailable") = "completed_unverified"
    BY DEF StatusOf
  <2>1. CASE b.terminal = "active"
    <3>1. ~Has(b, "failure") /\ ~Has(b, "cancellation") /\ ~Has(b, "completion")
      BY <1>2, <1>7, <2>0, <2>1 DEF ExpectedTerminal
    <3> QED BY <3>1
  <2>2. CASE b.terminal = StatusFor[type]
    <3>1. Has(b, type)
      BY <1>2, <1>7, <2>0, <2>2 DEF ExpectedTerminal, StatusFor
    <3> QED BY <1>2, <3>1 DEF Outcomes
  <2> QED BY <2>1, <2>2
<1>9. \A s, t \in Outcomes(c) : s = t
  BY <1>1, <1>8 DEF Outcomes
<1>10. ExpectedTerminal(c) = c.terminal
  <2>1. \A s \in {"failure", "cancellation", "completion"} : Has(c, s) <=> s = type
    BY <1>1, <1>8
  <2>2. CASE type = "failure"
    BY <2>1, <2>2 DEF ExpectedTerminal, StatusFor
  <2>3. CASE type = "cancellation"
    BY <2>1, <2>3 DEF ExpectedTerminal, StatusFor
  <2>4. CASE type = "completion"
    <3>1. c.verification = "none" \/ StatusOf(c.verification) = "completed_unverified"
      <4>1. CASE b.terminal = "active"
        <5>1. ~Has(b, "completion")
          BY <1>2, <1>7, <4>1 DEF ExpectedTerminal, StatusOf
        <5> QED BY <5>1, <1>2, <1>6
      <4>2. CASE b.terminal = "completed_unverified"
        <5>1. ~Has(b, "failure") /\ ~Has(b, "cancellation")
          BY <1>8, <2>4
        <5>2. Has(b, "completion")
          BY <1>2, <4>2, <5>1 DEF ExpectedTerminal
        <5> QED BY <1>2, <4>2, <5>1, <5>2 DEF ExpectedTerminal
      <4> QED BY <2>4, <4>1, <4>2 DEF StatusFor
    <3>2. ~Has(c, "failure") /\ ~Has(c, "cancellation") /\ Has(c, "completion")
      BY <2>1, <2>4
    <3>3. c.terminal = "completed_unverified"
      BY <2>4 DEF StatusFor
    <3> QED BY <3>1, <3>2, <3>3 DEF ExpectedTerminal
  <2> QED BY <2>2, <2>3, <2>4
<1> QED BY <1>3, <1>4, <1>5, <1>9, <1>10 DEF Told

\* A verdict on an upload that was completed.
LEMMA VerdictIsTold ==
    ASSUME NEW b \in Bodies, NEW c \in Bodies, NEW verdict \in Verdict,
           Grows(b, c, "verification"), MayVerify(b),
           c.verification = verdict, c.terminal = StatusOf(verdict), Told(b)
    PROVE  Told(c)
<1> SUFFICES ASSUME ~Full(c) PROVE Told(c)
  BY DEF Told
<1>0. "verification" \in EntryType
  BY EntriesAre
<1>1. /\ ~Full(b)
      /\ Len(c.entries) = Len(b.entries) + 1
      /\ \A i \in 1 .. Len(b.entries) : c.entries[i] = b.entries[i]
      /\ c.entries[Len(b.entries) + 1] = "verification"
      /\ DOMAIN c.entries = 1 .. Len(b.entries) + 1
      /\ DOMAIN b.entries = 1 .. Len(b.entries) /\ Len(b.entries) \in Nat
      /\ \A s : Has(c, s) <=> Has(b, s) \/ s = "verification"
  BY <1>0, GrownHas
<1>2. /\ Len(b.entries) >= 2 /\ b.entries[1] = "preparation" /\ b.entries[2] = "validation"
      /\ VerdictsAreLate(b.entries)
      /\ \A s, t \in Outcomes(b) : s = t
      /\ ExpectedTerminal(b) = b.terminal
  BY <1>1 DEF Told
<1>3. ~Has(b, "failure") /\ ~Has(b, "cancellation") /\ Has(b, "completion")
  <2>1. b.terminal \notin {"upload_failed", "canceled", "active"}
    BY DEF MayVerify
  <2> QED BY <1>2, <2>1 DEF ExpectedTerminal
<1>4. Len(c.entries) >= 2 /\ c.entries[1] = "preparation" /\ c.entries[2] = "validation"
  BY <1>1, <1>2
<1>5. PICK j \in DOMAIN b.entries : b.entries[j] = "completion"
  BY <1>3 DEF Has, ToSet
<1>6. VerdictsAreLate(c.entries)
  BY <1>1, <1>2, <1>5, StillLate
<1>7. Outcomes(c) = Outcomes(b)
  BY <1>1 DEF Outcomes
<1>8. ~Has(c, "failure") /\ ~Has(c, "cancellation") /\ Has(c, "completion")
  BY <1>1, <1>3
<1>9. c.verification # "none"
  BY DEF Verdict
<1>10. ExpectedTerminal(c) = c.terminal
  BY <1>8, <1>9 DEF ExpectedTerminal
<1>11. Has(c, "verification")
  BY <1>1
<1> QED BY <1>2, <1>4, <1>6, <1>7, <1>10, <1>11 DEF Told

\* A set of naturals that is not empty has a least member.
LEMMA MinIsLeast ==
    ASSUME NEW S \in SUBSET Nat, S # {}
    PROVE  Min(S) \in S /\ \A d \in S : Min(S) <= d
<1> DEFINE R == {ss \in Nat \X Nat : ss[1] < ss[2]}
<1>1. PICK c \in S : \A d \in S : <<d, c>> \notin R
  <2>1. IsWellFoundedOn(R, Nat)
    BY NatLessThanWellFounded, Zenon DEF OpToRel
  <2> HIDE DEF R
  <2> QED BY <2>1, WFMin
<1>2. ASSUME NEW d \in S PROVE c <= d
  <2>1. <<d, c>> \in Nat \X Nat /\ <<d, c>>[1] = d /\ <<d, c>>[2] = c
    OBVIOUS
  <2>2. ~(d < c)
    BY <1>1, <2>1
  <2> QED BY <2>2
<1>3. Min(S) = CHOOSE x \in S : \A y \in S : x <= y
  BY DEF Min
<1> QED BY <1>2, <1>3

\* The first entry of a type.
LEMMA FirstIsFirst ==
    ASSUME NEW b \in Bodies, NEW type, NEW i \in DOMAIN b.entries, b.entries[i] = type
    PROVE  /\ FirstIndex(b, type) \in DOMAIN b.entries
           /\ b.entries[FirstIndex(b, type)] = type
           /\ FirstIndex(b, type) <= i
<1> DEFINE at == {j \in 1 .. Len(b.entries) : b.entries[j] = type}
<1>1. FirstIndex(b, type) = IF at # {} THEN Min(at) ELSE 0
  BY DEF FirstIndex, SelectInSeq
<1>2. DOMAIN b.entries = 1 .. Len(b.entries) /\ Len(b.entries) \in Nat
  BY DEF Bodies
<1>3. at \subseteq Nat /\ i \in at
  BY <1>2
<1>4. Min(at) \in at /\ Min(at) <= i
  <2> HIDE DEF at
  <2> QED BY <1>3, MinIsLeast
<1> QED BY <1>1, <1>2, <1>3, <1>4

LEMMA OneOutcome ==
    ASSUME NEW b, \A s, t \in Outcomes(b) : s = t
    PROVE  Cardinality(Outcomes(b)) <= 1
<1>1. CASE Outcomes(b) = {}
  BY <1>1, FS_EmptySet
<1>2. CASE Outcomes(b) # {}
  <2>1. PICK s \in Outcomes(b) : TRUE
    BY <1>2
  <2>2. Outcomes(b) = {s}
    BY <2>1
  <2>3. Cardinality({s}) = 1
    BY FS_Singleton
  <2> QED BY <2>2, <2>3
<1> QED BY <1>1, <1>2

\* A body that tells its story is one the validator accepts.
LEMMA ToldIsValid ==
    ASSUME NEW a, a.body \in Bodies, Told(a.body), ~Full(a.body), WellShaped(a.body),
           HashAgrees(a)
    PROVE  Validates(a)
<1> DEFINE b == a.body
<1>1. /\ Len(b.entries) >= 2 /\ b.entries[1] = "preparation" /\ b.entries[2] = "validation"
      /\ b.verification # "none" => Has(b, "verification")
      /\ VerdictsAreLate(b.entries)
      /\ \A s, t \in Outcomes(b) : s = t
      /\ ExpectedTerminal(b) = b.terminal
  BY DEF Told
<1>2. TerminalAgrees(b)
  BY <1>1, OneOutcome DEF TerminalAgrees
<1>3. ASSUME b.verification # "none"
      PROVE  Has(b, "completion")
             /\ FirstIndex(b, "verification") > FirstIndex(b, "completion")
  <2>1. PICK i \in DOMAIN b.entries : b.entries[i] = "verification"
    BY <1>1, <1>3 DEF Has, ToSet
  <2> DEFINE v == FirstIndex(b, "verification")
             c == FirstIndex(b, "completion")
  <2>2. v \in DOMAIN b.entries /\ b.entries[v] = "verification"
    BY <2>1, FirstIsFirst
  <2>3. PICK j \in DOMAIN b.entries : j < v /\ b.entries[j] = "completion"
    BY <1>1, <2>2 DEF VerdictsAreLate
  <2>4. c \in DOMAIN b.entries /\ c <= j
    BY <2>3, FirstIsFirst
  <2>5. DOMAIN b.entries = 1 .. Len(b.entries) /\ Len(b.entries) \in Nat
    BY DEF Bodies
  <2>6. Has(b, "completion")
    BY <2>3 DEF Has, ToSet
  <2>7. v \in Nat /\ c \in Nat /\ j \in Nat
    BY <2>2, <2>3, <2>4, <2>5
  <2> HIDE DEF v, c
  <2>8. v > c
    BY <2>3, <2>4, <2>7
  <2> QED BY <2>6, <2>8 DEF v, c
<1>4. WellOrdered(b)
  BY <1>1, <1>3 DEF WellOrdered
<1> QED BY <1>2, <1>4 DEF Validates

-----------------------------------------------------------------------------
(***************************************************************************)
(* What the sessions and the application do to the recorder.               *)
(***************************************************************************)
Follows(b, c) == c \in Bodies /\ Within(c) /\ Told(c) /\ Begins(b.entries, c.entries)

Outcome == {"active", "completed_unverified", "canceled", "upload_failed"}

OutcomeStays(f, b) == IF f = "completed_unverified" THEN MayVerify(b) ELSE b.terminal = f

\* d is b with something changed that no entry tells.
Resembles(b, d) ==
    /\ d \in Bodies /\ Within(d) /\ d.entries = b.entries
    /\ d.verification = b.verification /\ d.terminal = b.terminal

LEMMA SameFollows == ASSUME NEW b \in Bodies, Within(b), Told(b) PROVE Follows(b, b)
<1>1. Len(b.entries) \in Nat
  BY DEF Bodies
<1> QED BY <1>1 DEF Follows, Begins

LEMMA PlainFollows ==
    ASSUME NEW b \in Bodies, Within(b), Told(b), NEW d, Resembles(b, d), NEW type \in Plain
    PROVE  Follows(b, Appended(d, type)) /\ Appended(d, type).terminal = b.terminal
<1> DEFINE c == Appended(d, type)
<1>1. type \in EntryType
  BY DEF Plain
<1>2. /\ d \in Bodies /\ Within(d) /\ d.entries = b.entries
      /\ d.verification = b.verification /\ d.terminal = b.terminal
  BY DEF Resembles
<1>3. /\ c \in Bodies /\ Within(c) /\ Grows(d, c, type) /\ Begins(d.entries, c.entries)
      /\ c.verification = d.verification /\ c.terminal = d.terminal
  BY <1>1, <1>2, AppendedIs
<1> HIDE DEF c
<1>4. Grows(b, c, type) /\ Begins(b.entries, c.entries)
  BY <1>2, <1>3 DEF Grows, Full
<1>5. Told(c)
  BY <1>2, <1>3, <1>4, PlainIsTold
<1> QED BY <1>2, <1>3, <1>4, <1>5 DEF Follows, c

LEMMA Unchanged == ASSUME NEW b \in Bodies, Within(b) PROVE Resembles(b, b)
BY DEF Resembles

LEMMA ConflictResembles ==
    ASSUME NEW b \in Bodies, Within(b), NEW code \in Codes
    PROVE  Resembles(b, [b EXCEPT !.conflicts = @ \cup {code}])
<1> DEFINE d == [b EXCEPT !.conflicts = @ \cup {code}]
<1>1. d \in Bodies
  BY DEF Bodies
<1>2. /\ d.entries = b.entries /\ d.policies = b.policies /\ d.attestations = b.attestations
      /\ d.verification = b.verification /\ d.terminal = b.terminal
  BY DEF Bodies
<1> QED BY <1>1, <1>2 DEF Resembles, Within

LEMMA DerivativeResembles ==
    ASSUME NEW b \in Bodies, Within(b), NEW id \in Ids
    PROVE  Resembles(b, [b EXCEPT !.derivatives = @ \cup {id}])
<1> DEFINE d == [b EXCEPT !.derivatives = @ \cup {id}]
<1>1. d \in Bodies
  BY DEF Bodies
<1>2. /\ d.entries = b.entries /\ d.policies = b.policies /\ d.attestations = b.attestations
      /\ d.verification = b.verification /\ d.terminal = b.terminal
  BY DEF Bodies
<1> QED BY <1>1, <1>2 DEF Resembles, Within

LEMMA CountsResemble ==
    ASSUME NEW b \in Bodies, Within(b)
    PROVE  /\ Resembles(b, [b EXCEPT !.resumes = @ + 1])
           /\ Resembles(b, [b EXCEPT !.receipts = @ + 1])
<1>1. ASSUME NEW d, d = [b EXCEPT !.resumes = @ + 1] PROVE Resembles(b, d)
  <2>1. d \in Bodies
    BY <1>1 DEF Bodies
  <2>2. /\ d.entries = b.entries /\ d.policies = b.policies /\ d.attestations = b.attestations
        /\ d.verification = b.verification /\ d.terminal = b.terminal
    BY <1>1 DEF Bodies
  <2> QED BY <2>1, <2>2 DEF Resembles, Within
<1>2. ASSUME NEW d, d = [b EXCEPT !.receipts = @ + 1] PROVE Resembles(b, d)
  <2>1. d \in Bodies
    BY <1>2 DEF Bodies
  <2>2. /\ d.entries = b.entries /\ d.policies = b.policies /\ d.attestations = b.attestations
        /\ d.verification = b.verification /\ d.terminal = b.terminal
    BY <1>2 DEF Bodies
  <2> QED BY <2>1, <2>2 DEF Resembles, Within
<1> QED BY <1>1, <1>2

LEMMA PolicyResembles ==
    ASSUME NEW b \in Bodies, Within(b), NEW result \in Results, Len(b.policies) < MaxCodes
    PROVE  Resembles(b, [b EXCEPT !.policies = Append(@, result)])
<1> DEFINE d == [b EXCEPT !.policies = Append(@, result)]
<1>1. b.policies \in Seq(Results) /\ Len(b.policies) \in Nat /\ MaxCodes \in Nat
  BY ProvenanceAssumption DEF Bodies
<1>2. Append(b.policies, result) \in Seq(Results)
      /\ Len(Append(b.policies, result)) = Len(b.policies) + 1
  BY <1>1
<1>3. d \in Bodies
  BY <1>2 DEF Bodies
<1>4. /\ d.entries = b.entries /\ d.policies = Append(b.policies, result)
      /\ d.attestations = b.attestations
      /\ d.verification = b.verification /\ d.terminal = b.terminal
  BY DEF Bodies
<1> QED BY <1>1, <1>2, <1>3, <1>4 DEF Resembles, Within

LEMMA AttestationResembles ==
    ASSUME NEW b \in Bodies, Within(b), NEW id \in Ids, id \notin b.attestations,
           Cardinality(b.attestations) < MaxAttestations
    PROVE  Resembles(b, [b EXCEPT !.attestations = @ \cup {id}])
<1> DEFINE d == [b EXCEPT !.attestations = @ \cup {id}]
<1>1. IsFiniteSet(b.attestations) /\ MaxAttestations \in Nat
  BY ProvenanceAssumption DEF Within
<1>2. Cardinality(b.attestations) \in Nat
  BY <1>1, FS_CardinalityType
<1>3. /\ IsFiniteSet(b.attestations \cup {id})
      /\ Cardinality(b.attestations \cup {id}) = Cardinality(b.attestations) + 1
  BY <1>1, FS_AddElement
<1>4. d \in Bodies
  BY DEF Bodies
<1>5. /\ d.entries = b.entries /\ d.policies = b.policies
      /\ d.attestations = b.attestations \cup {id}
      /\ d.verification = b.verification /\ d.terminal = b.terminal
  BY DEF Bodies
<1> QED BY <1>1, <1>2, <1>3, <1>4, <1>5 DEF Resembles, Within

\* An outcome is recorded once, whatever comes later.
LEMMA OutcomeFollows ==
    ASSUME NEW b \in Bodies, Within(b), Told(b), NEW e \in DOMAIN TerminalOf,
           Closes(b, TerminalOf[e])
    PROVE  LET c == Appended([b EXCEPT !.terminal = TerminalOf[e]], EntryOf[e])
           IN  Follows(b, c) /\ c.terminal = TerminalOf[e]
<1> DEFINE d == [b EXCEPT !.terminal = TerminalOf[e]]
           c == Appended(d, EntryOf[e])
<1>1. /\ EntryOf[e] \in {"completion", "cancellation", "failure"}
      /\ StatusFor[EntryOf[e]] = TerminalOf[e]
      /\ TerminalOf[e] \in Terminal
  BY DEF TerminalOf, EntryOf, StatusFor, Terminal
<1>2. EntryOf[e] \in EntryType
  BY <1>1, EntriesAre
<1>3. d \in Bodies
  BY <1>1 DEF Bodies
<1>4. /\ d.entries = b.entries /\ d.policies = b.policies /\ d.attestations = b.attestations
      /\ d.verification = b.verification /\ d.terminal = TerminalOf[e]
  BY DEF Bodies
<1>5. Within(d)
  BY <1>4 DEF Within
<1>6. /\ c \in Bodies /\ Within(c) /\ Grows(d, c, EntryOf[e]) /\ Begins(d.entries, c.entries)
      /\ c.verification = d.verification /\ c.terminal = d.terminal
  BY <1>2, <1>3, <1>5, AppendedIs
<1> HIDE DEF c
<1>7. Grows(b, c, EntryOf[e]) /\ Begins(b.entries, c.entries)
  BY <1>4, <1>6 DEF Grows, Full
<1>8. b.terminal \in {"active", StatusFor[EntryOf[e]]}
  BY <1>1 DEF Closes
<1>9. c.verification = b.verification /\ c.terminal = StatusFor[EntryOf[e]]
  BY <1>1, <1>4, <1>6
<1>10. Told(c)
  BY <1>1, <1>6, <1>7, <1>8, <1>9, OutcomeIsTold
<1>11. Follows(b, c) /\ c.terminal = TerminalOf[e]
  BY <1>4, <1>6, <1>7, <1>10 DEF Follows
<1> QED BY <1>11 DEF c

LEMMA VerdictFollows ==
    ASSUME NEW b \in Bodies, Within(b), Told(b), NEW verdict \in Verdict, MayVerify(b)
    PROVE  LET c == Appended([b EXCEPT !.verification = verdict,
                                       !.terminal = StatusOf(verdict)], "verification")
           IN  Follows(b, c) /\ MayVerify(c)
<1> DEFINE d == [b EXCEPT !.verification = verdict, !.terminal = StatusOf(verdict)]
           c == Appended(d, "verification")
<1>1. StatusOf(verdict) \in {"completed", "verification_failed", "completed_unverified"}
  BY DEF StatusOf, Verdict
<1>2. "verification" \in EntryType
  BY EntriesAre
<1>3. d \in Bodies
  BY <1>1 DEF Bodies, Terminal
<1>4. /\ d.entries = b.entries /\ d.policies = b.policies /\ d.attestations = b.attestations
      /\ d.verification = verdict /\ d.terminal = StatusOf(verdict)
  BY DEF Bodies
<1>5. Within(d)
  BY <1>4 DEF Within
<1>6. /\ c \in Bodies /\ Within(c) /\ Grows(d, c, "verification")
      /\ Begins(d.entries, c.entries)
      /\ c.verification = d.verification /\ c.terminal = d.terminal
  BY <1>2, <1>3, <1>5, AppendedIs
<1> HIDE DEF c
<1>7. Grows(b, c, "verification") /\ Begins(b.entries, c.entries)
  BY <1>4, <1>6 DEF Grows, Full
<1>8. Told(c)
  BY <1>4, <1>6, <1>7, VerdictIsTold
<1>9. Follows(b, c) /\ MayVerify(c)
  BY <1>1, <1>4, <1>6, <1>7, <1>8 DEF Follows, MayVerify
<1> QED BY <1>9 DEF c

LEMMA ObservedFollows ==
    ASSUME NEW b \in Bodies, Within(b), Told(b), NEW e \in DOMAIN EntryOf,
           NEW f \in Outcome, OutcomeStays(f, b)
    PROVE  /\ Follows(b, Observed(b, e))
           /\ f = "active" /\ e \in DOMAIN TerminalOf =>
                Observed(b, e).terminal = TerminalOf[e]
           /\ f # "active" \/ e \notin DOMAIN TerminalOf => OutcomeStays(f, Observed(b, e))
<1>0. /\ DOMAIN TerminalOf = {"canceled", "uploadCanceled", "completed", "failed"}
      /\ \A x \in DOMAIN TerminalOf : TerminalOf[x] \in Outcome \ {"active"}
  BY DEF TerminalOf, Outcome
<1>1. CASE e \in DOMAIN TerminalOf
  <2>1. Observed(b, e) =
            IF Closes(b, TerminalOf[e])
            THEN Appended([b EXCEPT !.terminal = TerminalOf[e]], EntryOf[e]) ELSE b
    BY <1>0, <1>1 DEF Observed
  <2>2. CASE Closes(b, TerminalOf[e])
    <3>1. Follows(b, Observed(b, e)) /\ Observed(b, e).terminal = TerminalOf[e]
      BY <1>1, <2>1, <2>2, OutcomeFollows
    <3>2. f # "active" => OutcomeStays(f, Observed(b, e))
      BY <1>0, <1>1, <2>2, <3>1 DEF OutcomeStays, MayVerify, Closes, Outcome
    <3> QED BY <1>1, <3>1, <3>2
  <2>3. CASE ~Closes(b, TerminalOf[e])
    <3>1. Observed(b, e) = b
      BY <2>1, <2>3
    <3>2. f # "active"
      BY <2>3 DEF Closes, OutcomeStays
    <3> QED BY <1>1, <3>1, <3>2, SameFollows
  <2> QED BY <2>2, <2>3
<1>2. CASE e \notin DOMAIN TerminalOf
  <2>1. EntryOf[e] \in Plain
    BY <1>0, <1>2 DEF EntryOf, Plain, EntryType
  <2>2. Follows(b, Observed(b, e)) /\ Observed(b, e).terminal = b.terminal
    <3>1. CASE e = "chunkCompleted"
      <4>1. Observed(b, e) =
              IF Full(b) THEN b ELSE [Appended(b, EntryOf[e]) EXCEPT !.receipts = @ + 1]
        BY <1>0, <1>2, <3>1 DEF Observed
      <4>2. CASE Full(b)
        BY <4>1, <4>2, SameFollows
      <4>3. CASE ~Full(b)
        <5>1. /\ Follows(b, Appended(b, EntryOf[e]))
              /\ Appended(b, EntryOf[e]).terminal = b.terminal
          BY <2>1, Unchanged, PlainFollows
        <5>2. PICK c : c = Appended(b, EntryOf[e])
          OBVIOUS
        <5>3. c \in Bodies /\ Within(c) /\ Told(c) /\ Begins(b.entries, c.entries)
              /\ c.terminal = b.terminal
          BY <5>1, <5>2 DEF Follows
        <5>4. PICK d : d = [c EXCEPT !.receipts = @ + 1]
          OBVIOUS
        <5>5. Resembles(c, d)
          BY <5>3, <5>4, CountsResemble
        <5>6. d \in Bodies /\ Within(d) /\ d.entries = c.entries
              /\ d.verification = c.verification /\ d.terminal = c.terminal
          BY <5>5 DEF Resembles
        <5>7. Told(d)
          BY <5>3, <5>6 DEF Told, Full, Has, Outcomes, ExpectedTerminal
        <5>8. Observed(b, e) = d
          BY <4>1, <4>3, <5>2, <5>4
        <5> QED BY <5>3, <5>6, <5>7, <5>8 DEF Follows
      <4> QED BY <4>2, <4>3
    <3>2. CASE e = "resumed"
      <4>1. Observed(b, e) = Appended([b EXCEPT !.resumes = @ + 1], EntryOf[e])
        BY <1>0, <1>2, <3>2 DEF Observed
      <4>2. Resembles(b, [b EXCEPT !.resumes = @ + 1])
        BY CountsResemble
      <4>3. PICK d : d = [b EXCEPT !.resumes = @ + 1]
        OBVIOUS
      <4> QED BY <2>1, <4>1, <4>2, <4>3, PlainFollows
    <3>3. CASE e \notin {"chunkCompleted", "resumed"}
      <4>1. Observed(b, e) = Appended(b, EntryOf[e])
        BY <1>2, <3>3 DEF Observed
      <4> QED BY <2>1, <4>1, Unchanged, PlainFollows
    <3> QED BY <3>1, <3>2, <3>3
  <2> QED BY <1>2, <2>2 DEF OutcomeStays, MayVerify
<1> QED BY <1>1, <1>2

-----------------------------------------------------------------------------
(***************************************************************************)
(* The recorder under an application.                                      *)
(***************************************************************************)
\* A body that was sealed is the beginning of what the recorder has now.
BodySound(b) == b \in Bodies /\ Within(b) /\ Told(b) /\ Begins(b.entries, rec.entries)

ArtifactSound(a) ==
    /\ a \in [body : Bodies, digest : Bodies] /\ Within(a.body) /\ Within(a.digest)
    /\ HashAgrees(a) => BodySound(a.body) /\ WellShaped(a.body)

RecInv == rec \in Bodies /\ Within(rec) /\ Told(rec) /\ OutcomeStays(first, rec)
HeldInv ==
    /\ sealing = None \/ BodySound(sealing)
    /\ artifact = None \/ ArtifactSound(artifact)
    /\ persisted = None \/ (ArtifactSound(persisted) /\ HashAgrees(persisted))
RecorderInv ==
    /\ session \in {To[e] : e \in DOMAIN To} \cup {"idle"} /\ first \in Outcome
    /\ RecInv /\ HeldInv

LEMMA BeginsOn ==
    ASSUME NEW r, NEW s, NEW t, Len(r) \in Nat, Len(s) \in Nat, Len(t) \in Nat,
           Begins(r, s), Begins(s, t)
    PROVE  Begins(r, t)
BY DEF Begins

\* What is held stays sound when the recorder goes on.
LEMMA HeldStays ==
    ASSUME RecInv, HeldInv, Follows(rec, rec'), UNCHANGED <<sealing, artifact, persisted>>
    PROVE  HeldInv'
<1>1. ASSUME NEW b, BodySound(b)
      PROVE  b \in Bodies /\ Within(b) /\ Told(b) /\ Begins(b.entries, rec'.entries)
  <2>1. Len(b.entries) \in Nat /\ Len(rec.entries) \in Nat /\ Len(rec'.entries) \in Nat
    BY <1>1 DEF BodySound, RecInv, Follows, Bodies
  <2>2. Begins(b.entries, rec.entries) /\ Begins(rec.entries, rec'.entries)
    BY <1>1 DEF BodySound, Follows
  <2> QED BY <1>1, <2>1, <2>2, BeginsOn DEF BodySound
<1> QED BY <1>1 DEF HeldInv, BodySound, ArtifactSound

LEMMA ObserveKeeps ==
    ASSUME RecorderInv, NEW e \in DOMAIN EntryOf, Observe(e) PROVE RecorderInv'
<1>1. /\ rec \in Bodies /\ Within(rec) /\ Told(rec) /\ OutcomeStays(first, rec)
      /\ first \in Outcome /\ HeldInv
  BY DEF RecorderInv, RecInv
<1>2. /\ session' = To[e] /\ UNCHANGED <<sealing, artifact, persisted>>
      /\ first' = IF first = "active" /\ e \in DOMAIN TerminalOf THEN TerminalOf[e] ELSE first
      /\ \/ e # "conflict" /\ rec' = Observed(rec, e)
         \/ e = "conflict" /\ \E c \in Codes : rec' = Conflicted(rec, c)
  BY DEF Observe
<1>3. /\ DOMAIN TerminalOf = {"canceled", "uploadCanceled", "completed", "failed"}
      /\ \A x \in DOMAIN TerminalOf : TerminalOf[x] \in Outcome \ {"active"}
  BY DEF TerminalOf, Outcome
<1>4. Follows(rec, rec') /\ OutcomeStays(first', rec')
  <2>1. CASE e # "conflict"
    <3>1. rec' = Observed(rec, e)
      BY <1>2, <2>1
    <3>2. CASE first = "active" /\ e \in DOMAIN TerminalOf
      <4>1. Follows(rec, rec') /\ rec'.terminal = TerminalOf[e] /\ first' = TerminalOf[e]
        BY <1>1, <1>2, <3>1, <3>2, ObservedFollows
      <4> QED BY <4>1 DEF OutcomeStays, MayVerify
    <3>3. CASE ~(first = "active" /\ e \in DOMAIN TerminalOf)
      BY <1>1, <1>2, <3>1, <3>3, ObservedFollows
    <3> QED BY <3>2, <3>3
  <2>2. CASE e = "conflict"
    <3>1. PICK c \in Codes : rec' = Conflicted(rec, c)
      BY <1>2, <2>2
    <3>2. first' = first
      BY <1>2, <1>3, <2>2
    <3>3. "recovery_conflict" \in Plain
      BY EntriesAre DEF Plain
    <3>4. Follows(rec, rec') /\ rec'.terminal = rec.terminal
      BY <1>1, <3>1, <3>3, ConflictResembles, PlainFollows DEF Conflicted
    <3> QED BY <1>1, <3>2, <3>4 DEF OutcomeStays, MayVerify
  <2> QED BY <2>1, <2>2
<1>5. RecInv'
  BY <1>4 DEF RecInv, Follows
<1>6. HeldInv'
  BY <1>1, <1>2, <1>4, HeldStays DEF RecInv
<1>7. first' \in Outcome /\ session' \in {To[x] : x \in DOMAIN To}
  <2>1. DOMAIN To = DOMAIN EntryOf
    BY DEF To
  <2> QED BY <1>1, <1>2, <1>3, <2>1
<1>8. (session \in {To[x] : x \in DOMAIN To} \cup {"idle"})'
  <2>1. {To[x] : x \in DOMAIN To}' = {To[x] : x \in DOMAIN To}
    BY DEF To, EntryOf
  <2> QED BY <1>7, <2>1
<1> QED BY <1>5, <1>6, <1>7, <1>8 DEF RecorderInv

\* A call that records something, and leaves the outcome.
LEMMA RecordedKeeps ==
    ASSUME RecorderInv, NEW r, Recorded(r), Follows(rec, r), OutcomeStays(first, r)
    PROVE  RecorderInv'
<1>1. rec' = r /\ UNCHANGED <<session, first, sealing, artifact, persisted>>
  BY DEF Recorded
<1>2. RecInv /\ HeldInv
  BY DEF RecorderInv
<1>3. RecInv'
  BY <1>1 DEF RecInv, Follows
<1>4. HeldInv'
  BY <1>1, <1>2, HeldStays
<1> QED BY <1>1, <1>3, <1>4 DEF RecorderInv

LEMMA CallsKeep ==
    ASSUME RecorderInv,
           \/ RecordEntry
           \/ \E c \in Codes : RecordRecovery(c)
           \/ RecordTransportEvidence
           \/ \E v \in Verdict : RecordVerification(v)
           \/ \E id \in Ids : RecordDerivative(id)
           \/ \E id \in Ids : RecordExternalAttestation(id)
           \/ \E result \in Results : RecordPolicyEvaluation(result)
    PROVE  RecorderInv'
<1>1. /\ rec \in Bodies /\ Within(rec) /\ Told(rec) /\ OutcomeStays(first, rec)
      /\ first \in Outcome
  BY DEF RecorderInv, RecInv
<1>2. {"application_assertion", "derivative", "attestation", "validation"} \subseteq Plain
  BY EntriesAre DEF Plain
<1>3. ASSUME NEW d, Resembles(rec, d),
             NEW type \in {"application_assertion", "derivative", "attestation", "validation"},
             Recorded(Appended(d, type))
      PROVE  RecorderInv'
  <2>1. Follows(rec, Appended(d, type)) /\ Appended(d, type).terminal = rec.terminal
    BY <1>1, <1>2, <1>3, PlainFollows
  <2>2. OutcomeStays(first, Appended(d, type))
    BY <1>1, <2>1 DEF OutcomeStays, MayVerify
  <2> QED BY <1>3, <2>1, <2>2, RecordedKeeps
<1>4. CASE RecordEntry
  BY <1>1, <1>3, <1>4, Unchanged DEF RecordEntry
<1>5. ASSUME NEW c \in Codes, RecordRecovery(c) PROVE RecorderInv'
  BY <1>1, <1>3, <1>5, ConflictResembles DEF RecordRecovery
<1>6. CASE RecordTransportEvidence
  BY <1>1, <1>3, <1>6, CountsResemble DEF RecordTransportEvidence
<1>7. ASSUME NEW v \in Verdict, RecordVerification(v) PROVE RecorderInv'
  <2> DEFINE r == Appended([rec EXCEPT !.verification = v, !.terminal = StatusOf(v)],
                           "verification")
  <2>1. MayVerify(rec) /\ Recorded(r)
    BY <1>7 DEF RecordVerification
  <2>2. Follows(rec, r) /\ MayVerify(r)
    BY <1>1, <2>1, VerdictFollows
  <2>3. first = "completed_unverified"
    BY <1>1, <2>1 DEF OutcomeStays, MayVerify, Outcome
  <2>4. OutcomeStays(first, r)
    BY <2>2, <2>3 DEF OutcomeStays
  <2> HIDE DEF r
  <2> QED BY <2>1, <2>2, <2>4, RecordedKeeps
<1>8. ASSUME NEW id \in Ids, RecordDerivative(id) PROVE RecorderInv'
  BY <1>1, <1>3, <1>8, DerivativeResembles DEF RecordDerivative
<1>9. ASSUME NEW id \in Ids, RecordExternalAttestation(id) PROVE RecorderInv'
  BY <1>1, <1>3, <1>9, AttestationResembles DEF RecordExternalAttestation
<1>10. ASSUME NEW result \in Results, RecordPolicyEvaluation(result) PROVE RecorderInv'
  BY <1>1, <1>3, <1>10, PolicyResembles DEF RecordPolicyEvaluation
<1> QED BY <1>4, <1>5, <1>6, <1>7, <1>8, <1>9, <1>10

LEMMA SealKeeps == ASSUME RecorderInv, Seal PROVE RecorderInv'
<1>1. sealing' = rec /\ UNCHANGED <<session, first, rec, artifact, persisted>>
  BY DEF Seal
<1>2. Begins(rec.entries, rec.entries)
  BY SameFollows DEF RecorderInv, RecInv, Follows
<1>3. BodySound(sealing)'
  BY <1>1, <1>2 DEF BodySound, RecorderInv, RecInv
<1>4. HeldInv'
  BY <1>1, <1>3 DEF HeldInv, RecorderInv, ArtifactSound, BodySound
<1> QED BY <1>1, <1>4 DEF RecorderInv, RecInv

LEMMA SealedKeeps == ASSUME RecorderInv, Sealed PROVE RecorderInv'
<1>1. /\ sealing # None /\ sealing' = None
      /\ artifact' = IF WellShaped(sealing) THEN Artifact(sealing) ELSE artifact
      /\ UNCHANGED <<session, first, rec, persisted>>
  BY DEF Sealed
<1>2. BodySound(sealing)
  BY <1>1 DEF RecorderInv, HeldInv
<1>3. WellShaped(sealing) => ArtifactSound(Artifact(sealing))
  BY <1>2 DEF ArtifactSound, BodySound, Artifact, HashAgrees
<1>4. artifact' = None \/ ArtifactSound(artifact')
  BY <1>1, <1>3 DEF RecorderInv, HeldInv
<1>5. (artifact = None \/ ArtifactSound(artifact))'
  BY <1>1, <1>4 DEF ArtifactSound, BodySound
<1>6. HeldInv'
  BY <1>1, <1>5 DEF HeldInv, RecorderInv, ArtifactSound, BodySound
<1> QED BY <1>1, <1>6 DEF RecorderInv, RecInv

LEMMA ExportKeeps ==
    ASSUME RecorderInv, NEW profile \in Disclosure, Export(profile) PROVE RecorderInv'
<1>1. /\ artifact # None /\ Validates(artifact)
      /\ artifact' = Artifact(Projected(artifact.body, profile))
      /\ UNCHANGED <<session, first, rec, sealing, persisted>>
  BY DEF Export
<1>2. PICK b : b = artifact.body
  OBVIOUS
<1>3. BodySound(b) /\ WellShaped(b)
  BY <1>1, <1>2 DEF RecorderInv, HeldInv, ArtifactSound, Validates
<1>4. PICK c : c = Projected(b, profile)
  OBVIOUS
<1>5. c \in Bodies
  BY <1>3, <1>4 DEF Projected, Bodies, BodySound
<1>6. /\ c.entries = b.entries /\ c.policies = b.policies /\ c.attestations = b.attestations
      /\ c.verification = b.verification /\ c.terminal = b.terminal
      /\ c.conflicts = b.conflicts /\ c.derivatives = b.derivatives
      /\ c.profile = profile
  BY <1>3, <1>4 DEF Projected, Bodies, BodySound
<1>7. c.annotated => profile = "authorized-full"
  BY <1>3, <1>4 DEF Projected, Bodies, BodySound
<1>8. Told(c)
  BY <1>3, <1>6 DEF BodySound, Told, Full, Has, Outcomes, ExpectedTerminal
<1>9. Within(c) /\ Begins(c.entries, rec.entries)
  BY <1>3, <1>6 DEF BodySound, Within
<1>10. WellShaped(c)
  BY <1>3, <1>6, <1>7
     DEF WellShaped, PoliciesFit, RecoveryFits, EntriesFit, DerivativesFit, AttestationsFit,
         AnnotationsMayBeThere
<1>11. ArtifactSound(artifact')
  BY <1>1, <1>2, <1>4, <1>5, <1>8, <1>9, <1>10 DEF ArtifactSound, BodySound, Artifact
<1>12. HeldInv'
  BY <1>1, <1>11 DEF HeldInv, RecorderInv, ArtifactSound, BodySound
<1> QED BY <1>1, <1>12 DEF RecorderInv, RecInv

LEMMA PersistKeeps == ASSUME RecorderInv, Persist PROVE RecorderInv'
<1>1. /\ artifact # None /\ Validates(artifact) /\ persisted' = artifact
      /\ UNCHANGED <<session, first, rec, sealing, artifact>>
  BY DEF Persist
<1>2. ArtifactSound(artifact) /\ HashAgrees(artifact)
  BY <1>1 DEF RecorderInv, HeldInv, Validates
<1>3. HeldInv'
  BY <1>1, <1>2 DEF HeldInv, RecorderInv, ArtifactSound, BodySound
<1> QED BY <1>1, <1>3 DEF RecorderInv, RecInv

\* What was altered does not hash to its digest any more.
LEMMA AlterKeeps == ASSUME RecorderInv, Alter PROVE RecorderInv'
<1>1. /\ artifact # None /\ HashAgrees(artifact) /\ artifact' # artifact
      /\ artifact' \in {[artifact EXCEPT !.body.entries = Front(@)],
                        [artifact EXCEPT !.body.terminal = "completed"]}
      /\ UNCHANGED <<session, first, rec, sealing, persisted>>
  BY DEF Alter
<1>2. /\ artifact \in [body : Bodies, digest : Bodies]
      /\ Within(artifact.body) /\ Within(artifact.digest)
      /\ artifact.digest = artifact.body /\ WellShaped(artifact.body)
  BY <1>1 DEF RecorderInv, HeldInv, ArtifactSound, HashAgrees
<1>3. PICK b \in Bodies : b = artifact.body
  BY <1>2
<1>4. ASSUME NEW c \in Bodies, Within(c), artifact' = [artifact EXCEPT !.body = c]
      PROVE  ArtifactSound(artifact')
  <2>1. artifact' \in [body : Bodies, digest : Bodies] /\ artifact'.body = c
        /\ artifact'.digest = artifact.digest
    BY <1>2, <1>4
  <2>2. artifact = [body |-> b, digest |-> b]
    BY <1>2, <1>3
  <2>3. artifact' = [body |-> c, digest |-> b]
    BY <2>2, <1>4
  <2>4. c # b
    BY <1>1, <2>2, <2>3
  <2>5. ~HashAgrees(artifact')
    BY <2>3, <2>4 DEF HashAgrees
  <2> QED BY <1>2, <1>4, <2>1, <2>5 DEF ArtifactSound
<1>5. ArtifactSound(artifact')
  <2>1. CASE artifact' = [artifact EXCEPT !.body.entries = Front(@)]
    <3>1. PICK c : c = [b EXCEPT !.entries = Front(@)]
      OBVIOUS
    <3>2. artifact' = [artifact EXCEPT !.body = c]
      BY <1>2, <1>3, <2>1, <3>1
    <3>3. b.entries \in Seq(EntryType) /\ Len(b.entries) \in 1 .. MaxEntries
          /\ MaxEntries \in Nat
      BY <1>2, <1>3, ProvenanceAssumption DEF Bodies, WellShaped, EntriesFit
    <3>4. Front(b.entries) = SubSeq(b.entries, 1, Len(b.entries) - 1)
      BY DEF Front
    <3>5. Front(b.entries) \in Seq(EntryType)
          /\ Len(Front(b.entries)) = Len(b.entries) - 1
      <4>1. \A i \in 1 .. Len(b.entries) - 1 : b.entries[i] \in EntryType
        BY <3>3
      <4> QED BY <3>3, <3>4, <4>1, SubSeqProperties
    <3>6. c \in Bodies
      BY <3>1, <3>5 DEF Bodies
    <3>7. /\ c.entries = Front(b.entries) /\ c.policies = b.policies
          /\ c.attestations = b.attestations
      BY <3>1 DEF Bodies
    <3>8. Within(c)
      BY <1>2, <1>3, <3>3, <3>5, <3>7 DEF Within
    <3> QED BY <1>4, <3>2, <3>6, <3>8
  <2>2. CASE artifact' = [artifact EXCEPT !.body.terminal = "completed"]
    <3>1. PICK c : c = [b EXCEPT !.terminal = "completed"]
      OBVIOUS
    <3>2. artifact' = [artifact EXCEPT !.body = c]
      BY <1>2, <1>3, <2>2, <3>1
    <3>3. c \in Bodies
      BY <3>1 DEF Bodies, Terminal
    <3>4. /\ c.entries = b.entries /\ c.policies = b.policies
          /\ c.attestations = b.attestations
      BY <3>1 DEF Bodies
    <3>5. Within(c)
      BY <1>2, <1>3, <3>4 DEF Within
    <3> QED BY <1>4, <3>2, <3>3, <3>5
  <2> QED BY <1>1, <2>1, <2>2
<1>6. HeldInv'
  BY <1>1, <1>5 DEF HeldInv, RecorderInv, ArtifactSound, BodySound
<1> QED BY <1>1, <1>6 DEF RecorderInv, RecInv

LEMMA NewRecorderIs ==
    ASSUME NEW result \in Results
    PROVE  /\ NewRecorder(result) \in Bodies /\ Within(NewRecorder(result))
           /\ Told(NewRecorder(result)) /\ NewRecorder(result).terminal = "active"
<1> DEFINE b == NewRecorder(result)
<1>1. b = [entries |-> <<"preparation", "validation">>, policies |-> <<result>>,
           conflicts |-> {}, resumes |-> 0, receipts |-> 0, verification |-> "none",
           derivatives |-> {}, attestations |-> {}, terminal |-> "active",
           profile |-> Profile, annotated |-> Profile = "authorized-full"]
  BY DEF NewRecorder
<1> HIDE DEF b
<1>2. b.entries = <<"preparation", "validation">> /\ b.policies = <<result>>
      /\ b.attestations = {} /\ b.verification = "none" /\ b.terminal = "active"
  BY <1>1
<1>3. <<"preparation", "validation">> \in Seq(EntryType) /\ <<result>> \in Seq(Results)
  BY EntriesAre
<1>4. b \in Bodies
  BY <1>1, <1>3, ProvenanceAssumption DEF Bodies, Terminal
<1>5. Within(b)
  <2>1. IsFiniteSet({}) /\ Cardinality({}) = 0
    BY FS_EmptySet
  <2>2. Len(<<"preparation", "validation">>) = 2 /\ Len(<<result>>) = 1
    OBVIOUS
  <2> QED BY <1>2, <2>1, <2>2, ProvenanceAssumption DEF Within
<1>6. Told(b)
  <2>1. /\ Len(b.entries) = 2 /\ b.entries[1] = "preparation" /\ b.entries[2] = "validation"
        /\ DOMAIN b.entries = 1 .. 2
    BY <1>2
  <2>2. \A s : Has(b, s) => s \in {"preparation", "validation"}
    BY <2>1 DEF Has, ToSet
  <2>3. VerdictsAreLate(b.entries)
    BY <2>1 DEF VerdictsAreLate
  <2> QED BY <1>2, <2>1, <2>2, <2>3 DEF Told, Outcomes, ExpectedTerminal
<1> QED BY <1>2, <1>4, <1>5, <1>6 DEF b

LEMMA RecorderBegins == ProvenanceInit => RecorderInv
<1> SUFFICES ASSUME ProvenanceInit PROVE RecorderInv
  OBVIOUS
<1>1. PICK result \in Results : rec = NewRecorder(result)
  BY DEF ProvenanceInit
<1>2. rec \in Bodies /\ Within(rec) /\ Told(rec) /\ rec.terminal = "active"
  BY <1>1, NewRecorderIs
<1>3. RecInv
  BY <1>2 DEF RecInv, OutcomeStays, ProvenanceInit
<1> QED BY <1>3 DEF RecorderInv, HeldInv, ProvenanceInit, Outcome

LEMMA RecorderSteps == RecorderInv /\ ProvenanceNext => RecorderInv'
<1> SUFFICES ASSUME RecorderInv, ProvenanceNext PROVE RecorderInv'
  OBVIOUS
<1>1. ASSUME NEW e \in Progress \cup {"started", "resumed", "paused", "uploadPaused", "canceled",
                                     "uploadCanceled", "completed", "failed", "cleanupFailed"},
             Observe(e)
      PROVE  RecorderInv'
  <2>1. e \in DOMAIN EntryOf
    BY ProvenanceAssumption DEF EntryOf
  <2> QED BY <1>1, <2>1, ObserveKeeps
<1> QED BY <1>1, CallsKeep, SealKeeps, SealedKeeps, ExportKeeps, PersistKeeps, AlterKeeps
        DEF ProvenanceNext

\* What the invariant says of the recorder is what it promises.
LEMMA RecorderPromises == RecorderInv => RecorderIsTrue
<1> SUFFICES ASSUME RecorderInv PROVE RecorderIsTrue
  OBVIOUS
<1>1. TypeOK
  <2>1. BodyOK(rec) /\ Cardinality(rec.attestations) <= MaxAttestations
    BY BodyIsOK DEF RecorderInv, RecInv, Within
  <2>2. sealing = None \/ BodyOK(sealing)
    BY BodyIsOK DEF RecorderInv, HeldInv, BodySound
  <2>3. ASSUME NEW a, ArtifactSound(a) PROVE BodyOK(a.body) /\ BodyOK(a.digest)
    BY <2>3, BodyIsOK DEF ArtifactSound
  <2>4. \A a \in {artifact, persisted} : a # None => BodyOK(a.body) /\ BodyOK(a.digest)
    BY <2>3 DEF RecorderInv, HeldInv
  <2>5. first \in Terminal
    BY DEF RecorderInv, Outcome, Terminal
  <2> QED BY <2>1, <2>2, <2>4, <2>5 DEF TypeOK, RecorderInv
<1>2. SealedIsValid
  <2> SUFFICES ASSUME artifact # None, HashAgrees(artifact), ~Full(artifact.body)
               PROVE  Validates(artifact)
    BY DEF SealedIsValid
  <2>1. artifact.body \in Bodies /\ Told(artifact.body) /\ WellShaped(artifact.body)
    BY DEF RecorderInv, HeldInv, ArtifactSound, BodySound
  <2> QED BY <2>1, ToldIsValid
<1>3. FirstOutcomeStays
  BY DEF FirstOutcomeStays, RecorderInv, RecInv, OutcomeStays
<1>4. PersistedIsSealed
  <2> SUFFICES ASSUME persisted # None
               PROVE  /\ HashAgrees(persisted)
                      /\ IsPrefix(persisted.body.entries, rec.entries)
    BY DEF PersistedIsSealed
  <2>1. HashAgrees(persisted) /\ BodySound(persisted.body)
    BY DEF RecorderInv, HeldInv, ArtifactSound
  <2>2. PICK s : s = persisted.body.entries
    OBVIOUS
  <2>3. PICK t : t = rec.entries
    OBVIOUS
  <2>4. s \in Seq(EntryType) /\ t \in Seq(EntryType) /\ Begins(s, t)
    BY <2>1, <2>2, <2>3 DEF BodySound, Bodies, RecorderInv, RecInv
  <2>5. SubSeq(s, 1, Len(s)) = SubSeq(t, 1, Len(s))
    <3>1. Len(s) \in Nat /\ Len(t) \in Nat /\ Len(s) <= Len(t)
          /\ \A i \in 1 .. Len(s) : s[i] = t[i]
      BY <2>4 DEF Begins
    <3>2. SubSeq(s, 1, Len(s)) = [i \in 1 .. Len(s) |-> s[i]]
      BY <2>4, <3>1
    <3>3. SubSeq(t, 1, Len(s)) = [i \in 1 .. Len(s) |-> t[i]]
      BY <2>4, <3>1
    <3> QED BY <3>1, <3>2, <3>3
  <2> QED BY <2>1, <2>2, <2>3, <2>4, <2>5 DEF IsPrefix, Begins
<1> QED BY <1>1, <1>2, <1>3, <1>4 DEF RecorderIsTrue

-----------------------------------------------------------------------------
(***************************************************************************)
(* The recorder of a workflow.                                             *)
(***************************************************************************)
\* The recorder of a workflow, with n entries.
Fresh(b, n) == b \in Bodies /\ Within(b) /\ Told(b) /\ Len(b.entries) = n

LEMMA FreshGrows ==
    ASSUME NEW b, NEW n \in Nat, Fresh(b, n), n < MaxEntries, NEW c \in Bodies,
           NEW type \in EntryType, Grows(b, c, type)
    PROVE  Len(c.entries) = n + 1 /\ Has(c, type) /\ \A s : Has(b, s) => Has(c, s)
<1>1. ~Full(b) /\ b.entries \in Seq(EntryType) /\ Len(b.entries) = n
  BY ProvenanceAssumption DEF Fresh, Full, Bodies
<1>2. c.entries = Append(b.entries, type)
  BY <1>1 DEF Grows
<1>3. /\ Len(c.entries) = n + 1 /\ c.entries[n + 1] = type
      /\ \A i \in 1 .. n : c.entries[i] = b.entries[i]
      /\ DOMAIN b.entries = 1 .. n /\ DOMAIN c.entries = 1 .. n + 1
  BY <1>1, <1>2
<1>4. Has(c, type)
  BY <1>3 DEF Has, ToSet
<1>5. ASSUME NEW s, Has(b, s) PROVE Has(c, s)
  <2>1. PICK i \in 1 .. n : b.entries[i] = s
    BY <1>3, <1>5 DEF Has, ToSet
  <2>2. i \in 1 .. n + 1 /\ c.entries[i] = s
    BY <1>3, <2>1
  <2> QED BY <1>3, <2>2 DEF Has, ToSet
<1> QED BY <1>3, <1>4, <1>5

LEMMA EvaluatedIsFresh == Fresh(Evaluated, 3) /\ Evaluated.terminal = "active"
<1>1. PICK b : b = NewRecorder("passed")
  OBVIOUS
<1>2. /\ b \in Bodies /\ Within(b) /\ Told(b) /\ b.terminal = "active"
      /\ Len(b.entries) = 2 /\ Len(b.policies) = 1
  <2>1. "passed" \in Results
    BY BundleAssumption
  <2>2. b.entries = <<"preparation", "validation">> /\ b.policies = <<"passed">>
    BY <1>1 DEF NewRecorder
  <2> QED BY <1>1, <2>1, <2>2, NewRecorderIs
<1>3. PICK d : d = [b EXCEPT !.policies = Append(@, "passed")]
  OBVIOUS
<1>4. Resembles(b, d)
  <2>1. "passed" \in Results /\ Len(b.policies) < MaxCodes
    BY <1>2, BundleAssumption, ProvenanceAssumption
  <2> QED BY <1>2, <1>3, <2>1, PolicyResembles
<1>5. "validation" \in Plain /\ "validation" \in EntryType
  BY EntriesAre DEF Plain
<1>6. PICK c : c = Appended(d, "validation")
  OBVIOUS
<1>7. Follows(b, c) /\ c.terminal = b.terminal
  BY <1>2, <1>4, <1>5, <1>6, PlainFollows
<1>8. Grows(b, c, "validation")
  BY <1>4, <1>5, <1>6, AppendedIs DEF Resembles, Grows, Full
<1>9. Len(c.entries) = 3
  <2>1. Fresh(b, 2) /\ 2 \in Nat /\ 2 < MaxEntries /\ c \in Bodies
    BY <1>2, <1>7, BundleAssumption, ProvenanceAssumption DEF Fresh, Follows
  <2>2. Len(c.entries) = 2 + 1
    BY <1>5, <1>8, <2>1, FreshGrows
  <2> QED BY <2>2
<1>10. c = Evaluated
  BY <1>1, <1>3, <1>6 DEF Evaluated
<1> QED BY <1>2, <1>7, <1>9, <1>10 DEF Fresh, Follows

LEMMA StartedIsFresh ==
    Fresh(Observed(Evaluated, "started"), 4) /\ Observed(Evaluated, "started").terminal = "active"
<1>1. PICK b : b = Evaluated
  OBVIOUS
<1>2. Fresh(b, 3) /\ b.terminal = "active"
  BY <1>1, EvaluatedIsFresh
<1>3. PICK c : c = Appended(b, "session_created")
  OBVIOUS
<1>4. Observed(b, "started") = c
  BY <1>3 DEF Observed, TerminalOf, EntryOf
<1>5. "session_created" \in Plain /\ "session_created" \in EntryType
  BY EntriesAre DEF Plain
<1>6. Follows(b, c) /\ c.terminal = b.terminal
  BY <1>2, <1>3, <1>5, PlainFollows, Unchanged DEF Fresh
<1>7. Grows(b, c, "session_created")
  BY <1>2, <1>3, <1>5, AppendedIs DEF Fresh
<1>8. Len(c.entries) = 4
  <2>1. 3 \in Nat /\ 3 < MaxEntries /\ c \in Bodies
    BY <1>6, BundleAssumption, ProvenanceAssumption DEF Follows
  <2>2. Len(c.entries) = 3 + 1
    BY <1>2, <1>5, <1>7, <2>1, FreshGrows
  <2> QED BY <2>2
<1> QED BY <1>1, <1>2, <1>4, <1>6, <1>8 DEF Fresh, Follows

LEMMA CompletedIsFresh ==
    ASSUME NEW b, NEW n \in Nat, Fresh(b, n), n < MaxEntries, b.terminal = "active"
    PROVE  LET c == Observed(b, "completed")
           IN  Fresh(c, n + 1) /\ Has(c, "completion") /\ MayVerify(c)
<1> DEFINE d == [b EXCEPT !.terminal = "completed_unverified"]
<1>1. PICK c : c = Appended(d, "completion")
  OBVIOUS
<1>2. /\ "completed" \in DOMAIN TerminalOf /\ TerminalOf["completed"] = "completed_unverified"
      /\ EntryOf["completed"] = "completion" /\ Closes(b, "completed_unverified")
  BY DEF TerminalOf, EntryOf, Closes
<1>3. Observed(b, "completed") = c
  BY <1>1, <1>2 DEF Observed
<1>4. Follows(b, c) /\ c.terminal = "completed_unverified"
  BY <1>1, <1>2, OutcomeFollows DEF Fresh
<1>5. "completion" \in EntryType
  BY EntriesAre
<1>6. d \in Bodies /\ d.entries = b.entries
  BY DEF Fresh, Bodies, Terminal
<1>7. Within(d)
  <2>1. d.policies = b.policies /\ d.attestations = b.attestations
    BY DEF Fresh, Bodies
  <2> QED BY <1>6, <2>1 DEF Fresh, Within
<1>8. Grows(d, c, "completion")
  BY <1>1, <1>5, <1>6, <1>7, AppendedIs
<1>9. Grows(b, c, "completion")
  BY <1>6, <1>8 DEF Grows, Full
<1>10. Len(c.entries) = n + 1 /\ Has(c, "completion")
  BY <1>4, <1>5, <1>9, FreshGrows DEF Follows
<1>11. Fresh(c, n + 1) /\ Has(c, "completion") /\ MayVerify(c)
  BY <1>4, <1>10 DEF Fresh, Follows, MayVerify
<1> QED BY <1>3, <1>11

LEMMA VerifiedIsFresh ==
    ASSUME NEW b, NEW n \in Nat, Fresh(b, n), n < MaxEntries, Has(b, "completion"), MayVerify(b)
    PROVE  LET c == Verified(b)
           IN  Fresh(c, n + 1) /\ Has(c, "completion") /\ MayVerify(c)
<1> DEFINE d == [b EXCEPT !.verification = "verified", !.terminal = StatusOf("verified")]
<1>1. PICK c : c = Appended(d, "verification")
  OBVIOUS
<1>2. Verified(b) = c
  BY <1>1 DEF Verified
<1>3. "verified" \in Verdict /\ "verification" \in EntryType /\ StatusOf("verified") \in Terminal
  BY EntriesAre DEF Verdict, StatusOf, Terminal
<1>4. Follows(b, c) /\ MayVerify(c)
  BY <1>1, <1>3, VerdictFollows DEF Fresh
<1>5. d \in Bodies /\ d.entries = b.entries
  BY <1>3 DEF Fresh, Bodies
<1>6. Within(d)
  <2>1. d.policies = b.policies /\ d.attestations = b.attestations
    BY DEF Fresh, Bodies
  <2> QED BY <1>5, <2>1 DEF Fresh, Within
<1>7. Grows(d, c, "verification")
  BY <1>1, <1>3, <1>5, <1>6, AppendedIs
<1>8. Grows(b, c, "verification")
  BY <1>5, <1>7 DEF Grows, Full
<1>9. Len(c.entries) = n + 1 /\ Has(c, "completion")
  BY <1>3, <1>4, <1>8, FreshGrows DEF Follows
<1>10. Fresh(c, n + 1) /\ Has(c, "completion") /\ MayVerify(c)
  BY <1>4, <1>9 DEF Fresh, Follows
<1> QED BY <1>2, <1>10

\* What a workflow seals: the record of an upload that was completed.
LEMMA WorkflowRecords ==
    ASSUME NEW b \in {Followed, Rebuilt}
    PROVE  b \in Bodies /\ Within(b) /\ Told(b) /\ Has(b, "completion") /\ MayVerify(b)
<1>0. MaxEntries \in Nat /\ MaxEntries >= 6
  BY ProvenanceAssumption, BundleAssumption
<1>1. Fresh(Followed, 6) /\ Has(Followed, "completion") /\ MayVerify(Followed)
  <2>1. PICK s : s = Observed(Evaluated, "started")
    OBVIOUS
  <2>2. Fresh(s, 4) /\ s.terminal = "active"
    BY <2>1, StartedIsFresh
  <2>3. PICK c : c = Observed(s, "completed")
    OBVIOUS
  <2>4. Fresh(c, 5) /\ Has(c, "completion") /\ MayVerify(c)
    BY <1>0, <2>2, <2>3, CompletedIsFresh
  <2>5. Followed = Verified(c)
    BY <2>1, <2>3 DEF Followed
  <2> QED BY <1>0, <2>4, <2>5, VerifiedIsFresh
<1>2. Fresh(Rebuilt, 5) /\ Has(Rebuilt, "completion") /\ MayVerify(Rebuilt)
  <2>1. PICK c : c = Observed(Evaluated, "completed")
    OBVIOUS
  <2>2. Fresh(c, 4) /\ Has(c, "completion") /\ MayVerify(c)
    BY <1>0, <2>1, EvaluatedIsFresh, CompletedIsFresh
  <2>3. Rebuilt = Verified(c)
    BY <2>1 DEF Rebuilt
  <2> QED BY <1>0, <2>2, <2>3, VerifiedIsFresh
<1> QED BY <1>1, <1>2 DEF Fresh

-----------------------------------------------------------------------------
(***************************************************************************)
(* The bundles of a workflow.                                              *)
(***************************************************************************)
Stage == {"upload", "verification", "evidence_persistence", "preservation",
          "evidence_finalization"}

FinalStages == FirstStages \o <<"preservation", "evidence_finalization">>

LEMMA StagesAre ==
    /\ Len(FirstStages) = 3 /\ DOMAIN FirstStages = 1 .. 3
    /\ FirstStages[1] = "upload" /\ FirstStages[2] = "verification"
    /\ FirstStages[3] = "evidence_persistence"
    /\ Len(FinalStages) = 5 /\ DOMAIN FinalStages = 1 .. 5
    /\ FinalStages[1] = "upload" /\ FinalStages[2] = "verification"
    /\ FinalStages[3] = "evidence_persistence" /\ FinalStages[4] = "preservation"
    /\ FinalStages[5] = "evidence_finalization"
    /\ FirstStages \in Seq(Stage) /\ FinalStages \in Seq(Stage)
<1> DEFINE t == <<"preservation", "evidence_finalization">>
<1>1. FirstStages \in Seq(Stage)
  BY DEF FirstStages, Stage
<1>2. Len(FirstStages) = 3 /\ DOMAIN FirstStages = 1 .. 3
  BY DEF FirstStages
<1>3. /\ FirstStages[1] = "upload" /\ FirstStages[2] = "verification"
      /\ FirstStages[3] = "evidence_persistence"
  BY DEF FirstStages
<1>4. t \in Seq(Stage)
  BY DEF Stage
<1>5. Len(t) = 2 /\ t[1] = "preservation" /\ t[2] = "evidence_finalization"
  OBVIOUS
<1>6. FinalStages = FirstStages \o t
  BY DEF FinalStages
<1> HIDE DEF t
<1>7. FinalStages \in Seq(Stage) /\ Len(FinalStages) = Len(FirstStages) + Len(t)
      /\ \A i \in 1 .. Len(FirstStages) + Len(t) :
            FinalStages[i] = IF i <= Len(FirstStages) THEN FirstStages[i]
                             ELSE t[i - Len(FirstStages)]
  BY <1>1, <1>4, <1>6, ConcatProperties
<1>8. Len(FinalStages) = 5 /\ DOMAIN FinalStages = 1 .. 5
  BY <1>2, <1>5, <1>7
<1>9. \A i \in 1 .. 5 : FinalStages[i] = IF i <= 3 THEN FirstStages[i] ELSE t[i - 3]
  BY <1>2, <1>5, <1>7
<1> QED BY <1>1, <1>2, <1>3, <1>5, <1>7, <1>8, <1>9

LEMMA OrderIs ==
    /\ Len(StageOrder) = 7 /\ DOMAIN StageOrder = 1 .. 7
    /\ StageOrder[1] = "preparation" /\ StageOrder[2] = "upload"
    /\ StageOrder[3] = "upload_completion" /\ StageOrder[4] = "verification"
    /\ StageOrder[5] = "evidence_persistence" /\ StageOrder[6] = "preservation"
    /\ StageOrder[7] = "evidence_finalization"
BY DEF StageOrder

LEMMA StagesAreValid == ValidStages(FirstStages) /\ ValidStages(FinalStages)
<1>1. ASSUME NEW s, NEW n \in {3, 5}, Len(s) = n, DOMAIN s = 1 .. n,
             s[1] = "upload", s[2] = "verification", s[3] = "evidence_persistence",
             n = 5 => s[4] = "preservation" /\ s[5] = "evidence_finalization"
      PROVE  ValidStages(s)
  <2>1. Len(s) \in 1 .. Len(StageOrder)
    BY <1>1, OrderIs
  <2>2. ASSUME NEW i \in 1 .. Len(s) - 1
        PROVE  \E j, k \in DOMAIN StageOrder :
                    StageOrder[j] = s[i] /\ StageOrder[k] = s[i + 1] /\ j < k
    <3>1. CASE i = 1
      <4>1. StageOrder[2] = s[i] /\ StageOrder[4] = s[i + 1] /\ 2 < 4
            /\ 2 \in DOMAIN StageOrder /\ 4 \in DOMAIN StageOrder
        BY <1>1, <3>1, OrderIs
      <4> QED BY <4>1
    <3>2. CASE i = 2
      <4>1. StageOrder[4] = s[i] /\ StageOrder[5] = s[i + 1] /\ 4 < 5
            /\ 4 \in DOMAIN StageOrder /\ 5 \in DOMAIN StageOrder
        BY <1>1, <3>2, OrderIs
      <4> QED BY <4>1
    <3>3. CASE i = 3
      <4>1. StageOrder[5] = s[i] /\ StageOrder[6] = s[i + 1] /\ 5 < 6
            /\ 5 \in DOMAIN StageOrder /\ 6 \in DOMAIN StageOrder
        BY <1>1, <3>3, OrderIs
      <4> QED BY <4>1
    <3>4. CASE i = 4
      <4>1. StageOrder[6] = s[i] /\ StageOrder[7] = s[i + 1] /\ 6 < 7
            /\ 6 \in DOMAIN StageOrder /\ 7 \in DOMAIN StageOrder
        BY <1>1, <3>4, OrderIs
      <4> QED BY <4>1
    <3> QED BY <1>1, <3>1, <3>2, <3>3, <3>4
  <2>3. {"upload", "verification", "evidence_persistence"} \subseteq ToSet(s)
    <3>1. 1 \in DOMAIN s /\ 2 \in DOMAIN s /\ 3 \in DOMAIN s
      BY <1>1
    <3> QED BY <1>1, <3>1 DEF ToSet
  <2> QED BY <2>1, <2>2, <2>3 DEF ValidStages
<1>2. ValidStages(FirstStages)
  <2>1. 3 \in {3, 5} /\ (3 = 5 => FALSE)
    OBVIOUS
  <2> QED BY <1>1, <2>1, StagesAre
<1>3. ValidStages(FinalStages)
  <2>1. 5 \in {3, 5}
    OBVIOUS
  <2> QED BY <1>1, <2>1, StagesAre
<1> QED BY <1>2, <1>3

\* What the process p records and seals.
RecOf(p) == IF p = 1 THEN Followed ELSE Rebuilt
Made(p) == Artifact(RecOf(p))

\* The first bundle that p builds under an id, and the final one that q builds on it.
FirstOf(want, id, p) ==
    Bundle(Body([id |-> id, revision |-> 1, made |-> p, built |-> p], Made(p),
        IF want THEN "pending" ELSE "not_requested",
        [classification |-> IF want THEN "nonterminal" ELSE "success",
         state |-> "evidence_persisted", authority |-> "evidence_persisted"],
        FirstStages))
FinalOf(id, p, q, result) ==
    Bundle(Body([id |-> id, revision |-> 2, made |-> p, built |-> q], Made(p), result,
        [classification |-> IF result = "preserved" THEN "success" ELSE "failure",
         state |-> IF result = "preserved" THEN "preserved" ELSE "preservation_failed",
         authority |-> IF result = "preserved" THEN "preserved" ELSE "evidence_persisted"],
        FinalStages))

\* b is one of these, of the first n processes, and stands on the artifact a.
FirstOn(b, want, id, n, a) ==
    /\ b = FirstOf(want, id, b.body.head.made)
    /\ b.body.head.made \in 1 .. n
    /\ a = Made(b.body.head.made)
FinalOn(b, id, n, a) ==
    /\ \E result \in Handoff : b = FinalOf(id, b.body.head.made, b.body.head.built, result)
    /\ b.body.head.made \in 1 .. n /\ b.body.head.built \in 1 .. n
    /\ a = Made(b.body.head.made)

LEMMA FirstIs ==
    ASSUME NEW want, NEW id, NEW p
    PROVE  LET b == FirstOf(want, id, p) IN
           /\ b = [body |-> b.body, digest |-> b.body] /\ "stages" \in DOMAIN b.body
           /\ b.body.head = [id |-> id, revision |-> 1, made |-> p, built |-> p]
           /\ b.body.cites = Made(p).digest /\ b.body.stages = FirstStages
           /\ b.body.preservation = IF want THEN "pending" ELSE "not_requested"
           /\ BundleValid(b, Made(p)) /\ b # None
<1> DEFINE b == FirstOf(want, id, p)
<1>1. /\ b = [body |-> b.body, digest |-> b.body] /\ "stages" \in DOMAIN b.body
      /\ b.body.head = [id |-> id, revision |-> 1, made |-> p, built |-> p]
      /\ b.body.cites = Made(p).digest /\ b.body.stages = FirstStages
      /\ b.body.actorTrust = Trust(Made(p))
      /\ b.body.preservation = IF want THEN "pending" ELSE "not_requested"
      /\ b.body.terminal = [classification |-> IF want THEN "nonterminal" ELSE "success",
                            state |-> "evidence_persisted", authority |-> "evidence_persisted"]
  BY DEF FirstOf, Bundle, Body
<1> HIDE DEF b
<1>2. b.body.head.revision = 1
  BY <1>1
<1>3. StatesAgree(b.body)
  <2>1. CASE want
    BY <1>1, <1>2, <2>1 DEF StatesAgree
  <2>2. CASE ~want
    BY <1>1, <1>2, <2>2 DEF StatesAgree
  <2> QED BY <2>1, <2>2
<1>4. b.digest = b.body
  BY <1>1
<1>5. BundleValid(b, Made(p))
  BY <1>1, <1>3, <1>4, StagesAreValid DEF BundleValid, Cites
<1>6. DOMAIN None = {"none"} /\ "body" # "none" /\ DOMAIN b = {"body", "digest"}
  BY <1>1 DEF None
<1>7. b # None
  BY <1>6
<1> QED BY <1>1, <1>5, <1>7 DEF b

LEMMA FinalIs ==
    ASSUME NEW id, NEW p, NEW q, NEW result \in Handoff
    PROVE  LET b == FinalOf(id, p, q, result) IN
           /\ b = [body |-> b.body, digest |-> b.body] /\ "stages" \in DOMAIN b.body
           /\ b.body.head = [id |-> id, revision |-> 2, made |-> p, built |-> q]
           /\ b.body.cites = Made(p).digest /\ b.body.stages = FinalStages
           /\ BundleValid(b, Made(p)) /\ b # None
<1> DEFINE b == FinalOf(id, p, q, result)
<1>1. /\ b = [body |-> b.body, digest |-> b.body] /\ "stages" \in DOMAIN b.body
      /\ b.body.head = [id |-> id, revision |-> 2, made |-> p, built |-> q]
      /\ b.body.cites = Made(p).digest /\ b.body.stages = FinalStages
      /\ b.body.actorTrust = Trust(Made(p)) /\ b.body.preservation = result
      /\ b.body.terminal =
            [classification |-> IF result = "preserved" THEN "success" ELSE "failure",
             state |-> IF result = "preserved" THEN "preserved" ELSE "preservation_failed",
             authority |-> IF result = "preserved" THEN "preserved" ELSE "evidence_persisted"]
  BY DEF FinalOf, Bundle, Body
<1> HIDE DEF b
<1>2. b.body.head.revision = 2
  BY <1>1
<1>3. StatesAgree(b.body)
  <2>1. CASE result = "preserved"
    BY <1>1, <1>2, <2>1 DEF StatesAgree
  <2>2. CASE result = "failed"
    BY <1>1, <1>2, <2>2 DEF StatesAgree
  <2> QED BY <2>1, <2>2 DEF Handoff
<1>4. b.digest = b.body
  BY <1>1
<1>5. BundleValid(b, Made(p))
  BY <1>1, <1>3, <1>4, StagesAreValid DEF BundleValid, Cites
<1>6. DOMAIN None = {"none"} /\ "body" # "none" /\ DOMAIN b = {"body", "digest"}
  BY <1>1 DEF None
<1>7. b # None
  BY <1>6
<1> QED BY <1>1, <1>5, <1>7 DEF b

\* What is known of either.
Built(b, id, revision, a) ==
    /\ b # None /\ b = [body |-> b.body, digest |-> b.body] /\ "stages" \in DOMAIN b.body
    /\ b.body.head.id = id /\ b.body.head.revision = revision
    /\ b.body.cites = a.digest /\ BundleValid(b, a)

LEMMA FirstOnIs ==
    ASSUME NEW b, NEW want, NEW id, NEW n, NEW a, FirstOn(b, want, id, n, a)
    PROVE  /\ Built(b, id, 1, a) /\ b.body.stages = FirstStages
           /\ b.body.head.built = b.body.head.made
           /\ b.body.preservation = IF want THEN "pending" ELSE "not_requested"
<1>1. PICK p : p = b.body.head.made
  OBVIOUS
<1>2. b = FirstOf(want, id, p) /\ a = Made(p)
  BY <1>1 DEF FirstOn
<1>3. /\ b = [body |-> b.body, digest |-> b.body] /\ "stages" \in DOMAIN b.body
      /\ b.body.head = [id |-> id, revision |-> 1, made |-> p, built |-> p]
      /\ b.body.cites = Made(p).digest /\ b.body.stages = FirstStages
      /\ b.body.preservation = IF want THEN "pending" ELSE "not_requested"
      /\ BundleValid(b, Made(p)) /\ b # None
  BY <1>2, FirstIs
<1>4. b.body.head.id = id /\ b.body.head.revision = 1 /\ b.body.head.built = p
  BY <1>3
<1> QED BY <1>1, <1>2, <1>3, <1>4 DEF Built

LEMMA FinalOnIs ==
    ASSUME NEW b, NEW id, NEW n, NEW a, FinalOn(b, id, n, a)
    PROVE  Built(b, id, 2, a) /\ b.body.stages = FinalStages
<1>1. PICK p, q : p = b.body.head.made /\ q = b.body.head.built
  OBVIOUS
<1>2. PICK result \in Handoff : b = FinalOf(id, p, q, result)
  BY <1>1 DEF FinalOn
<1>3. a = Made(p)
  BY <1>1 DEF FinalOn
<1>4. /\ b = [body |-> b.body, digest |-> b.body] /\ "stages" \in DOMAIN b.body
      /\ b.body.head = [id |-> id, revision |-> 2, made |-> p, built |-> q]
      /\ b.body.cites = Made(p).digest /\ b.body.stages = FinalStages
      /\ BundleValid(b, Made(p)) /\ b # None
  BY <1>2, FinalIs
<1>5. b.body.head.id = id /\ b.body.head.revision = 2
  BY <1>4
<1> QED BY <1>3, <1>4, <1>5 DEF Built

\* What one process can have built, a later one can have found.
LEMMA OnLater ==
    ASSUME NEW b, NEW want, NEW id, NEW n \in Nat, NEW m \in Nat, n <= m, NEW a
    PROVE  /\ FirstOn(b, want, id, n, a) => FirstOn(b, want, id, m, a)
           /\ FinalOn(b, id, n, a) => FinalOn(b, id, m, a)
<1>1. 1 .. n \subseteq 1 .. m
  OBVIOUS
<1> QED BY <1>1 DEF FirstOn, FinalOn

\* The bundles that a process builds.
LEMMA FirstBuilt ==
    ASSUME restarts \in Nat, NEW id
    PROVE  LET b == FirstBundle(id, Made(Process)) IN
           FirstOn(b, wanted, id, Process, Made(Process)) /\ b.body.head.made = Process
<1> DEFINE b == FirstBundle(id, Made(Process))
<1>1. b = FirstOf(wanted, id, Process)
  BY DEF FirstBundle, FirstOf
<1> HIDE DEF b
<1>2. b.body.head.made = Process
  <2>1. b.body.head = [id |-> id, revision |-> 1, made |-> Process, built |-> Process]
    BY <1>1, FirstIs
  <2> QED BY <2>1
<1>3. Process \in 1 .. Process
  BY DEF Process
<1> QED BY <1>1, <1>2, <1>3 DEF b, FirstOn

LEMMA FinalBuilt ==
    ASSUME restarts \in Nat, NEW want, NEW id, NEW b, NEW a, NEW result \in Handoff,
           FirstOn(b, want, id, Process, a)
    PROVE  LET f == FinalBundle(b, a, result) IN
           FinalOn(f, id, Process, a) /\ f.body.head.built = Process
<1> DEFINE f == FinalBundle(b, a, result)
<1>1. PICK p : p = b.body.head.made
  OBVIOUS
<1>2. p \in 1 .. Process /\ a = Made(p) /\ b = FirstOf(want, id, p)
  BY <1>1 DEF FirstOn
<1>3. b.body.head = [id |-> id, revision |-> 1, made |-> p, built |-> p]
      /\ b.body.stages = FirstStages
  BY <1>2, FirstIs
<1>4. b.body.head.id = id /\ b.body.head.made = p
  BY <1>3
<1>5. b.body.stages \o <<"preservation", "evidence_finalization">> = FinalStages
  BY <1>3 DEF FinalStages
<1>6. f = FinalOf(id, p, Process, result)
  BY <1>2, <1>4, <1>5 DEF FinalBundle, FinalOf
<1> HIDE DEF f
<1>7. f.body.head = [id |-> id, revision |-> 2, made |-> p, built |-> Process]
  BY <1>6, FinalIs
<1>8. f.body.head.made = p /\ f.body.head.built = Process /\ Process \in 1 .. Process
  BY <1>7 DEF Process
<1> QED BY <1>2, <1>6, <1>8 DEF f, FinalOn

\* A final revision on a final one repeats its stages.
LEMMA FinalOnFinal ==
    ASSUME NEW b, NEW a, NEW c, NEW result, b.body.stages = FinalStages
    PROVE  ~BundleValid(FinalBundle(b, a, result), c)
<1> DEFINE t == <<"preservation", "evidence_finalization">>
<1>1. FinalBundle(b, a, result).body.stages = FinalStages \o t
  BY DEF FinalBundle, Bundle, Body
<1>2. t \in Seq(Stage) /\ Len(t) = 2 /\ t[1] = "preservation"
  BY DEF Stage
<1> HIDE DEF t
<1>3. PICK s : s = FinalStages \o t
  OBVIOUS
<1>4. s \in Seq(Stage) /\ Len(s) = Len(FinalStages) + Len(t)
      /\ \A i \in 1 .. Len(FinalStages) + Len(t) :
            s[i] = IF i <= Len(FinalStages) THEN FinalStages[i] ELSE t[i - Len(FinalStages)]
  <2>1. FinalStages \in Seq(Stage)
    BY StagesAre
  <2> QED BY <1>2, <1>3, <2>1, ConcatProperties
<1>5. Len(s) = 7 /\ s[5] = "evidence_finalization" /\ s[6] = "preservation"
  BY <1>2, <1>4, StagesAre
<1>6. ~ValidStages(s)
  <2>1. SUFFICES ASSUME ValidStages(s) PROVE FALSE
    OBVIOUS
  <2>2. PICK j \in DOMAIN StageOrder, k \in DOMAIN StageOrder :
            StageOrder[j] = s[5] /\ StageOrder[k] = s[5 + 1] /\ j < k
    BY <1>5, <2>1 DEF ValidStages
  <2>3. j = 7 /\ k = 6
    BY <1>5, <2>2, OrderIs
  <2> QED BY <2>2, <2>3
<1> QED BY <1>1, <1>3, <1>6 DEF BundleValid

\* Nor is a bundle valid that was changed.
LEMMA ChangedIsInvalid ==
    ASSUME NEW f, f = [body |-> f.body, digest |-> f.body], "stages" \in DOMAIN f.body,
           f.body.stages \in {FirstStages, FinalStages}, NEW c, NEW b,
           b \in {[f EXCEPT !.body.preservation = "not_requested"],
                  [f EXCEPT !.body.stages = Front(@)],
                  Bundle([f.body EXCEPT !.stages = Reverse(@)])},
           b # f
    PROVE  ~BundleValid(b, c)
<1>1. CASE b = [f EXCEPT !.body.preservation = "not_requested"]
  <2>1. PICK y : y = [f.body EXCEPT !.preservation = "not_requested"]
    OBVIOUS
  <2>2. b = [body |-> y, digest |-> f.body]
    BY <1>1, <2>1
  <2>3. y # f.body
    BY <2>2
  <2> QED BY <2>2, <2>3 DEF BundleValid
<1>2. CASE b = [f EXCEPT !.body.stages = Front(@)]
  <2>1. PICK y : y = [f.body EXCEPT !.stages = Front(@)]
    OBVIOUS
  <2>2. b = [body |-> y, digest |-> f.body]
    BY <1>2, <2>1
  <2>3. y # f.body
    BY <2>2
  <2> QED BY <2>2, <2>3 DEF BundleValid
<1>3. CASE b = Bundle([f.body EXCEPT !.stages = Reverse(@)])
  <2>1. b.body.stages = Reverse(f.body.stages)
    BY <1>3 DEF Bundle
  <2>2. PICK s : s = Reverse(f.body.stages)
    OBVIOUS
  <2>3. CASE f.body.stages = FirstStages
    <3>1. s = [i \in 1 .. 3 |-> FirstStages[3 - i + 1]]
      BY <2>2, <2>3, StagesAre DEF Reverse
    <3>2. Len(s) = 3 /\ s[1] = "evidence_persistence" /\ s[2] = "verification"
      BY <3>1, StagesAre
    <3>3. SUFFICES ASSUME ValidStages(s) PROVE FALSE
      BY <2>1, <2>2 DEF BundleValid
    <3>4. PICK j \in DOMAIN StageOrder, k \in DOMAIN StageOrder :
            StageOrder[j] = s[1] /\ StageOrder[k] = s[1 + 1] /\ j < k
      BY <3>2, <3>3 DEF ValidStages
    <3>5. j = 5 /\ k = 4
      BY <3>2, <3>4, OrderIs
    <3> QED BY <3>4, <3>5
  <2>4. CASE f.body.stages = FinalStages
    <3>1. s = [i \in 1 .. 5 |-> FinalStages[5 - i + 1]]
      BY <2>2, <2>4, StagesAre DEF Reverse
    <3>2. Len(s) = 5 /\ s[1] = "evidence_finalization" /\ s[2] = "preservation"
      BY <3>1, StagesAre
    <3>3. SUFFICES ASSUME ValidStages(s) PROVE FALSE
      BY <2>1, <2>2 DEF BundleValid
    <3>4. PICK j \in DOMAIN StageOrder, k \in DOMAIN StageOrder :
            StageOrder[j] = s[1] /\ StageOrder[k] = s[1 + 1] /\ j < k
      BY <3>2, <3>3 DEF ValidStages
    <3>5. j = 7 /\ k = 6
      BY <3>2, <3>4, OrderIs
    <3> QED BY <3>4, <3>5
  <2> QED BY <2>3, <2>4
<1> QED BY <1>1, <1>2, <1>3

-----------------------------------------------------------------------------
(***************************************************************************)
(* The workflow and its sink.                                              *)
(***************************************************************************)
\* What the workflow has in memory, under its id and on its artifact.
HasFirst == FirstOn(bundle, wanted, evidence, Process, sealed)
HasFinal == wanted /\ FinalOn(bundle, evidence, Process, sealed)
HoldingInv ==
    /\ held \in {0, 1, 2}
    /\ held = 0 => bundle = None \/ HasFirst
    /\ held = 1 => HasFirst
    /\ held = 2 => HasFinal
    /\ bundle # None => evidence # 0

\* While it seals and sends, it built the bundle itself.
SendingInv ==
    /\ step \in {"verified", "sending"} =>
        /\ pending = None /\ held # 2
        /\ bundle # None => bundle.body.head.made = Process
    /\ step = "sending" => bundle # None

\* Once a revision is persisted, it builds the final one.
OwnFinal ==
    FinalOn(pending, evidence, Process, sealed) /\ pending.body.head.built = Process
PersistedInv ==
    /\ step \in {"persisted", "unfinalized", "finalizing"} => wanted /\ held # 0
    /\ step = "persisted" => pending = None
    /\ step = "unfinalized" =>
        outcome \in Handoff /\ (pending = None \/ (held = 1 /\ OwnFinal))
    /\ step = "finalizing" => outcome \in Handoff /\ held = 1 /\ OwnFinal

SavedInv ==
    /\ saved.revision \in {0, 1, 2}
    /\ outcome \in Handoff \cup {"none"} /\ saved.outcome \in Handoff \cup {"none"}
    /\ saved.status = "unfinalized" => wanted

\* A dossier is what a process built on its artifact, or is not sound any more.
Regular(d) ==
    /\ d.revision = 1 => FirstOn(d.bundle, wanted, d.id, Process, d.artifact)
    /\ d.revision = 2 => wanted /\ FinalOn(d.bundle, d.id, Process, d.artifact)
IsDossier(d) ==
    /\ d = [id |-> d.id, revision |-> d.revision, operation |-> d.operation,
            artifact |-> d.artifact, bundle |-> d.bundle]
    /\ d.id # 0 /\ d.revision \in {1, 2}
    /\ Regular(d) \/ (altered /\ ~Sound(d))
SinkInv ==
    /\ \A d \in sink : IsDossier(d)
    /\ \A d, e \in sink : d.id = e.id /\ d.revision = e.revision => d = e

\* Of the final revisions in the sink, this process built the one it has.
OwnInv ==
    ~altered => \A d \in sink :
        d.revision = 2 /\ d.bundle.body.head.built = Process =>
            d.bundle = IF held = 2 THEN bundle ELSE pending

WorkflowInv ==
    /\ step \in {"verified", "sending", "persisted", "unfinalized", "finalizing", "unknown",
                 "done", "refused", "invalid"}
    /\ HoldingInv /\ SendingInv /\ PersistedInv /\ SavedInv /\ SinkInv /\ OwnInv
    /\ BundlesAreValid /\ DossiersAgree /\ HeldIsStored

\* The recorder of the user that does not use the workflow, and of the workflow.
UserInv ==
    /\ user \in {"application", "workflow"} /\ wanted \in BOOLEAN /\ restarts \in Nat
    /\ user = "workflow" =>
        /\ rec = RecOf(Process) /\ first = "completed_unverified"
        /\ sealing = None /\ artifact = None /\ persisted = None

BundleInv == UserInv /\ RecorderInv /\ WorkflowInv

LEMMA SealingsAre ==
    ASSUME NEW p PROVE CanBundle(Made(p))
<1>1. RecOf(p) \in {Followed, Rebuilt}
  BY DEF RecOf
<1>2. Has(RecOf(p), "completion")
  BY <1>1, WorkflowRecords
<1> QED BY <1>2 DEF CanBundle, Made, Artifact

\* A dossier stays one, for the process and for those after it.
LEMMA DossierStays ==
    ASSUME restarts \in Nat, restarts' \in {restarts, restarts + 1}, UNCHANGED wanted,
           altered => altered', NEW d, IsDossier(d)
    PROVE  IsDossier(d)'
<1>1. Process \in Nat /\ Process' \in Nat /\ Process <= Process'
  <2>1. Process' = restarts' + 1 /\ Process = restarts + 1
    BY DEF Process
  <2>2. CASE restarts' = restarts
    BY <2>1, <2>2
  <2>3. CASE restarts' = restarts + 1
    BY <2>1, <2>3
  <2> QED BY <2>2, <2>3
<1>2. Regular(d) => Regular(d)'
  BY <1>1, OnLater DEF Regular
<1>3. Sound(d)' <=> Sound(d)
  BY DEF Sound
<1> QED BY <1>2, <1>3 DEF IsDossier

\* A step that leaves the sink.
LEMMA SinkStays ==
    ASSUME restarts \in Nat, restarts' \in {restarts, restarts + 1},
           UNCHANGED <<wanted, sink, altered>>, SinkInv, DossiersAgree
    PROVE  SinkInv' /\ DossiersAgree'
<1>1. SinkInv'
  <2>1. \A d \in sink : IsDossier(d)'
    BY DossierStays DEF SinkInv
  <2> QED BY <2>1 DEF SinkInv
<1>2. DossiersAgree'
  BY DEF DossiersAgree, Continues
<1> QED BY <1>1, <1>2

\* What is regular, and the final revision among it, stands on what is there.
LEMMA FinalContinues ==
    ASSUME NEW e, NEW d, Regular(e), Regular(d), e.revision = 2, d.revision = 1, d.id = e.id
    PROVE  Continues(e, d)
<1>1. wanted /\ FinalOn(e.bundle, e.id, Process, e.artifact)
  BY DEF Regular
<1>2. FirstOn(d.bundle, wanted, d.id, Process, d.artifact)
  BY DEF Regular
<1>3. d.bundle.body.stages = FirstStages /\ d.bundle.body.preservation = "pending"
      /\ d.bundle.body.cites = d.artifact.digest
  BY <1>1, <1>2, FirstOnIs DEF Built
<1>4. e.bundle.body.stages = FinalStages /\ e.bundle.body.cites = e.artifact.digest
  BY <1>1, FinalOnIs DEF Built
<1>5. IsPrefix(FirstStages, FinalStages)
  <2>1. FirstStages \in Seq(Stage) /\ FinalStages \in Seq(Stage)
        /\ Len(FirstStages) = 3 /\ Len(FinalStages) = 5
    BY StagesAre
  <2>2. SubSeq(FirstStages, 1, 3) = [i \in 1 .. 3 |-> FirstStages[i]]
    BY <2>1
  <2>3. SubSeq(FinalStages, 1, 3) = [i \in 1 .. 3 |-> FinalStages[i]]
    BY <2>1
  <2>4. \A i \in 1 .. 3 : FirstStages[i] = FinalStages[i]
    BY StagesAre
  <2>5. SubSeq(FirstStages, 1, 3) = SubSeq(FinalStages, 1, 3)
    BY <2>2, <2>3, <2>4
  <2> QED BY <2>1, <2>5 DEF IsPrefix
<1>6. d.artifact = Made(d.bundle.body.head.made) /\ e.artifact = Made(e.bundle.body.head.made)
  BY <1>1, <1>2 DEF FirstOn, FinalOn
<1> QED BY <1>3, <1>4, <1>5, <1>6 DEF Continues

\* A call of the sink, with a dossier of the workflow.
LEMMA SendKeeps ==
    ASSUME restarts \in Nat, UNCHANGED <<wanted, restarts, altered>>, SinkInv, DossiersAgree,
           NEW d, Send(d), IsDossier(d), Regular(d)
    PROVE  /\ SinkInv' /\ DossiersAgree' /\ sink \subseteq sink'
           /\ \A e \in sink' : e \in sink \/ e = d
<1>1. CASE sink' = sink
  BY <1>1, SinkStays
<1>2. CASE MayTake(d) /\ sink' = sink \cup {d}
  <2>1. \A e \in sink : e.id = d.id => e.revision < d.revision
    BY <1>2 DEF MayTake
  <2>2. \A e \in sink : IsDossier(e) /\ e.revision \in {1, 2}
    BY DEF SinkInv, IsDossier
  <2>3. d.revision \in {1, 2}
    BY DEF IsDossier
  <2>4. SinkInv'
    <3>1. \A e \in sink' : IsDossier(e)'
      BY <1>2, <2>2, DossierStays
    <3>2. ASSUME NEW x \in sink', NEW y \in sink', x.id = y.id, x.revision = y.revision
          PROVE  x = y
      <4>1. CASE x \in sink /\ y \in sink
        BY <3>2, <4>1 DEF SinkInv
      <4>2. CASE x = d /\ y \in sink
        BY <2>1, <2>2, <2>3, <3>2, <4>2
      <4>3. CASE x \in sink /\ y = d
        BY <2>1, <2>2, <2>3, <3>2, <4>3
      <4> QED BY <1>2, <4>1, <4>2, <4>3
    <3> QED BY <3>1, <3>2 DEF SinkInv
  <2>5. DossiersAgree'
    <3> SUFFICES ASSUME ~altered', NEW e \in sink', e.revision = 2
                 PROVE  \E x \in sink' : Continues(e, x)
      BY DEF DossiersAgree, Continues
    <3>1. CASE e \in sink
      BY <1>2, <3>1 DEF DossiersAgree
    <3>2. CASE e = d
      <4>1. PICK x \in sink : x.id = d.id
        BY <1>2, <3>2 DEF MayTake
      <4>2. x.revision = 1
        BY <2>1, <2>2, <3>2, <4>1
      <4>3. Regular(x)
        BY <2>2 DEF IsDossier
      <4>4. Continues(e, x)
        BY <3>2, <4>1, <4>2, <4>3, FinalContinues
      <4> QED BY <1>2, <4>4
    <3> QED BY <1>2, <3>1, <3>2
  <2> QED BY <1>2, <2>4, <2>5
<1> QED BY <1>1, <1>2 DEF Send

\* A checkpoint that is put or refused.
LEMMA SavedStays ==
    ASSUME SavedInv, UNCHANGED wanted, NEW status, status = "unfinalized" => wanted,
           saved' = saved \/ saved' = Checkpoint(status),
           held' \in {0, 1, 2}, outcome' \in Handoff \cup {"none"}
    PROVE  SavedInv'
<1>1. CASE saved' = saved
  BY <1>1 DEF SavedInv
<1>2. CASE saved' = Checkpoint(status)
  <2>1. saved'.revision = held' /\ saved'.outcome = outcome' /\ saved'.status = status
    BY <1>2 DEF Checkpoint
  <2> QED BY <2>1 DEF SavedInv
<1> QED BY <1>1, <1>2

\* What is stored stays stored.
LEMMA StoredStays ==
    ASSUME UNCHANGED <<held, evidence, bundle, sealed, altered>>, sink \subseteq sink',
           HeldIsStored
    PROVE  HeldIsStored'
BY DEF HeldIsStored

LEMMA SealAndBundleStep ==
    ASSUME BundleInv, user = "workflow", UNCHANGED rec, SealAndBundle PROVE WorkflowInv'
<1>1. /\ step = "verified" /\ evidence' = OwnId(evidence) /\ sealed' = Artifact(rec)
      /\ bundle' = IF bundle # None /\ bundle.body.head.id = evidence'
                                    /\ bundle.body.head.revision = 1
                   THEN bundle ELSE FirstBundle(evidence', sealed')
      /\ UNCHANGED <<outcome, held, pending, wanted, sink, altered, restarts>>
      /\ CanBundle(sealed') /\ BundleValid(bundle', sealed')
            => step' = "sending" /\ saved' = saved
  BY DEF SealAndBundle
<1>2. rec = RecOf(Process) /\ restarts \in Nat /\ Process \in Nat /\ Process # 0
  BY DEF BundleInv, UserInv, Process
<1>3. /\ HoldingInv /\ SavedInv /\ SinkInv /\ OwnInv /\ DossiersAgree /\ HeldIsStored
      /\ pending = None /\ held # 2
      /\ bundle # None => bundle.body.head.made = Process
  BY <1>1 DEF BundleInv, WorkflowInv, SendingInv
<1>4. sealed' = Made(Process) /\ evidence' # 0 /\ Process' = Process
  BY <1>1, <1>2 DEF Made, OwnId, Process
<1>5. FirstOn(bundle', wanted, evidence', Process, sealed') /\ bundle'.body.head.made = Process
      /\ (bundle # None => UNCHANGED <<bundle, sealed, evidence>>)
  <2>1. CASE bundle = None
    <3>1. bundle' = FirstBundle(evidence', Made(Process))
      BY <1>1, <1>4, <2>1
    <3> QED BY <1>2, <1>4, <2>1, <3>1, FirstBuilt
  <2>2. CASE bundle # None
    <3>1. HasFirst /\ evidence # 0
      BY <1>3, <2>2 DEF HoldingInv
    <3>2. bundle.body.head.id = evidence /\ bundle.body.head.revision = 1
      BY <3>1, FirstOnIs DEF HasFirst, Built
    <3>3. evidence' = evidence /\ bundle' = bundle
      BY <1>1, <2>2, <3>1, <3>2 DEF OwnId
    <3>4. sealed' = sealed
      BY <1>3, <1>4, <2>2, <3>1 DEF HasFirst, FirstOn
    <3> QED BY <1>3, <2>2, <3>1, <3>3, <3>4 DEF HasFirst
  <2> QED BY <2>1, <2>2
<1>6. BundleValid(bundle', sealed') /\ bundle' # None
  BY <1>5, FirstOnIs DEF Built
<1>7. step' = "sending" /\ saved' = saved
  BY <1>1, <1>4, <1>6, SealingsAre
<1>8. HoldingInv' /\ SendingInv'
  BY <1>1, <1>3, <1>4, <1>5, <1>6, <1>7 DEF HoldingInv, SendingInv, HasFirst
<1>9. SinkInv' /\ DossiersAgree' /\ SavedInv' /\ OwnInv'
  BY <1>1, <1>2, <1>3, <1>4, <1>7, SinkStays DEF SavedInv, OwnInv
<1>10. HeldIsStored'
  <2>1. CASE bundle = None
    <3>1. held' = 0
      BY <1>1, <1>3, <2>1, FirstOnIs DEF HoldingInv, HasFirst, Built
    <3> QED BY <3>1 DEF HeldIsStored
  <2>2. CASE bundle # None
    BY <1>1, <1>3, <1>5, <2>2, StoredStays
  <2> QED BY <2>1, <2>2
<1> QED BY <1>7, <1>8, <1>9, <1>10 DEF WorkflowInv, PersistedInv, BundlesAreValid

\* What it sends.
LEMMA FirstIsRegular ==
    ASSUME BundleInv, step = "sending"
    PROVE  /\ First = [id |-> evidence, revision |-> 1, operation |-> evidence,
                       artifact |-> sealed, bundle |-> bundle]
           /\ IsDossier(First) /\ Regular(First)
           /\ HasFirst /\ bundle.body.head.made = Process /\ evidence # 0
           /\ held \in {0, 1} /\ pending = None
<1>1. /\ HasFirst /\ bundle.body.head.made = Process /\ evidence # 0
      /\ held \in {0, 1} /\ pending = None
  BY DEF BundleInv, WorkflowInv, HoldingInv, SendingInv
<1>2. First = [id |-> evidence, revision |-> 1, operation |-> evidence,
               artifact |-> sealed, bundle |-> bundle]
  BY DEF First, Dossier
<1>3. Regular(First)
  BY <1>1, <1>2 DEF Regular, HasFirst
<1> QED BY <1>1, <1>2, <1>3 DEF IsDossier

\* A call of the sink with the first revision.
LEMMA FirstSent ==
    ASSUME BundleInv, step = "sending", Send(First), UNCHANGED <<wanted, restarts, altered>>
    PROVE  /\ SinkInv' /\ DossiersAgree' /\ sink \subseteq sink'
           /\ \A d \in sink' : d.revision = 2 => d \in sink
<1>1. PICK d : d = First
  OBVIOUS
<1>2. d.revision = 1 /\ IsDossier(d) /\ Regular(d)
  BY <1>1, FirstIsRegular
<1>3. restarts \in Nat /\ SinkInv /\ DossiersAgree
  BY DEF BundleInv, UserInv, WorkflowInv
<1>4. Send(d)
  BY <1>1 DEF Send, MayTake
<1>5. /\ SinkInv' /\ DossiersAgree' /\ sink \subseteq sink'
      /\ \A e \in sink' : e \in sink \/ e = d
  BY <1>2, <1>3, <1>4, SendKeeps
<1> QED BY <1>2, <1>5

LEMMA FirstPersistedStep ==
    ASSUME BundleInv, user = "workflow", UNCHANGED rec, FirstPersisted PROVE WorkflowInv'
<1>1. /\ step = "sending" /\ Send(First) /\ Found(First) /\ held' = 1
      /\ UNCHANGED <<evidence, outcome, sealed, bundle, pending, wanted, altered, restarts>>
      /\ \/ saved' = Checkpoint("persisted") /\ step' = IF wanted THEN "persisted" ELSE "done"
         \/ FailsAs("pending", "verified")
  BY DEF FirstPersisted
<1>2. HasFirst /\ bundle.body.head.made = Process /\ evidence # 0 /\ pending = None
      /\ held \in {0, 1}
  BY <1>1, FirstIsRegular
<1>3. wanted \in BOOLEAN /\ restarts \in Nat /\ SavedInv /\ OwnInv /\ Process' = Process
  BY <1>1 DEF BundleInv, UserInv, WorkflowInv, Process
<1>4. /\ SinkInv' /\ DossiersAgree' /\ sink \subseteq sink'
      /\ \A d \in sink' : d.revision = 2 => d \in sink
  BY <1>1, FirstSent
<1>5. HoldingInv'
  BY <1>1, <1>2, <1>3 DEF HoldingInv, HasFirst
<1>6. step' \in {"persisted", "done", "verified", "unknown"} /\ (step' = "persisted" => wanted)
  BY <1>1, <1>3 DEF FailsAs
<1>7. SavedInv'
  <2>1. outcome' \in Handoff \cup {"none"}
    BY <1>1, <1>3 DEF SavedInv
  <2>2. CASE saved' = Checkpoint("persisted")
    BY <1>1, <1>3, <2>1, <2>2, SavedStays
  <2>3. CASE FailsAs("pending", "verified")
    <3>1. saved' = saved \/ saved' = Checkpoint("pending")
      BY <2>3 DEF FailsAs
    <3> QED BY <1>1, <1>3, <2>1, <3>1, SavedStays
  <2> QED BY <1>1, <2>2, <2>3
<1>8. SendingInv' /\ PersistedInv' /\ BundlesAreValid'
  BY <1>1, <1>2, <1>3, <1>6 DEF SendingInv, PersistedInv, BundlesAreValid
<1>9. OwnInv'
  BY <1>1, <1>2, <1>3, <1>4 DEF OwnInv
<1>10. HeldIsStored'
  <2> SUFFICES ASSUME ~altered' PROVE HeldIsStored'
    BY DEF HeldIsStored
  <2>1. PICK d \in sink' : d.id = evidence /\ d.revision = 1
    BY <1>1, FirstIsRegular DEF Found
  <2>2. Regular(d)'
    BY <1>4 DEF SinkInv, IsDossier
  <2>3. FirstOn(d.bundle, wanted, d.id, Process, d.artifact)
    BY <1>1, <1>3, <2>1, <2>2 DEF Regular
  <2>4. d.bundle.body.head.built = d.bundle.body.head.made
        /\ bundle.body.head.built = bundle.body.head.made
    BY <1>2, <2>3, FirstOnIs DEF HasFirst
  <2>5. ASSUME d.bundle.body.head.built = bundle.body.head.built
        PROVE  d.bundle = bundle /\ d.artifact = sealed
    BY <1>2, <2>1, <2>3, <2>4, <2>5 DEF HasFirst, FirstOn
  <2> QED BY <1>1, <2>1, <2>5 DEF HeldIsStored
<1> QED BY <1>4, <1>5, <1>6, <1>7, <1>8, <1>9, <1>10 DEF WorkflowInv

\* It has no receipt.
LEMMA FirstUnansweredStep ==
    ASSUME BundleInv, user = "workflow", UNCHANGED rec, FirstFailed \/ FirstUnknown
    PROVE  WorkflowInv'
<1>1. /\ step = "sending" /\ Send(First)
      /\ UNCHANGED <<evidence, outcome, held, sealed, bundle, pending, wanted, altered, restarts>>
      /\ FailsAs("pending", "verified") \/ Ambiguous
  BY DEF FirstFailed, FirstUnknown, memory
<1>2. HasFirst /\ bundle.body.head.made = Process /\ evidence # 0 /\ pending = None
      /\ held \in {0, 1}
  BY <1>1, FirstIsRegular
<1>3. /\ restarts \in Nat /\ SavedInv /\ OwnInv /\ HoldingInv /\ HeldIsStored
      /\ Process' = Process
  BY <1>1 DEF BundleInv, UserInv, WorkflowInv, Process
<1>4. /\ SinkInv' /\ DossiersAgree' /\ sink \subseteq sink'
      /\ \A d \in sink' : d.revision = 2 => d \in sink
  BY <1>1, FirstSent
<1>5. PICK status \in {"pending", "ambiguous"} : saved' = saved \/ saved' = Checkpoint(status)
  BY <1>1 DEF FailsAs, Ambiguous
<1>6. step' \in {"verified", "unknown"}
  BY <1>1 DEF FailsAs, Ambiguous
<1>7. SavedInv'
  <2>1. outcome' \in Handoff \cup {"none"} /\ held' \in {0, 1, 2}
    BY <1>1, <1>2, <1>3 DEF SavedInv
  <2> QED BY <1>1, <1>3, <1>5, <2>1, SavedStays
<1>8. HoldingInv' /\ SendingInv' /\ PersistedInv' /\ BundlesAreValid'
  BY <1>1, <1>2, <1>3, <1>6
     DEF HoldingInv, HasFirst, HasFinal, SendingInv, PersistedInv, BundlesAreValid
<1>9. OwnInv' /\ HeldIsStored'
  BY <1>1, <1>3, <1>4, StoredStays DEF OwnInv
<1> QED BY <1>4, <1>6, <1>7, <1>8, <1>9 DEF WorkflowInv

LEMMA FinalizeStep ==
    ASSUME BundleInv, user = "workflow", UNCHANGED rec, NEW result \in Handoff, Finalize(result)
    PROVE  WorkflowInv'
<1>1. /\ step = "persisted" \/ (step = "unfinalized" /\ result = outcome)
      /\ outcome' = result
      /\ pending' = IF pending # None THEN pending ELSE FinalBundle(bundle, sealed, result)
      /\ UNCHANGED <<evidence, held, sealed, bundle, wanted, sink, altered, restarts>>
      /\ IF BundleValid(pending', sealed)
         THEN step' = "finalizing" /\ saved' = saved
         ELSE FailsAs("unfinalized", "invalid")
  BY DEF Finalize
<1>2. /\ wanted /\ held \in {1, 2} /\ (pending = None \/ (held = 1 /\ OwnFinal))
      /\ HoldingInv /\ SavedInv /\ SinkInv /\ OwnInv /\ DossiersAgree /\ HeldIsStored
      /\ restarts \in Nat /\ Process' = Process
  BY <1>1 DEF BundleInv, UserInv, WorkflowInv, PersistedInv, HoldingInv, Process
<1>3. SinkInv' /\ DossiersAgree' /\ HeldIsStored'
  BY <1>1, <1>2, SinkStays, StoredStays
<1>4. HoldingInv'
  BY <1>1, <1>2 DEF HoldingInv, HasFirst, HasFinal
<1>5. SavedInv'
  <2>1. saved' = saved \/ saved' = Checkpoint("unfinalized")
    BY <1>1 DEF FailsAs
  <2>2. held' \in {0, 1, 2} /\ outcome' \in Handoff \cup {"none"}
    BY <1>1, <1>2
  <2> QED BY <1>1, <1>2, <2>1, <2>2, SavedStays
<1>6. CASE held = 1
  <2>1. FinalOn(pending', evidence, Process, sealed) /\ pending'.body.head.built = Process
        /\ (pending # None => pending' = pending)
    <3>1. CASE pending # None
      BY <1>1, <1>2, <3>1 DEF OwnFinal
    <3>2. CASE pending = None
      <4>1. HasFirst /\ pending' = FinalBundle(bundle, sealed, result)
        BY <1>1, <1>2, <1>6, <3>2 DEF HoldingInv
      <4> QED BY <1>2, <3>2, <4>1, FinalBuilt DEF HasFirst
    <3> QED BY <3>1, <3>2
  <2>2. BundleValid(pending', sealed)
    BY <2>1, FinalOnIs DEF Built
  <2>3. step' = "finalizing"
    BY <1>1, <2>2
  <2>4. OwnFinal'
    BY <1>1, <1>2, <2>1 DEF OwnFinal
  <2>5. PersistedInv' /\ SendingInv' /\ BundlesAreValid'
    BY <1>1, <1>2, <1>6, <2>3, <2>4 DEF PersistedInv, SendingInv, BundlesAreValid
  <2>6. OwnInv'
    <3> SUFFICES ASSUME ~altered, NEW d \in sink, d.revision = 2,
                        d.bundle.body.head.built = Process
                 PROVE  d.bundle = pending'
      BY <1>1, <1>2, <1>6 DEF OwnInv
    <3>1. d.bundle = pending
      BY <1>2, <1>6 DEF OwnInv
    <3>2. FinalOn(d.bundle, d.id, Process, d.artifact)
      BY <1>2 DEF SinkInv, IsDossier, Regular
    <3>3. pending # None
      BY <3>1, <3>2, FinalOnIs DEF Built
    <3> QED BY <2>1, <3>1, <3>3
  <2> QED BY <1>3, <1>4, <1>5, <2>3, <2>5, <2>6 DEF WorkflowInv
<1>7. CASE held = 2
  <2>1. HasFinal /\ pending = None
    BY <1>2, <1>7 DEF HoldingInv
  <2>2. pending' = FinalBundle(bundle, sealed, result)
    BY <1>1, <2>1
  <2>3. bundle.body.stages = FinalStages
    BY <2>1, FinalOnIs DEF HasFinal
  <2>4. ~BundleValid(pending', sealed)
    BY <2>2, <2>3, FinalOnFinal
  <2>5. step' \in {"invalid", "unknown"}
    BY <1>1, <2>4 DEF FailsAs
  <2>6. PersistedInv' /\ SendingInv' /\ BundlesAreValid'
    BY <1>1, <1>7, <2>5 DEF PersistedInv, SendingInv, BundlesAreValid
  <2>7. OwnInv'
    BY <1>1, <1>2, <1>7 DEF OwnInv
  <2> QED BY <1>3, <1>4, <1>5, <2>5, <2>6, <2>7 DEF WorkflowInv
<1> QED BY <1>2, <1>6, <1>7

LEMMA FinalIsRegular ==
    ASSUME BundleInv, step = "finalizing"
    PROVE  /\ Final = [id |-> evidence, revision |-> 2, operation |-> closing,
                       artifact |-> sealed, bundle |-> pending]
           /\ IsDossier(Final) /\ Regular(Final)
           /\ wanted /\ held = 1 /\ OwnFinal /\ HasFirst /\ evidence # 0 /\ outcome \in Handoff
<1>1. /\ wanted /\ held = 1 /\ OwnFinal /\ HasFirst /\ outcome \in Handoff
  BY DEF BundleInv, WorkflowInv, HoldingInv, PersistedInv
<1>2. evidence # 0
  <2>1. bundle # None
    BY <1>1, FirstOnIs DEF HasFirst, Built
  <2> QED BY <2>1 DEF BundleInv, WorkflowInv, HoldingInv
<1>3. Final = [id |-> evidence, revision |-> 2, operation |-> closing,
               artifact |-> sealed, bundle |-> pending]
  BY DEF Final, Dossier
<1>4. Final.revision = 2 /\ Final.id = evidence /\ Final.bundle = pending
      /\ Final.artifact = sealed
  BY <1>3
<1>5. Regular(Final)
  <2>1. Final.revision # 1
    BY <1>4
  <2> QED BY <1>1, <1>4, <2>1 DEF Regular, OwnFinal
<1> QED BY <1>1, <1>2, <1>3, <1>4, <1>5 DEF IsDossier

\* A call of the sink with the final revision.
LEMMA FinalSent ==
    ASSUME BundleInv, step = "finalizing", Send(Final), UNCHANGED <<wanted, restarts, altered>>
    PROVE  /\ SinkInv' /\ DossiersAgree' /\ sink \subseteq sink'
           /\ ~altered => \A d \in sink' :
                d.revision = 2 /\ d.bundle.body.head.built = Process => d.bundle = pending
<1>1. PICK d : d = Final
  OBVIOUS
<1>2. d.bundle = pending /\ IsDossier(d) /\ Regular(d) /\ held = 1
  BY <1>1, FinalIsRegular
<1>3. restarts \in Nat /\ SinkInv /\ DossiersAgree /\ OwnInv
  BY DEF BundleInv, UserInv, WorkflowInv
<1>4. Send(d)
  BY <1>1 DEF Send, MayTake
<1>5. /\ SinkInv' /\ DossiersAgree' /\ sink \subseteq sink'
      /\ \A e \in sink' : e \in sink \/ e = d
  BY <1>2, <1>3, <1>4, SendKeeps
<1> QED BY <1>2, <1>3, <1>5 DEF OwnInv

LEMMA FinalPersistedStep ==
    ASSUME BundleInv, user = "workflow", UNCHANGED rec, FinalPersisted PROVE WorkflowInv'
<1>1. /\ step = "finalizing" /\ Send(Final) /\ Found(Final)
      /\ bundle' = pending /\ pending' = None /\ held' = 2
      /\ UNCHANGED <<evidence, outcome, sealed, wanted, altered, restarts>>
      /\ \/ outcome = "failed" /\ FailsAs("persisted", "done")
         \/ outcome = "preserved" /\ saved' = Checkpoint("preserved") /\ step' = "done"
         \/ outcome = "preserved" /\ FailsAs("unfinalized", "unfinalized")
  BY DEF FinalPersisted
<1>2. wanted /\ OwnFinal /\ evidence # 0 /\ outcome \in Handoff
  BY <1>1, FinalIsRegular
<1>3. restarts \in Nat /\ SavedInv /\ Process' = Process
  BY <1>1 DEF BundleInv, UserInv, WorkflowInv, Process
<1>4. /\ SinkInv' /\ DossiersAgree'
      /\ ~altered => \A d \in sink' :
            d.revision = 2 /\ d.bundle.body.head.built = Process => d.bundle = pending
  BY <1>1, FinalSent
<1>5. HoldingInv'
  BY <1>1, <1>2, <1>3 DEF HoldingInv, HasFinal, OwnFinal
<1>6. step' \in {"done", "unfinalized", "unknown"}
  BY <1>1 DEF FailsAs
<1>7. SavedInv'
  <2>1. PICK status \in {"persisted", "preserved", "unfinalized"} :
            saved' = saved \/ saved' = Checkpoint(status)
    BY <1>1 DEF FailsAs
  <2>2. held' \in {0, 1, 2} /\ outcome' \in Handoff \cup {"none"}
    BY <1>1, <1>2
  <2> QED BY <1>1, <1>2, <1>3, <2>1, <2>2, SavedStays
<1>8. SendingInv' /\ PersistedInv' /\ BundlesAreValid'
  BY <1>1, <1>2, <1>6 DEF SendingInv, PersistedInv, BundlesAreValid
<1>9. OwnInv'
  BY <1>1, <1>3, <1>4 DEF OwnInv
<1>10. HeldIsStored'
  <2> SUFFICES ASSUME ~altered' PROVE HeldIsStored'
    BY DEF HeldIsStored
  <2>1. PICK d \in sink' : d.id = evidence /\ d.revision = 2
    BY <1>1, FinalIsRegular DEF Found
  <2>2. Regular(d)'
    BY <1>4 DEF SinkInv, IsDossier
  <2>3. d.artifact = Made(d.bundle.body.head.made)
    BY <2>1, <2>2 DEF Regular, FinalOn
  <2>4. ASSUME d.bundle.body.head.built = pending.body.head.built
        PROVE  d.bundle = pending /\ d.artifact = sealed
    <3>1. d.bundle = pending
      BY <1>1, <1>2, <1>4, <2>1, <2>4 DEF OwnFinal
    <3> QED BY <1>2, <2>3, <3>1 DEF OwnFinal, FinalOn
  <2> QED BY <1>1, <2>1, <2>4 DEF HeldIsStored
<1> QED BY <1>4, <1>5, <1>6, <1>7, <1>8, <1>9, <1>10 DEF WorkflowInv

LEMMA FinalUnansweredStep ==
    ASSUME BundleInv, user = "workflow", UNCHANGED rec, FinalFailed \/ FinalUnknown
    PROVE  WorkflowInv'
<1>1. /\ step = "finalizing" /\ Send(Final)
      /\ UNCHANGED <<evidence, outcome, held, sealed, bundle, pending, wanted, altered, restarts>>
      /\ FailsAs("unfinalized", "unfinalized") \/ Ambiguous
  BY DEF FinalFailed, FinalUnknown, memory
<1>2. wanted /\ held = 1 /\ OwnFinal /\ HasFirst /\ outcome \in Handoff
  BY <1>1, FinalIsRegular
<1>3. /\ restarts \in Nat /\ SavedInv /\ HoldingInv /\ HeldIsStored /\ Process' = Process
  BY <1>1 DEF BundleInv, UserInv, WorkflowInv, Process
<1>4. /\ SinkInv' /\ DossiersAgree' /\ sink \subseteq sink'
      /\ ~altered => \A d \in sink' :
            d.revision = 2 /\ d.bundle.body.head.built = Process => d.bundle = pending
  BY <1>1, FinalSent
<1>5. PICK status \in {"unfinalized", "ambiguous"} :
        saved' = saved \/ saved' = Checkpoint(status)
  BY <1>1 DEF FailsAs, Ambiguous
<1>6. step' \in {"unfinalized", "unknown"}
  BY <1>1 DEF FailsAs, Ambiguous
<1>7. SavedInv'
  <2>1. outcome' \in Handoff \cup {"none"} /\ held' \in {0, 1, 2}
    BY <1>1, <1>2, <1>3
  <2> QED BY <1>1, <1>2, <1>3, <1>5, <2>1, SavedStays
<1>8. HoldingInv' /\ OwnFinal'
  BY <1>1, <1>2, <1>3 DEF HoldingInv, HasFirst, HasFinal, OwnFinal
<1>9. SendingInv' /\ PersistedInv' /\ BundlesAreValid'
  BY <1>1, <1>2, <1>6, <1>8 DEF SendingInv, PersistedInv, BundlesAreValid
<1>10. OwnInv' /\ HeldIsStored'
  BY <1>1, <1>2, <1>3, <1>4, StoredStays DEF OwnInv
<1> QED BY <1>4, <1>6, <1>7, <1>8, <1>9, <1>10 DEF WorkflowInv

-----------------------------------------------------------------------------
\* The process that follows finds no final revision of its own.
LEMMA RestartKeeps ==
    ASSUME BundleInv, Restart
    PROVE  SinkInv' /\ DossiersAgree' /\ OwnInv'
<1>1. restarts \in Nat /\ SinkInv /\ DossiersAgree
  BY DEF BundleInv, UserInv, WorkflowInv
<1>2. restarts' = restarts + 1 /\ UNCHANGED <<wanted, sink, altered>>
  BY DEF Restart
<1>3. SinkInv' /\ DossiersAgree'
  BY <1>1, <1>2, SinkStays
<1>4. OwnInv'
  <2> SUFFICES ASSUME ~altered, NEW d \in sink, d.revision = 2,
                      d.bundle.body.head.built = Process'
               PROVE  FALSE
    BY <1>2 DEF OwnInv
  <2>1. Regular(d)
    BY <1>1 DEF SinkInv, IsDossier
  <2>2. d.bundle.body.head.built \in 1 .. Process
    BY <2>1 DEF Regular, FinalOn
  <2>3. Process = restarts + 1 /\ Process' = restarts + 2
    BY <1>1, <1>2 DEF Process
  <2> QED BY <1>1, <2>2, <2>3
<1> QED BY <1>3, <1>4

\* It goes on with nothing.
LEMMA RestartAnewStep ==
    ASSUME BundleInv, RestartPending \/ RestartUnnamed \/ RestartOnUnsound PROVE WorkflowInv'
<1>1. /\ Restart /\ Nothing /\ step' \in {"verified", "refused", "unknown"}
      /\ saved' = saved \/ saved' = Checkpoint("pending")
  BY DEF RestartPending, RestartUnnamed, RestartOnUnsound, FailsAs
<1>2. /\ held' = 0 /\ outcome' = "none" /\ bundle' = None /\ pending' = None
      /\ UNCHANGED wanted
  BY <1>1 DEF Restart, Nothing
<1>3. SinkInv' /\ DossiersAgree' /\ OwnInv'
  BY <1>1, RestartKeeps
<1>4. SavedInv'
  <2>1. SavedInv
    BY DEF BundleInv, WorkflowInv
  <2>2. held' \in {0, 1, 2} /\ outcome' \in Handoff \cup {"none"}
    BY <1>2
  <2> QED BY <1>1, <1>2, <2>1, <2>2, SavedStays
<1>5. HoldingInv' /\ SendingInv' /\ PersistedInv' /\ BundlesAreValid' /\ HeldIsStored'
  BY <1>1, <1>2 DEF HoldingInv, SendingInv, PersistedInv, BundlesAreValid, HeldIsStored, None
<1> QED BY <1>1, <1>3, <1>4, <1>5 DEF WorkflowInv

\* It goes on with the dossier it reads back, which is sound and so regular.
LEMMA RestartPersistedStep ==
    ASSUME BundleInv, RestartPersisted PROVE WorkflowInv'
<1>1. /\ saved.revision # 0 /\ Restart /\ held' = saved.revision /\ outcome' = saved.outcome
      /\ saved' = saved
  BY DEF RestartPersisted
<1>2. PICK d \in sink :
        /\ Named(d) /\ Sound(d) /\ sealed' = ArtifactOf(d) /\ bundle' = d.bundle
        /\ step' = IF saved.status = "preserved" /\ d.bundle.body.preservation = "preserved"
                   THEN "done"
                   ELSE IF saved.status = "unfinalized" /\ saved.outcome # "none"
                   THEN "unfinalized"
                   ELSE IF wanted THEN "persisted" ELSE "refused"
  BY DEF RestartPersisted
<1>3. /\ evidence' = saved.evidence /\ pending' = None
      /\ UNCHANGED <<wanted, sink, altered>> /\ restarts' = restarts + 1
  BY <1>1 DEF Restart
<1>4. restarts \in Nat /\ SavedInv /\ SinkInv /\ wanted \in BOOLEAN
  BY DEF BundleInv, UserInv, WorkflowInv
<1>5. SinkInv' /\ DossiersAgree' /\ OwnInv'
  BY <1>1, RestartKeeps
<1>6. d.id = evidence' /\ d.revision = held' /\ sealed' = d.artifact /\ d.id # 0
      /\ d.revision \in {1, 2}
  BY <1>1, <1>2, <1>3, <1>4 DEF Named, ArtifactOf, SinkInv, IsDossier
<1>7. Regular(d)'
  <2>1. IsDossier(d)'
    BY <1>3, <1>5 DEF SinkInv
  <2>2. Sound(d)' <=> Sound(d)
    BY DEF Sound
  <2> QED BY <1>2, <2>1, <2>2 DEF IsDossier
<1>8. step' \in {"done", "unfinalized", "persisted", "refused"}
      /\ (step' = "persisted" => wanted)
      /\ (step' = "unfinalized" => wanted /\ outcome' \in Handoff)
  <2>1. saved.status = "unfinalized" => wanted
    BY <1>4 DEF SavedInv
  <2>2. saved.outcome # "none" => outcome' \in Handoff
    BY <1>1, <1>4 DEF SavedInv
  <2> QED BY <1>2, <1>4, <2>1, <2>2
<1>9. HoldingInv'
  <2>1. held' \in {1, 2}
    BY <1>6
  <2>2. held' = 1 => HasFirst'
    BY <1>2, <1>6, <1>7 DEF Regular, HasFirst
  <2>3. held' = 2 => HasFinal'
    BY <1>2, <1>6, <1>7 DEF Regular, HasFinal
  <2> QED BY <1>6, <2>1, <2>2, <2>3 DEF HoldingInv
<1>10. SavedInv'
  BY <1>1, <1>3, <1>4 DEF SavedInv
<1>11. SendingInv' /\ PersistedInv' /\ BundlesAreValid'
  BY <1>3, <1>6, <1>8 DEF SendingInv, PersistedInv, BundlesAreValid, None
<1>12. HeldIsStored'
  BY <1>2, <1>3, <1>6 DEF HeldIsStored
<1> QED BY <1>5, <1>8, <1>9, <1>10, <1>11, <1>12 DEF WorkflowInv

-----------------------------------------------------------------------------
\* What a regular dossier holds.
LEMMA RegularIs ==
    ASSUME NEW d, d.revision \in {1, 2}, Regular(d)
    PROVE  /\ Built(d.bundle, d.id, d.revision, d.artifact)
           /\ d.bundle.body.stages \in {FirstStages, FinalStages}
<1>1. CASE d.revision = 1
  <2>1. FirstOn(d.bundle, wanted, d.id, Process, d.artifact)
    BY <1>1 DEF Regular
  <2> QED BY <1>1, <2>1, FirstOnIs
<1>2. CASE d.revision = 2
  <2>1. FinalOn(d.bundle, d.id, Process, d.artifact)
    BY <1>2 DEF Regular
  <2> QED BY <1>2, <2>1, FinalOnIs
<1> QED BY <1>1, <1>2

\* A dossier that is altered is not sound any more.
LEMMA AlterDossierStep ==
    ASSUME BundleInv, user = "workflow", UNCHANGED rec, AlterDossier PROVE WorkflowInv'
<1>1. /\ ~altered /\ altered'
      /\ UNCHANGED <<step, wanted, evidence, outcome, held, sealed, bundle, pending, saved,
                     restarts>>
  BY DEF AlterDossier, memory
<1>2. PICK d \in sink :
        \E b \in ({e.bundle : e \in sink}
                    \cup {[d.bundle EXCEPT !.body.preservation = "not_requested"],
                          [d.bundle EXCEPT !.body.stages = Front(@)],
                          Bundle([d.bundle.body EXCEPT !.stages = Reverse(@)])}) \ {d.bundle} :
            sink' = (sink \ {d}) \cup {[d EXCEPT !.bundle = b]}
  BY DEF AlterDossier
<1>3. PICK b : /\ \/ b \in {e.bundle : e \in sink}
                  \/ b \in {[d.bundle EXCEPT !.body.preservation = "not_requested"],
                            [d.bundle EXCEPT !.body.stages = Front(@)],
                            Bundle([d.bundle.body EXCEPT !.stages = Reverse(@)])}
               /\ b # d.bundle
               /\ sink' = (sink \ {d}) \cup {[d EXCEPT !.bundle = b]}
  BY <1>2
<1>4. restarts \in Nat /\ SinkInv /\ Process' = Process
  BY <1>1 DEF BundleInv, UserInv, WorkflowInv, Process
<1>5. \A x \in sink : IsDossier(x) /\ Regular(x) /\ x.revision \in {1, 2}
  BY <1>1, <1>4 DEF SinkInv, IsDossier
<1>6. PICK n : n = [d EXCEPT !.bundle = b]
  OBVIOUS
<1>7. n = [id |-> d.id, revision |-> d.revision, operation |-> d.operation,
           artifact |-> d.artifact, bundle |-> b]
  <2>1. d = [id |-> d.id, revision |-> d.revision, operation |-> d.operation,
             artifact |-> d.artifact, bundle |-> d.bundle]
    BY <1>5 DEF IsDossier
  <2> QED BY <1>6, <2>1
<1>8. n.id = d.id /\ n.revision = d.revision /\ n.artifact = d.artifact /\ n.bundle = b
  BY <1>7
<1>9. ~Sound(n)
  <2>1. CASE b \in {e.bundle : e \in sink}
    <3>1. PICK e \in sink : b = e.bundle
      BY <2>1
    <3>2. e.id # d.id \/ e.revision # d.revision
      BY <1>3, <1>4, <3>1 DEF SinkInv
    <3>3. b.body.head.id = e.id /\ b.body.head.revision = e.revision
      <4>1. e.revision \in {1, 2} /\ Regular(e)
        BY <1>5
      <4>2. Built(e.bundle, e.id, e.revision, e.artifact)
        BY <4>1, RegularIs
      <4> QED BY <3>1, <4>2 DEF Built
    <3> QED BY <1>8, <3>2, <3>3 DEF Sound
  <2>2. CASE b \in {[d.bundle EXCEPT !.body.preservation = "not_requested"],
                    [d.bundle EXCEPT !.body.stages = Front(@)],
                    Bundle([d.bundle.body EXCEPT !.stages = Reverse(@)])}
    <3>1. PICK f : f = d.bundle
      OBVIOUS
    <3>2. f = [body |-> f.body, digest |-> f.body] /\ "stages" \in DOMAIN f.body
          /\ f.body.stages \in {FirstStages, FinalStages}
      <4>1. Built(f, d.id, d.revision, d.artifact)
            /\ f.body.stages \in {FirstStages, FinalStages}
        BY <1>5, <3>1, RegularIs
      <4>2. f = [body |-> f.body, digest |-> f.digest] /\ f.digest = f.body
        BY <4>1 DEF Built, BundleValid
      <4> QED BY <4>1, <4>2 DEF Built
    <3>3. b \in {[f EXCEPT !.body.preservation = "not_requested"],
                 [f EXCEPT !.body.stages = Front(@)],
                 Bundle([f.body EXCEPT !.stages = Reverse(@)])}
          /\ b # f
      BY <1>3, <2>2, <3>1
    <3>4. ~BundleValid(b, d.artifact)
      BY <3>2, <3>3, ChangedIsInvalid
    <3> QED BY <1>8, <3>4 DEF Sound
  <2> QED BY <1>3, <2>1, <2>2
<1>10. SinkInv'
  <2>1. ASSUME NEW x \in sink PROVE IsDossier(x)'
    BY <1>1, <1>4, <1>5, DossierStays
  <2>2. IsDossier(n)'
    <3>1. ~Sound(n)'
      BY <1>9 DEF Sound
    <3>2. d.id # 0 /\ d.revision \in {1, 2}
      BY <1>5 DEF IsDossier
    <3> QED BY <1>1, <1>7, <1>8, <3>1, <3>2 DEF IsDossier
  <2>3. ASSUME NEW x \in sink', NEW y \in sink', x.id = y.id, x.revision = y.revision
        PROVE  x = y
    <3>1. CASE x \in sink \ {d} /\ y \in sink \ {d}
      BY <1>4, <2>3, <3>1 DEF SinkInv
    <3>2. CASE x = n /\ y \in sink \ {d}
      BY <1>4, <1>8, <2>3, <3>2 DEF SinkInv
    <3>3. CASE x \in sink \ {d} /\ y = n
      BY <1>4, <1>8, <2>3, <3>3 DEF SinkInv
    <3> QED BY <1>3, <1>6, <3>1, <3>2, <3>3
  <2>4. \A x \in sink' : IsDossier(x)'
    BY <1>3, <1>6, <2>1, <2>2
  <2> QED BY <2>3, <2>4 DEF SinkInv
<1>11. OwnInv' /\ DossiersAgree' /\ HeldIsStored'
  BY <1>1 DEF OwnInv, DossiersAgree, HeldIsStored
<1>12. HoldingInv' /\ SendingInv' /\ PersistedInv' /\ SavedInv' /\ BundlesAreValid'
  <2>1. HoldingInv /\ SendingInv /\ PersistedInv /\ SavedInv /\ BundlesAreValid
    BY DEF BundleInv, WorkflowInv
  <2> QED BY <1>1, <1>4, <2>1 DEF HoldingInv, HasFirst, HasFinal, SendingInv, PersistedInv,
                OwnFinal, SavedInv, BundlesAreValid
<1> QED BY <1>1, <1>10, <1>11, <1>12 DEF WorkflowInv, BundleInv

-----------------------------------------------------------------------------
LEMMA BundleBegins == Init => BundleInv
<1> SUFFICES ASSUME Init PROVE BundleInv
  OBVIOUS
<1>0. /\ step = "verified" /\ evidence = 0 /\ outcome = "none" /\ held = 0 /\ bundle = None
      /\ pending = None /\ sink = {} /\ wanted \in BOOLEAN /\ ~altered /\ restarts = 0
      /\ saved = [status |-> "pending", evidence |-> 0, revision |-> 0, closing |-> 0,
                  outcome |-> "none"]
      /\ user \in {"application", "workflow"}
  BY DEF Init
<1>1. WorkflowInv
  BY <1>0 DEF WorkflowInv, HoldingInv, SendingInv, PersistedInv, SavedInv, SinkInv, OwnInv,
              BundlesAreValid, DossiersAgree, HeldIsStored
<1>2. CASE user = "application"
  <2>1. ProvenanceInit
    BY <1>2 DEF Init
  <2> QED BY <1>0, <1>1, <1>2, <2>1, RecorderBegins DEF BundleInv, UserInv
<1>3. CASE user = "workflow"
  <2>1. /\ rec = Followed /\ session = "completed" /\ first = "completed_unverified"
        /\ sealing = None /\ artifact = None /\ persisted = None
    BY <1>3 DEF Init
  <2>2. RecInv
    BY <2>1, WorkflowRecords DEF RecInv, OutcomeStays
  <2>3. session \in {To[e] : e \in DOMAIN To}
    <3>1. "completed" \in DOMAIN To /\ To["completed"] = "completed"
      BY DEF To, EntryOf
    <3> QED BY <2>1, <3>1
  <2>4. RecorderInv
    BY <2>1, <2>2, <2>3 DEF RecorderInv, HeldInv, Outcome
  <2>5. rec = RecOf(Process)
    BY <1>0, <2>1 DEF RecOf, Process
  <2> QED BY <1>0, <1>1, <1>3, <2>1, <2>4, <2>5 DEF BundleInv, UserInv
<1> QED BY <1>0, <1>2, <1>3

LEMMA BundleSteps == BundleInv /\ [Next]_vars => BundleInv'
<1> SUFFICES ASSUME BundleInv, [Next]_vars PROVE BundleInv'
  OBVIOUS
<1>0. WorkflowInv /\ UserInv /\ restarts \in Nat
  BY DEF BundleInv, UserInv
<1>1. ASSUME UNCHANGED workflow PROVE WorkflowInv'
  <2>1. /\ UNCHANGED <<step, wanted, evidence, outcome, held, sealed, bundle, pending, saved,
                       sink, altered, restarts>>
        /\ Process' = Process
    BY <1>1 DEF workflow, memory, Process
  <2>2. SinkInv' /\ DossiersAgree' /\ HeldIsStored'
    BY <1>0, <2>1, SinkStays, StoredStays DEF WorkflowInv
  <2> QED BY <1>0, <2>1, <2>2 DEF WorkflowInv, HoldingInv, HasFirst, HasFinal, SendingInv,
                PersistedInv, OwnFinal, SavedInv, OwnInv, BundlesAreValid
<1>2. CASE user = "application" /\ ProvenanceNext /\ UNCHANGED <<user, workflow>>
  <2>1. RecorderInv'
    BY <1>2, RecorderSteps DEF BundleInv
  <2>2. UserInv'
    BY <1>0, <1>2 DEF UserInv, workflow
  <2> QED BY <1>1, <1>2, <2>1, <2>2 DEF BundleInv
<1>3. ASSUME user = "workflow", Idle, WorkflowInv', UNCHANGED <<wanted, restarts>>
      PROVE  BundleInv'
  <2>1. UNCHANGED <<user, session, first, rec, sealing, artifact, persisted>>
        /\ Process' = Process
    BY <1>3 DEF Idle, provenance, Process
  <2>2. UserInv'
    BY <1>0, <1>3, <2>1 DEF UserInv
  <2>3. RecorderInv'
    BY <2>1 DEF BundleInv, RecorderInv, RecInv, HeldInv, BodySound, ArtifactSound
  <2> QED BY <1>3, <2>2, <2>3 DEF BundleInv
<1>4. ASSUME user = "workflow", Restarted, Restart, WorkflowInv' PROVE BundleInv'
  <2>1. /\ UNCHANGED <<user, session, first, sealing, artifact, persisted, wanted>>
        /\ rec' = Rebuilt /\ restarts' = restarts + 1
    BY <1>4 DEF Restarted, Restart
  <2>2. /\ first = "completed_unverified" /\ sealing = None /\ artifact = None
        /\ persisted = None
    BY <1>0, <1>4 DEF UserInv
  <2>3. rec' = RecOf(Process')
    <3>1. Process' = restarts + 2 /\ Process' # 1
      BY <1>0, <2>1 DEF Process
    <3> QED BY <2>1, <3>1 DEF RecOf
  <2>4. UserInv'
    BY <1>0, <1>4, <2>1, <2>2, <2>3 DEF UserInv, None, RecOf
  <2>5. RecInv'
    BY <2>1, <2>2, WorkflowRecords DEF RecInv, OutcomeStays
  <2>6. HeldInv'
    BY <2>1, <2>2 DEF HeldInv
  <2>7. RecorderInv'
    BY <2>1, <2>5, <2>6 DEF BundleInv, RecorderInv
  <2> QED BY <1>4, <2>4, <2>7 DEF BundleInv
<1>5. ASSUME Idle PROVE UNCHANGED rec
  BY <1>5 DEF Idle, provenance
<1>6. CASE user = "workflow" /\ Idle /\ SealAndBundle
  BY <1>3, <1>5, <1>6, SealAndBundleStep DEF SealAndBundle
<1>7. CASE user = "workflow" /\ Idle /\ FirstPersisted
  BY <1>3, <1>5, <1>7, FirstPersistedStep DEF FirstPersisted
<1>8. CASE user = "workflow" /\ Idle /\ (FirstFailed \/ FirstUnknown)
  BY <1>3, <1>5, <1>8, FirstUnansweredStep DEF FirstFailed, FirstUnknown
<1>9. CASE user = "workflow" /\ Idle /\ \E result \in Handoff : Finalize(result)
  BY <1>3, <1>5, <1>9, FinalizeStep DEF Finalize
<1>10. CASE user = "workflow" /\ Idle /\ FinalPersisted
  BY <1>3, <1>5, <1>10, FinalPersistedStep DEF FinalPersisted
<1>11. CASE user = "workflow" /\ Idle /\ (FinalFailed \/ FinalUnknown)
  BY <1>3, <1>5, <1>11, FinalUnansweredStep DEF FinalFailed, FinalUnknown
<1>12. CASE user = "workflow" /\ Restarted /\ (RestartPending \/ RestartUnnamed \/ RestartOnUnsound)
  BY <1>4, <1>12, RestartAnewStep DEF RestartPending, RestartUnnamed, RestartOnUnsound
<1>13. CASE user = "workflow" /\ Restarted /\ RestartPersisted
  BY <1>4, <1>13, RestartPersistedStep DEF RestartPersisted
<1>14. CASE user = "workflow" /\ Idle /\ AlterDossier
  BY <1>3, <1>5, <1>14, AlterDossierStep DEF AlterDossier
<1>15. CASE UNCHANGED vars
  <2>1. UNCHANGED <<user, provenance, workflow>> /\ WorkflowInv'
    BY <1>1, <1>15 DEF vars
  <2>2. UNCHANGED <<session, first, rec, sealing, artifact, persisted>>
        /\ UNCHANGED <<wanted, restarts>> /\ Process' = Process
    BY <2>1 DEF provenance, workflow, Process
  <2>3. UserInv'
    BY <1>0, <2>1, <2>2 DEF UserInv
  <2>4. RecorderInv'
    BY <2>2 DEF BundleInv, RecorderInv, RecInv, HeldInv, BodySound, ArtifactSound
  <2> QED BY <2>1, <2>3, <2>4 DEF BundleInv
<1> QED BY <1>2, <1>6, <1>7, <1>8, <1>9, <1>10, <1>11, <1>12, <1>13, <1>14, <1>15 DEF Next

\* The invariant of the recorder, of the workflow that uses it and of the sink.
THEOREM BundlesAreKept == Spec => []BundleInv
<1> QED BY BundleBegins, BundleSteps, PTL DEF Spec

\* Whatever the sessions and an application tell a recorder, and however often it
\* seals, what leaves it is valid unless it was full, unchanged, and says how the
\* upload ended first (provenance.ts:649-708, 823-853).
THEOREM RecorderHolds == Spec => []RecorderIsTrue
<1>1. BundleInv => RecorderIsTrue
  BY RecorderPromises DEF BundleInv
<1> QED BY <1>1, BundlesAreKept, PTL

\* Across lost answers, refused puts, retries and deaths, with the ids a process
\* finds in the checkpoint: the workflow's own bundle stops it only when it finalizes
\* a final revision once more, a final revision stands on a first one that waited for
\* it, and a revision it has a receipt for is in the sink (workflow.ts:348, 609, 778).
THEOREM RevisionsAreKept == Spec => []RevisionsHold
<1>1. BundleInv => RevisionsHold
  BY DEF BundleInv, WorkflowInv, RevisionsHold
<1> QED BY <1>1, BundlesAreKept, PTL

\* However the sink's dossier was altered, the workflow goes on with evidence that
\* agrees with itself and with its artifact (workflow.ts:367, evidence-bundle.ts:118).
THEOREM EvidenceIsSound == Spec => []ContinuesOnSound
<1>1. BundleInv => ContinuesOnSound
  <2> SUFFICES ASSUME BundleInv, bundle # None
               PROVE  bundle.digest = bundle.body /\ bundle.body.cites = sealed.digest
    BY DEF ContinuesOnSound
  <2>1. HasFirst \/ FinalOn(bundle, evidence, Process, sealed)
    BY DEF BundleInv, WorkflowInv, HoldingInv, HasFinal
  <2>2. bundle.body.cites = sealed.digest /\ BundleValid(bundle, sealed)
    BY <2>1, FirstOnIs, FinalOnIs DEF HasFirst, Built
  <2> QED BY <2>2 DEF BundleValid
<1> QED BY <1>1, BundlesAreKept, PTL
=============================================================================
