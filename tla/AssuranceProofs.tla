--------------------------- MODULE AssuranceProofs --------------------------
(***************************************************************************)
(* What is said of an ingest, for every number of exporters, derivatives,  *)
(* capabilities, bad answers and revisions: a package that stands is whole *)
(* and shows damage (PreservationExport), a conformance report can be      *)
(* believed (Conformance) and a profile does not weaken its base without   *)
(* saying so (DomainProfiles).                                             *)
(*                                                                         *)
(* The three modules share no state.  Each part gives the inductive        *)
(* invariant of one of them, shows that every step keeps it, and draws     *)
(* from it what the module promises.                                       *)
(***************************************************************************)
EXTENDS PreservationExport, Conformance, DomainProfiles, FiniteSetTheorems, SequenceTheorems,
        TLAPS

-----------------------------------------------------------------------------
(***************************************************************************)
(* The export of a package.                                                *)
(***************************************************************************)
Step == {"mapping", "mapped", "writing", "validating", "validated", "renaming", "promoted",
         "exported", "unreported", "failed"}

\* What an exporter planned: bytes it read, with the digest that was recorded.
Planned(e) ==
    /\ entries[e] = [p \in DOMAIN entries[e] |-> entries[e][p]]
    /\ DOMAIN entries[e] \subseteq Content
    /\ \A p \in DOMAIN entries[e] :
        entries[e][p] \in Bytes /\ Recorded(p) \in {"none", entries[e][p]}

PreservationTypeOK ==
    /\ given \in Given
    /\ source \in [Content -> Bytes]
    /\ step \in [Exporter -> Step]
    /\ DOMAIN entries = Exporter
    /\ blocked \in [Exporter -> SUBSET Content]
    /\ DOMAIN written = Exporter
    /\ destination.kind \in {"none", "foreign", "empty", "package"}

\* A plan that is executed has every content file.
Executed == {"mapped", "writing", "validating", "validated", "renaming"} \cup Placed
PlanInv == \A e \in Exporter :
    /\ Planned(e)
    /\ step[e] \in Executed => DOMAIN entries[e] = Content

\* What was validated is not touched before it is promoted, and then stands.
StagedInv == \A e \in Exporter :
    step[e] \in {"validated", "renaming"} => Valid(Staged(e))

\* The package at the destination, given its files, is that of e.
StandsFor(e) ==
    /\ destination = Package(given.profile, PlanOf(e), destination.files)
    /\ Valid(destination)
DestinationInv ==
    /\ destination.kind = "package" => \E e \in Exporter : step[e] \in Placed
    /\ \A e \in Exporter :
        step[e] \in Placed =>
            /\ destination.kind = "package" /\ StandsFor(e)
            /\ \A f \in Exporter : step[f] \in Placed => e = f

ExportInv == PreservationTypeOK /\ PlanInv /\ StagedInv /\ DestinationInv

-----------------------------------------------------------------------------
LEMMA ExportStart == PreservationInit => ExportInv
<1> SUFFICES ASSUME PreservationInit PROVE ExportInv
  OBVIOUS
<1>1. PreservationTypeOK
  BY DEF PreservationInit, PreservationTypeOK, NoPackage, Step, Bytes
<1>2. \A e \in Exporter : step[e] = "mapping" /\ entries[e] = << >>
  BY DEF PreservationInit
<1>3. PlanInv
  BY <1>2 DEF PlanInv, Planned, Executed, Placed
<1>4. StagedInv /\ DestinationInv
  BY <1>2 DEF StagedInv, DestinationInv, PreservationInit, NoPackage, Placed
<1> QED BY <1>1, <1>3, <1>4 DEF ExportInv

LEMMA ExportTypes == ExportInv /\ [PreservationNext]_export => PreservationTypeOK'
<1> SUFFICES ASSUME ExportInv, [PreservationNext]_export PROVE PreservationTypeOK'
  OBVIOUS
<1> USE DEF ExportInv, PreservationTypeOK, Step
<1>1. ASSUME NEW e \in Exporter, NEW p \in Content, VerifyBlobEntry(e, p)
      PROVE  PreservationTypeOK'
  BY <1>1 DEF VerifyBlobEntry
<1>2. ASSUME NEW e \in Exporter, Relate(e) \/ OpenStaging(e) \/ Validate(e)
                                 \/ CheckDestination(e)
      PROVE  PreservationTypeOK'
  BY <1>2 DEF Relate, OpenStaging, Validate, CheckDestination, Fail
<1>3. ASSUME NEW e \in Exporter, WriteListing(e) \/ \E p \in Content : WriteSourceEntry(e, p)
      PROVE  PreservationTypeOK'
  BY <1>3 DEF WriteListing, WriteSourceEntry, Fail
<1>4. ASSUME NEW e \in Exporter, Promote(e) PROVE PreservationTypeOK'
  BY <1>4 DEF Promote, Fail, GivesWay, Staged, Package
<1>5. ASSUME NEW e \in Exporter, Announce(e) \/ Die(e) PROVE PreservationTypeOK'
  BY <1>5 DEF Announce, Die
<1>6. CASE ChangeSource
  BY <1>6 DEF ChangeSource, Bytes
<1>7. CASE TakeDestination
  BY <1>7 DEF TakeDestination, Foreign, Empty
<1>8. CASE UNCHANGED export
  BY <1>8 DEF export
<1> QED BY <1>1, <1>2, <1>3, <1>4, <1>5, <1>6, <1>7, <1>8 DEF PreservationNext

-----------------------------------------------------------------------------
\* An entry that is added to a plan is one that was read and verified.
LEMMA PlanGrows ==
    ASSUME ExportInv, NEW e \in Exporter, NEW p \in Content, VerifyBlobEntry(e, p)
    PROVE  PlanInv'
<1>1. step[e] = "mapping" /\ UNCHANGED <<given, source, step>>
  BY DEF VerifyBlobEntry
<1>2. \A f \in Exporter : f # e => entries'[f] = entries[f]
  BY DEF VerifyBlobEntry, ExportInv, PreservationTypeOK
<1>3. \A f \in Exporter : f # e => Planned(f)'
  BY <1>1, <1>2 DEF Planned, Recorded, ExportInv, PlanInv
<1>4. Planned(e)'
  <2>1. CASE ~Verifies(p)
    BY <2>1, <1>1 DEF VerifyBlobEntry, Planned, Recorded, ExportInv, PlanInv
  <2>2. CASE Verifies(p)
    <3>1. entries'[e] = Joined(entries[e], [q \in {p} |-> source[p]])
      BY <2>2 DEF VerifyBlobEntry, ExportInv, PreservationTypeOK
    <3>2. source[p] \in Bytes /\ Recorded(p) \in {"none", source[p]}
      BY <2>2 DEF Verifies, ExportInv, PreservationTypeOK
    <3>3. /\ DOMAIN entries'[e] = DOMAIN entries[e] \cup {p}
          /\ p \notin DOMAIN entries[e]
          /\ entries'[e][p] = source[p]
          /\ \A q \in DOMAIN entries[e] : entries'[e][q] = entries[e][q]
          /\ entries'[e] = [q \in DOMAIN entries'[e] |-> entries'[e][q]]
      BY <3>1 DEF Joined, VerifyBlobEntry
    <3> QED BY <3>2, <3>3, <1>1 DEF Planned, Recorded, ExportInv, PlanInv
  <2> QED BY <2>1, <2>2
<1>5. \A f \in Exporter : step'[f] \in Executed => DOMAIN entries'[f] = Content
  BY <1>1, <1>2 DEF ExportInv, PlanInv, Executed, Placed
<1> QED BY <1>3, <1>4, <1>5 DEF PlanInv

\* A plan is executed when every file was looked at and none is blocked.
LEMMA PlanIsTotal ==
    ASSUME ExportInv, NEW e \in Exporter, Relate(e)
    PROVE  PlanInv'
<1>1. UNCHANGED <<given, entries>> /\ \A f \in Exporter : f # e => step'[f] = step[f]
  BY DEF Relate, ExportInv, PreservationTypeOK
<1>2. \A f \in Exporter : Planned(f)'
  BY <1>1 DEF Planned, Recorded, ExportInv, PlanInv
<1>3. step'[e] \in {"failed", "mapped"}
  BY DEF Relate, ExportInv, PreservationTypeOK
<1>4. ASSUME step'[e] = "mapped" PROVE DOMAIN entries[e] = Content
  <2>1. ~Blocks /\ blocked[e] = {}
    BY <1>4 DEF Relate, ExportInv, PreservationTypeOK
  <2>2. given.status \in [Content -> {"created", "planned"}]
    BY DEF ExportInv, PreservationTypeOK, Given
  <2>3. \A p \in Content : given.status[p] # "planned"
    BY <2>1, <2>2 DEF Blocks, Range
  <2>4. \A p \in Content : given.status[p] = "created"
    BY <2>2, <2>3
  <2>5. \A p \in Content : p \in DOMAIN entries[e]
    BY <2>1, <2>4 DEF Relate
  <2> QED BY <2>5 DEF ExportInv, PlanInv, Planned
<1>5. \A f \in Exporter : step'[f] \in Executed => DOMAIN entries'[f] = Content
  BY <1>1, <1>3, <1>4 DEF ExportInv, PlanInv, Executed, Placed
<1> QED BY <1>2, <1>5 DEF PlanInv

LEMMA PlanStays ==
    ASSUME ExportInv, UNCHANGED <<given, entries>>,
           \A e \in Exporter : step'[e] \in Executed => step[e] \in Executed
    PROVE  PlanInv'
BY DEF ExportInv, PlanInv, Planned, Recorded, Executed

-----------------------------------------------------------------------------
\* Nothing but the entries and the files written tell whether a staging
\* directory is valid.
LEMMA StagedStays ==
    ASSUME ExportInv, UNCHANGED given,
           \A e \in Exporter : step'[e] \in {"validated", "renaming"} =>
               /\ entries'[e] = entries[e] /\ written'[e] = written[e]
               /\ step[e] \in {"validated", "renaming"} \/ Valid(Staged(e))
    PROVE  StagedInv'
<1> SUFFICES ASSUME NEW e \in Exporter, step'[e] \in {"validated", "renaming"}
             PROVE  Valid(Staged(e))'
  BY DEF StagedInv
<1>1. Valid(Staged(e))
  BY DEF ExportInv, StagedInv
<1>2. Staged(e)' = Staged(e)
  BY DEF Staged, PlanOf, Plan, Written, Package, Listing, Listed
<1> DEFINE package == Staged(e)
<1>3. Valid(Staged(e))' <=> Valid(Staged(e)')
  BY DEF Valid, BagItValid, OcflValid, RelationHolds
<1> QED BY <1>1, <1>2, <1>3

\* A package at the destination is not touched.
LEMMA DestinationStays ==
    ASSUME ExportInv, UNCHANGED given,
           \A e \in Exporter : step[e] \in Placed => entries'[e] = entries[e],
           \A e \in Exporter : step'[e] \in Placed <=> step[e] \in Placed,
           \/ UNCHANGED destination
           \/ destination.kind # "package" /\ destination'.kind # "package"
    PROVE  DestinationInv'
<1>1. destination'.kind = "package" => UNCHANGED destination
  OBVIOUS
<1>2. destination'.kind = "package" => \E e \in Exporter : step'[e] \in Placed
  BY <1>1 DEF ExportInv, DestinationInv
<1>3. ASSUME NEW e \in Exporter, step'[e] \in Placed PROVE StandsFor(e)'
  <2>1. StandsFor(e) /\ UNCHANGED destination /\ entries'[e] = entries[e]
    BY <1>3 DEF ExportInv, DestinationInv
  <2>2. PlanOf(e)' = PlanOf(e)
    BY <2>1 DEF PlanOf, Plan, Written
  <2>3. destination' = Package(given.profile, PlanOf(e), destination.files)'
    BY <2>1, <2>2 DEF StandsFor
  <2>4. Valid(destination)'
    BY <2>1 DEF StandsFor, Valid, BagItValid, OcflValid, RelationHolds
  <2> QED BY <2>3, <2>4 DEF StandsFor
<1>4. \A e, f \in Exporter : step'[e] \in Placed /\ step'[f] \in Placed => e = f
  BY DEF ExportInv, DestinationInv
<1>5. \A e \in Exporter : step'[e] \in Placed => destination'.kind = "package"
  BY DEF ExportInv, DestinationInv
<1> QED BY <1>2, <1>3, <1>4, <1>5 DEF DestinationInv

LEMMA PromotedStands ==
    ASSUME ExportInv, NEW e \in Exporter, Promote(e)
    PROVE  StagedInv' /\ DestinationInv'
<1>1. UNCHANGED <<given, entries>> /\ \A f \in Exporter : f # e => /\ step'[f] = step[f]
                                                                  /\ written'[f] = written[f]
  BY DEF Promote, Fail, ExportInv, PreservationTypeOK
<1>2. step'[e] \in {"failed", "promoted"} /\ step[e] = "renaming"
  BY DEF Promote, Fail, ExportInv, PreservationTypeOK
<1>3. StagedInv'
  <2>1. \A f \in Exporter : step'[f] \in {"validated", "renaming"} =>
               /\ entries'[f] = entries[f] /\ written'[f] = written[f]
               /\ step[f] \in {"validated", "renaming"} \/ Valid(Staged(f))
    BY <1>1, <1>2
  <2> QED BY <2>1, <1>1, StagedStays
<1>4. CASE ~GivesWay(destination)
  <2>1. step'[e] = "failed" /\ UNCHANGED destination
    BY <1>4 DEF Promote, Fail, ExportInv, PreservationTypeOK
  <2>2. \A f \in Exporter : step'[f] \in Placed <=> step[f] \in Placed
    BY <2>1, <1>1, <1>2 DEF Placed
  <2> QED BY <2>1, <2>2, <1>1, <1>3, DestinationStays
<1>5. CASE GivesWay(destination)
  <2>1. step'[e] \in Placed /\ destination' = Staged(e)
    BY <1>5 DEF Promote, Placed, ExportInv, PreservationTypeOK
  <2>2. \A f \in Exporter : step[f] \notin Placed
    BY <1>5 DEF GivesWay, ExportInv, DestinationInv
  <2>3. \A f \in Exporter : step'[f] \in Placed => f = e
    BY <2>2, <1>1
  <2>4. destination'.kind = "package" /\ destination'.files = written[e]
    BY <2>1 DEF Staged, Package
  <2>5. Valid(destination)'
    <3>1. Valid(Staged(e))
      BY <1>2 DEF ExportInv, StagedInv
    <3> QED BY <3>1, <2>1 DEF Valid, BagItValid, OcflValid, RelationHolds
  <2>6. PlanOf(e)' = PlanOf(e)
    BY <1>1 DEF PlanOf, Plan, Written
  <2>7. destination' = Package(given.profile, PlanOf(e), destination.files)'
    BY <2>1, <2>4, <2>6, <1>1 DEF Staged
  <2>8. StandsFor(e)'
    BY <2>5, <2>7 DEF StandsFor
  <2>9. \A f \in Exporter : step'[f] \in Placed => StandsFor(f)'
    BY <2>3, <2>8
  <2> QED BY <2>1, <2>3, <2>4, <2>9, <1>3 DEF DestinationInv
<1> QED BY <1>4, <1>5

LEMMA ExportStep == ExportInv /\ [PreservationNext]_export => ExportInv'
<1> SUFFICES ASSUME ExportInv, [PreservationNext]_export PROVE ExportInv'
  OBVIOUS
<1>1. PreservationTypeOK'
  BY ExportTypes
<1>2. ASSUME NEW e \in Exporter, NEW p \in Content, VerifyBlobEntry(e, p) PROVE ExportInv'
  <2>1. /\ UNCHANGED <<given, step, written, destination>> /\ step[e] = "mapping"
        /\ \A f \in Exporter : f # e => entries'[f] = entries[f]
    BY <1>2 DEF VerifyBlobEntry, ExportInv, PreservationTypeOK
  <2>2. StagedInv'
    BY <2>1, StagedStays
  <2>3. \A f \in Exporter : step[f] \in Placed => entries'[f] = entries[f]
    BY <2>1 DEF Placed
  <2>4. DestinationInv'
    BY <2>1, <2>3, DestinationStays
  <2> QED BY <1>1, <1>2, <2>2, <2>4, PlanGrows DEF ExportInv
<1>3. ASSUME NEW e \in Exporter, Relate(e) PROVE ExportInv'
  <2>1. /\ UNCHANGED <<given, entries, written, destination>> /\ step[e] = "mapping"
        /\ step'[e] \in {"failed", "mapped"}
        /\ \A f \in Exporter : f # e => step'[f] = step[f]
    BY <1>3 DEF Relate, ExportInv, PreservationTypeOK
  <2>2. StagedInv'
    BY <2>1, StagedStays
  <2>3. \A f \in Exporter : step'[f] \in Placed <=> step[f] \in Placed
    BY <2>1 DEF Placed
  <2>4. DestinationInv'
    BY <2>1, <2>3, DestinationStays
  <2> QED BY <1>1, <1>3, <2>2, <2>4, PlanIsTotal DEF ExportInv
<1>4. ASSUME NEW e \in Exporter, OpenStaging(e) \/ Validate(e) \/ CheckDestination(e)
                                 \/ WriteListing(e) \/ \E p \in Content : WriteSourceEntry(e, p)
      PROVE  ExportInv'
  <2> USE DEF OpenStaging, Validate, CheckDestination, WriteListing, WriteSourceEntry
  <2>1. UNCHANGED <<given, entries, destination>> /\ step[e] \notin Placed
    BY <1>4 DEF Placed
  <2>2. \A f \in Exporter : f # e => step'[f] = step[f] /\ written'[f] = written[f]
    BY <1>4 DEF Fail, ExportInv, PreservationTypeOK
  <2>3. \/ step'[e] = "failed"
        \/ step[e] \in Executed /\ step'[e] \in Executed \ Placed
    BY <1>4 DEF Fail, ExportInv, PreservationTypeOK, Executed, Placed
  <2>4. step'[e] \in {"validated", "renaming"} =>
            /\ written'[e] = written[e]
            /\ step[e] \in {"validated", "renaming"} \/ Valid(Staged(e))
    BY <1>4 DEF Fail, ExportInv, PreservationTypeOK
  <2>5. StagedInv'
    BY <2>1, <2>2, <2>4, StagedStays
  <2>6. \A f \in Exporter : step'[f] \in Placed <=> step[f] \in Placed
    BY <2>1, <2>2, <2>3 DEF Placed
  <2>7. DestinationInv'
    BY <2>1, <2>6, DestinationStays
  <2>8. \A f \in Exporter : step'[f] \in Executed => step[f] \in Executed
    BY <2>2, <2>3 DEF Executed, Placed
  <2>9. PlanInv'
    BY <2>1, <2>8, PlanStays
  <2> QED BY <1>1, <2>5, <2>7, <2>9 DEF ExportInv
<1>5. ASSUME NEW e \in Exporter, Promote(e) PROVE ExportInv'
  <2>1. UNCHANGED <<given, entries>>
    BY <1>5 DEF Promote
  <2>2. \A f \in Exporter : step'[f] \in Executed => step[f] \in Executed
    BY <1>5 DEF Promote, Fail, Executed, Placed, ExportInv, PreservationTypeOK
  <2>3. PlanInv'
    BY <2>1, <2>2, PlanStays
  <2> QED BY <1>1, <1>5, <2>3, PromotedStands DEF ExportInv
<1>6. ASSUME NEW e \in Exporter, Announce(e) \/ Die(e) PROVE ExportInv'
  <2>1. /\ UNCHANGED <<given, entries, written, destination>>
        /\ \A f \in Exporter : f # e => step'[f] = step[f]
    BY <1>6 DEF Announce, Die, ExportInv, PreservationTypeOK
  <2>2. \/ step[e] = "promoted" /\ step'[e] \in Placed
        \/ step[e] \notin Placed /\ step'[e] = "failed"
    BY <1>6 DEF Announce, Die, ExportInv, PreservationTypeOK, Placed
  <2>3. \A f \in Exporter : step'[f] \in Placed <=> step[f] \in Placed
    BY <2>1, <2>2 DEF Placed
  <2>4. /\ \A f \in Exporter : step'[f] \in Executed => step[f] \in Executed
        /\ \A f \in Exporter : step'[f] \in {"validated", "renaming"} => step'[f] = step[f]
    BY <2>1, <2>2 DEF Executed, Placed
  <2>5. PlanInv' /\ StagedInv'
    BY <2>1, <2>4, PlanStays, StagedStays
  <2>6. DestinationInv'
    BY <2>1, <2>3, DestinationStays
  <2> QED BY <1>1, <2>5, <2>6 DEF ExportInv
<1>7. CASE ChangeSource \/ TakeDestination \/ UNCHANGED export
  <2>1. UNCHANGED <<given, step, entries, written>>
    BY <1>7 DEF ChangeSource, TakeDestination, export
  <2>2. \/ UNCHANGED destination
        \/ destination.kind # "package" /\ destination'.kind # "package"
    BY <1>7 DEF ChangeSource, TakeDestination, export, Foreign, Empty
  <2>3. PlanInv' /\ StagedInv'
    BY <2>1, PlanStays, StagedStays
  <2>4. DestinationInv'
    BY <2>1, <2>2, DestinationStays
  <2> QED BY <1>1, <2>3, <2>4 DEF ExportInv
<1> QED BY <1>2, <1>3, <1>4, <1>5, <1>6, <1>7 DEF PreservationNext

\* The invariant of the exporters, whatever changes and whoever dies.
THEOREM ExportsAreKept == PreservationSpec => []ExportInv
BY ExportStart, ExportStep, PTL DEF PreservationSpec

-----------------------------------------------------------------------------
(***************************************************************************)
(* What the invariant says of a package that stands.                       *)
(***************************************************************************)

\* The shape of the package of a whole plan: content is what it preserves.
LEMMA PlanShape ==
    ASSUME ExportInv, NEW e \in Exporter, DOMAIN entries[e] = Content
    PROVE  /\ DOMAIN PlanOf(e) = Content \cup Written
           /\ \A p \in Content : PlanOf(e)[p] = entries[e][p]
           /\ \A p \in Content : PlanOf(e)[p] \in Bytes /\ Recorded(p) \in {"none", PlanOf(e)[p]}
           /\ \A p \in Written : PlanOf(e)[p] = p
           /\ Content \cap Generated = {} /\ Written \subseteq Generated
<1>1. Content \cap Generated = {} /\ Written \subseteq Generated
  BY PreservationAssumption DEF Content, Generated, Written
<1>2. PlanOf(e) = Joined(entries[e], [p \in Written |-> p])
  BY DEF PlanOf, Plan
<1>3. DOMAIN [p \in Written |-> p] = Written
  OBVIOUS
<1>4. DOMAIN PlanOf(e) = Content \cup Written
  BY <1>2, <1>3 DEF Joined
<1>5. \A p \in Content : PlanOf(e)[p] = entries[e][p]
  BY <1>2, <1>3 DEF Joined
<1>6. \A p \in Written : PlanOf(e)[p] = p
  BY <1>1, <1>2, <1>3 DEF Joined
<1>7. \A p \in Content : entries[e][p] \in Bytes /\ Recorded(p) \in {"none", entries[e][p]}
  BY DEF ExportInv, PlanInv, Planned
<1> QED BY <1>1, <1>4, <1>5, <1>6, <1>7

\* What is known of a package at the destination.
Standing ==
    \E plan : \E files :
        /\ destination = Package(given.profile, plan, files)
        /\ Valid(destination)
        /\ DOMAIN plan = Content \cup Written
        /\ \A p \in Content : plan[p] \in Bytes /\ Recorded(p) \in {"none", plan[p]}
        /\ \A p \in Written : plan[p] = p

LEMMA PackagesStand == ExportInv /\ destination.kind = "package" => Standing
<1> SUFFICES ASSUME ExportInv, destination.kind = "package" PROVE Standing
  OBVIOUS
<1>1. PICK e \in Exporter : step[e] \in Placed
  BY DEF ExportInv, DestinationInv
<1>2. StandsFor(e) /\ DOMAIN entries[e] = Content
  BY <1>1 DEF ExportInv, DestinationInv, PlanInv, Executed
<1> QED BY <1>2, PlanShape DEF StandsFor, Standing

\* The parts of a package of content and generated files, by its profile.
InListing(profile) == IF profile = "bagit" THEN Content ELSE Content \cup Written
HasParts(pkg, profile, plan, files) ==
    /\ pkg.profile = profile /\ pkg.files = files
    /\ pkg.listing = [p \in InListing(profile) |-> plan[p]] /\ pkg.cover = pkg.listing
    /\ pkg.tags = [p \in (Content \cup Written) \ InListing(profile) |-> plan[p]]
    /\ pkg.relation = [p \in Content |-> plan[p]]
    /\ pkg.metadata = Written \cap {"manifest", "provenance"}
LEMMA PackageParts ==
    ASSUME NEW plan, NEW files, NEW profile \in Profile, DOMAIN plan = Content \cup Written
    PROVE  HasParts(Package(profile, plan, files), profile, plan, files)
<1>1. (Content \cup Written) \cap Content = Content
  OBVIOUS
<1>2. Written \subseteq Generated
  BY DEF Written
<1>3. (Content \cup Written) \cap {"manifest", "provenance"} =
        Written \cap {"manifest", "provenance"}
  BY PreservationAssumption DEF Content
<1> QED BY <1>1, <1>2, <1>3 DEF Package, Listing, Listed, Restrict, Profile, HasParts, InListing

LEMMA StandingIsWhole == ExportInv => PackageIsWhole
<1> SUFFICES ASSUME ExportInv, destination.kind = "package"
             PROVE  /\ Valid(destination)
                    /\ DOMAIN destination.relation = Content
                    /\ \A p \in Content :
                        /\ Recorded(p) \in {"none", destination.relation[p]}
                        /\ destination.files[FileName(given.profile, destination.listing, p)]
                               = destination.relation[p]
  BY DEF PackageIsWhole
<1>1. PICK plan, files :
        /\ destination = Package(given.profile, plan, files)
        /\ Valid(destination)
        /\ DOMAIN plan = Content \cup Written
        /\ \A p \in Content : plan[p] \in Bytes /\ Recorded(p) \in {"none", plan[p]}
        /\ \A p \in Written : plan[p] = p
  BY PackagesStand DEF Standing
<1>2. given.profile \in Profile
  BY DEF ExportInv, PreservationTypeOK, Given
<1>3. /\ destination.profile = given.profile
      /\ destination.listing = [p \in InListing(given.profile) |-> plan[p]]
      /\ destination.relation = [p \in Content |-> plan[p]]
  <2>1. HasParts(Package(given.profile, plan, files), given.profile, plan, files)
    BY <1>1, <1>2, PackageParts
  <2> QED BY <2>1, <1>1 DEF HasParts
<1>4. ASSUME NEW p \in Content
      PROVE  destination.files[FileName(given.profile, destination.listing, p)] = plan[p]
  <2>1. p \in DOMAIN destination.listing /\ destination.listing[p] = plan[p]
    BY <1>3 DEF InListing
  <2>2. CASE given.profile = "bagit"
    BY <2>1, <2>2, <1>1, <1>3 DEF Valid, BagItValid, FileName
  <2>3. CASE given.profile # "bagit"
    <3>1. OcflValid(destination) /\ FileName(given.profile, destination.listing, p) = plan[p]
      BY <2>1, <2>3, <1>1, <1>3 DEF Valid, FileName
    <3>2. plan[p] \in DOMAIN destination.files
      BY <2>1, <3>1 DEF OcflValid, Range
    <3> QED BY <3>1, <3>2 DEF OcflValid
  <2> QED BY <2>2, <2>3
<1> QED BY <1>1, <1>3, <1>4

\* A step that replaces what stands is not one of an exporter.
LEMMA StandingStays ==
    ExportInv /\ [PreservationNext]_export =>
        (destination.kind \in {"package", "foreign"} => UNCHANGED destination)
<1> SUFFICES ASSUME ExportInv, [PreservationNext]_export,
                    destination.kind \in {"package", "foreign"}
             PROVE  UNCHANGED destination
  OBVIOUS
<1> QED BY DEF PreservationNext, export, VerifyBlobEntry, Relate, OpenStaging, WriteSourceEntry,
               WriteListing, Validate, CheckDestination, Promote, Announce, GivesWay, Die,
               ChangeSource, TakeDestination

LEMMA OneExports == ExportInv => ExportedStands
<1> SUFFICES ASSUME ExportInv PROVE ExportedStands
  OBVIOUS
<1> DEFINE done == {e \in Exporter : step[e] \in Placed}
<1>1. Cardinality(done) <= 1
  <2>1. CASE done = {}
    BY <2>1, FS_EmptySet
  <2>2. CASE done # {}
    <3>1. PICK e \in done : TRUE
      BY <2>2
    <3>2. done = {e}
      BY <3>1 DEF ExportInv, DestinationInv
    <3>3. Cardinality({e}) = 1
      BY FS_Singleton
    <3> QED BY <3>2, <3>3
  <2> QED BY <2>1, <2>2
<1>2. destination.kind = "package" <=> \E e \in Exporter : step[e] \in Placed
  BY DEF ExportInv, DestinationInv
<1> QED BY <1>1, <1>2 DEF ExportedStands

\* Exporters, a changing source, deaths before and after the rename and a
\* destination that is taken late do not make a broken package, two packages, one
\* that is reported and is not there, or one in the place of another, for any
\* number of exporters and derivatives (preservation.ts:584-621, 829-863).
THEOREM ExportsAreSound == PreservationSpec => ExportIsSound
<1>1. ExportInv => PackageIsWhole /\ ExportedStands
  BY StandingIsWhole, OneExports
<1>2. PreservationSpec => [](PackageIsWhole /\ ExportedStands)
  BY <1>1, ExportsAreKept, PTL
<1>3. PreservationSpec => NothingIsReplaced
  BY StandingStays, ExportsAreKept, PTL DEF PreservationSpec, NothingIsReplaced
<1> QED BY <1>2, <1>3 DEF ExportIsSound

-----------------------------------------------------------------------------
(***************************************************************************)
(* What a validator sees of damage.                                        *)
(***************************************************************************)

\* Nothing in a plan is called or holds what damage brings.
LEMMA PlanIsIntact ==
    ASSUME NEW plan, DOMAIN plan = Content \cup Written,
           \A p \in Content : plan[p] \in Bytes, \A p \in Written : plan[p] = p
    PROVE  /\ "stray" \notin Content \cup Written
           /\ \A p \in Content \cup Written : plan[p] \notin {"damaged", "stray"}
BY PreservationAssumption DEF Content, Written, Generated, Bytes

LEMMA DamageKeepsProfile ==
    ASSUME NEW pkg, NEW profile, NEW plan, NEW files, pkg = Package(profile, plan, files),
           NEW bad \in Damaged(pkg)
    PROVE  bad.profile = pkg.profile
<1>6. "profile" \in DOMAIN pkg
  BY DEF Package
<1>1. CASE \/ bad = [pkg EXCEPT !.declaration = "other"]
           \/ bad = [pkg EXCEPT !.files = Joined(pkg.files, [n \in {"stray"} |-> "stray"])]
  BY <1>1, <1>6
<1>2. CASE \E n \in DOMAIN pkg.files : \/ bad = [pkg EXCEPT !.files[n] = "damaged"]
                                       \/ bad = [pkg EXCEPT !.files = Without(pkg.files, n)]
  BY <1>2, <1>6
<1>3. CASE \E p : \/ bad = [pkg EXCEPT !.listing = Without(pkg.listing, p)]
                 \/ bad = [pkg EXCEPT !.cover = Without(pkg.cover, p)]
                 \/ bad = [pkg EXCEPT !.tags = Without(pkg.tags, p)]
  BY <1>3, <1>6
<1>4. CASE \E p : bad = [pkg EXCEPT !.listing = Without(pkg.listing, p),
                                    !.cover = Without(pkg.cover, p),
                          !.files = Without(pkg.files, FileName(pkg.profile, pkg.listing, p))]
  BY <1>4
<1>5. CASE \E p : bad = [pkg EXCEPT !.tags = Without(pkg.tags, p),
                                    !.files = Without(pkg.files, p)]
  BY <1>5
<1> QED BY <1>1, <1>2, <1>3, <1>4, <1>5, Zenon DEF Damaged

LEMMA BagDamageIsFound ==
    ASSUME NEW plan, NEW files, NEW pkg, HasParts(pkg, "bagit", plan, files), BagItValid(pkg),
           DOMAIN plan = Content \cup Written,
           \A p \in Content : plan[p] \in Bytes, \A p \in Written : plan[p] = p,
           NEW bad \in Damaged(pkg)
    PROVE  ~BagItValid(bad)
<1>1. /\ DOMAIN pkg.listing = Content /\ DOMAIN pkg.tags = Written
      /\ DOMAIN pkg.relation = Content /\ pkg.cover = pkg.listing
      /\ pkg.metadata = Written \cap {"manifest", "provenance"}
      /\ \A p \in Content : pkg.listing[p] = plan[p]
      /\ \A p \in Written : pkg.tags[p] = plan[p]
      /\ Content \cap Written = {} /\ Written \subseteq Generated
  <2>1. Content \cap Written = {} /\ Written \subseteq Generated
    BY PreservationAssumption DEF Content, Written, Generated
  <2>2. (Content \cup Written) \ Content = Written
    BY <2>1
  <2> QED BY <2>1, <2>2 DEF HasParts, InListing
<1>2. /\ DOMAIN pkg.files \cap Content = Content /\ DOMAIN pkg.files \ Content = Written
      /\ \A p \in Content : pkg.files[p] = pkg.listing[p]
      /\ \A p \in Written : pkg.files[p] = pkg.tags[p]
  BY <1>1 DEF BagItValid
<1>3. CASE bad = [pkg EXCEPT !.declaration = "other"]
  BY <1>3 DEF BagItValid
<1>4. CASE bad \in {[pkg EXCEPT !.files[n] = "damaged"] : n \in DOMAIN pkg.files}
  <2>1. PICK n \in DOMAIN pkg.files : bad = [pkg EXCEPT !.files[n] = "damaged"]
    BY <1>4
  <2>2. /\ bad.files[n] = "damaged" /\ bad.listing = pkg.listing /\ bad.tags = pkg.tags
    BY <2>1
  <2>3. n \in Content \cup Written /\ plan[n] # "damaged"
    BY <1>2, PlanIsIntact
  <2> QED BY <2>2, <2>3, <1>1 DEF BagItValid
<1>5. CASE bad \in {[pkg EXCEPT !.files = Without(@, n)] : n \in DOMAIN pkg.files}
  <2>1. PICK n \in DOMAIN pkg.files : bad = [pkg EXCEPT !.files = Without(pkg.files, n)]
    BY <1>5
  <2>2. /\ DOMAIN bad.files = DOMAIN pkg.files \ {n}
        /\ bad.listing = pkg.listing /\ bad.tags = pkg.tags
    BY <2>1 DEF Without, Restrict
  <2> QED BY <2>2, <1>1, <1>2 DEF BagItValid
<1>6. CASE bad = [pkg EXCEPT !.files = Joined(@, [n \in {"stray"} |-> "stray"])]
  <2>1. DOMAIN bad.files = DOMAIN pkg.files \cup {"stray"} /\ bad.tags = pkg.tags
    BY <1>6 DEF Joined
  <2> QED BY <2>1, <1>1, PlanIsIntact DEF BagItValid
<1>7. CASE \/ bad \in {[pkg EXCEPT !.listing = Without(@, p)] : p \in DOMAIN pkg.listing}
           \/ bad \in {[pkg EXCEPT !.cover = Without(@, p)] : p \in DOMAIN pkg.cover}
  <2>1. PICK p \in Content : \/ bad = [pkg EXCEPT !.listing = Without(pkg.listing, p)]
                             \/ bad = [pkg EXCEPT !.cover = Without(pkg.cover, p)]
    BY <1>7, <1>1
  <2>2. DOMAIN Without(pkg.listing, p) = Content \ {p}
    BY <1>1 DEF Without, Restrict
  <2>3. CASE bad = [pkg EXCEPT !.listing = Without(pkg.listing, p)]
    <3>1. bad.listing = Without(pkg.listing, p) /\ bad.cover = pkg.listing
      BY <2>3, <1>1
    <3> QED BY <3>1, <2>2, <1>1 DEF BagItValid
  <2>4. CASE bad = [pkg EXCEPT !.cover = Without(pkg.cover, p)]
    <3>1. bad.cover = Without(pkg.listing, p) /\ bad.listing = pkg.listing
      BY <2>4, <1>1
    <3> QED BY <3>1, <2>2, <1>1 DEF BagItValid
  <2> QED BY <2>1, <2>3, <2>4
<1>8. CASE bad \in {[pkg EXCEPT !.tags = Without(@, p)] : p \in DOMAIN pkg.tags}
  <2>1. PICK p \in Written : bad = [pkg EXCEPT !.tags = Without(pkg.tags, p)]
    BY <1>8, <1>1
  <2>2. DOMAIN bad.tags = Written \ {p} /\ bad.files = pkg.files
    BY <2>1, <1>1 DEF Without, Restrict
  <2> QED BY <2>2, <1>2 DEF BagItValid
<1>9. CASE bad \in {[pkg EXCEPT !.listing = Without(@, p), !.cover = Without(@, p),
                                !.files = Without(@, FileName(pkg.profile, pkg.listing, p))] :
                        p \in DOMAIN pkg.listing}
  <2>1. PICK p \in Content :
            bad = [pkg EXCEPT !.listing = Without(pkg.listing, p), !.cover = Without(pkg.cover, p),
                              !.files = Without(pkg.files, FileName(pkg.profile, pkg.listing, p))]
    BY <1>9, <1>1
  <2>2. DOMAIN bad.listing = Content \ {p} /\ bad.tags = pkg.tags /\ bad.relation = pkg.relation
    BY <2>1, <1>1 DEF Without, Restrict
  <2>3. p \in DOMAIN bad.relation /\ p \notin DOMAIN Joined(bad.listing, bad.tags)
    BY <2>2, <1>1 DEF Joined
  <2> QED BY <2>3 DEF BagItValid, RelationHolds
<1>10. CASE bad \in {[pkg EXCEPT !.tags = Without(@, p), !.files = Without(@, p)] :
                         p \in DOMAIN pkg.tags}
  <2>1. PICK p \in Written :
            bad = [pkg EXCEPT !.tags = Without(pkg.tags, p), !.files = Without(pkg.files, p)]
    BY <1>10, <1>1
  <2>2. /\ DOMAIN bad.tags = Written \ {p} /\ bad.listing = pkg.listing
        /\ bad.metadata = pkg.metadata
    BY <2>1, <1>1 DEF Without, Restrict
  <2>3. p \notin DOMAIN Joined(bad.listing, bad.tags)
    BY <2>2, <1>1 DEF Joined
  <2>4. p = "relationships" \/ p \in bad.metadata
    BY <2>2, <1>1 DEF Generated
  <2> QED BY <2>3, <2>4 DEF BagItValid, RelationHolds
<1> QED BY <1>3, <1>4, <1>5, <1>6, <1>7, <1>8, <1>9, <1>10 DEF Damaged

LEMMA ObjectDamageIsFound ==
    ASSUME NEW plan, NEW files, NEW pkg, HasParts(pkg, "ocfl", plan, files), OcflValid(pkg),
           DOMAIN plan = Content \cup Written,
           \A p \in Content : plan[p] \in Bytes, \A p \in Written : plan[p] = p,
           NEW bad \in Damaged(pkg)
    PROVE  ~OcflValid(bad)
<1>1. /\ DOMAIN pkg.listing = Content \cup Written /\ DOMAIN pkg.tags = {}
      /\ DOMAIN pkg.relation = Content /\ pkg.cover = pkg.listing
      /\ pkg.metadata = Written \cap {"manifest", "provenance"}
      /\ \A p \in Content \cup Written : pkg.listing[p] = plan[p]
      /\ Written \subseteq Generated /\ "relationships" \in Written
      /\ pkg.profile = "ocfl"
  BY DEF HasParts, InListing, Written, Generated
<1>2. /\ DOMAIN pkg.files = Range(pkg.listing)
      /\ \A d \in DOMAIN pkg.files : pkg.files[d] = d /\ d \notin {"damaged", "stray"}
  <2>1. \A d \in Range(pkg.listing) : d \notin {"damaged", "stray"}
    BY <1>1, PlanIsIntact DEF Range
  <2> QED BY <2>1 DEF OcflValid
<1>3. CASE bad = [pkg EXCEPT !.declaration = "other"]
  BY <1>3 DEF OcflValid
<1>4. CASE bad \in {[pkg EXCEPT !.files[n] = "damaged"] : n \in DOMAIN pkg.files}
  <2>1. PICK n \in DOMAIN pkg.files : bad = [pkg EXCEPT !.files[n] = "damaged"]
    BY <1>4
  <2>2. bad.files[n] = "damaged" /\ n \in DOMAIN bad.files /\ n # "damaged"
    BY <2>1, <1>2
  <2> QED BY <2>2 DEF OcflValid
<1>5. CASE bad \in {[pkg EXCEPT !.files = Without(@, n)] : n \in DOMAIN pkg.files}
  <2>1. PICK n \in DOMAIN pkg.files : bad = [pkg EXCEPT !.files = Without(pkg.files, n)]
    BY <1>5
  <2>2. DOMAIN bad.files = DOMAIN pkg.files \ {n} /\ bad.listing = pkg.listing
    BY <2>1 DEF Without, Restrict
  <2> QED BY <2>2, <1>2 DEF OcflValid
<1>6. CASE bad = [pkg EXCEPT !.files = Joined(@, [n \in {"stray"} |-> "stray"])]
  <2>1. "stray" \in DOMAIN bad.files /\ bad.listing = pkg.listing
    BY <1>6 DEF Joined
  <2> QED BY <2>1, <1>2 DEF OcflValid
<1>7. CASE \/ bad \in {[pkg EXCEPT !.listing = Without(@, p)] : p \in DOMAIN pkg.listing}
           \/ bad \in {[pkg EXCEPT !.cover = Without(@, p)] : p \in DOMAIN pkg.cover}
  <2>1. PICK p \in DOMAIN pkg.listing : \/ bad = [pkg EXCEPT !.listing = Without(pkg.listing, p)]
                                        \/ bad = [pkg EXCEPT !.cover = Without(pkg.cover, p)]
    BY <1>7, <1>1
  <2>2. DOMAIN Without(pkg.listing, p) = DOMAIN pkg.listing \ {p}
    BY DEF Without, Restrict
  <2>3. CASE bad = [pkg EXCEPT !.listing = Without(pkg.listing, p)]
    <3>1. bad.listing = Without(pkg.listing, p) /\ bad.cover = pkg.listing
      BY <2>3, <1>1
    <3> QED BY <3>1, <2>2, <1>1 DEF OcflValid
  <2>4. CASE bad = [pkg EXCEPT !.cover = Without(pkg.cover, p)]
    <3>1. bad.cover = Without(pkg.listing, p) /\ bad.listing = pkg.listing
      BY <2>4, <1>1
    <3> QED BY <3>1, <2>2, <1>1 DEF OcflValid
  <2> QED BY <2>1, <2>3, <2>4
<1>8. CASE \/ bad \in {[pkg EXCEPT !.tags = Without(@, p)] : p \in DOMAIN pkg.tags}
           \/ bad \in {[pkg EXCEPT !.tags = Without(@, p), !.files = Without(@, p)] :
                           p \in DOMAIN pkg.tags}
  BY <1>8, <1>1
<1>9. CASE bad \in {[pkg EXCEPT !.listing = Without(@, p), !.cover = Without(@, p),
                                !.files = Without(@, FileName(pkg.profile, pkg.listing, p))] :
                        p \in DOMAIN pkg.listing}
  <2>1. PICK p \in DOMAIN pkg.listing :
            bad = [pkg EXCEPT !.listing = Without(pkg.listing, p), !.cover = Without(pkg.cover, p),
                              !.files = Without(pkg.files, FileName(pkg.profile, pkg.listing, p))]
    BY <1>9
  <2>2. /\ DOMAIN bad.listing = DOMAIN pkg.listing \ {p} /\ bad.relation = pkg.relation
        /\ bad.metadata = pkg.metadata
    BY <2>1 DEF Without, Restrict
  <2>3. p = "relationships" \/ p \in bad.metadata \/ p \in DOMAIN bad.relation
    BY <2>2, <1>1 DEF Generated
  <2> QED BY <2>2, <2>3 DEF OcflValid, RelationHolds
<1> QED BY <1>3, <1>4, <1>5, <1>6, <1>7, <1>8, <1>9 DEF Damaged

\* A validator finds a change of any one part of a package that stands, of either
\* profile and with any derivatives (preservation.ts:662-827, 894-1010).
THEOREM DamageShows == PreservationSpec => []DamageIsFound
<1>1. ASSUME ExportInv, destination.kind = "package", NEW bad \in Damaged(destination)
      PROVE  ~Valid(bad)
  <2>1. PICK plan, files :
          /\ destination = Package(given.profile, plan, files)
          /\ Valid(destination)
          /\ DOMAIN plan = Content \cup Written
          /\ \A p \in Content : plan[p] \in Bytes /\ Recorded(p) \in {"none", plan[p]}
          /\ \A p \in Written : plan[p] = p
    BY <1>1, PackagesStand DEF Standing
  <2>2. given.profile \in Profile
    BY <1>1 DEF ExportInv, PreservationTypeOK, Given
  <2>3. HasParts(destination, given.profile, plan, files)
    <3>1. HasParts(Package(given.profile, plan, files), given.profile, plan, files)
      BY <2>1, <2>2, PackageParts
    <3> QED BY <3>1, <2>1
  <2>4. bad.profile = destination.profile /\ destination.profile = given.profile
    BY <1>1, <2>1, <2>3, DamageKeepsProfile DEF HasParts
  <2>5. CASE given.profile = "bagit"
    <3>1. BagItValid(destination)
      BY <2>1, <2>4, <2>5 DEF Valid
    <3>2. ~BagItValid(bad)
      BY <1>1, <2>1, <2>3, <2>5, <3>1, BagDamageIsFound
    <3> QED BY <3>2, <2>4, <2>5 DEF Valid
  <2>6. CASE given.profile = "ocfl"
    <3>1. OcflValid(destination)
      BY <2>1, <2>4, <2>6 DEF Valid
    <3>2. ~OcflValid(bad)
      BY <1>1, <2>1, <2>3, <2>6, <3>1, ObjectDamageIsFound
    <3> QED BY <3>2, <2>4, <2>6 DEF Valid
  <2> QED BY <2>2, <2>5, <2>6 DEF Profile
<1>2. ExportInv => DamageIsFound
  BY <1>1 DEF DamageIsFound
<1> QED BY <1>2, ExportsAreKept, PTL

-----------------------------------------------------------------------------
(***************************************************************************)
(* A conformance report: what a result keeps of an answer.                 *)
(***************************************************************************)
ScenarioName == {"validation", "mismatch", "interrupted", "invalidEvidence", "reconciliation",
         "storedOriginal", "ambiguous", "abandoned", "cleanupFailure", "integrity"}
CleanupWord == {"not_required", "completed", "failed", "abandoned_identifiable"}
Code == {"a", "b", "run-canceled", "capability-not-advertised"}

LEMMA ScenariosAreNamed ==
    /\ Scenarios \in Seq(ScenarioName) /\ Len(Scenarios) = 10 /\ DOMAIN Scenarios = 1 .. 10
    /\ \A i \in 1 .. 10 : Scenarios[i] \in ScenarioName
    /\ \A s \in ScenarioName : \E i \in DOMAIN Scenarios : Scenarios[i] = s
<1>1. Scenarios \in Seq(ScenarioName)
  BY DEF Scenarios, ScenarioName
<1>2. Len(Scenarios) = 10 /\ DOMAIN Scenarios = 1 .. 10
  BY DEF Scenarios
<1>3. /\ Scenarios[1] = "validation" /\ Scenarios[2] = "mismatch" /\ Scenarios[3] = "interrupted"
      /\ Scenarios[4] = "invalidEvidence" /\ Scenarios[5] = "reconciliation"
      /\ Scenarios[6] = "storedOriginal" /\ Scenarios[7] = "ambiguous"
      /\ Scenarios[8] = "abandoned" /\ Scenarios[9] = "cleanupFailure"
      /\ Scenarios[10] = "integrity"
  BY DEF Scenarios
<1>4. ASSUME NEW s \in ScenarioName PROVE \E i \in 1 .. 10 : Scenarios[i] = s
  BY <1>3 DEF ScenarioName
<1>5. \A i \in 1 .. 10 : Scenarios[i] \in ScenarioName
  BY <1>3 DEF ScenarioName
<1> QED BY <1>1, <1>2, <1>4, <1>5

\* Every scenario but one wants a fact of its own.
LEMMA FactsAreRequired == \A s \in ScenarioName : s # "abandoned" => Required[s] # {}
BY DEF ScenarioName, Required, NoMutation, Stored, OneCompletion

\* What the results say that were not passed would not pass.
LEMMA NothingPassesWithout ==
    ASSUME NEW s \in ScenarioName, NEW cleanup, NEW abandoned, NEW reference,
           s = "abandoned" => cleanup = "not_required"
    PROVE  ~Passes(s, {}, cleanup, abandoned, reference)
BY FactsAreRequired DEF Passes

\* An answer of a target, as good or as surprising as it gets.
AnswerOK(a) ==
    /\ a.kind \in {"observation", "throw", "skip"} /\ a.ok \in BOOLEAN
    /\ a.cleanup \in CleanupWord /\ a.codes \subseteq Code
    /\ a.kind = "skip" => a.cleanup = "completed"

LEMMA AnswersAreOK ==
    ASSUME NEW s, NEW a \in {Good(s)} \cup Surprising(s)
    PROVE  AnswerOK(a)
<1>1. AnswerOK(Good(s))
  BY DEF Good, AnswerOK, CleanupWord
<1>2. CASE \E f : a = [Good(s) EXCEPT !.facts = @ \ {f}]
  BY <1>2 DEF Good, AnswerOK, CleanupWord
<1>3. CASE a \in {[Good(s) EXCEPT !.kind = "throw"], [Good(s) EXCEPT !.ok = FALSE],
                  [Good(s) EXCEPT !.codes = {"a", "b"}],
                  [Good(s) EXCEPT !.cleanup = "failed", !.abandoned = 1]}
  BY <1>3 DEF Good, AnswerOK, CleanupWord, Code
<1>4. CASE \E r \in BOOLEAN :
              a = [Good(s) EXCEPT !.cleanup = "abandoned_identifiable", !.abandoned = 1,
                                  !.reference = r]
  BY <1>4 DEF Good, AnswerOK, CleanupWord
<1>5. CASE \E o \in BOOLEAN :
              a = [Good(s) EXCEPT !.kind = "skip", !.ok = o, !.codes = {"a"}]
  BY <1>5 DEF Good, AnswerOK, CleanupWord, Code
<1> QED BY <1>1, <1>2, <1>3, <1>4, <1>5 DEF Surprising

\* A result beside the answer it was judged by.
Judged(s, r, a) ==
    /\ r.status \in {"passed", "failed", "skipped", "unsupported"}
    /\ r.cleanup \in CleanupWord /\ r.codes \subseteq Code
    /\ DOMAIN r = {"status", "cleanup", "codes", "evidence"}
    /\ r.status = "unsupported" => s = "integrity" /\ "chunkIntegrity" \notin capabilities
    /\ r.status = "passed" => a.kind = "observation" /\ a.ok /\ r.evidence.facts = a.facts
    /\ r.status = "passed" <=>
        /\ Passes(s, r.evidence.facts, r.cleanup, r.evidence.abandoned, r.evidence.reference)
        /\ ~(s = "abandoned" /\ r.status = "skipped" /\ r.cleanup = "completed")

LEMMA LostIsJudged ==
    ASSUME NEW s \in ScenarioName, NEW a, NEW r \in {Skipped, Failed}
    PROVE  Judged(s, r, a)
<1>1. /\ DOMAIN r = {"status", "cleanup", "codes", "evidence"}
      /\ r.status \in {"failed", "skipped"} /\ r.cleanup = "not_required"
      /\ r.codes \subseteq Code /\ r.evidence = NoEvidence /\ r.evidence.facts = {}
  <2>1. CASE r = Skipped
    BY <2>1 DEF Skipped, Result, Code, NoEvidence
  <2>2. CASE r = Failed
    BY <2>2 DEF Failed, Result, Code, NoEvidence
  <2> QED BY <2>1, <2>2
<1>2. ~Passes(s, r.evidence.facts, r.cleanup, r.evidence.abandoned, r.evidence.reference)
  BY <1>1, NothingPassesWithout
<1> QED BY <1>1, <1>2 DEF Judged, CleanupWord

LEMMA ResultsAreJudged ==
    ASSUME NEW s \in ScenarioName, NEW a, AnswerOK(a)
    PROVE  Judged(s, ResultOf(s, a), a)
<1>1. CASE a.kind = "throw"
  <2>1. ResultOf(s, a) \in {Skipped, Failed}
    BY <1>1 DEF ResultOf
  <2> QED BY <2>1, LostIsJudged
<1>2. CASE a.kind # "throw" /\ ~a.ok
  <2>1. ResultOf(s, a) = Failed
    BY <1>2 DEF ResultOf
  <2> QED BY <2>1, LostIsJudged
<1>3. CASE a.kind = "skip" /\ a.ok
  <2>1. PICK r : r = ResultOf(s, a)
    OBVIOUS
  <2>2. r = Result("skipped", a.cleanup, a.codes, PickNothing(a))
    BY <1>3, <2>1 DEF ResultOf
  <2>3. /\ DOMAIN r = {"status", "cleanup", "codes", "evidence"} /\ r.status = "skipped"
        /\ r.cleanup = "completed" /\ r.codes = a.codes /\ r.evidence.facts = {}
    BY <1>3, <2>2 DEF Result, PickNothing, NoEvidence, AnswerOK
  <2>4. s # "abandoned" =>
          ~Passes(s, r.evidence.facts, r.cleanup, r.evidence.abandoned, r.evidence.reference)
    BY <2>3, NothingPassesWithout
  <2> QED BY <2>1, <2>3, <2>4 DEF Judged, CleanupWord, AnswerOK
<1>4. CASE a.kind = "observation" /\ a.ok
  <2>1. PICK r : r = ResultOf(s, a)
    OBVIOUS
  <2>2. r = Result(IF Passes(s, a.facts, a.cleanup, a.abandoned, a.reference)
                   THEN "passed" ELSE "failed", a.cleanup, a.codes, PickEvidence(a))
    BY <1>4, <2>1 DEF ResultOf
  <2>3. /\ DOMAIN r = {"status", "cleanup", "codes", "evidence"}
        /\ r.status = IF Passes(s, a.facts, a.cleanup, a.abandoned, a.reference)
                      THEN "passed" ELSE "failed"
        /\ r.cleanup = a.cleanup /\ r.codes = a.codes /\ r.evidence.facts = a.facts
        /\ r.evidence.abandoned = a.abandoned /\ r.evidence.reference = a.reference
    BY <2>2 DEF Result, PickEvidence
  <2> QED BY <1>4, <2>1, <2>3 DEF Judged, AnswerOK
<1> QED BY <1>1, <1>2, <1>3, <1>4 DEF AnswerOK

-----------------------------------------------------------------------------
(***************************************************************************)
(* The invariant of a run.                                                 *)
(***************************************************************************)
IsListing(list) == Len(list) \in Nat /\ list = [i \in 1 .. Len(list) |-> list[i]]

ResultsInv ==
    /\ capabilities \subseteq Capability
    /\ Len(results) \in 0 .. 10 /\ Len(answers) = Len(results)
    /\ IsListing(results) /\ IsListing(answers)
    /\ \A i \in 1 .. Len(results) : Judged(Scenarios[i], results[i], answers[i])

RunningInv == running => report = None /\ Len(results) < 10 /\ ~Inapplicable

ReportInv ==
    \/ report = None
    \/ Len(results) = 10 /\ report = Invalid /\ ~Validates(Report(results))
    \/ Len(results) = 10 /\ report = Report(results) /\ Validates(Report(results))

RunInv == ResultsInv /\ RunningInv /\ ReportInv

LEMMA RunStart == ConformanceInit => RunInv
BY ConformanceAssumption DEF IsListing, ConformanceInit, RunInv, ResultsInv, RunningInv, ReportInv

LEMMA ListingGrows ==
    ASSUME NEW list, IsListing(list), NEW x
    PROVE  /\ IsListing(Append(list, x)) /\ Len(Append(list, x)) = Len(list) + 1
           /\ \A i \in 1 .. Len(list) : Append(list, x)[i] = list[i]
           /\ Append(list, x)[Len(list) + 1] = x
<1>1. PICK S : S = {list[i] : i \in 1 .. Len(list)} \cup {x}
  OBVIOUS
<1>2. list \in [1 .. Len(list) -> S] /\ Len(list) \in Nat /\ x \in S
  BY <1>1 DEF IsListing
<1>3. list \in Seq(S)
  BY <1>2, SeqDef
<1>4. /\ Append(list, x) \in Seq(S) /\ Len(Append(list, x)) = Len(list) + 1
      /\ \A i \in 1 .. Len(list) : Append(list, x)[i] = list[i]
      /\ Append(list, x)[Len(list) + 1] = x
  BY <1>2, <1>3, AppendProperties
<1>5. \A list2 \in Seq(S) : IsListing(list2)
  BY DEF IsListing
<1> QED BY <1>4, <1>5

\* The next result is judged by its answer, and the others stay.
LEMMA PushIsJudged ==
    ASSUME RunInv, Len(results) < 10, report = None, NEW r, NEW a,
           results' = Append(results, r), answers' = Append(answers, a),
           UNCHANGED <<capabilities, report>>, running' = FALSE,
           Judged(NextScenario, r, a)
    PROVE  RunInv'
<1>1. /\ IsListing(results') /\ Len(results') = Len(results) + 1
      /\ \A i \in 1 .. Len(results) : results'[i] = results[i]
      /\ results'[Len(results) + 1] = r
  BY ListingGrows DEF RunInv, ResultsInv
<1>2. /\ IsListing(answers') /\ Len(answers') = Len(results) + 1
      /\ \A i \in 1 .. Len(results) : answers'[i] = answers[i]
      /\ answers'[Len(results) + 1] = a
  BY ListingGrows DEF RunInv, ResultsInv
<1>3. ASSUME NEW i \in 1 .. Len(results')
      PROVE  Judged(Scenarios[i], results[i], answers[i])'
  <2>1. Judged(Scenarios[i], results'[i], answers'[i])
    <3>1. CASE i = Len(results) + 1
      BY <3>1, <1>1, <1>2 DEF NextScenario
    <3>2. CASE i # Len(results) + 1
      <4>1. i \in 1 .. Len(results)
        BY <3>2, <1>1 DEF RunInv, ResultsInv
      <4> QED BY <4>1, <1>1, <1>2 DEF RunInv, ResultsInv
    <3> QED BY <3>1, <3>2
  <2> QED BY <2>1 DEF Judged, Passes, Proofs
<1>4. ResultsInv'
  BY <1>1, <1>2, <1>3 DEF RunInv, ResultsInv
<1> QED BY <1>4 DEF RunInv, RunningInv, ReportInv

\* A report is validated by nothing that changes but the capabilities.
LEMMA ValidationStays ==
    ASSUME UNCHANGED capabilities
    PROVE  /\ \A rs : Report(rs)' = Report(rs)
           /\ \A r : Validates(r)' <=> Validates(r)
<1>1. \A rs : CapabilityIssues(rs)' = CapabilityIssues(rs)
  BY DEF CapabilityIssues, Proven, Passed, ResultFor
<1>2. \A s, facts, cleanup, abandoned, reference :
        Passes(s, facts, cleanup, abandoned, reference)'
            <=> Passes(s, facts, cleanup, abandoned, reference)
  BY DEF Passes, Proofs
<1>3. \A rs : ValidResults(rs)' <=> ValidResults(rs)
  BY <1>2 DEF ValidResults
<1>4. \A rs : Report(rs)' = Report(rs)
  BY <1>1 DEF Report, OverallStatus, Cleanup, Limitations
<1>5. \A r : Validates(r)' <=> Validates(r)
  BY <1>1, <1>3 DEF Validates, ValidDeclarations, OverallStatus, Cleanup, Limitations
<1> QED BY <1>4, <1>5

LEMMA RunStep == RunInv /\ [ConformanceNext]_conformance => RunInv'
<1> SUFFICES ASSUME RunInv, [ConformanceNext]_conformance PROVE RunInv'
  OBVIOUS
<1>1. Len(Scenarios) = 10
  BY ScenariosAreNamed
<1>2. Len(results) \in 0 .. 10
  BY DEF RunInv, ResultsInv
<1>3. Len(results) < 10 => NextScenario \in ScenarioName
  <2>1. \A i \in 1 .. 10 : Scenarios[i] \in ScenarioName
    BY ScenariosAreNamed
  <2> QED BY <2>1, <1>2 DEF NextScenario
<1>4. CASE Unsupported
  <2>1. PICK r : r = Result("unsupported", "not_required", {"capability-not-advertised"},
                            NoEvidence)
    OBVIOUS
  <2>2. /\ DOMAIN r = {"status", "cleanup", "codes", "evidence"} /\ r.status = "unsupported"
        /\ r.cleanup = "not_required" /\ r.codes = {"capability-not-advertised"}
        /\ r.evidence.facts = {}
    BY <2>1 DEF Result, NoEvidence
  <2>3. Len(results) < 10 /\ NextScenario = "integrity" /\ "chunkIntegrity" \notin capabilities
    BY <1>4, <1>1, <1>2 DEF Unsupported, More, Inapplicable
  <2>4. ~Passes(NextScenario, r.evidence.facts, r.cleanup, r.evidence.abandoned,
                r.evidence.reference)
    BY <2>2, <2>3, <1>3, NothingPassesWithout
  <2>5. Judged(NextScenario, r, NoAnswer)
    BY <2>2, <2>3, <2>4 DEF Judged, CleanupWord, Code
  <2>6. /\ results' = Append(results, r) /\ answers' = Append(answers, NoAnswer)
        /\ UNCHANGED <<capabilities, report>> /\ running' = FALSE /\ report = None
    BY <1>4, <2>1 DEF Unsupported, More, Push
  <2> QED BY <2>3, <2>5, <2>6, PushIsJudged
<1>5. CASE SkipCanceled
  <2>1. Len(results) < 10
    BY <1>5, <1>1, <1>2 DEF SkipCanceled, More
  <2>2. Judged(NextScenario, Skipped, NoAnswer)
    BY <1>3, <2>1, LostIsJudged
  <2>3. /\ results' = Append(results, Skipped) /\ answers' = Append(answers, NoAnswer)
        /\ UNCHANGED <<capabilities, report>> /\ running' = FALSE /\ report = None
    BY <1>5 DEF SkipCanceled, More, Push
  <2> QED BY <2>1, <2>2, <2>3, PushIsJudged
<1>6. CASE RunScenario
  <2>1. /\ report = None /\ Len(results) < 10 /\ ~Inapplicable
        /\ UNCHANGED <<capabilities, results, answers, report>>
    BY <1>6, <1>1, <1>2 DEF RunScenario, More
  <2> QED
    BY <2>1 DEF RunInv, ResultsInv, RunningInv, ReportInv, Judged, Passes, Proofs, Inapplicable,
                NextScenario
<1>7. CASE ScenarioSettles
  <2>1. PICK a \in {Good(NextScenario)} \cup Surprising(NextScenario) :
          /\ results' = Append(results, ResultOf(NextScenario, a))
          /\ answers' = Append(answers, a)
    BY <1>7 DEF ScenarioSettles, Push
  <2>2. /\ Len(results) < 10 /\ report = None /\ running' = FALSE
        /\ UNCHANGED <<capabilities, report>>
    BY <1>7 DEF ScenarioSettles, RunInv, RunningInv
  <2>3. Judged(NextScenario, ResultOf(NextScenario, a), a)
    BY <1>3, <2>2, AnswersAreOK, ResultsAreJudged
  <2> QED BY <2>1, <2>2, <2>3, PushIsJudged
<1>8. CASE Finish
  <2>1. /\ Len(results) = 10 /\ UNCHANGED <<capabilities, running, results, answers>>
        /\ report' = IF Validates(Report(results)) THEN Report(results) ELSE Invalid
    BY <1>8, <1>1 DEF Finish
  <2>2. ~running
    BY <2>1 DEF RunInv, RunningInv
  <2>3. PICK rs, r : rs = results /\ r = Report(results)
    OBVIOUS
  <2>4. Report(rs)' = r /\ (Validates(r)' <=> Validates(r)) /\ results' = rs
    BY <2>1, <2>3, ValidationStays
  <2>5. ReportInv'
    BY <2>1, <2>3, <2>4 DEF ReportInv
  <2>6. ResultsInv'
    BY <2>1 DEF RunInv, ResultsInv, Judged, Passes, Proofs
  <2> QED BY <2>1, <2>2, <2>5, <2>6 DEF RunInv, RunningInv
<1>9. CASE CancelRun \/ UNCHANGED conformance
  <2>1. UNCHANGED <<capabilities, running, results, answers, report>>
    BY <1>9 DEF CancelRun, conformance
  <2>2. ResultsInv'
    BY <2>1 DEF RunInv, ResultsInv, Judged, Passes, Proofs
  <2>3. RunningInv'
    BY <2>1 DEF RunInv, RunningInv, Inapplicable, NextScenario
  <2>4. PICK rs, r : rs = results /\ r = Report(results)
    OBVIOUS
  <2>5. Report(rs)' = r /\ (Validates(r)' <=> Validates(r)) /\ results' = rs
    BY <2>1, <2>4, ValidationStays
  <2>6. ReportInv'
    BY <2>1, <2>4, <2>5 DEF RunInv, ReportInv
  <2> QED BY <2>2, <2>3, <2>6 DEF RunInv
<1> QED BY <1>4, <1>5, <1>6, <1>7, <1>8, <1>9 DEF ConformanceNext

\* The invariant of a run, whatever the target answers and whenever it is canceled.
THEOREM RunsAreKept == ConformanceSpec => []RunInv
BY RunStart, RunStep, PTL DEF ConformanceSpec

-----------------------------------------------------------------------------
(***************************************************************************)
(* What a reader of the report can rely on.                                *)
(***************************************************************************)
LEMMA ResultForIsFound ==
    ASSUME NEW rs, NEW s \in ScenarioName
    PROVE  \E i \in 1 .. 10 : Scenarios[i] = s /\ ResultFor(rs, s) = rs[i]
<1>1. \E i \in DOMAIN Scenarios : Scenarios[i] = s
  BY ScenariosAreNamed
<1>2. PICK i : i = CHOOSE j \in DOMAIN Scenarios : Scenarios[j] = s
  OBVIOUS
<1>3. i \in DOMAIN Scenarios /\ Scenarios[i] = s
  BY <1>1, <1>2
<1> QED BY <1>2, <1>3, ScenariosAreNamed DEF ResultFor

\* What is declared in a report that the runner makes is of its type, but for the
\* number of the limitation codes.
LEMMA ReportIsTyped ==
    ASSUME RunInv, Len(results) = 10
    PROVE  /\ Report(results).issues \subseteq Capability
           /\ Report(results).cleanup.status \in CleanupWord
           /\ Report(results).cleanup.abandoned \in Nat
           /\ Cardinality(Report(results).limitations) \in Nat
           /\ ValidResults(results)
<1>1. DOMAIN results = 1 .. 10
  BY DEF RunInv, ResultsInv, IsListing
<1>2. /\ Report(results).issues = CapabilityIssues(results)
      /\ Report(results).cleanup = Cleanup(results)
      /\ Report(results).limitations = Limitations(results)
  BY DEF Report
<1>3. CapabilityIssues(results) \subseteq Capability
  BY DEF CapabilityIssues, RunInv, ResultsInv
<1>4. Cleanup(results).status \in CleanupWord
  BY DEF Cleanup, CleanupWord
<1>5. Cleanup(results).abandoned \in Nat
  <2> DEFINE left == {i \in DOMAIN results : results[i].evidence.abandoned = 1}
  <2>1. IsFiniteSet(1 .. 10) /\ left \subseteq 1 .. 10
    <3>1. \A n \in Int : IsFiniteSet(1 .. n)
      BY FS_Interval
    <3>2. PICK n \in Int : n = 10
      OBVIOUS
    <3>4. IsFiniteSet(1 .. n)
      BY ONLY <3>1, <3>2
    <3>5. IsFiniteSet(1 .. 10)
      BY ONLY <3>2, <3>4
    <3>3. left \subseteq 1 .. 10
      BY <1>1
    <3> QED BY <3>5, <3>3
  <2>2. Cardinality(left) \in Nat
    BY <2>1, FS_Subset, FS_CardinalityType
  <2> QED BY <2>2 DEF Cleanup
<1>6. Cardinality(Limitations(results)) \in Nat
  <2>1. \A i \in DOMAIN results : results[i].codes \subseteq Code
    BY <1>1 DEF RunInv, ResultsInv, Judged
  <2>2. Limitations(results) \subseteq Code
    BY <2>1 DEF Limitations
  <2>3. IsFiniteSet(Code)
    <3>1. Code = {"a"} \cup ({"b"} \cup ({"run-canceled"} \cup {"capability-not-advertised"}))
      BY DEF Code
    <3>2. \A x : IsFiniteSet({x})
      BY FS_Singleton
    <3> QED BY <3>1, <3>2, FS_Union
  <2> QED BY <2>2, <2>3, FS_Subset, FS_CardinalityType
<1>7. ValidResults(results)
  <2>1. \A i \in 1 .. 10 : Judged(Scenarios[i], results[i], answers[i])
    BY DEF RunInv, ResultsInv
  <2> QED BY <1>1, <2>1, ScenariosAreNamed DEF ValidResults, Judged
<1> QED BY <1>2, <1>3, <1>4, <1>5, <1>6, <1>7

LEMMA RunsAreReported == RunInv => RunIsReported
<1> SUFFICES ASSUME RunInv, report = Invalid
             PROVE  Cardinality(Limitations(results)) > MaxLimitations
  BY DEF RunIsReported
<1>1. Len(results) = 10 /\ ~Validates(Report(results))
  BY DEF RunInv, ReportInv, None, Invalid, Report
<1>2. /\ Report(results).results = results
      /\ Report(results).issues = CapabilityIssues(results)
      /\ Report(results).overall = OverallStatus(results, CapabilityIssues(results))
      /\ Report(results).cleanup = Cleanup(results)
      /\ Report(results).limitations = Limitations(results)
  BY DEF Report
<1>3. ~ValidDeclarations(Report(results))
  BY <1>1, <1>2, ReportIsTyped DEF Validates
<1>4. ~(Cardinality(Limitations(results)) <= MaxLimitations)
  BY <1>1, <1>2, <1>3, ReportIsTyped DEF ValidDeclarations, CleanupWord
<1>5. Cardinality(Limitations(results)) \in Nat
  BY <1>1, <1>2, ReportIsTyped
<1> QED BY <1>4, <1>5, ConformanceAssumption

LEMMA CapabilitiesAreProvenSomewhere ==
    \A c \in Capability : ProvenIn[c] \in ScenarioName
BY DEF Capability, ProvenIn, ScenarioName

LEMMA ConformantsAreProven == RunInv => ConformantIsProven
<1> SUFFICES ASSUME RunInv, report.made, report.overall = "conformant"
             PROVE  /\ \A i \in DOMAIN Scenarios :
                        \/ Scenarios[i] = "integrity" /\ "chunkIntegrity" \notin capabilities
                        \/ /\ answers[i].kind = "observation" /\ answers[i].ok
                           /\ Required[Scenarios[i]] \subseteq answers[i].facts
                    /\ \A c \in capabilities : \E i \in DOMAIN Scenarios :
                        Scenarios[i] = ProvenIn[c] /\ ProofOf(c) \subseteq answers[i].facts
  BY DEF ConformantIsProven
<1>1. Len(results) = 10 /\ report = Report(results)
  BY DEF RunInv, ReportInv, None, Invalid
<1>2. OverallStatus(results, CapabilityIssues(results)) = "conformant"
  BY <1>1 DEF Report
<1>3. DOMAIN results = 1 .. 10 /\ DOMAIN Scenarios = 1 .. 10
  BY <1>1, ScenariosAreNamed DEF RunInv, ResultsInv, IsListing
<1>4. /\ CapabilityIssues(results) = {}
      /\ \A i \in 1 .. 10 : results[i].status \notin {"failed", "skipped"}
  BY <1>2, <1>3 DEF OverallStatus
<1>5. \A i \in 1 .. 10 : Judged(Scenarios[i], results[i], answers[i])
  BY <1>1 DEF RunInv, ResultsInv
<1>6. ASSUME NEW i \in 1 .. 10, results[i].status = "passed"
      PROVE  /\ answers[i].kind = "observation" /\ answers[i].ok
             /\ Required[Scenarios[i]] \subseteq answers[i].facts
             /\ results[i].evidence.facts = answers[i].facts
  BY <1>5, <1>6 DEF Judged, Passes
<1>7. ASSUME NEW i \in 1 .. 10
      PROVE  \/ Scenarios[i] = "integrity" /\ "chunkIntegrity" \notin capabilities
             \/ /\ answers[i].kind = "observation" /\ answers[i].ok
                /\ Required[Scenarios[i]] \subseteq answers[i].facts
  <2>1. results[i].status \in {"passed", "unsupported"}
    BY <1>4, <1>5 DEF Judged
  <2>2. CASE results[i].status = "unsupported"
    BY <1>5, <2>2 DEF Judged
  <2> QED BY <1>6, <2>1, <2>2
<1>8. ASSUME NEW c \in capabilities
      PROVE  \E i \in 1 .. 10 :
                Scenarios[i] = ProvenIn[c] /\ ProofOf(c) \subseteq answers[i].facts
  <2>1. Proven(results, c) /\ c \in Capability
    BY <1>4 DEF CapabilityIssues, RunInv, ResultsInv
  <2>2. PICK i \in 1 .. 10 : /\ Scenarios[i] = ProvenIn[c]
                             /\ ResultFor(results, ProvenIn[c]) = results[i]
    BY <2>1, CapabilitiesAreProvenSomewhere, ResultForIsFound
  <2>3. results[i].status = "passed" /\ ProofOf(c) \subseteq results[i].evidence.facts
    BY <2>1, <2>2 DEF Proven, Passed
  <2> QED BY <1>6, <2>2, <2>3
<1> QED BY <1>3, <1>7, <1>8

LEMMA ImprovementsAreRefused == RunInv => ImprovedIsRefused
<1> SUFFICES ASSUME RunInv, report.made, NEW r \in Improved(report)
             PROVE  ~Validates(r)
  BY DEF ImprovedIsRefused
<1>1. Len(results) = 10 /\ report = Report(results)
  BY DEF RunInv, ReportInv, None, Invalid
<1>2. /\ report.results = results /\ report.issues = CapabilityIssues(results)
      /\ report.overall = OverallStatus(results, report.issues)
      /\ report.cleanup = Cleanup(results)
      /\ DOMAIN report = {"made", "results", "issues", "overall", "cleanup", "limitations"}
  BY <1>1 DEF Report
<1>3. CASE r \in {[report EXCEPT !.overall = o] :
                      o \in {"conformant", "incomplete", "non_conformant"} \ {report.overall}}
  <2>1. r.results = results /\ r.issues = report.issues /\ r.overall # report.overall
    BY <1>2, <1>3
  <2> QED BY <1>2, <2>1 DEF Validates
<1>4. CASE r \in {[report EXCEPT !.issues = @ \ {c}] : c \in report.issues}
  <2>1. PICK c \in report.issues : r = [report EXCEPT !.issues = report.issues \ {c}]
    BY <1>4
  <2>2. r.results = results /\ r.issues = report.issues \ {c}
    BY <1>2, <2>1
  <2>3. r.issues # CapabilityIssues(r.results)
    BY <1>2, <2>2
  <2> QED BY <2>3 DEF Validates
<1>5. CASE r \in {[report EXCEPT !.cleanup.abandoned = 0] : i \in 1 .. report.cleanup.abandoned}
  <2>1. report.cleanup.abandoned \in Nat /\ 1 .. report.cleanup.abandoned # {}
    BY <1>1, <1>5, ReportIsTyped
  <2>2. report.cleanup.abandoned # 0
    BY <2>1
  <2>3. r = [report EXCEPT !.cleanup = [report.cleanup EXCEPT !.abandoned = 0]]
    BY <1>5
  <2>4. DOMAIN report.cleanup = {"status", "abandoned"}
    BY <1>2 DEF Cleanup
  <2>5. r.results = results /\ r.cleanup = [report.cleanup EXCEPT !.abandoned = 0]
    BY <1>2, <2>3
  <2>6. r.cleanup.abandoned = 0
    BY <2>4, <2>5
  <2>7. r.cleanup # Cleanup(r.results)
    BY <1>2, <2>2, <2>5, <2>6
  <2> QED BY <2>7 DEF Validates
<1>6. CASE r \in {Report([report.results EXCEPT ![i].status = "passed"]) :
                      i \in {j \in DOMAIN report.results :
                                report.results[j].status # "passed" /\ ~LooksPassed(j, report)}}
  <2>1. PICK i \in DOMAIN results :
          /\ r = Report([results EXCEPT ![i].status = "passed"])
          /\ results[i].status # "passed" /\ ~LooksPassed(i, report)
    BY <1>2, <1>6
  <2>2. i \in 1 .. 10 /\ DOMAIN results = 1 .. 10
    BY <1>1 DEF RunInv, ResultsInv, IsListing
  <2>3. Judged(Scenarios[i], results[i], answers[i])
    BY <1>1, <2>2 DEF RunInv, ResultsInv
  <2>4. PICK y : y = [results[i] EXCEPT !.status = "passed"]
    OBVIOUS
  <2>5. /\ DOMAIN r.results = 1 .. 10 /\ r.results[i] = y
    BY <2>1, <2>2, <2>4 DEF Report
  <2>6. /\ y.status = "passed" /\ y.cleanup = results[i].cleanup
        /\ y.evidence = results[i].evidence
    BY <2>3, <2>4 DEF Judged
  <2>7. ~Passes(Scenarios[i], y.evidence.facts, y.cleanup, y.evidence.abandoned,
                y.evidence.reference)
    BY <1>2, <2>1, <2>3, <2>6 DEF Judged, LooksPassed
  <2>8. ~ValidResults(r.results)
    BY <2>2, <2>5, <2>6, <2>7 DEF ValidResults
  <2> QED BY <2>8 DEF Validates
<1> QED BY <1>3, <1>4, <1>5, <1>6 DEF Improved

\* A conformance report can be had, can be believed and cannot be improved, for
\* any target: any capabilities it advertises and any number of bad answers
\* (conformance.ts:424-586).
THEOREM ReportsAreTrue == ConformanceSpec => []ReportIsTrue
<1>1. RunInv => ReportIsTrue
  BY RunsAreReported, ConformantsAreProven, ImprovementsAreRefused DEF ReportIsTrue
<1> QED BY <1>1, RunsAreKept, PTL

-----------------------------------------------------------------------------
(***************************************************************************)
(* Domain profiles: what it means that a derivation follows its base.      *)
(***************************************************************************)
RuleRecord ==
    [kind : {"field", "metadata"}, key : Field, severity : {"blocking", "warning"},
     unavailable : {"block", "warn", "not_applicable"}, limit : SUBSET Readable]

RulesOK(rules) ==
    /\ rules = [id \in DOMAIN rules |-> rules[id]] /\ DOMAIN rules \subseteq RuleId
    /\ \A id \in DOMAIN rules : rules[id] \in RuleRecord

LEMMA OutcomesRange ==
    ASSUME NEW rule \in RuleRecord, NEW value
    PROVE  Outcome(rule, value) \in {0, 1, 2}
<1>1. rule.unavailable \in {"block", "warn", "not_applicable"} /\ "missing" \notin rule.limit
  BY DEF RuleRecord, Readable
<1>2. Unavailable(rule) \in {0, 1, 2}
  BY <1>1 DEF Unavailable, BySeverity
<1> QED BY <1>1, <1>2 DEF Outcome, BySeverity

LEMMA OutcomeOfMissing ==
    ASSUME NEW rule \in RuleRecord
    PROVE  Outcome(rule, "missing") = IF rule.unavailable = "not_applicable" THEN 0
                                      ELSE IF rule.unavailable = "warn" THEN 1
                                      ELSE BySeverity(rule)
<1>1. Outcome(rule, "missing") = Unavailable(rule)
  BY DEF Outcome, RuleRecord, Readable
<1>2. rule.unavailable \in {"block", "warn", "not_applicable"}
  BY DEF RuleRecord
<1> QED BY <1>1, <1>2 DEF Unavailable

\* A tighter rule is as strict on every value, also on one that is missing.
LEMMA TighterIsAsStrict ==
    ASSUME NEW rule \in RuleRecord, NEW next \in RuleRecord, Tighter(rule, next), NEW value
    PROVE  Outcome(next, value) >= Outcome(rule, value)
<1>1. BySeverity(next) >= BySeverity(rule) /\ BySeverity(next) \in {1, 2}
  BY DEF Tighter, BySeverity, SeverityRank, RuleRecord
<1>2. CASE value = "missing"
  <2>1. UnavailableRank(next.unavailable) >= UnavailableRank(rule.unavailable)
    BY DEF Tighter
  <2>2. /\ Outcome(next, "missing") = IF next.unavailable = "not_applicable" THEN 0
                                      ELSE IF next.unavailable = "warn" THEN 1
                                      ELSE BySeverity(next)
        /\ Outcome(rule, "missing") = IF rule.unavailable = "not_applicable" THEN 0
                                      ELSE IF rule.unavailable = "warn" THEN 1
                                      ELSE BySeverity(rule)
    BY OutcomeOfMissing
  <2>3. /\ rule.unavailable \in {"block", "warn", "not_applicable"}
        /\ next.unavailable \in {"block", "warn", "not_applicable"}
        /\ BySeverity(rule) \in {1, 2}
    BY DEF RuleRecord, BySeverity
  <2> QED BY <1>1, <1>2, <2>1, <2>2, <2>3 DEF UnavailableRank
<1>3. CASE value # "missing"
  <2>1. CASE value \in rule.limit
    <3>1. Outcome(rule, value) = 0
      BY <1>3, <2>1 DEF Outcome
    <3> QED BY <3>1, OutcomesRange
  <2>2. CASE value \notin rule.limit
    <3>1. value \notin next.limit
      BY <2>2 DEF Tighter
    <3> QED BY <1>1, <1>3, <2>2, <3>1 DEF Outcome
  <2> QED BY <2>1, <2>2
<1> QED BY <1>2, <1>3

\* A verdict is the worst outcome of a rule.
LEMMA VerdictIsWorst ==
    ASSUME NEW p, NEW e, RulesOK(p.rules), DOMAIN p.rules # {}
    PROVE  /\ Evaluated(p, e) \in {0, 1, 2}
           /\ \A id \in DOMAIN p.rules :
                Evaluated(p, e) >= Outcome(p.rules[id], e[KeyOf(p, p.rules[id])])
           /\ \E id \in DOMAIN p.rules :
                Evaluated(p, e) = Outcome(p.rules[id], e[KeyOf(p, p.rules[id])])
<1> DEFINE outcomes == {Outcome(p.rules[id], e[KeyOf(p, p.rules[id])]) : id \in DOMAIN p.rules}
<1>1. outcomes \subseteq {0, 1, 2} /\ outcomes # {}
  BY OutcomesRange DEF RulesOK
<1>2. \E worst \in outcomes : \A o \in outcomes : worst >= o
  <2> HIDE DEF outcomes
  <2>1. CASE 2 \in outcomes
    BY <1>1, <2>1
  <2>2. CASE 2 \notin outcomes /\ 1 \in outcomes
    BY <1>1, <2>2
  <2>3. CASE outcomes = {0}
    BY <2>3
  <2> QED BY <1>1, <2>1, <2>2, <2>3
<1>3. Evaluated(p, e) = CHOOSE worst \in outcomes : \A o \in outcomes : worst >= o
  BY DEF Evaluated
<1>4. Evaluated(p, e) \in outcomes /\ \A o \in outcomes : Evaluated(p, e) >= o
  <2> HIDE DEF outcomes
  <2> QED BY <1>2, <1>3
<1> QED BY <1>1, <1>4

\* What follows its base, with no exception and no mapped key, is as strict.
LEMMA FollowingIsAsStrict ==
    ASSUME NEW p, NEW base, RulesOK(p.rules), RulesOK(base.rules),
           DOMAIN p.rules # {}, DOMAIN base.rules # {}, Plain(p), base.mappings = NoMappings,
           Follows(p, base)
    PROVE  AsStrict(p, base)
<1> SUFFICES ASSUME NEW e \in EvidenceOf PROVE Evaluated(p, e) >= Evaluated(base, e)
  BY DEF AsStrict
<1>1. PICK id \in DOMAIN base.rules :
        Evaluated(base, e) = Outcome(base.rules[id], e[KeyOf(base, base.rules[id])])
  BY VerdictIsWorst
<1>2. ExceptedIds(p) = {}
  BY DEF Plain, ExceptedIds, Names
<1>3. id \in DOMAIN p.rules /\ \/ p.rules[id] = base.rules[id]
                               \/ Tighter(base.rules[id], p.rules[id])
  BY <1>1, <1>2 DEF Follows, DeclaredChanges
<1>4. p.rules[id] \in RuleRecord /\ base.rules[id] \in RuleRecord
  BY <1>1, <1>3 DEF RulesOK
<1>5. /\ KeyOf(p, p.rules[id]) = p.rules[id].key
      /\ KeyOf(base, base.rules[id]) = base.rules[id].key
      /\ p.rules[id].key = base.rules[id].key
  BY <1>3 DEF KeyOf, Plain, NoMappings, Tighter
<1> DEFINE value == e[base.rules[id].key]
<1>6. Outcome(p.rules[id], value) >= Outcome(base.rules[id], value)
  <2>1. Outcome(base.rules[id], value) \in {0, 1, 2}
    BY <1>4, OutcomesRange
  <2> QED BY <1>3, <1>4, <2>1, TighterIsAsStrict
<1>7. Evaluated(p, e) >= Outcome(p.rules[id], value) /\ Evaluated(p, e) \in {0, 1, 2}
  BY <1>3, <1>5, VerdictIsWorst
<1>8. Outcome(p.rules[id], value) \in {0, 1, 2} /\ Outcome(base.rules[id], value) \in {0, 1, 2}
  BY <1>4, OutcomesRange
<1>9. Evaluated(base, e) = Outcome(base.rules[id], value)
  BY <1>1, <1>5
<1> HIDE DEF value
<1> QED BY <1>6, <1>7, <1>8, <1>9

-----------------------------------------------------------------------------
(***************************************************************************)
(* Lists in which nothing comes twice.                                     *)
(***************************************************************************)
Injective(list) == \A i, j \in DOMAIN list : list[i] = list[j] => i = j

\* Once counts; that nothing comes twice is what a proof can use.
LEMMA OnceIsInjective ==
    ASSUME NEW S, NEW list \in Seq(S)
    PROVE  Once(list) <=> Injective(list)
<1>1. DOMAIN list = 1 .. Len(list) /\ Len(list) \in Nat
  OBVIOUS
<1>2. IsFiniteSet(1 .. Len(list)) /\ Cardinality(1 .. Len(list)) = Len(list)
  <2>1. IsFiniteSet(1 .. Len(list))
    BY <1>1, FS_Interval
  <2>2. Cardinality(1 .. Len(list)) = IF 1 > Len(list) THEN 0 ELSE Len(list) - 1 + 1
    BY <1>1, FS_Interval
  <2> QED BY <1>1, <2>1, <2>2
<1>3. list \in Surjection(1 .. Len(list), Names(list))
  BY <1>1 DEF Surjection, Names
<1>4. Cardinality(Names(list)) = Cardinality(1 .. Len(list))
          <=> list \in Injection(1 .. Len(list), Names(list))
  BY <1>2, <1>3, FS_Surjection
<1>5. list \in Injection(1 .. Len(list), Names(list)) <=> Injective(list)
  BY <1>1, <1>3 DEF Injection, IsInjective, Injective, Surjection
<1> QED BY <1>2, <1>4, <1>5 DEF Once

Exception == [id : RuleId, action : {"disable", "replace"}]
Excepted(p) == [i \in DOMAIN p.excepted |-> p.excepted[i].id]

LEMMA ExceptionsAreNamed ==
    ASSUME NEW p, p.excepted \in Seq(Exception)
    PROVE  Excepted(p) \in Seq(RuleId) /\ Names(Excepted(p)) = ExceptedIds(p)
<1>1. Len(p.excepted) \in Nat /\ DOMAIN p.excepted = 1 .. Len(p.excepted)
  OBVIOUS
<1>2. \A i \in DOMAIN p.excepted : p.excepted[i] \in Exception
  OBVIOUS
<1>3. \A i \in DOMAIN p.excepted : p.excepted[i].id \in RuleId
  BY <1>2 DEF Exception
<1>4. Excepted(p) \in [1 .. Len(p.excepted) -> RuleId]
  BY <1>1, <1>3 DEF Excepted
<1>5. Excepted(p) \in Seq(RuleId)
  BY <1>1, <1>4, SeqDef
<1> QED BY <1>5 DEF Names, ExceptedIds, Excepted

\* Each rule is changed by one input at most.
Distinct(p) ==
    /\ Injective(p.added) /\ Injective(p.tightened) /\ Injective(Excepted(p))
    /\ Names(p.added) \cap Names(p.tightened) = {}
    /\ (Names(p.added) \cup Names(p.tightened)) \cap ExceptedIds(p) = {}

\* The shape of a profile.
PolicyOK(p) ==
    /\ DOMAIN p = {"rules", "base", "added", "tightened", "excepted", "mappings", "trusted"}
    /\ RulesOK(p.rules)
    /\ p.added \in Seq(RuleId) /\ p.tightened \in Seq(RuleId)
    /\ p.excepted \in Seq(Exception)

LEMMA ChangedOnceIsDistinct ==
    ASSUME NEW p, PolicyOK(p), ChangedOnce(p)
    PROVE  Distinct(p)
<1> DEFINE a == p.added
           t == p.tightened
           x == Excepted(p)
           front == a \o t
           list == front \o x
<1>1. a \in Seq(RuleId) /\ t \in Seq(RuleId) /\ x \in Seq(RuleId)
  BY ExceptionsAreNamed DEF PolicyOK
<1>2. Names(x) = ExceptedIds(p)
  BY ExceptionsAreNamed DEF PolicyOK
<1>3. ChangedOnce(p) <=> Once(list)
  BY DEF ChangedOnce, Excepted
<1> HIDE DEF a, t, x
<1>4. /\ front \in Seq(RuleId) /\ Len(front) = Len(a) + Len(t)
      /\ \A i \in 1 .. Len(a) + Len(t) :
            front[i] = IF i <= Len(a) THEN a[i] ELSE t[i - Len(a)]
  BY <1>1, ConcatProperties
<1> HIDE DEF front
<1>5. /\ list \in Seq(RuleId) /\ Len(list) = Len(front) + Len(x)
      /\ \A i \in 1 .. Len(front) + Len(x) :
            list[i] = IF i <= Len(front) THEN front[i] ELSE x[i - Len(front)]
  <2>1. front \in Seq(RuleId) /\ x \in Seq(RuleId)
    BY <1>1, <1>4
  <2> QED BY ONLY <2>1, ConcatProperties
<1> HIDE DEF list
<1>6. Injective(list)
  BY <1>3, <1>5, OnceIsInjective
<1>7. /\ Len(a) \in Nat /\ Len(t) \in Nat /\ Len(x) \in Nat
      /\ DOMAIN a = 1 .. Len(a) /\ DOMAIN t = 1 .. Len(t) /\ DOMAIN x = 1 .. Len(x)
      /\ DOMAIN list = 1 .. Len(a) + Len(t) + Len(x)
  BY <1>1, <1>4, <1>5
<1>8. \A i \in DOMAIN a : i \in DOMAIN list /\ list[i] = a[i]
  BY <1>4, <1>5, <1>7
<1>9. \A i \in DOMAIN t : Len(a) + i \in DOMAIN list /\ list[Len(a) + i] = t[i]
  <2> SUFFICES ASSUME NEW i \in DOMAIN t
               PROVE  Len(a) + i \in DOMAIN list /\ list[Len(a) + i] = t[i]
    OBVIOUS
  <2>1. Len(a) + i \in 1 .. Len(front) /\ ~(Len(a) + i <= Len(a)) /\ Len(a) + i - Len(a) = i
    BY <1>4, <1>7
  <2>2. list[Len(a) + i] = front[Len(a) + i] /\ front[Len(a) + i] = t[i]
    BY <1>4, <1>5, <1>7, <2>1
  <2> QED BY <1>4, <1>7, <2>1, <2>2
<1>10. \A i \in DOMAIN x :
          Len(front) + i \in DOMAIN list /\ list[Len(front) + i] = x[i]
  <2> SUFFICES ASSUME NEW i \in DOMAIN x
               PROVE  Len(front) + i \in DOMAIN list /\ list[Len(front) + i] = x[i]
    OBVIOUS
  <2>1. /\ Len(front) + i \in 1 .. Len(front) + Len(x) /\ ~(Len(front) + i <= Len(front))
        /\ Len(front) + i - Len(front) = i
    BY <1>4, <1>7
  <2> QED BY <1>4, <1>5, <1>7, <2>1
<1>11. Injective(a)
  BY <1>6, <1>8 DEF Injective
<1>12. Injective(t)
  BY <1>6, <1>7, <1>9 DEF Injective
<1>13. Injective(x)
  BY <1>4, <1>6, <1>7, <1>10 DEF Injective
<1>14. \A i \in DOMAIN a, j \in DOMAIN t : a[i] # t[j]
  BY <1>6, <1>7, <1>8, <1>9 DEF Injective
<1>15. \A i \in DOMAIN a, j \in DOMAIN x : a[i] # x[j]
  BY <1>4, <1>6, <1>7, <1>8, <1>10 DEF Injective
<1>16. \A i \in DOMAIN t, j \in DOMAIN x : t[i] # x[j]
  BY <1>4, <1>6, <1>7, <1>9, <1>10 DEF Injective
<1>17. /\ Names(a) \cap Names(t) = {} /\ Names(a) \cap Names(x) = {}
       /\ Names(t) \cap Names(x) = {}
  BY <1>14, <1>15, <1>16 DEF Names
<1> QED BY <1>2, <1>11, <1>12, <1>13, <1>17 DEF Distinct, a, t, x

-----------------------------------------------------------------------------
(***************************************************************************)
(* One input more for a derivation.                                        *)
(***************************************************************************)
LEMMA ListGrows ==
    ASSUME NEW S, NEW list \in Seq(S), NEW x \in S
    PROVE  /\ Append(list, x) \in Seq(S)
           /\ Names(Append(list, x)) = Names(list) \cup {x}
           /\ Injective(Append(list, x)) => Injective(list) /\ x \notin Names(list)
<1>1. /\ Append(list, x) \in Seq(S) /\ Len(Append(list, x)) = Len(list) + 1 /\ Len(list) \in Nat
      /\ \A i \in 1 .. Len(list) : Append(list, x)[i] = list[i]
      /\ Append(list, x)[Len(list) + 1] = x
  BY AppendProperties
<1>2. DOMAIN list = 1 .. Len(list) /\ DOMAIN Append(list, x) = 1 .. Len(list) + 1
  BY <1>1
<1>3. DOMAIN Append(list, x) = DOMAIN list \cup {Len(list) + 1} /\ Len(list) + 1 \notin DOMAIN list
  BY <1>1, <1>2
<1>4. Names(Append(list, x)) = Names(list) \cup {x}
  BY <1>1, <1>2, <1>3 DEF Names
<1>5. Injective(Append(list, x)) => Injective(list)
  BY <1>1, <1>2, <1>3 DEF Injective
<1>6. Injective(Append(list, x)) => x \notin Names(list)
  BY <1>1, <1>2, <1>3 DEF Injective, Names
<1> QED BY <1>1, <1>4, <1>5, <1>6

LEMMA ExceptionsGrow ==
    ASSUME NEW p, NEW q, p.excepted \in Seq(Exception), NEW x \in Exception,
           q.excepted = Append(p.excepted, x)
    PROVE  /\ ExceptedIds(q) = ExceptedIds(p) \cup {x.id}
           /\ Injective(Excepted(q)) => Injective(Excepted(p)) /\ x.id \notin ExceptedIds(p)
<1>1. /\ q.excepted \in Seq(Exception) /\ Names(q.excepted) = Names(p.excepted) \cup {x}
      /\ Len(q.excepted) = Len(p.excepted) + 1 /\ Len(p.excepted) \in Nat
      /\ DOMAIN p.excepted = 1 .. Len(p.excepted) /\ DOMAIN q.excepted = 1 .. Len(q.excepted)
      /\ \A i \in 1 .. Len(p.excepted) : q.excepted[i] = p.excepted[i]
      /\ q.excepted[Len(p.excepted) + 1] = x
  BY ListGrows, AppendProperties
<1>2. x.id \in RuleId
  BY DEF Exception
<1>3. Excepted(p) \in Seq(RuleId) /\ Excepted(q) \in Seq(RuleId)
  BY <1>1, ExceptionsAreNamed
<1>4. Excepted(q) = Append(Excepted(p), x.id)
  <2>1. /\ Append(Excepted(p), x.id) \in Seq(RuleId)
        /\ Len(Append(Excepted(p), x.id)) = Len(Excepted(p)) + 1
        /\ \A i \in 1 .. Len(Excepted(p)) : Append(Excepted(p), x.id)[i] = Excepted(p)[i]
        /\ Append(Excepted(p), x.id)[Len(Excepted(p)) + 1] = x.id
    BY <1>2, <1>3, AppendProperties
  <2>2. /\ DOMAIN Excepted(p) = 1 .. Len(p.excepted) /\ DOMAIN Excepted(q) = 1 .. Len(q.excepted)
        /\ \A i \in 1 .. Len(p.excepted) : Excepted(p)[i] = p.excepted[i].id
        /\ \A i \in 1 .. Len(q.excepted) : Excepted(q)[i] = q.excepted[i].id
    BY <1>1 DEF Excepted
  <2>3. Len(Excepted(p)) = Len(p.excepted) /\ Len(Excepted(q)) = Len(q.excepted)
    BY <1>1, <1>3, <2>2
  <2>4. \A i \in 1 .. Len(Excepted(q)) : Excepted(q)[i] = Append(Excepted(p), x.id)[i]
    BY <1>1, <2>1, <2>2, <2>3
  <2> QED BY <1>1, <1>3, <2>1, <2>3, <2>4, SeqEqual
<1>5. Injective(Excepted(q)) => Injective(Excepted(p)) /\ x.id \notin Names(Excepted(p))
  BY <1>2, <1>3, <1>4, ListGrows
<1>6. Names(Excepted(p)) = ExceptedIds(p)
  BY ExceptionsAreNamed
<1> QED BY <1>1, <1>5, <1>6 DEF ExceptedIds

-----------------------------------------------------------------------------
\* What was changed is what the lists say.
ListsHold(p, base) ==
    /\ \A id \in Names(p.added) : id \notin DOMAIN base.rules /\ id \in DOMAIN p.rules
    /\ \A id \in Names(p.tightened) :
        id \in DOMAIN base.rules \cap DOMAIN p.rules /\ Tighter(base.rules[id], p.rules[id])
    /\ \A x \in Names(p.excepted) :
        x.id \in DOMAIN base.rules /\ (x.action = "disable" <=> x.id \notin DOMAIN p.rules)
    /\ DOMAIN p.rules \ DOMAIN base.rules \subseteq Names(p.added)
    /\ \A id \in DOMAIN base.rules \ DeclaredChanges(p) :
        id \in DOMAIN p.rules /\ p.rules[id] = base.rules[id]

\* A rule that no list has is that of the base.
LEMMA UnlistedIsOfBase ==
    ASSUME NEW p, NEW base, ListsHold(p, base), NEW id, id \notin DeclaredChanges(p)
    PROVE  /\ id \in DOMAIN p.rules <=> id \in DOMAIN base.rules
           /\ id \in DOMAIN p.rules => p.rules[id] = base.rules[id]
BY DEF ListsHold, DeclaredChanges

LEMMA TightenedIsListed ==
    ASSUME NEW p, NEW q, NEW base, PolicyOK(p), Distinct(p) => ListsHold(p, base), Distinct(q),
           NEW id \in DOMAIN p.rules, NEW rule, Tighter(p.rules[id], rule),
           q.rules = Put(p.rules, id, rule), q.tightened = Append(p.tightened, id),
           q.added = p.added, q.excepted = p.excepted
    PROVE  ListsHold(q, base)
<1>1. id \in RuleId
  BY DEF PolicyOK, RulesOK
<1>2. Names(q.tightened) = Names(p.tightened) \cup {id}
  BY <1>1, ListGrows DEF PolicyOK
<1>3. Injective(p.tightened) /\ id \notin Names(p.tightened)
  BY <1>1, ListGrows DEF PolicyOK, Distinct
<1>4. ExceptedIds(q) = ExceptedIds(p) /\ Excepted(q) = Excepted(p)
  BY DEF ExceptedIds, Excepted
<1>5. Distinct(p)
  BY <1>2, <1>3, <1>4 DEF Distinct
<1>6. ListsHold(p, base)
  BY <1>5
<1>7. id \notin DeclaredChanges(p)
  BY <1>2, <1>3, <1>4 DEF Distinct, DeclaredChanges
<1>8. id \in DOMAIN base.rules /\ p.rules[id] = base.rules[id]
  BY <1>6, <1>7, UnlistedIsOfBase
<1>9. /\ DOMAIN q.rules = DOMAIN p.rules /\ q.rules[id] = rule
      /\ \A k \in DOMAIN p.rules : k # id => q.rules[k] = p.rules[k]
  BY DEF Put
<1>10. DeclaredChanges(q) = DeclaredChanges(p) \cup {id}
  BY <1>2, <1>4 DEF DeclaredChanges
<1>11. \A k \in Names(q.tightened) :
          k \in DOMAIN base.rules \cap DOMAIN q.rules /\ Tighter(base.rules[k], q.rules[k])
  <2> SUFFICES ASSUME NEW k \in Names(q.tightened)
               PROVE  k \in DOMAIN base.rules \cap DOMAIN q.rules
                      /\ Tighter(base.rules[k], q.rules[k])
    OBVIOUS
  <2>1. CASE k = id
    BY <2>1, <1>8, <1>9
  <2>2. CASE k # id
    <3>1. k \in Names(p.tightened)
      BY <1>2, <2>2
    <3>2. k \in DOMAIN base.rules \cap DOMAIN p.rules /\ Tighter(base.rules[k], p.rules[k])
      BY <1>6, <3>1 DEF ListsHold
    <3> QED BY <1>9, <2>2, <3>2
  <2> QED BY <2>1, <2>2
<1>12. \A k \in DOMAIN base.rules \ DeclaredChanges(q) :
          k \in DOMAIN q.rules /\ q.rules[k] = base.rules[k]
  BY <1>6, <1>9, <1>10 DEF ListsHold
<1> QED BY <1>6, <1>9, <1>11, <1>12 DEF ListsHold

\* A rule that is disabled or replaced.
LEMMA ExceptedIsListed ==
    ASSUME NEW p, NEW q, NEW base, PolicyOK(p), Distinct(p) => ListsHold(p, base), Distinct(q),
           NEW id \in DOMAIN p.rules, NEW x \in Exception, x.id = id,
           q.excepted = Append(p.excepted, x),
           q.added = p.added, q.tightened = p.tightened,
           DOMAIN q.rules = IF x.action = "disable" THEN DOMAIN p.rules \ {id} ELSE DOMAIN p.rules,
           \A k \in DOMAIN p.rules \ {id} : q.rules[k] = p.rules[k]
    PROVE  ListsHold(q, base)
<1>1. /\ ExceptedIds(q) = ExceptedIds(p) \cup {id}
      /\ Injective(Excepted(p)) /\ id \notin ExceptedIds(p)
  <2>1. p.excepted \in Seq(Exception)
    BY DEF PolicyOK
  <2>2. /\ ExceptedIds(q) = ExceptedIds(p) \cup {x.id}
        /\ Injective(Excepted(q)) => Injective(Excepted(p)) /\ x.id \notin ExceptedIds(p)
    BY <2>1, ExceptionsGrow
  <2> QED BY <2>2 DEF Distinct
<1>2. Distinct(p)
  BY <1>1 DEF Distinct
<1>3. ListsHold(p, base)
  BY <1>2
<1>4. id \notin DeclaredChanges(p)
  BY <1>1 DEF Distinct, DeclaredChanges
<1>5. id \in DOMAIN base.rules
  BY <1>3, <1>4, UnlistedIsOfBase
<1>6. Names(q.excepted) = Names(p.excepted) \cup {x}
  BY ListGrows DEF PolicyOK
<1>7. \A y \in Names(p.excepted) : y.id # id
  BY <1>1 DEF ExceptedIds
<1>8. \A y \in Names(q.excepted) :
          y.id \in DOMAIN base.rules /\ (y.action = "disable" <=> y.id \notin DOMAIN q.rules)
  BY <1>3, <1>5, <1>6, <1>7 DEF ListsHold
<1>9. DeclaredChanges(q) = DeclaredChanges(p) \cup {id}
  BY <1>1 DEF DeclaredChanges
<1>10. \A k \in DOMAIN base.rules \ DeclaredChanges(q) :
          k \in DOMAIN q.rules /\ q.rules[k] = base.rules[k]
  BY <1>3, <1>9 DEF ListsHold
<1>11. \A k \in Names(q.added) : k \notin DOMAIN base.rules /\ k \in DOMAIN q.rules
  BY <1>3, <1>5 DEF ListsHold
<1>12. \A k \in Names(q.tightened) :
          k \in DOMAIN base.rules \cap DOMAIN q.rules /\ Tighter(base.rules[k], q.rules[k])
  BY <1>3, <1>4 DEF ListsHold, DeclaredChanges
<1>13. DOMAIN q.rules \ DOMAIN base.rules \subseteq Names(q.added)
  BY <1>3 DEF ListsHold
<1> QED BY <1>8, <1>10, <1>11, <1>12, <1>13 DEF ListsHold

LEMMA AddedIsListed ==
    ASSUME NEW p, NEW q, NEW base, PolicyOK(p), Distinct(p) => ListsHold(p, base), Distinct(q),
           NEW id \in RuleId, id \notin DOMAIN p.rules, NEW rule,
           q.rules = Put(p.rules, id, rule), q.added = Append(p.added, id),
           q.tightened = p.tightened, q.excepted = p.excepted
    PROVE  ListsHold(q, base)
<1>1. /\ Names(q.added) = Names(p.added) \cup {id}
      /\ Injective(p.added) /\ id \notin Names(p.added)
  BY ListGrows DEF PolicyOK, Distinct
<1>2. ExceptedIds(q) = ExceptedIds(p) /\ Excepted(q) = Excepted(p)
  BY DEF ExceptedIds, Excepted
<1>3. Distinct(p)
  BY <1>1, <1>2 DEF Distinct
<1>4. ListsHold(p, base)
  BY <1>3
<1>5. id \notin DeclaredChanges(p)
  BY <1>1, <1>2 DEF Distinct, DeclaredChanges
<1>6. id \notin DOMAIN base.rules
  BY <1>4, <1>5, UnlistedIsOfBase
<1>7. /\ DOMAIN q.rules = DOMAIN p.rules \cup {id}
      /\ \A k \in DOMAIN p.rules : q.rules[k] = p.rules[k]
  BY DEF Put
<1>8. DeclaredChanges(q) = DeclaredChanges(p) \cup {id}
  BY <1>1, <1>2 DEF DeclaredChanges
<1>9. \A y \in Names(q.excepted) :
          y.id \in DOMAIN base.rules /\ (y.action = "disable" <=> y.id \notin DOMAIN q.rules)
  BY <1>4, <1>6, <1>7 DEF ListsHold
<1>10. \A k \in DOMAIN base.rules \ DeclaredChanges(q) :
          k \in DOMAIN q.rules /\ q.rules[k] = base.rules[k]
  BY <1>4, <1>7, <1>8 DEF ListsHold
<1>11. \A k \in Names(q.added) : k \notin DOMAIN base.rules /\ k \in DOMAIN q.rules
  BY <1>1, <1>4, <1>6, <1>7 DEF ListsHold
<1>12. \A k \in Names(q.tightened) :
          k \in DOMAIN base.rules \cap DOMAIN q.rules /\ Tighter(base.rules[k], q.rules[k])
  BY <1>4, <1>7 DEF ListsHold
<1>13. DOMAIN q.rules \ DOMAIN base.rules \subseteq Names(q.added)
  BY <1>1, <1>4, <1>7 DEF ListsHold
<1> QED BY <1>9, <1>10, <1>11, <1>12, <1>13 DEF ListsHold

-----------------------------------------------------------------------------
(***************************************************************************)
(* The invariant of the derivations.                                       *)
(***************************************************************************)
FollowsOrTwice(p, base) ==
    /\ MappingsHold(p.rules, p.mappings)
    /\ Distinct(p) => ListsHold(p, base)

DraftInv ==
    /\ DOMAIN draft = {"of", "at", "policy"}
    /\ draft.of \in Derived \ DOMAIN policies /\ draft.at \in 1 .. 4
    /\ PolicyOK(draft.policy) /\ draft.policy.base \in DOMAIN policies
    /\ draft.at < 4 => draft.policy.mappings = NoMappings
    /\ FollowsOrTwice(draft.policy, policies[draft.policy.base])

PublishedInv == \A n \in DOMAIN policies :
    /\ PolicyOK(policies[n]) /\ DOMAIN policies[n].rules # {}
    /\ n # Published =>
        /\ n \in Derived /\ policies[n].base \in DOMAIN policies
        /\ FollowsOrTwice(policies[n], policies[policies[n].base])

ProfilesInv ==
    /\ Published \in DOMAIN policies
    /\ PublishedInv
    /\ draft # NoDraft => DraftInv

LEMMA ProfilesStart == ProfilesInit => ProfilesInv
<1> SUFFICES ASSUME ProfilesInit PROVE ProfilesInv
  OBVIOUS
<1>1. draft = NoDraft /\ DOMAIN policies = {Published}
  BY DEF ProfilesInit
<1>2. PICK u \in {"block", "warn", "not_applicable"} :
        policies = [n \in {Published} |->
            [rules |-> [id \in {"field", "lot"} |->
                Rule(IF id = "lot" THEN "metadata" ELSE "field",
                     IF id = "lot" THEN "lotId" ELSE "size",
                     [severity |-> "blocking", unavailable |-> u], Readable)],
             base |-> "none", added |-> << >>, tightened |-> << >>, excepted |-> << >>,
             mappings |-> NoMappings, trusted |-> FALSE]]
  BY DEF ProfilesInit
<1>3. /\ DOMAIN policies[Published].rules = {"field", "lot"}
      /\ policies[Published].rules = [id \in {"field", "lot"} |-> policies[Published].rules[id]]
      /\ \A id \in {"field", "lot"} : policies[Published].rules[id] \in RuleRecord
  BY <1>2 DEF Rule, RuleRecord, Field
<1>4. RulesOK(policies[Published].rules)
  BY <1>3 DEF RulesOK, RuleId
<1>5. PolicyOK(policies[Published])
  <2>1. PICK rules : policies[Published] =
            [rules |-> rules, base |-> "none", added |-> << >>, tightened |-> << >>,
             excepted |-> << >>, mappings |-> NoMappings, trusted |-> FALSE]
    BY <1>2
  <2>2. /\ policies[Published].added = << >> /\ policies[Published].tightened = << >>
        /\ policies[Published].excepted = << >>
        /\ DOMAIN policies[Published] = {"rules", "base", "added", "tightened", "excepted",
                                         "mappings", "trusted"}
    BY <2>1
  <2> QED BY <1>4, <2>2 DEF PolicyOK
<1> QED BY <1>1, <1>3, <1>5 DEF ProfilesInv, PublishedInv

LEMMA PutKeepsRules ==
    ASSUME NEW rules, RulesOK(rules), NEW id \in RuleId, NEW rule \in RuleRecord
    PROVE  RulesOK(Put(rules, id, rule))
BY DEF RulesOK, Put

LEMMA DropKeepsRules ==
    ASSUME NEW rules, RulesOK(rules), NEW id
    PROVE  RulesOK(Drop(rules, id))
BY DEF RulesOK, Drop

LEMMA RulesForAreRules ==
    ASSUME NEW id \in RuleId, NEW rule \in RulesFor(id)
    PROVE  rule \in RuleRecord
<1>1. PICK key \in (IF id = "lot" THEN {"lotId", "orgLot"} ELSE {"size"}), grade \in Grade,
           limit \in {{"low"}, Readable} :
        rule = Rule(IF id = "lot" THEN "metadata" ELSE "field", key, grade, limit)
  BY DEF RulesFor
<1>2. grade.severity \in {"blocking", "warning"}
      /\ grade.unavailable \in {"block", "warn", "not_applicable"}
  BY DEF Grade
<1>3. key \in Field /\ limit \in SUBSET Readable
  BY DEF Field, Readable
<1> QED BY <1>1, <1>2, <1>3 DEF Rule, RuleRecord

\* A draft that takes one input more.
LEMMA DraftGoesOn ==
    ASSUME ProfilesInv, draft # NoDraft, UNCHANGED policies,
           DOMAIN draft' = DOMAIN draft, draft'.of = draft.of, draft'.at \in 1 .. 4,
           PolicyOK(draft'.policy), draft'.policy.base = draft.policy.base,
           draft'.at < 4 => draft'.policy.mappings = NoMappings,
           FollowsOrTwice(draft'.policy, policies[draft.policy.base])
    PROVE  ProfilesInv'
<1>1. DraftInv'
  BY DEF ProfilesInv, DraftInv
<1>2. PublishedInv'
  BY DEF ProfilesInv, PublishedInv
<1> QED BY <1>1, <1>2 DEF ProfilesInv

LEMMA DraftEnds ==
    ASSUME ProfilesInv, UNCHANGED policies, draft' = NoDraft
    PROVE  ProfilesInv'
<1>1. PublishedInv'
  BY DEF ProfilesInv, PublishedInv
<1> QED BY <1>1 DEF ProfilesInv

LEMMA StartStep ==
    ASSUME ProfilesInv, NEW n \in Derived, NEW b, StartDerivation(n, b)
    PROVE  ProfilesInv'
<1> DEFINE base == policies[b]
<1>1. b \in DOMAIN policies /\ UNCHANGED policies /\ n \notin DOMAIN policies
  BY DEF StartDerivation
<1>2. PICK q :
        /\ q = [rules |-> base.rules, base |-> b, added |-> << >>, tightened |-> << >>,
                excepted |-> << >>, mappings |-> NoMappings, trusted |-> FALSE]
        /\ draft' = [of |-> n, at |-> 1, policy |-> q]
  BY DEF StartDerivation
<1>3. PolicyOK(base)
  BY <1>1 DEF ProfilesInv, PublishedInv
<1> HIDE DEF base
<1>4. PolicyOK(q)
  BY <1>2, <1>3 DEF PolicyOK
<1>5. /\ q.rules = base.rules /\ q.mappings = NoMappings /\ q.base = b
      /\ Names(q.added) = {} /\ Names(q.tightened) = {} /\ Names(q.excepted) = {}
  BY <1>2 DEF Names
<1>6. FollowsOrTwice(q, base)
  BY <1>5 DEF FollowsOrTwice, ListsHold, MappingsHold, NoMappings, DeclaredChanges, ExceptedIds
<1>7. /\ DOMAIN draft' = {"of", "at", "policy"} /\ draft'.of = n
      /\ draft'.at = 1 /\ draft'.policy = q
  BY <1>2
<1>8. DraftInv'
  BY <1>1, <1>4, <1>5, <1>6, <1>7 DEF DraftInv, base
<1>9. PublishedInv'
  BY <1>1 DEF ProfilesInv, PublishedInv
<1> QED BY <1>1, <1>8, <1>9 DEF ProfilesInv

LEMMA TightenStep ==
    ASSUME ProfilesInv, NEW id \in RuleId, NEW rule \in RulesFor(id), TightenRule(id, rule)
    PROVE  ProfilesInv'
<1> DEFINE p == draft.policy
           base == policies[p.base]
<1>1. draft # NoDraft /\ draft.at <= 1 /\ UNCHANGED policies
  BY DEF TightenRule, Taking
<1>2. /\ DraftInv /\ draft.at = 1
  BY <1>1 DEF ProfilesInv, DraftInv
<1>3. CASE ~(id \in DOMAIN p.rules /\ Tighter(p.rules[id], rule))
  BY <1>1, <1>3, DraftEnds DEF TightenRule, Throw
<1>4. CASE id \in DOMAIN p.rules /\ Tighter(p.rules[id], rule)
  <2>1. PICK q :
          /\ q = [p EXCEPT !.rules = Put(p.rules, id, rule), !.tightened = Append(p.tightened, id)]
          /\ draft' = [draft EXCEPT !.at = 1, !.policy = q]
    BY <1>4 DEF TightenRule, Taken
  <2>2. /\ DOMAIN p = {"rules", "base", "added", "tightened", "excepted", "mappings", "trusted"}
        /\ PolicyOK(p) /\ p.mappings = NoMappings /\ FollowsOrTwice(p, base)
    BY <1>2 DEF DraftInv, PolicyOK
  <2> HIDE DEF p, base
  <2>3. /\ DOMAIN q = {"rules", "base", "added", "tightened", "excepted", "mappings", "trusted"}
        /\ q.rules = Put(p.rules, id, rule) /\ q.tightened = Append(p.tightened, id)
        /\ q.added = p.added /\ q.excepted = p.excepted /\ q.base = p.base
        /\ q.mappings = p.mappings
    BY <2>1, <2>2
  <2>4. RulesOK(q.rules) /\ q.tightened \in Seq(RuleId)
    BY <2>2, <2>3, PutKeepsRules, RulesForAreRules, ListGrows DEF PolicyOK
  <2>5. PolicyOK(q)
    BY <2>2, <2>3, <2>4 DEF PolicyOK
  <2>6. Distinct(q) => ListsHold(q, base)
    BY <1>4, <2>2, <2>3, TightenedIsListed DEF FollowsOrTwice
  <2>7. FollowsOrTwice(q, base)
    BY <2>2, <2>3, <2>6 DEF FollowsOrTwice, MappingsHold, NoMappings
  <2>8. /\ DOMAIN draft' = DOMAIN draft /\ draft'.of = draft.of
        /\ draft'.at = 1 /\ draft'.policy = q
    BY <1>2, <2>1, <2>2 DEF DraftInv
  <2>9. /\ q.base = draft.policy.base
        /\ FollowsOrTwice(q, policies[draft.policy.base]) /\ q.mappings = NoMappings
    BY <2>1, <2>2, <2>3, <2>7 DEF p, base
  <2> QED BY <1>1, <2>5, <2>8, <2>9, DraftGoesOn
<1> QED BY <1>3, <1>4

LEMMA ExceptStep ==
    ASSUME ProfilesInv, NEW id \in RuleId,
           DisableRule(id) \/ \E rule \in RulesFor(id) : ReplaceRule(id, rule)
    PROVE  ProfilesInv'
<1> DEFINE p == draft.policy
           base == policies[p.base]
<1>1. draft # NoDraft /\ draft.at <= 2 /\ UNCHANGED policies
  BY DEF DisableRule, ReplaceRule, Taking
<1>2. DraftInv /\ draft.at \in 1 .. 2
  BY <1>1 DEF ProfilesInv, DraftInv
<1>3. CASE id \notin DOMAIN p.rules
  BY <1>1, <1>3, DraftEnds DEF DisableRule, ReplaceRule, Throw
<1>4. CASE id \in DOMAIN p.rules
  <2>1. PICK q, rules, x :
          /\ q = [p EXCEPT !.rules = rules, !.excepted = Append(p.excepted, x)]
          /\ draft' = [draft EXCEPT !.at = 2, !.policy = q]
          /\ \/ rules = Drop(p.rules, id) /\ x = [id |-> id, action |-> "disable"]
             \/ \E rule \in RulesFor(id) :
                    rules = Put(p.rules, id, rule) /\ x = [id |-> id, action |-> "replace"]
    BY <1>4 DEF DisableRule, ReplaceRule, Taken
  <2>2. /\ DOMAIN p = {"rules", "base", "added", "tightened", "excepted", "mappings", "trusted"}
        /\ PolicyOK(p) /\ p.mappings = NoMappings /\ FollowsOrTwice(p, base)
    BY <1>2 DEF DraftInv, PolicyOK
  <2> HIDE DEF p, base
  <2>3. /\ DOMAIN q = {"rules", "base", "added", "tightened", "excepted", "mappings", "trusted"}
        /\ q.rules = rules /\ q.excepted = Append(p.excepted, x)
        /\ q.added = p.added /\ q.tightened = p.tightened /\ q.base = p.base
        /\ q.mappings = p.mappings
    BY <2>1, <2>2
  <2>4. x \in Exception /\ x.id = id
    BY <2>1 DEF Exception
  <2>5. RulesOK(q.rules)
    BY <2>1, <2>2, <2>3, PutKeepsRules, DropKeepsRules, RulesForAreRules DEF PolicyOK
  <2>6. q.excepted \in Seq(Exception)
    BY <2>2, <2>3, <2>4, ListGrows DEF PolicyOK
  <2>7. PolicyOK(q)
    BY <2>2, <2>3, <2>5, <2>6 DEF PolicyOK
  <2>8. /\ DOMAIN q.rules = IF x.action = "disable" THEN DOMAIN p.rules \ {id} ELSE DOMAIN p.rules
        /\ \A k \in DOMAIN p.rules \ {id} : q.rules[k] = p.rules[k]
    <3>1. CASE rules = Drop(p.rules, id) /\ x = [id |-> id, action |-> "disable"]
      BY <3>1, <2>3 DEF Drop
    <3>2. CASE \E rule \in RulesFor(id) :
                  rules = Put(p.rules, id, rule) /\ x = [id |-> id, action |-> "replace"]
      BY <3>2, <1>4, <2>3 DEF Put, p
    <3> QED BY <2>1, <3>1, <3>2
  <2>9. Distinct(q) => ListsHold(q, base)
    <3>1. id \in DOMAIN p.rules
      BY <1>4 DEF p
    <3> QED BY <2>2, <2>3, <2>4, <2>8, <3>1, ExceptedIsListed DEF FollowsOrTwice
  <2>10. FollowsOrTwice(q, base)
    BY <2>2, <2>3, <2>9 DEF FollowsOrTwice, MappingsHold, NoMappings
  <2>11. /\ DOMAIN draft' = DOMAIN draft /\ draft'.of = draft.of
        /\ draft'.at = 2 /\ draft'.policy = q
    BY <1>2, <2>1, <2>2 DEF DraftInv
  <2>12. /\ q.base = draft.policy.base
        /\ FollowsOrTwice(q, policies[draft.policy.base]) /\ q.mappings = NoMappings
    BY <2>1, <2>2, <2>3, <2>10 DEF p, base
  <2> QED BY <1>1, <2>7, <2>11, <2>12, DraftGoesOn
<1> QED BY <1>3, <1>4

LEMMA AddStep ==
    ASSUME ProfilesInv, NEW id \in RuleId, NEW rule \in Addable(id), AddRule(id, rule)
    PROVE  ProfilesInv'
<1> DEFINE p == draft.policy
           base == policies[p.base]
<1>1. draft # NoDraft /\ draft.at <= 3 /\ UNCHANGED policies
  BY DEF AddRule, Taking
<1>2. DraftInv /\ draft.at \in 1 .. 3
  BY <1>1 DEF ProfilesInv, DraftInv
<1>3. CASE id \in DOMAIN p.rules
  BY <1>1, <1>3, DraftEnds DEF AddRule, Throw
<1>4. CASE id \notin DOMAIN p.rules
  <2>1. PICK q :
          /\ q = [p EXCEPT !.rules = Put(p.rules, id, rule), !.added = Append(p.added, id)]
          /\ draft' = [draft EXCEPT !.at = 3, !.policy = q]
    BY <1>4 DEF AddRule, Taken
  <2>2. /\ DOMAIN p = {"rules", "base", "added", "tightened", "excepted", "mappings", "trusted"}
        /\ PolicyOK(p) /\ p.mappings = NoMappings /\ FollowsOrTwice(p, base)
    BY <1>2 DEF DraftInv, PolicyOK
  <2>3. id \notin DOMAIN p.rules /\ rule \in RuleRecord
    BY <1>4, RulesForAreRules DEF Addable
  <2> HIDE DEF p, base
  <2>4. /\ DOMAIN q = {"rules", "base", "added", "tightened", "excepted", "mappings", "trusted"}
        /\ q.rules = Put(p.rules, id, rule) /\ q.added = Append(p.added, id)
        /\ q.tightened = p.tightened /\ q.excepted = p.excepted /\ q.base = p.base
        /\ q.mappings = p.mappings
    BY <2>1, <2>2
  <2>5. RulesOK(q.rules) /\ q.added \in Seq(RuleId)
    BY <2>2, <2>3, <2>4, PutKeepsRules, ListGrows DEF PolicyOK
  <2>6. PolicyOK(q)
    BY <2>2, <2>4, <2>5 DEF PolicyOK
  <2>7. Distinct(q) => ListsHold(q, base)
    BY <2>2, <2>3, <2>4, AddedIsListed DEF FollowsOrTwice
  <2>8. FollowsOrTwice(q, base)
    BY <2>2, <2>4, <2>7 DEF FollowsOrTwice, MappingsHold, NoMappings
  <2>9. /\ DOMAIN draft' = DOMAIN draft /\ draft'.of = draft.of
        /\ draft'.at = 3 /\ draft'.policy = q
    BY <1>2, <2>1, <2>2 DEF DraftInv
  <2>10. /\ q.base = draft.policy.base
        /\ FollowsOrTwice(q, policies[draft.policy.base]) /\ q.mappings = NoMappings
    BY <2>1, <2>2, <2>4, <2>8 DEF p, base
  <2> QED BY <1>1, <2>6, <2>9, <2>10, DraftGoesOn
<1> QED BY <1>3, <1>4

LEMMA MapStep ==
    ASSUME ProfilesInv, NEW k, NEW mapped, MapKey(k, mapped)
    PROVE  ProfilesInv'
<1> DEFINE p == draft.policy
           base == policies[p.base]
           mappings == Put(p.mappings, k, mapped)
<1>1. draft # NoDraft /\ UNCHANGED policies
  BY DEF MapKey, Taking
<1>2. DraftInv
  BY <1>1 DEF ProfilesInv
<1>3. CASE draft' = NoDraft
  BY <1>1, <1>3, DraftEnds
<1>4. CASE draft' # NoDraft
  <2>1. /\ draft' = [draft EXCEPT !.at = 4, !.policy = [p EXCEPT !.mappings = mappings]]
        /\ MappingsHold(p.rules, mappings)
    BY <1>4 DEF MapKey, Taken, Throw
  <2>2. PICK q : q = [p EXCEPT !.mappings = mappings]
    OBVIOUS
  <2>3. /\ DOMAIN p = {"rules", "base", "added", "tightened", "excepted", "mappings", "trusted"}
        /\ PolicyOK(p) /\ FollowsOrTwice(p, base)
    BY <1>2 DEF DraftInv, PolicyOK
  <2> HIDE DEF p, base, mappings
  <2>4. /\ DOMAIN q = {"rules", "base", "added", "tightened", "excepted", "mappings", "trusted"}
        /\ q.rules = p.rules /\ q.added = p.added /\ q.base = p.base
        /\ q.tightened = p.tightened /\ q.excepted = p.excepted
        /\ q.mappings = mappings
    BY <2>2, <2>3
  <2>5. PolicyOK(q)
    BY <2>3, <2>4 DEF PolicyOK
  <2>6. /\ Distinct(q) <=> Distinct(p)
        /\ ListsHold(q, base) <=> ListsHold(p, base)
    BY <2>4 DEF Distinct, ListsHold, Excepted, ExceptedIds, DeclaredChanges
  <2>7. FollowsOrTwice(q, base)
    BY <2>1, <2>3, <2>4, <2>6 DEF FollowsOrTwice
  <2>8. /\ DOMAIN draft' = DOMAIN draft /\ draft'.of = draft.of
        /\ draft'.at = 4 /\ draft'.policy = q
    BY <1>2, <2>1, <2>2 DEF DraftInv
  <2>9. /\ q.base = draft.policy.base
        /\ FollowsOrTwice(q, policies[draft.policy.base])
    BY <2>1, <2>2, <2>4, <2>7 DEF p, base
  <2> QED BY <1>1, <2>5, <2>8, <2>9, DraftGoesOn
<1> QED BY <1>3, <1>4

\* Nothing that is followed depends on whom this process trusts.
SamePolicy(p, q) ==
    /\ DOMAIN q = DOMAIN p /\ q.rules = p.rules /\ q.base = p.base /\ q.added = p.added
    /\ q.tightened = p.tightened /\ q.excepted = p.excepted /\ q.mappings = p.mappings

LEMMA SameFollows ==
    ASSUME NEW p, NEW q, SamePolicy(p, q)
    PROVE  /\ PolicyOK(p) => PolicyOK(q)
           /\ \A base : FollowsOrTwice(p, base) => FollowsOrTwice(q, base)
           /\ \A r : FollowsOrTwice(r, p) => FollowsOrTwice(r, q)
<1>1. PolicyOK(p) => PolicyOK(q)
  BY DEF SamePolicy, PolicyOK
<1>2. Distinct(q) <=> Distinct(p)
  BY DEF SamePolicy, Distinct, Excepted, ExceptedIds
<1>3. \A base : ListsHold(p, base) => ListsHold(q, base)
  BY DEF SamePolicy, ListsHold, ExceptedIds, DeclaredChanges
<1>4. \A r : ListsHold(r, p) => ListsHold(r, q)
  BY DEF SamePolicy, ListsHold
<1> QED BY <1>1, <1>2, <1>3, <1>4 DEF FollowsOrTwice, SamePolicy

LEMMA FinalizeStep ==
    ASSUME ProfilesInv, Finalize
    PROVE  ProfilesInv'
<1>1. draft # NoDraft /\ draft' = NoDraft /\ DraftInv
  BY DEF Finalize, ProfilesInv
<1>2. CASE UNCHANGED policies
  BY <1>1, <1>2, DraftEnds
<1>3. CASE draft.policy.rules # NoRules
  <2> DEFINE n == draft.of
             p == draft.policy
  <2>1. PICK q : q = [p EXCEPT !.trusted = TRUE] /\ policies' = Put(policies, n, q)
    BY <1>3 DEF Finalize
  <2>2. /\ n \in Derived \ DOMAIN policies /\ PolicyOK(p) /\ p.base \in DOMAIN policies
        /\ FollowsOrTwice(p, policies[p.base])
        /\ DOMAIN p = {"rules", "base", "added", "tightened", "excepted", "mappings", "trusted"}
        /\ p.rules # NoRules
    BY <1>1, <1>3 DEF DraftInv, PolicyOK
  <2> HIDE DEF n, p
  <2>3. SamePolicy(p, q)
    BY <2>1, <2>2 DEF SamePolicy
  <2>4. PolicyOK(q) /\ FollowsOrTwice(q, policies[p.base]) /\ q.base = p.base
    BY <2>2, <2>3, SameFollows DEF SamePolicy
  <2>5. DOMAIN q.rules # {}
    BY <2>2, <2>3 DEF SamePolicy, PolicyOK, RulesOK, NoRules
  <2>6. /\ DOMAIN policies' = DOMAIN policies \cup {n} /\ policies'[n] = q
        /\ \A m \in DOMAIN policies : policies'[m] = policies[m]
    BY <2>1, <2>2 DEF Put
  <2>7. n # Published
    BY <2>2 DEF Derived, Published
  <2>8. PublishedInv'
    <3> SUFFICES ASSUME NEW m \in DOMAIN policies'
                 PROVE  /\ PolicyOK(policies'[m]) /\ DOMAIN policies'[m].rules # {}
                        /\ m # Published =>
                            /\ m \in Derived /\ policies'[m].base \in DOMAIN policies'
                            /\ FollowsOrTwice(policies'[m], policies'[policies'[m].base])
      BY DEF PublishedInv
    <3>1. CASE m = n
      BY <3>1, <2>2, <2>4, <2>5, <2>6
    <3>2. CASE m # n
      <4>1. m \in DOMAIN policies /\ policies'[m] = policies[m]
        BY <3>2, <2>6
      <4> QED BY <4>1, <2>6 DEF ProfilesInv, PublishedInv
    <3> QED BY <3>1, <3>2
  <2> QED BY <1>1, <2>6, <2>8 DEF ProfilesInv
<1> QED BY <1>2, <1>3 DEF Finalize

LEMMA ReloadStep ==
    ASSUME ProfilesInv, NEW n, Reload(n)
    PROVE  ProfilesInv'
<1>1. /\ n \in DOMAIN policies /\ draft' = NoDraft
      /\ policies' = [policies EXCEPT ![n].trusted = FALSE]
  BY DEF Reload
<1>2. \A m \in DOMAIN policies :
        DOMAIN policies[m] = {"rules", "base", "added", "tightened", "excepted", "mappings",
                              "trusted"}
  BY DEF ProfilesInv, PublishedInv, PolicyOK
<1>3. DOMAIN policies' = DOMAIN policies
  BY <1>1
<1>4. \A m \in DOMAIN policies : m # n => policies'[m] = policies[m]
  BY <1>1
<1>5. PICK q : q = [policies[n] EXCEPT !.trusted = FALSE] /\ policies'[n] = q
  BY <1>1
<1>6. SamePolicy(policies[n], policies'[n])
  BY <1>1, <1>2, <1>5 DEF SamePolicy
<1>7. \A m \in DOMAIN policies : SamePolicy(policies[m], policies'[m])
  BY <1>4, <1>6 DEF SamePolicy
<1>8. PublishedInv'
  <2> SUFFICES ASSUME NEW m \in DOMAIN policies
               PROVE  /\ PolicyOK(policies'[m]) /\ DOMAIN policies'[m].rules # {}
                      /\ m # Published =>
                          /\ m \in Derived /\ policies'[m].base \in DOMAIN policies
                          /\ FollowsOrTwice(policies'[m], policies'[policies'[m].base])
    BY <1>3 DEF PublishedInv
  <2>1. PolicyOK(policies'[m]) /\ DOMAIN policies'[m].rules # {}
    BY <1>7, SameFollows DEF ProfilesInv, PublishedInv, SamePolicy
  <2>2. ASSUME m # Published
        PROVE  /\ m \in Derived /\ policies'[m].base \in DOMAIN policies
               /\ FollowsOrTwice(policies'[m], policies'[policies'[m].base])
    <3>1. /\ m \in Derived /\ policies[m].base \in DOMAIN policies
          /\ FollowsOrTwice(policies[m], policies[policies[m].base])
      BY <2>2 DEF ProfilesInv, PublishedInv
    <3>2. policies'[m].base = policies[m].base
      BY <1>7 DEF SamePolicy
    <3>3. SamePolicy(policies[policies[m].base], policies'[policies[m].base])
      BY <3>1, <1>7
    <3>4. FollowsOrTwice(policies'[m], policies[policies[m].base])
      BY <3>1, <1>7, SameFollows
    <3> QED BY <3>1, <3>2, <3>3, <3>4, SameFollows
  <2> QED BY <2>1, <2>2
<1> QED BY <1>1, <1>3, <1>8 DEF ProfilesInv

LEMMA ProfilesStep == ProfilesInv /\ [ProfilesNext]_profiles => ProfilesInv'
<1> SUFFICES ASSUME ProfilesInv, [ProfilesNext]_profiles PROVE ProfilesInv'
  OBVIOUS
<1>1. CASE StartDerivation("child", Published) \/ StartDerivation("grandchild", "child")
  BY <1>1, StartStep DEF Derived
<1>2. CASE UNCHANGED profiles
  BY <1>2 DEF profiles, ProfilesInv, PublishedInv, DraftInv
<1> QED
  BY <1>1, <1>2, TightenStep, ExceptStep, AddStep, MapStep, FinalizeStep, ReloadStep
     DEF ProfilesNext

\* The invariant of the derivations, for any number of changes.
THEOREM ProfilesAreKept == ProfilesSpec => []ProfilesInv
BY ProfilesStart, ProfilesStep, PTL DEF ProfilesSpec

-----------------------------------------------------------------------------
\* A profile that was edited by hand is one still.
LEMMA EditedIsPolicy ==
    ASSUME NEW p, PolicyOK(p), NEW q \in {p} \cup Edited(p)
    PROVE  RulesOK(q.rules) /\ q.excepted = p.excepted /\ q.mappings = p.mappings
<1>1. ASSUME NEW id \in DOMAIN p.rules, NEW rules,
             rules = Drop(p.rules, id) \/ \E rule \in RulesFor(id) : rules = Put(p.rules, id, rule)
      PROVE  RulesOK(rules)
  <2>1. id \in RuleId /\ RulesOK(p.rules)
    BY DEF PolicyOK, RulesOK
  <2> QED BY <1>1, <2>1, PutKeepsRules, DropKeepsRules, RulesForAreRules
<1>2. CASE q = p
  BY <1>2 DEF PolicyOK
<1>3. CASE q # p
  <2> DEFINE Changed(id) == {[p EXCEPT !.rules = Put(p.rules, id, rule)] : rule \in RulesFor(id)}
                            \cup {[p EXCEPT !.rules = Drop(p.rules, id)]}
  <2>1. PICK id \in DOMAIN p.rules :
          q \in Changed(id)
            \cup {[r EXCEPT !.tightened = Append(r.tightened, id)] : r \in Changed(id)}
                            \cup {[r EXCEPT !.added = Append(r.added, id)] : r \in Changed(id)}
    BY <1>3 DEF Edited
  <2>2. PICK r \in Changed(id) : \/ q = r
                                 \/ q = [r EXCEPT !.tightened = Append(r.tightened, id)]
                                 \/ q = [r EXCEPT !.added = Append(r.added, id)]
    BY <2>1
  <2>3. PICK rules : /\ r = [p EXCEPT !.rules = rules]
                     /\ \/ rules = Drop(p.rules, id)
                        \/ \E rule \in RulesFor(id) : rules = Put(p.rules, id, rule)
    BY <2>2
  <2>4. RulesOK(rules)
    BY <1>1, <2>3
  <2>5. DOMAIN p = {"rules", "base", "added", "tightened", "excepted", "mappings", "trusted"}
    BY DEF PolicyOK
  <2>6. /\ DOMAIN r = DOMAIN p /\ r.rules = rules /\ r.excepted = p.excepted
        /\ r.mappings = p.mappings
    BY <2>3, <2>5
  <2>7. q.rules = r.rules /\ q.excepted = r.excepted /\ q.mappings = r.mappings
    BY <2>2, <2>5, <2>6
  <2> QED BY <2>4, <2>6, <2>7
<1> QED BY <1>2, <1>3

\* Validation with the base accepts what a derivation made and refuses what
\* weakens the base without saying so, for any number of changes
\* (profiles.ts:379-458, 972-1086).
THEOREM DerivationsAreSound == ProfilesSpec => []DerivationsHold
<1>1. ASSUME ProfilesInv, draft = NoDraft, NEW n \in DOMAIN policies \ {Published},
             Plain(policies[n]), policies[policies[n].base].mappings = NoMappings,
             NEW p \in {policies[n]} \cup Edited(policies[n]), p.rules # NoRules,
             ValidWith(p, policies[policies[n].base])
      PROVE  AsStrict(p, policies[policies[n].base])
  <2>1. PolicyOK(policies[n]) /\ policies[n].base \in DOMAIN policies
    BY <1>1 DEF ProfilesInv, PublishedInv
  <2>2. PICK base : base = policies[policies[n].base]
    OBVIOUS
  <2>3. RulesOK(base.rules) /\ DOMAIN base.rules # {} /\ base.mappings = NoMappings
    BY <1>1, <2>1, <2>2 DEF ProfilesInv, PublishedInv, PolicyOK
  <2>4. RulesOK(p.rules) /\ Plain(p)
    BY <1>1, <2>1, EditedIsPolicy DEF Plain
  <2>5. DOMAIN p.rules # {}
    BY <1>1, <2>4 DEF RulesOK, NoRules
  <2>6. Follows(p, base)
    BY <1>1, <2>2 DEF ValidWith
  <2> QED BY <2>2, <2>3, <2>4, <2>5, <2>6, FollowingIsAsStrict
<1>2. ASSUME ProfilesInv, NEW n \in DOMAIN policies \ {Published}, ChangedOnce(policies[n])
      PROVE  ValidWith(policies[n], policies[policies[n].base])
  <2>1. PICK p, base : p = policies[n] /\ base = policies[policies[n].base]
    OBVIOUS
  <2>2. PolicyOK(p) /\ FollowsOrTwice(p, base)
    BY <1>2, <2>1 DEF ProfilesInv, PublishedInv
  <2>3. Distinct(p)
    BY <1>2, <2>1, <2>2, ChangedOnceIsDistinct
  <2>4. MappingsHold(p.rules, p.mappings) /\ ListsHold(p, base)
    BY <2>2, <2>3 DEF FollowsOrTwice
  <2>5. Once(p.added) /\ Once(p.tightened)
    BY <2>2, <2>3, OnceIsInjective DEF PolicyOK, Distinct
  <2>6. Cardinality(ExceptedIds(p)) = Len(p.excepted)
    <3>1. Excepted(p) \in Seq(RuleId) /\ Names(Excepted(p)) = ExceptedIds(p)
      BY <2>2, ExceptionsAreNamed DEF PolicyOK
    <3>2. Once(Excepted(p))
      BY <2>3, <3>1, OnceIsInjective DEF Distinct
    <3>3. Len(Excepted(p)) = Len(p.excepted)
      <4>1. p.excepted \in Seq(Exception)
        BY <2>2 DEF PolicyOK
      <4>2. DOMAIN p.excepted = 1 .. Len(p.excepted) /\ Len(p.excepted) \in Nat
        BY <4>1
      <4>3. DOMAIN Excepted(p) = 1 .. Len(p.excepted)
        BY <4>2 DEF Excepted
      <4> QED BY <3>1, <4>2, <4>3
    <3> QED BY <3>1, <3>2, <3>3 DEF Once
  <2>7. Follows(p, base)
    BY <2>4, <2>5, <2>6 DEF Follows, ListsHold
  <2> QED BY <2>1, <2>7 DEF ValidWith
<1>3. ProfilesInv => DerivationsHold
  BY <1>1, <1>2 DEF DerivationsHold, WeakeningIsDeclared, DerivedStands
<1> QED BY <1>3, ProfilesAreKept, PTL
=============================================================================
