-------------------------- MODULE PreservationExport -------------------------
(***************************************************************************)
(* The export of src/src/preservation.ts: the sources of one ingest are    *)
(* verified and planned, and exporters that do not know of each other      *)
(* write the plan as a BagIt bag or an OCFL object beside a destination,   *)
(* validate it and rename it into place.  The files of a source can change *)
(* after they were verified, the destination can appear, and an exporter   *)
(* can die at any step.                                                    *)
(*                                                                         *)
(* Abstractions: bytes are their own digest and size; a path is named by   *)
(* the entry it holds, and the paths a plan makes are all safe; the        *)
(* manifest's own checks and its canonical form are one input.             *)
(***************************************************************************)
EXTENDS Naturals, FiniteSets, Functions

CONSTANTS
    Exporter,   \* calls of evaluatePreservationMapping and then of an export
    Derivative, \* the derivatives the application selects, in no order
    MaxChanges  \* a bound: sources that change while they are used

ASSUME PreservationAssumption ==
    /\ Derivative \cap {"original", "manifest", "provenance", "relationships", "stray"} = {}
    /\ MaxChanges \in {0, 1}

Content == {"original"} \cup Derivative
Generated == {"manifest", "provenance", "relationships"}
\* The bytes of a source: two images, and what a source is changed into.
Bytes == {"image", "thumb", "changed"}

Profile == {"bagit", "ocfl"}

\* A directory at the destination: nothing, one that somebody else made, or a
\* package.  files has a BagIt file by its path and an OCFL file by its digest;
\* listing is the payload manifest or the inventory, tags the tag manifest, and
\* cover is what the tag manifest, or the copies and sidecars, say of listing.
NoPackage == [kind |-> "none"]
Foreign == [kind |-> "foreign"]
Empty == [kind |-> "empty"]

VARIABLES
    given,       \* the manifest, provenance, profile and policy of the call
    source,      \* the bytes of each content file now
    step,        \* where each exporter is
    entries,     \* the content its plan has so far, with the digests it found
    blocked,     \* its mapping has a blocker
    written,     \* the files in its staging directory
    destination,
    changes

export == <<given, source, step, entries, blocked, written, destination, changes>>

-----------------------------------------------------------------------------
(***************************************************************************)
(* What a package is and when it is valid.                                 *)
(***************************************************************************)

\* f with what only g has.
Joined(f, g) == [x \in DOMAIN f \cup DOMAIN g |-> IF x \in DOMAIN f THEN f[x] ELSE g[x]]

\* The digest a generated file has: its bytes follow from the plan.
Written == Generated \ (IF given.provenance = "valid" THEN {} ELSE {"provenance"})
Plan(content) == Joined(content, [p \in Written |-> p])

FileName(profile, plan, p) == IF profile = "bagit" THEN p ELSE plan[p]
Listed(profile, plan) == IF profile = "bagit" THEN DOMAIN plan \cap Content ELSE DOMAIN plan

Listing(profile, plan) == Restrict(plan, Listed(profile, plan))

Package(profile, plan, files) ==
    [kind |-> "package", profile |-> profile, declaration |-> "standard",
     files |-> files, listing |-> Listing(profile, plan),
     tags |-> Restrict(plan, DOMAIN plan \ Listed(profile, plan)),
     cover |-> Listing(profile, plan),
     relation |-> Restrict(plan, DOMAIN plan \cap Content),
     metadata |-> DOMAIN plan \cap {"manifest", "provenance"}]

\* validateRelationshipFile: the sidecar is intact, it names the original, every
\* derivative that is there and no other, by the digests of the listing, and
\* the metadata it names is there.
RelationHolds(pkg, known) ==
    /\ "relationships" \in DOMAIN known /\ known["relationships"] = "relationships"
    /\ pkg.metadata \subseteq DOMAIN known
    /\ \A p \in DOMAIN pkg.relation : p \in DOMAIN known /\ known[p] = pkg.relation[p]
    /\ DOMAIN pkg.relation \ {"original"} = DOMAIN known \cap Derivative

\* As BagItValid, without the tag manifest.
BagItValidUntagged(pkg) ==
    /\ pkg.declaration = "standard"
    /\ DOMAIN pkg.files \cap Content = DOMAIN pkg.listing
    /\ \A p \in DOMAIN pkg.listing : pkg.files[p] = pkg.listing[p]
    /\ RelationHolds(pkg, Joined(pkg.listing, pkg.tags))

BagItValid(pkg) ==
    /\ pkg.declaration = "standard"
    /\ DOMAIN pkg.files \cap Content = DOMAIN pkg.listing
    /\ DOMAIN pkg.files \ Content = DOMAIN pkg.tags
    /\ \A p \in DOMAIN pkg.listing : pkg.files[p] = pkg.listing[p]
    /\ \A p \in DOMAIN pkg.tags : pkg.files[p] = pkg.tags[p]
    /\ pkg.cover = pkg.listing
    /\ RelationHolds(pkg, Joined(pkg.listing, pkg.tags))

OcflValid(pkg) ==
    /\ pkg.declaration = "standard"
    /\ pkg.cover = pkg.listing
    /\ DOMAIN pkg.files = Range(pkg.listing)
    /\ \A digest \in DOMAIN pkg.files : pkg.files[digest] = digest
    /\ RelationHolds(pkg, pkg.listing)

Valid(pkg) == IF pkg.profile = "bagit" THEN BagItValid(pkg) ELSE OcflValid(pkg)

-----------------------------------------------------------------------------
(***************************************************************************)
(* evaluatePreservationMapping.                                            *)
(***************************************************************************)

\* The digest of a content file in the manifest, or "none".
Recorded(p) == given.recorded[p]

\* The blockers that need no reading: the manifest, a derivative that was not
\* created, or provenance that does not validate.
Blocks ==
    \/ ~given.manifestOk
    \/ "planned" \in Range(given.status)
    \/ given.provenance = "invalid"

\* As Verifies, taking the bytes for what they should be.
VerifiesUnlessMissing(p) == Recorded(p) # "none" \/ given.policy = "calculate-and-verify"
Verifies(p) ==
    /\ Recorded(p) # "none" \/ given.policy = "calculate-and-verify"
    /\ Recorded(p) \in {"none", source[p]}

\* verifyBlobEntry: the file is read to its end and its digest compared; a file
\* that fails is left out of the plan and blocks the export.
VerifyBlobEntry(e, p) ==
    /\ step[e] = "mapping" /\ p \in Content \ (DOMAIN entries[e] \cup blocked[e])
    /\ given.status[p] = "created"
    /\ IF Verifies(p)
       THEN entries' = [entries EXCEPT ![e] = Joined(@, [q \in {p} |-> source[p]])] /\ UNCHANGED blocked
       ELSE blocked' = [blocked EXCEPT ![e] = @ \cup {p}] /\ UNCHANGED entries
    /\ UNCHANGED <<given, source, step, written, destination, changes>>

\* Every selected file has been looked at; without an original there is no plan
\* to execute, and with a blocker the export is refused.
Relate(e) ==
    /\ step[e] = "mapping"
    /\ \A p \in Content : given.status[p] = "created" => p \in DOMAIN entries[e] \cup blocked[e]
    /\ step' = [step EXCEPT ![e] = IF Blocks \/ blocked[e] # {} THEN "failed" ELSE "mapped"]
    /\ UNCHANGED <<given, source, entries, blocked, written, destination, changes>>

-----------------------------------------------------------------------------
(***************************************************************************)
(* exportBagIt and exportOcflObject.                                       *)
(***************************************************************************)

Fail(e) == step' = [step EXCEPT ![e] = "failed"]

\* materialize: nothing may be at the destination; the staging directory has a
\* name of its own beside it.
OpenStaging(e) ==
    /\ step[e] = "mapped"
    /\ IF destination.kind = "none" THEN step' = [step EXCEPT ![e] = "writing"] ELSE Fail(e)
    /\ UNCHANGED <<given, source, entries, blocked, written, destination, changes>>

PlanOf(e) == Plan(entries[e])
Name(e, p) == FileName(given.profile, PlanOf(e), p)

Intact(e, p) == source[p] = entries[e][p]

\* writeSourceEntry of a content file: its bytes are read again on their way to
\* the staging directory; where they are not what was planned the export fails,
\* and what was written stays there.  OCFL has one file for a digest.
WriteSourceEntry(e, p) ==
    /\ step[e] = "writing" /\ p \in DOMAIN entries[e] /\ Name(e, p) \notin DOMAIN written[e]
    /\ written' = [written EXCEPT ![e] = Joined(@, [n \in {Name(e, p)} |-> source[p]])]
    /\ IF Intact(e, p) THEN UNCHANGED step ELSE Fail(e)
    /\ UNCHANGED <<given, source, entries, blocked, destination, changes>>

\* The generated files, the listing and what covers it follow the content.
WriteListing(e) ==
    /\ step[e] = "writing"
    /\ \A p \in DOMAIN entries[e] : Name(e, p) \in DOMAIN written[e]
    /\ written' = [written EXCEPT ![e] = Joined(@, [p \in DOMAIN PlanOf(e) \ Content |-> p])]
    /\ step' = [step EXCEPT ![e] = "validating"]
    /\ UNCHANGED <<given, source, entries, blocked, destination, changes>>

Staged(e) == Package(given.profile, PlanOf(e), written[e])

\* The staging directory is validated before it is promoted.
Validate(e) ==
    /\ step[e] = "validating"
    /\ IF Valid(Staged(e)) THEN step' = [step EXCEPT ![e] = "validated"] ELSE Fail(e)
    /\ UNCHANGED <<given, source, entries, blocked, written, destination, changes>>

CheckDestination(e) ==
    /\ step[e] = "validated"
    /\ IF destination.kind = "none" THEN step' = [step EXCEPT ![e] = "renaming"] ELSE Fail(e)
    /\ UNCHANGED <<given, source, entries, blocked, written, destination, changes>>

\* External: rename puts a directory in the place of nothing or, on POSIX, of an
\* empty directory.
GivesWay(there) == there.kind \in {"none", "empty"}

\* Nothing is looked at between the check and the rename.
Promote(e) ==
    /\ step[e] = "renaming"
    /\ IF GivesWay(destination)
       THEN destination' = Staged(e) /\ step' = [step EXCEPT ![e] = "promoted"]
            /\ written' = [written EXCEPT ![e] = << >>]
       ELSE Fail(e) /\ UNCHANGED <<destination, written>>
    /\ UNCHANGED <<given, source, entries, blocked, changes>>

\* The caller is told.
Announce(e) ==
    /\ step[e] = "promoted"
    /\ step' = [step EXCEPT ![e] = "exported"]
    /\ UNCHANGED <<given, source, entries, blocked, written, destination, changes>>

-----------------------------------------------------------------------------
(***************************************************************************)
(* What happens around the exporters.                                      *)
(***************************************************************************)

\* A source file is changed after the manifest was made.
ChangeSource ==
    /\ changes < MaxChanges /\ changes' = changes + 1
    /\ \E p \in Content : source' = [source EXCEPT ![p] = "changed"]
    /\ UNCHANGED <<given, step, entries, blocked, written, destination>>

\* Another program makes a directory at the destination.
TakeDestination ==
    /\ destination.kind = "none"
    /\ destination' \in {Foreign, Empty}
    /\ UNCHANGED <<given, source, step, entries, blocked, written, changes>>

\* The process dies: its staging directory stays, or what it has made of it, and
\* nobody is told.
Die(e) ==
    /\ step[e] \notin {"failed", "exported", "unreported"}
    /\ step' = [step EXCEPT ![e] = IF @ = "promoted" THEN "unreported" ELSE "failed"]
    /\ UNCHANGED <<given, source, entries, blocked, written, destination, changes>>

Given == [
    profile : Profile,
    policy : {"require-existing", "calculate-and-verify"},
    provenance : {"none", "valid", "invalid"},
    manifestOk : BOOLEAN,
    recorded : {r \in [Content -> Bytes \cup {"none"}] : "changed" \notin Range(r)},
    status : {s \in [Content -> {"created", "planned"}] : s["original"] = "created"}]

\* Inputs with at most one thing wrong, of which there is one kind each.
Sensible(g) ==
    Cardinality({c \in {"manifest", "provenance", "status"} :
        \/ c = "manifest" /\ ~g.manifestOk
        \/ c = "provenance" /\ g.provenance = "invalid"
        \/ c = "status" /\ "planned" \in Range(g.status)}) <= 1

PreservationInit ==
    /\ given \in {g \in Given : Sensible(g) /\ g.recorded["original"] \in {"none", "image"}}
    /\ source \in {s \in [Content -> Bytes \ {"changed"}] : s["original"] = "image"}
    /\ step = [e \in Exporter |-> "mapping"]
    /\ entries = [e \in Exporter |-> << >>]
    /\ blocked = [e \in Exporter |-> {}]
    /\ written = [e \in Exporter |-> << >>]
    /\ destination = NoPackage
    /\ changes = 0

PreservationNext ==
    \/ \E e \in Exporter, p \in Content : VerifyBlobEntry(e, p)
    \/ \E e \in Exporter : Relate(e)
    \/ \E e \in Exporter : OpenStaging(e)
    \/ \E e \in Exporter, p \in Content : WriteSourceEntry(e, p)
    \/ \E e \in Exporter : WriteListing(e)
    \/ \E e \in Exporter : Validate(e)
    \/ \E e \in Exporter : CheckDestination(e)
    \/ \E e \in Exporter : Promote(e)
    \/ \E e \in Exporter : Announce(e)
    \/ \E e \in Exporter : Die(e)
    \/ ChangeSource
    \/ TakeDestination

PreservationSpec == PreservationInit /\ [][PreservationNext]_export

-----------------------------------------------------------------------------
\* A package that stands at the destination is whole, whatever happened to the
\* sources while it was written: it is valid, it holds the original and every
\* created derivative the application selected, and each has the digest the
\* manifest records for it (preservation.ts:584-621, 829-863).
PackageIsWhole ==
    destination.kind = "package" =>
        /\ Valid(destination)
        /\ DOMAIN destination.relation = Content
        /\ \A p \in Content :
            /\ Recorded(p) \in {"none", destination.relation[p]}
            /\ destination.files[FileName(given.profile, destination.listing, p)]
                   = destination.relation[p]

\* One exporter at most puts its package there, and it stays: an export that is
\* reported stands, and a package that nobody was told of is the work of an exporter
\* that died between the rename and the report (preservation.ts:609-616).
Placed == {"promoted", "exported", "unreported"}
ExportedStands ==
    /\ Cardinality({e \in Exporter : step[e] \in Placed}) <= 1
    /\ destination.kind = "package" <=> \E e \in Exporter : step[e] \in Placed

\* What can happen to one part of a package: its declaration, a file, a line of
\* the listing, what covers it, or a tag line; or a content file and the lines
\* that speak of it, changed together.
Without(f, x) == Restrict(f, DOMAIN f \ {x})
Damaged(pkg) ==
    {[pkg EXCEPT !.declaration = "other"]}
    \cup {[pkg EXCEPT !.files[n] = "damaged"] : n \in DOMAIN pkg.files}
    \cup {[pkg EXCEPT !.files = Without(@, n)] : n \in DOMAIN pkg.files}
    \cup {[pkg EXCEPT !.files = Joined(@, [n \in {"stray"} |-> "stray"])]}
    \cup {[pkg EXCEPT !.listing = Without(@, p)] : p \in DOMAIN pkg.listing}
    \cup {[pkg EXCEPT !.cover = Without(@, p)] : p \in DOMAIN pkg.cover}
    \cup {[pkg EXCEPT !.tags = Without(@, p)] : p \in DOMAIN pkg.tags}
    \cup {[pkg EXCEPT !.listing = Without(@, p), !.cover = Without(@, p),
                      !.files = Without(@, FileName(pkg.profile, pkg.listing, p))] :
              p \in DOMAIN pkg.listing}
    \cup {[pkg EXCEPT !.tags = Without(@, p), !.files = Without(@, p)] : p \in DOMAIN pkg.tags}

\* A validator finds any of it in a package it would pass (FR-021 of
\* specs/016-preservation-interoperability).
DamageIsFound ==
    destination.kind = "package" => \A pkg \in Damaged(destination) : ~Valid(pkg)

\* Neither another exporter's package nor a directory of somebody else that holds
\* something is ever replaced by an export, however late it appears (FR-019). An
\* empty one is: see LateDestinationStays.
NothingIsReplaced ==
    [][destination.kind \in {"package", "foreign"} => UNCHANGED destination]_export

\* Exporters, a changing source, deaths before and after the rename and a
\* destination that is taken late do not make a broken package, two packages, one
\* that is reported and is not there, or one in the place of another.
ExportIsSound == [](PackageIsWhole /\ ExportedStands) /\ NothingIsReplaced

\* What docs/preservation.md:68 says: "Export requires a destination that does not
\* exist." It is looked at before the rename, which replaces an empty directory
\* that was made since (preservation.ts:608-609).
LateDestinationStays ==
    [][destination.kind # "none" => UNCHANGED destination]_export
=============================================================================
