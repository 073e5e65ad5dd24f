----------------------------- MODULE MCAssurance ----------------------------
(***************************************************************************)
(* What is said of an ingest: the profile its evidence is evaluated by     *)
(* (src/src/profiles.ts), the conformance run that qualifies its transport *)
(* (src/src/conformance.ts) and the package it is preserved in             *)
(* (src/src/preservation.ts).  They share no state, so a behaviour is one  *)
(* of a single module and the variables of the others rest at one of their *)
(* initial values.                                                         *)
(***************************************************************************)
EXTENDS PreservationExport, Conformance, DomainProfiles

VARIABLE about  \* the module whose behaviour this is

\* The choices that the initial states of a module leave, made for a module
\* that rests.
AnyInputs ==
    /\ given = CHOOSE g \in Given : Sensible(g)
    /\ source = [p \in Content |-> "image"]
AnyCapabilities == capabilities = Capability
AnyProfile == policies[Published].rules["lot"].unavailable = "warn"

Init ==
    /\ about \in {"preservation", "conformance", "profiles"}
    /\ about # "preservation" => AnyInputs
    /\ PreservationInit
    /\ about # "conformance" => AnyCapabilities
    /\ ConformanceInit
    /\ ProfilesInit
    /\ about # "profiles" => AnyProfile

Export == about = "preservation" /\ UNCHANGED <<conformance, profiles, about>>
Suite == about = "conformance" /\ UNCHANGED <<export, profiles, about>>
Domain == about = "profiles" /\ UNCHANGED <<export, conformance, about>>

Next ==
    \/ Export /\ PreservationNext
    \/ Suite /\ ConformanceNext
    \/ Domain /\ ProfilesNext

Spec == Init /\ [][Next]_<<export, conformance, profiles, about>>
=============================================================================
