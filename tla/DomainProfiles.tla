---------------------------- MODULE DomainProfiles ----------------------------
(***************************************************************************)
(* Domain validation profiles, src/src/profiles.ts: an organization        *)
(* derives a profile from a published one, and a profile from that, by     *)
(* tightening rules, excepting from them, adding some and mapping metadata *)
(* keys; stores what it derived; and evaluates files by it.                *)
(*                                                                         *)
(* Abstractions: a rule looks at one field of the evidence and accepts the *)
(* values of its limit.  The size, media type, suffix, structure and       *)
(* presence rules are of the kind "field", the metadata rules of the kind  *)
(* "metadata".  A profile's digest, and the reference that carries it, are *)
(* the profile's name, as no two profiles of one name are made here; the   *)
(* shape of a rule and of a key is always valid.                           *)
(***************************************************************************)
EXTENDS Naturals, Sequences, FiniteSets

CONSTANT MaxRevisions  \* a bound: rules changed and keys mapped, in all derivations

ASSUME ProfilesAssumption == MaxRevisions \in Nat

Published == "published"
Derived == {"child", "grandchild"}
RuleId == {"field", "lot", "extra"}
Readable == {"low", "high"}
Field == {"size", "lotId", "orgLot"}
EvidenceOf == [Field -> Readable \cup {"missing"}]

Grade == [severity : {"blocking", "warning"}, unavailable : {"block", "warn", "not_applicable"}]
Rule(kind, key, grade, limit) ==
    [kind |-> kind, key |-> key, severity |-> grade.severity, unavailable |-> grade.unavailable,
     limit |-> limit]
\* The rules an organization may write for an id.
RulesFor(id) ==
    {Rule(IF id = "lot" THEN "metadata" ELSE "field", key, grade, limit) :
        key \in IF id = "lot" THEN {"lotId", "orgLot"} ELSE {"size"},
        grade \in Grade, limit \in {{"low"}, Readable}}

Addable(id) == {rule \in RulesFor(id) : rule.severity = "blocking" /\ rule.limit = Readable}

NoRules == [id \in {} |-> FALSE]
NoMappings == [k \in {} |-> k]

VARIABLES
    policies,  \* the profiles there are
    draft,     \* the derivation under way
    revisions

profiles == <<policies, draft, revisions>>

NoDraft == [of |-> "none"]
Revise == revisions < MaxRevisions /\ revisions' = revisions + 1

-----------------------------------------------------------------------------
(***************************************************************************)
(* Evaluation.  A result is 0, passed; 1, passed_with_warnings; 2, failed; *)
(* or 3, invalid_configuration.                                            *)
(***************************************************************************)
KeyOf(p, rule) ==
    IF rule.kind = "metadata" /\ rule.key \in DOMAIN p.mappings THEN p.mappings[rule.key] ELSE rule.key

BySeverity(rule) == IF rule.severity = "blocking" THEN 2 ELSE 1
Unavailable(rule) ==
    CASE rule.unavailable = "not_applicable" -> 0
      [] rule.unavailable = "warn" -> 1
      [] rule.unavailable = "block" -> BySeverity(rule)
Outcome(rule, value) ==
    CASE value = "missing" -> Unavailable(rule)
      [] value \in rule.limit -> 0
      [] OTHER -> BySeverity(rule)

Evaluated(p, e) ==
    LET outcomes == {Outcome(p.rules[id], e[KeyOf(p, p.rules[id])]) : id \in DOMAIN p.rules} IN
    CHOOSE worst \in outcomes : \A o \in outcomes : worst >= o

-----------------------------------------------------------------------------
(***************************************************************************)
(* validateDomainValidationProfile.                                        *)
(***************************************************************************)
SeverityRank(s) == IF s = "blocking" THEN 2 ELSE 1
UnavailableRank(u) == CASE u = "block" -> 3 [] u = "warn" -> 2 [] u = "not_applicable" -> 1

\* As Tighter, without a look at what missing evidence means.
TighterWhenPresent(rule, next) ==
    /\ next.kind = rule.kind /\ next.key = rule.key
    /\ SeverityRank(next.severity) >= SeverityRank(rule.severity)
    /\ next.limit \subseteq rule.limit
\* isProvablyTighter
Tighter(rule, next) ==
    /\ next.kind = rule.kind /\ next.key = rule.key
    /\ SeverityRank(next.severity) >= SeverityRank(rule.severity)
    /\ UnavailableRank(next.unavailable) >= UnavailableRank(rule.unavailable)
    /\ next.limit \subseteq rule.limit

Names(list) == {list[i] : i \in DOMAIN list}
Once(list) == Cardinality(Names(list)) = Len(list)
ExceptedIds(p) == {x.id : x \in Names(p.excepted)}

DeclaredChanges(p) == Names(p.added) \cup Names(p.tightened) \cup ExceptedIds(p)

MappingsHold(rules, mappings) ==
    \A k \in DOMAIN mappings :
        \E id \in DOMAIN rules : rules[id].kind = "metadata" /\ rules[id].key = k

\* validateDerivation with the base at hand: what was changed is what it says.
Follows(p, base) ==
    /\ MappingsHold(p.rules, p.mappings)
    /\ Once(p.added) /\ Once(p.tightened) /\ Cardinality(ExceptedIds(p)) = Len(p.excepted)
    /\ \A id \in Names(p.added) : id \notin DOMAIN base.rules /\ id \in DOMAIN p.rules
    /\ \A id \in Names(p.tightened) :
        id \in DOMAIN base.rules \cap DOMAIN p.rules /\ Tighter(base.rules[id], p.rules[id])
    /\ \A x \in Names(p.excepted) :
        x.id \in DOMAIN base.rules /\ (x.action = "disable" <=> x.id \notin DOMAIN p.rules)
    /\ DOMAIN p.rules \ DOMAIN base.rules \subseteq Names(p.added)
    /\ \A id \in DOMAIN base.rules \ DeclaredChanges(p) :
        id \in DOMAIN p.rules /\ p.rules[id] = base.rules[id]

\* Without its base, only a profile that this process derived is valid.
ValidAlone(p) == p.base = "none" \/ p.trusted
ValidWith(p, base) == Follows(p, base)

-----------------------------------------------------------------------------
(***************************************************************************)
(* deriveDomainValidationProfile: tightenRules, exceptions, addRules and   *)
(* metadataMappings, in this order.  What it refuses it throws.            *)
(***************************************************************************)
StartDerivation(n, b) ==
    /\ draft = NoDraft /\ n \notin DOMAIN policies /\ b \in DOMAIN policies
    /\ ValidAlone(policies[b])
    /\ draft' = [of |-> n, at |-> 1, policy |->
            [rules |-> policies[b].rules, base |-> b, added |-> << >>, tightened |-> << >>,
             excepted |-> << >>, mappings |-> NoMappings, trusted |-> FALSE]]
    /\ UNCHANGED <<policies, revisions>>

\* The next input is of the given list; the ones before it are through.
Taking(n) == draft # NoDraft /\ draft.at <= n /\ Revise /\ UNCHANGED policies
Taken(n, policy) == draft' = [draft EXCEPT !.at = n, !.policy = policy]
Throw == draft' = NoDraft
Put(rules, id, rule) == [k \in DOMAIN rules \cup {id} |-> IF k = id THEN rule ELSE rules[k]]
Drop(rules, id) == [k \in DOMAIN rules \ {id} |-> rules[k]]

TightenRule(id, rule) ==
    /\ Taking(1)
    /\ LET p == draft.policy IN
       IF id \in DOMAIN p.rules /\ Tighter(p.rules[id], rule)
       THEN Taken(1, [p EXCEPT !.rules = Put(@, id, rule), !.tightened = Append(@, id)])
       ELSE Throw

DisableRule(id) ==
    /\ Taking(2)
    /\ LET p == draft.policy IN
       IF id \in DOMAIN p.rules
       THEN Taken(2, [p EXCEPT !.rules = Drop(@, id),
                               !.excepted = Append(@, [id |-> id, action |-> "disable"])])
       ELSE Throw

ReplaceRule(id, rule) ==
    /\ Taking(2)
    /\ LET p == draft.policy IN
       IF id \in DOMAIN p.rules
       THEN Taken(2, [p EXCEPT !.rules = Put(@, id, rule),
                               !.excepted = Append(@, [id |-> id, action |-> "replace"])])
       ELSE Throw

AddRule(id, rule) ==
    /\ Taking(3)
    /\ LET p == draft.policy IN
       IF id \notin DOMAIN p.rules
       THEN Taken(3, [p EXCEPT !.rules = Put(@, id, rule), !.added = Append(@, id)])
       ELSE Throw

MapKey(k, mapped) ==
    /\ Taking(4)
    /\ LET p == draft.policy
           mappings == Put(p.mappings, k, mapped) IN
       IF MappingsHold(p.rules, mappings) /\ mapped \notin {p.mappings[q] : q \in DOMAIN p.mappings}
       THEN Taken(4, [p EXCEPT !.mappings = mappings])
       ELSE Throw

\* finalizeProfile: a profile has rules, and this process trusts it.
Finalize ==
    /\ draft # NoDraft /\ draft' = NoDraft
    /\ IF draft.policy.rules = NoRules THEN UNCHANGED policies
       ELSE policies' = Put(policies, draft.of, [draft.policy EXCEPT !.trusted = TRUE])
    /\ UNCHANGED revisions

\* A derived profile is stored and read again, by a process that did not derive it.
Reload(n) ==
    /\ draft = NoDraft /\ n \in DOMAIN policies /\ policies[n].trusted
    /\ policies' = [policies EXCEPT ![n].trusted = FALSE]
    /\ UNCHANGED <<draft, revisions>>

ProfilesInit ==
    /\ \E u \in {"block", "warn", "not_applicable"} :
        policies = [n \in {Published} |->
            [rules |-> [id \in {"field", "lot"} |->
                Rule(IF id = "lot" THEN "metadata" ELSE "field",
                     IF id = "lot" THEN "lotId" ELSE "size",
                     [severity |-> "blocking", unavailable |-> u], Readable)],
             base |-> "none", added |-> << >>, tightened |-> << >>, excepted |-> << >>,
             mappings |-> NoMappings, trusted |-> FALSE]]
    /\ draft = NoDraft /\ revisions = 0

ProfilesNext ==
    \/ StartDerivation("child", Published) \/ StartDerivation("grandchild", "child")
    \/ \E id \in RuleId : \E rule \in RulesFor(id) : TightenRule(id, rule)
    \/ \E id \in RuleId : DisableRule(id)
    \/ \E id \in RuleId : \E rule \in RulesFor(id) : ReplaceRule(id, rule)
    \/ \E id \in RuleId : \E rule \in Addable(id) : AddRule(id, rule)
    \/ \E k, mapped \in {"lotId", "orgLot"} : MapKey(k, mapped)
    \/ Finalize
    \/ \E n \in Derived : Reload(n)

ProfilesSpec == ProfilesInit /\ [][ProfilesNext]_profiles
-----------------------------------------------------------------------------
\* What an organization may have written by hand, with a digest that is right:
\* another rule for an id, or none, with or without a declaration of it.
Edited(p) ==
    UNION {LET changed == {[p EXCEPT !.rules = Put(@, id, rule)] : rule \in RulesFor(id)}
                          \cup {[p EXCEPT !.rules = Drop(@, id)]} IN
           changed \cup {[q EXCEPT !.tightened = Append(@, id)] : q \in changed}
                   \cup {[q EXCEPT !.added = Append(@, id)] : q \in changed} :
           id \in DOMAIN p.rules}

AsStrict(p, base) == \A e \in EvidenceOf : Evaluated(p, e) >= Evaluated(base, e)

\* No profile weakens its base silently: one that is valid with its base, states
\* no exception and maps no key (Plain) accepts no evidence that its base refuses, and
\* warns where its base warns, derived or written by hand (FR-020 of
\* specs/017-domain-validation-profiles).  A base that maps keys is excepted.
Plain(p) == p.excepted = << >> /\ p.mappings = NoMappings
WeakeningIsDeclared ==
    draft = NoDraft =>
        \A n \in {m \in DOMAIN policies \ {Published} : Plain(policies[m]) /\ policies[m].trusted} :
            LET base == policies[policies[n].base] IN
            base.mappings = NoMappings =>
                \A p \in {policies[n]} \cup Edited(policies[n]) :
                    p.rules # NoRules /\ ValidWith(p, base) => AsStrict(p, base)

\* What was derived, each rule changed once, is valid with its base also after it
\* was stored and read again (profiles.ts:379-458, 972-1050).
ChangedOnce(p) ==
    Once(p.added \o p.tightened \o [i \in DOMAIN p.excepted |-> p.excepted[i].id])
DerivedStands ==
    \A n \in DOMAIN policies \ {Published} :
        ChangedOnce(policies[n]) => ValidWith(policies[n], policies[policies[n].base])

\* Validation with the base tells the two apart: it accepts what a derivation
\* made and refuses what weakens the base without saying so.
DerivationsHold == WeakeningIsDeclared /\ DerivedStands
=============================================================================
