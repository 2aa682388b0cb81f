-------------------------- MODULE ProductionAdmission --------------------------
(* The evaluation of a readiness pack (readiness/admission.py): one file with documents,
   decisions and attestations passes five gates or is a no-go.  Between evaluations people
   revise a section of the pack at a time, the date it speaks of included.

   Instants come two to a day, so that an approval can expire in the middle of one.  What
   a section only attests (capabilities, checks, controls) is the set of what it attests;
   a counter that must be zero is attested when it is. *)
EXTENDS Naturals, Sequences

CONSTANTS
    RequiredLicenseDecisions, RequiredBrokerBlockers,
    Capabilities, ReconciliationChecks, SecurityControls,
    CompletePack,   \* the pack that people start from
    Forms,          \* section -> what the section may be revised to
    MaxRevisions

(* What the schema asks of a section, as far as the gates compare it. *)
WellFormed(section, form) ==
    /\ section = "asOf" => form \in Nat
    /\ section = "scope" => form \in {"synthetic_offline", "production_candidate"}
    /\ section = "synthetic" => form \in BOOLEAN
    /\ section = "evidence" =>
        \A k \in DOMAIN form :
            /\ form[k].reviewed \in Nat /\ form[k].expires \in Nat
            /\ form[k].kind \in {"official", "contract", "synthetic"}
    /\ section = "provider" =>
        \A d \in DOMAIN form.decisions :
            form.decisions[d].reviewed \in Nat /\ form.decisions[d].expires \in Nat
    /\ section = "security" =>
        /\ form.approvalExpires \in Nat
        /\ \A decision \in {form.secretBackend, form.rotation} :
            decision.reviewed \in Nat /\ decision.expires \in Nat

SectionNames ==
    {"asOf", "scope", "synthetic", "owners", "evidence", "provider", "reconciliation",
     "security", "broker"}

ASSUME AdmissionAssumption ==
    /\ DOMAIN CompletePack = SectionNames
    /\ \A section \in SectionNames : WellFormed(section, CompletePack[section])
    /\ DOMAIN Forms \subseteq SectionNames
    /\ \A section \in DOMAIN Forms :
        \A form \in Forms[section] : WellFormed(section, form)

VARIABLES
    pack,
    revisions,
    verdict         \* what the last evaluation of this very pack said

admissionVars == <<pack, revisions, verdict>>

-----------------------------------------------------------------------------
AsOf(p) == p.asOf \div 2

KnownOwners(p) == {p.owners[k] : k \in DOMAIN p.owners}

KnownEvidence(p) == {p.evidence[k].id : k \in DOMAIN p.evidence}

NoDuplicates(ids) == \A j, k \in DOMAIN ids : ids[j] = ids[k] => j = k

(* Every reference of this kind must name something, and only what is in the pack. *)
Supported(p, ids) == ids # {} /\ ids \subseteq KnownEvidence(p)

\* Mutant: evidence is only held to have been reviewed in time.
DocumentReviewed(p, item) ==
    /\ item.owner \in KnownOwners(p)
    /\ item.retrieved <= item.reviewed /\ item.reviewed <= AsOf(p)
    /\ item.intact
    /\ p.scope = "production_candidate" => item.kind # "synthetic"

DocumentPasses(p, item) ==
    /\ item.owner \in KnownOwners(p)
    /\ item.retrieved <= item.reviewed /\ item.reviewed <= AsOf(p)
    /\ AsOf(p) <= item.expires
    /\ item.intact
    /\ p.scope = "production_candidate" => item.kind # "synthetic"

(* _decision_blockers: none. *)
DecisionPasses(p, decision) ==
    /\ decision.owner \in KnownOwners(p)
    /\ decision.status = "approved"
    /\ decision.reviewed <= AsOf(p) /\ AsOf(p) <= decision.expires
    /\ Supported(p, decision.evidence)

-----------------------------------------------------------------------------
EvidenceGate(p) ==
    /\ p.scope = "synthetic_offline" <=> p.synthetic
    /\ NoDuplicates(p.owners)
    /\ NoDuplicates([k \in DOMAIN p.evidence |-> p.evidence[k].id])
    /\ \A k \in DOMAIN p.evidence : DocumentPasses(p, p.evidence[k])

DatasetPasses(p, dataset) ==
    /\ dataset.complete             \* all records and all fields
    /\ dataset.pointInTime
    /\ Supported(p, dataset.evidence)

ProviderGate(p) ==
    /\ p.provider.owner \in KnownOwners(p)
    /\ p.provider.status = "approved"
    /\ AsOf(p) <= p.provider.entitlementExpires
    /\ p.provider.named
    /\ Supported(p, p.provider.evidence)
    /\ Capabilities \subseteq p.provider.capabilities
    /\ \A dataset \in p.provider.datasets : DatasetPasses(p, dataset)
    /\ RequiredLicenseDecisions \subseteq DOMAIN p.provider.decisions
    /\ \A d \in DOMAIN p.provider.decisions : DecisionPasses(p, p.provider.decisions[d])

ReconciliationGate(p) ==
    /\ p.reconciliation.owner \in KnownOwners(p)
    /\ ReconciliationChecks \subseteq p.reconciliation.accepted
    /\ Supported(p, p.reconciliation.evidence)

\* Mutant: the approval may expire at the very instant of the pack.
TwoStepApprovalInclusive(p) ==
    /\ p.security.requestedBy # p.security.approvedBy
    /\ {p.security.requestedBy, p.security.approvedBy} \subseteq KnownOwners(p)
    /\ p.asOf <= p.security.approvalExpires

TwoStepApproval(p) ==
    /\ p.security.requestedBy # p.security.approvedBy
    /\ {p.security.requestedBy, p.security.approvedBy} \subseteq KnownOwners(p)
    /\ p.asOf < p.security.approvalExpires

SecurityGate(p) ==
    /\ DecisionPasses(p, p.security.secretBackend)
    /\ DecisionPasses(p, p.security.rotation)
    /\ SecurityControls \subseteq p.security.controls
    /\ p.security.drills # {}
    /\ TwoStepApproval(p)
    /\ {p.security.rollbackOwner, p.security.killSwitchOwner} \subseteq KnownOwners(p)
    /\ Supported(p, p.security.evidence)

OfficialEvidence(p, ids) ==
    {k \in DOMAIN p.evidence : p.evidence[k].id \in ids /\ p.evidence[k].kind = "official"}

(* by_id keeps the last item of each blocker. *)
LastItem(p, b, k) ==
    /\ p.broker[k].blocker = b
    /\ \A j \in DOMAIN p.broker : p.broker[j].blocker = b => j <= k

(* The blockers of the broker stay open: each is there, with what is unknown about it. *)
BrokerGate(p) ==
    \A b \in RequiredBrokerBlockers :
        \E k \in DOMAIN p.broker :
            /\ LastItem(p, b, k)
            /\ p.broker[k].owner \in KnownOwners(p)
            /\ OfficialEvidence(p, p.broker[k].evidence) # {}
            /\ p.broker[k].unknownStated

Admitted(p) ==
    EvidenceGate(p) /\ ProviderGate(p) /\ ReconciliationGate(p) /\ SecurityGate(p) /\ BrokerGate(p)

-----------------------------------------------------------------------------
AdmissionInit ==
    pack = CompletePack /\ revisions = 0 /\ verdict = "not_evaluated"

Evaluate ==
    /\ verdict = "not_evaluated"
    /\ verdict' = IF Admitted(pack) THEN "admitted" ELSE "no_go"
    /\ UNCHANGED <<pack, revisions>>

Revise(section) ==
    /\ revisions < MaxRevisions
    /\ \E form \in Forms[section] : pack' = [pack EXCEPT ![section] = form]
    /\ revisions' = revisions + 1
    /\ verdict' = "not_evaluated"

AdmissionNext == Evaluate \/ \E section \in DOMAIN Forms : Revise(section)

AdmissionSpec == AdmissionInit /\ [][AdmissionNext]_admissionVars

-----------------------------------------------------------------------------
Decisions(p) ==
    {p.security.secretBackend, p.security.rotation}
      \cup {p.provider.decisions[d] : d \in DOMAIN p.provider.decisions}

(* The references that the gates look up. *)
LookedUp(p) ==
    {p.provider.evidence, p.reconciliation.evidence, p.security.evidence}
      \cup {dataset.evidence : dataset \in p.provider.datasets}
      \cup {decision.evidence : decision \in Decisions(p)}

(* All that the pack makes.  Of the restore drills the code only asks that there are some, and
   of the references of a broker blocker that one of them is an official document. *)
References(p) ==
    LookedUp(p) \cup {p.security.drills} \cup {p.broker[k].evidence : k \in DOMAIN p.broker}

(* The document that a reference means: one and no other, kept by somebody who is named,
   unchanged, and current on the day of the pack. *)
Stands(p, id) ==
    \E k \in DOMAIN p.evidence :
        /\ \A j \in DOMAIN p.evidence : p.evidence[j].id = id <=> j = k
        /\ p.evidence[k].owner \in KnownOwners(p) /\ p.evidence[k].intact
        /\ AsOf(p) \in p.evidence[k].reviewed..p.evidence[k].expires
        /\ p.synthetic \/ p.evidence[k].kind \in {"official", "contract"}

(* References are looked up in the gates of their sections and the documents checked in a
   gate of their own, each date against the pack's, some by the day and one by the instant.
   Whatever is revised in between: when a pack is admitted, each of those gates' references
   means a document that stands; each broker blocker is backed by an official document that
   stands; every decision is approved for the day; and nobody approved alone or with an approval
   that has run out.  Restore drills and what else a broker blocker refers to are not looked
   up: see MissingEvidenceIsNoGo. *)
AdmittedMeansSupported ==
    verdict = "admitted" =>
        /\ \A ids \in LookedUp(pack) : ids # {} /\ \A id \in ids : Stands(pack, id)
        /\ \A b \in RequiredBrokerBlockers :
            \E k \in DOMAIN pack.evidence :
                /\ pack.evidence[k].kind = "official" /\ Stands(pack, pack.evidence[k].id)
                /\ \E j \in DOMAIN pack.broker :
                    /\ pack.broker[j].blocker = b /\ pack.broker[j].unknownStated
                    /\ pack.evidence[k].id \in pack.broker[j].evidence
        /\ \A decision \in Decisions(pack) :
            decision.status = "approved" /\ AsOf(pack) \in decision.reviewed..decision.expires
        /\ pack.security.requestedBy # pack.security.approvedBy
        /\ ~(pack.security.approvalExpires <= pack.asOf)

(* The schema promises more (docs/READINESS_DECISION_PACK_SCHEMA.md, lines 25-26: any missing,
   expired or unowned evidence produces no-go): whatever an admitted pack refers to is a
   document that stands. *)
MissingEvidenceIsNoGo ==
    verdict = "admitted" =>
        \A ids \in References(pack) : \A id \in ids : Stands(pack, id)
=============================================================================
