---------------------------- MODULE EvidenceIntake ----------------------------
(* The intake of production evidence (readiness/intake.py): four questionnaires become a
   draft that is no-go by construction, and a draft is compared with the one kept before.
   The draft file is mutable: --force replaces it and people edit it by hand, so every
   load recomputes it from its own answers.

   Evidence is the joined list of the four files.  Its source stands for the URL, the
   document version and the document checksum.  A percentage is a number; UNKNOWN is a
   value of its own. *)
EXTENDS Naturals, Sequences, FiniteSets

CONSTANTS
    EvidenceIds, LicenseQuestions, OperatorQuestions, BrokerBlockers,
    UNKNOWN, NoDraft,
    Questionnaires,     \* what the four files may say
    Dates,              \* the values of --as-of
    MaxDrafts

Parts == {"provider", "license", "operator", "broker"}
Questions == LicenseQuestions \cup OperatorQuestions
Metrics == {"record", "field"}

ASSUME IntakeAssumption ==
    /\ IsFiniteSet(EvidenceIds)
    /\ UNKNOWN \notin Nat
    /\ Dates \subseteq Nat
    /\ \A a \in Questionnaires :
        /\ a.coverage \in [Metrics -> Nat \cup {UNKNOWN}]
        /\ \A k \in DOMAIN a.evidence : a.evidence[k].id \in EvidenceIds

VARIABLES
    output,     \* the draft file that is worked on
    kept        \* the drafts that were kept, each after a comparison with the last one

intakeVars == <<output, kept>>

-----------------------------------------------------------------------------
Ids(a) == {a.evidence[k].id : k \in DOMAIN a.evidence}

Evidence(a, id) == a.evidence[CHOOSE k \in DOMAIN a.evidence : a.evidence[k].id = id]

Owners(a) == {a.owner[f] : f \in Parts}

ValidEvidence(a, item, generated) ==
    /\ item.owner \in Owners(a)
    /\ item.retrieved <= item.reviewed /\ item.reviewed <= generated
    /\ item.documentVerified /\ item.summaryVerified
    /\ a.classification["provider"] = "production_candidate" => item.kind # "synthetic"

(* Evidence and owners that something refers to must be there. *)
ValidReference(a, owner, ids) == owner \in Owners(a) /\ ids \subseteq Ids(a)

ValidInputs(a, generated) ==
    /\ \A f, g \in Parts : a.classification[f] = a.classification[g]
    /\ \A j, k \in DOMAIN a.evidence : a.evidence[j].id = a.evidence[k].id => j = k
    /\ \A k \in DOMAIN a.evidence : ValidEvidence(a, a.evidence[k], generated)
    /\ ValidReference(a, a.owner["provider"], a.support)
    /\ \A q \in Questions : ValidReference(a, a.decisions[q].owner, a.decisions[q].evidence)
    /\ \A k \in DOMAIN a.broker : ValidReference(a, a.broker[k].owner, a.broker[k].evidence)
    /\ {a.broker[k].blocker : k \in DOMAIN a.broker} = BrokerBlockers
    /\ Len(a.broker) = Cardinality(BrokerBlockers)
    /\ \A k \in DOMAIN a.broker :
        /\ a.broker[k].evidence # {}
        /\ \A id \in a.broker[k].evidence : Evidence(a, id).kind = "official"

-----------------------------------------------------------------------------
Register(a) == [id \in Ids(a) |-> Evidence(a, id)]

(* Nothing in the four files answers these, so no draft is ever without them. *)
StandingBlockers ==
    {"unexplained_disagreements", "silent_fallbacks", "stream_faults",
     "last_common_watermark", "rollback_license", "entitlement_expiry",
     "phase4c_qualified_pack_not_created"}

Blockers(a, generated) ==
    {<<"provider_unknown", field>> : field \in a.unknown}
      \cup {<<"coverage_unknown", m>> : m \in {x \in Metrics : a.coverage[x] = UNKNOWN}}
      \cup {<<"coverage_below_100_percent", m>> :
              m \in {x \in Metrics : a.coverage[x] # UNKNOWN /\ a.coverage[x] < 100}}
      \cup (IF a.support = {} THEN {<<"provider_evidence_missing", "provider">>} ELSE {})
      \cup {<<"decision_not_approved", q>> :
              q \in {x \in Questions : a.decisions[x].status # "approved"}}
      \cup {<<"answer_unknown", q>> : q \in {x \in Questions : ~a.decisions[x].answered}}
      \cup {<<"approved_without_evidence", q>> :
              q \in {x \in Questions : a.decisions[x].status = "approved"
                                         /\ a.decisions[x].evidence = {}}}
      \cup {<<"expired_evidence", id>> :
              id \in {x \in Ids(a) : Evidence(a, x).expires < generated}}
      \cup {<<"broker_blocked", b>> : b \in BrokerBlockers}
      \cup {<<"standing", s>> : s \in StandingBlockers}

Draft(a, generated) ==
    [answers |-> a, generated |-> generated, evidence |-> Register(a),
     blockers |-> Blockers(a, generated), metrics |-> a.coverage, checked |-> TRUE]

\* Mutant: load_draft trusts what the file says of its own answers.
LoadableUnchecked(d) == ValidInputs(d.answers, d.generated)

(* load_draft: valid answers, and everything derived from them is derived again. *)
Loadable(d) ==
    /\ ValidInputs(d.answers, d.generated)
    /\ d = Draft(d.answers, d.generated)

-----------------------------------------------------------------------------
Critical(item) == <<item.source, item.owner, item.expires>>

Approved(d, q) == d.answers.decisions[q].status = "approved"

Expired(d) == {id \in DOMAIN d.evidence : d.evidence[id].expires < d.generated}

NewlyExpired(previous, candidate) == Expired(candidate) \ Expired(previous)

\* Mutant: a coverage that is no longer known is not held against the candidate.
CoverageRegressedByNumber(old, new) == old # UNKNOWN /\ new # UNKNOWN /\ new < old

CoverageRegressed(old, new) == old # UNKNOWN /\ (new = UNKNOWN \/ new < old)

(* Two more of the code never arise: every loaded draft has all broker blockers and the
   rollback license is always unknown.  A third repeats the operator's decisions. *)
Regressions(previous, candidate) ==
    {<<"evidence_removed", id>> : id \in DOMAIN previous.evidence \ DOMAIN candidate.evidence}
      \cup {<<"critical_evidence_changed", id>> :
              id \in {x \in DOMAIN previous.evidence \cap DOMAIN candidate.evidence :
                        Critical(previous.evidence[x]) # Critical(candidate.evidence[x])}}
      \cup {<<"decision_regression", q>> :
              q \in {x \in Questions : Approved(previous, x) /\ ~Approved(candidate, x)}}
      \cup {<<"coverage_regression", m>> :
              m \in {x \in Metrics :
                       CoverageRegressed(previous.metrics[x], candidate.metrics[x])}}
      \cup {<<"evidence_expired", id>> : id \in NewlyExpired(previous, candidate)}

PositiveChange(previous, candidate) ==
    \/ DOMAIN candidate.evidence \ DOMAIN previous.evidence # {}
    \/ \E q \in Questions : Approved(candidate, q) /\ ~Approved(previous, q)

(* admission_may_improve of compare_production_readiness. *)
MayImprove(previous, candidate) ==
    /\ PositiveChange(previous, candidate)
    /\ Regressions(previous, candidate) = {}
    /\ Cardinality(DOMAIN candidate.evidence) >= Cardinality(DOMAIN previous.evidence)

-----------------------------------------------------------------------------
IntakeInit == output = NoDraft /\ kept = <<>>

(* A file that is there is refused. *)
CreateDraft(a, generated) ==
    /\ output = NoDraft /\ Len(kept) < MaxDrafts
    /\ ValidInputs(a, generated)
    /\ output' = Draft(a, generated)
    /\ UNCHANGED kept

(* With --force the new file replaces the old one in a single write.  Here the old one goes
   first and the new one comes after; in between nothing can happen to the missing file. *)
GiveWay ==
    /\ output # NoDraft
    /\ output' = NoDraft
    /\ UNCHANGED kept

(* Somebody tidies the draft: its blockers go or its coverage is rounded up, and the
   checksum is computed again or not. *)
EditByHand ==
    /\ output # NoDraft
    /\ \E checksum \in BOOLEAN :
        output' \in {[output EXCEPT !.blockers = {}, !.checked = checksum],
                     [output EXCEPT !.metrics = [m \in Metrics |-> 100],
                                    !.checked = checksum]}
    /\ UNCHANGED kept

(* load_and_compare with the draft kept last: without a regression the new one is kept. *)
KeepDraft ==
    /\ output # NoDraft
    /\ Loadable(output)
    /\ kept # <<>> => Regressions(kept[Len(kept)], output) = {}
    /\ kept' = Append(kept, output)
    /\ output' = NoDraft

IntakeNext ==
    \/ \E a \in Questionnaires, generated \in Dates : CreateDraft(a, generated)
    \/ GiveWay
    \/ EditByHand
    \/ KeepDraft

IntakeSpec == IntakeInit /\ [][IntakeNext]_intakeVars

-----------------------------------------------------------------------------
(* Comparisons are pairwise, and the baseline moves with every draft that is kept.  However
   many steps lie between two kept drafts, and whatever dates they were made for, the later
   one has lost nothing: evidence, approvals and coverage that were there are there, nothing
   has expired unseen, and it may improve admission exactly when one of the steps said so.
   And every kept draft is what its own answers make of it. *)
NothingLostInSteps ==
    /\ \A i, j \in DOMAIN kept : i < j =>
        /\ Regressions(kept[i], kept[j]) = {}
        /\ MayImprove(kept[i], kept[j])
             <=> \E k \in i..(j - 1) : MayImprove(kept[k], kept[k + 1])
    /\ \A k \in DOMAIN kept : kept[k] = Draft(kept[k].answers, kept[k].generated)
=============================================================================
