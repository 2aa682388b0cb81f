---------------------------- MODULE TargetPromotion ----------------------------
(* From a research target to one that the paper desk executes: PaperTargetPromoter
   (operations/promotion.py) validates a candidate and publishes an approval and then a
   target; ExactPaperTargetReader (operations/strategy.py) takes targets up.  Publication
   is the single step that ArtifactStore shows it to be.

   An approval is the request it records and a target names its approval, so both are
   known by the request.  Instants come two to a day; a session is a day.  A dry run stops
   after the validation and changes nothing. *)
EXTENDS Naturals

CONSTANTS
    Candidates,     \* research targets, with what their manifest and records say
    Requests,       \* what reviewers ask for
    Promoters,      \* processes that promote
    Reads           \* the sessions and instants at which the desk reads

VARIABLES
    damaged,        \* candidates whose files no longer verify
    approvals, targets,
    promoters,      \* process -> what it is publishing
    snapshots       \* what the desk has taken up, and when

promotionVars == <<damaged, approvals, targets, promoters, snapshots>>

Day(instant) == instant \div 2

Resting == "resting"

-----------------------------------------------------------------------------
(* validate_paper_target_records: of one session, decided on an earlier day, known by then. *)
RecordsValid(candidate, session, asOf) ==
    /\ candidate.wellFormed
    /\ candidate.session = session
    /\ Day(candidate.decided) < candidate.session
    /\ candidate.available <= candidate.decided /\ candidate.decided <= asOf

\* Mutant: an approval on the day of the session is early enough.
ApprovedSameDay(r) == Day(r.approvedAt) <= r.session

ApprovedInTime(r) == Day(r.approvedAt) < r.session

MayBePromoted(r) ==
    /\ r.reviewed
    /\ r.source \notin damaged
    /\ r.source.eligible /\ r.source.lineageComplete
    /\ r.source.created <= r.approvedAt
    /\ ApprovedInTime(r)
    /\ RecordsValid(r.source, r.session, r.approvedAt)

-----------------------------------------------------------------------------
PromotionInit ==
    /\ damaged = {} /\ approvals = {} /\ targets = {} /\ snapshots = {}
    /\ promoters = [p \in Promoters |-> [pc |-> Resting]]

Validate(p, r) ==
    /\ promoters[p].pc = Resting
    /\ MayBePromoted(r)
    /\ promoters' = [promoters EXCEPT ![p] = [pc |-> "approve", request |-> r]]
    /\ UNCHANGED <<damaged, approvals, targets, snapshots>>

PublishApproval(p) ==
    /\ promoters[p].pc = "approve"
    /\ approvals' = approvals \cup {promoters[p].request}
    /\ promoters' = [promoters EXCEPT ![p].pc = "publish"]
    /\ UNCHANGED <<damaged, targets, snapshots>>

PublishTarget(p) ==
    /\ promoters[p].pc = "publish"
    /\ targets' = targets \cup {promoters[p].request}
    /\ promoters' = [promoters EXCEPT ![p] = [pc |-> Resting]]
    /\ UNCHANGED <<damaged, approvals, snapshots>>

PromoterDies(p) ==
    /\ promoters[p].pc # Resting
    /\ promoters' = [promoters EXCEPT ![p] = [pc |-> Resting]]
    /\ UNCHANGED <<damaged, approvals, targets, snapshots>>

DamageCandidate(c) ==
    /\ damaged = {}
    /\ damaged' = {c}
    /\ UNCHANGED <<approvals, targets, promoters, snapshots>>

(* The desk opens the target alone; it looks at neither the approval nor the candidate. *)
ReadTarget(r, read) ==
    /\ r \in targets
    /\ r.approvedAt <= read.asOf
    /\ RecordsValid(r.source, read.session, read.asOf)
    /\ snapshots' = snapshots \cup {[request |-> r, session |-> read.session,
                                     asOf |-> read.asOf]}
    /\ UNCHANGED <<damaged, approvals, targets, promoters>>

PromotionNext ==
    \/ \E p \in Promoters :
        \/ \E r \in Requests : Validate(p, r)
        \/ PublishApproval(p) \/ PublishTarget(p) \/ PromoterDies(p)
    \/ \E c \in Candidates : DamageCandidate(c)
    \/ \E r \in targets, read \in Reads : ReadTarget(r, read)

PromotionSpec == PromotionInit /\ [][PromotionNext]_promotionVars

-----------------------------------------------------------------------------
(* The desk trusts the promoter: whoever died between the two publications, and whoever
   promoted the same candidate for another date, a target that the desk has taken up has its
   approval in the store, and that approval was given after the research was done, before
   the day of the session on which the desk executes it, and by somebody who had reviewed it. *)
ExecutedTargetsWereApproved ==
    \A s \in snapshots :
        /\ s.request \in approvals
        /\ s.request.reviewed /\ s.request.source.eligible
        /\ s.request.source.created <= s.request.approvedAt
        /\ s.request.approvedAt <= s.asOf
        /\ Day(s.request.approvedAt) < s.session
=============================================================================
