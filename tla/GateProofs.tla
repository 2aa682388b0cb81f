----------------------------- MODULE GateProofs -----------------------------
(* The gates that stand between research and production, for all values of their
   constants: promotion of a target, intake of evidence drafts, admission of a pack. *)
EXTENDS TargetPromotion, EvidenceIntake, ProductionAdmission, FiniteSetTheorems, TLAPS

USE DEF Parts, Metrics

---------------------------------------------------------------------------
(* Why the desk may trust the promoter, for any candidates, requests, promoters and
   instants: a target is published by the process that has just published its approval,
   and what _validate has found of a request stays so. *)

(* What _validate has established of a request, the damage of its candidate apart. *)
Examined(r) ==
    /\ r.reviewed /\ r.source.eligible
    /\ r.source.created <= r.approvedAt
    /\ ApprovedInTime(r)
    /\ r.source.session = r.session

PromotionInv ==
    /\ DOMAIN promoters = Promoters
    /\ \A p \in Promoters :
        promoters[p].pc \in {"approve", "publish"} => Examined(promoters[p].request)
    /\ \A p \in Promoters :
        promoters[p].pc = "publish" => promoters[p].request \in approvals
    /\ \A r \in targets : r \in approvals /\ Examined(r)
    /\ \A s \in snapshots :
        /\ s.request \in targets
        /\ s.request.approvedAt <= s.asOf
        /\ s.session = s.request.session

(* A promoter that rests or has died holds nothing to be sure of. *)
LEMMA PromoterMoves ==
    ASSUME PromotionInv, NEW p \in Promoters, NEW w,
           promoters' = [promoters EXCEPT ![p] = w],
           w.pc \in {"approve", "publish"} => Examined(w.request),
           w.pc = "publish" => w.request \in approvals',
           approvals \subseteq approvals',
           UNCHANGED snapshots, targets \subseteq targets',
           \A r \in targets' \ targets : r \in approvals' /\ Examined(r)
    PROVE  PromotionInv'
  <1>1. DOMAIN promoters' = Promoters /\ promoters'[p] = w
    BY DEF PromotionInv
  <1>2. \A q \in Promoters : q # p => promoters'[q] = promoters[q]
    BY DEF PromotionInv
  <1> QED BY <1>1, <1>2 DEF PromotionInv, Examined, ApprovedInTime

LEMMA PromotionInitial == PromotionInit => PromotionInv
  BY DEF PromotionInit, PromotionInv, Resting

LEMMA PromoterStep ==
    ASSUME PromotionInv, NEW p \in Promoters,
           (\E r \in Requests : Validate(p, r)) \/ PublishApproval(p) \/ PublishTarget(p)
             \/ PromoterDies(p)
    PROVE  PromotionInv'
  <1>1. ASSUME NEW r \in Requests, Validate(p, r) PROVE PromotionInv'
    <2> DEFINE w == [pc |-> "approve", request |-> r]
    <2>1. Examined(w.request)
      BY <1>1 DEF Validate, MayBePromoted, RecordsValid, Examined
    <2>2. promoters' = [promoters EXCEPT ![p] = w] /\ UNCHANGED <<approvals, targets, snapshots>>
      BY <1>1 DEF Validate
    <2> QED BY <2>1, <2>2, PromoterMoves
  <1>2. CASE PublishApproval(p)
    <2> DEFINE w == [promoters[p] EXCEPT !.pc = "publish"]
    <2>1. promoters[p].pc = "approve" /\ Examined(promoters[p].request)
      BY <1>2 DEF PublishApproval, PromotionInv
    <2>2. w.request = promoters[p].request
      OBVIOUS
    <2>3. /\ promoters' = [promoters EXCEPT ![p] = w]
          /\ approvals' = approvals \cup {promoters[p].request}
          /\ UNCHANGED <<targets, snapshots>>
      BY <1>2 DEF PublishApproval
    <2> HIDE DEF w
    <2> QED BY <2>1, <2>2, <2>3, PromoterMoves
  <1>3. CASE PublishTarget(p)
    <2> DEFINE w == [pc |-> Resting]
               r == promoters[p].request
    <2>1. r \in approvals /\ Examined(r)
      BY <1>3 DEF PublishTarget, PromotionInv
    <2>2. /\ promoters' = [promoters EXCEPT ![p] = w] /\ targets' = targets \cup {r}
          /\ UNCHANGED <<approvals, snapshots>>
      BY <1>3 DEF PublishTarget
    <2>3. w.pc \notin {"approve", "publish"}
      BY DEF Resting
    <2> HIDE DEF w, r
    <2> QED BY <2>1, <2>2, <2>3, PromoterMoves
  <1>4. CASE PromoterDies(p)
    <2> DEFINE w == [pc |-> Resting]
    <2>1. /\ promoters' = [promoters EXCEPT ![p] = w]
          /\ UNCHANGED <<approvals, targets, snapshots>>
      BY <1>4 DEF PromoterDies
    <2>2. w.pc \notin {"approve", "publish"}
      BY DEF Resting
    <2> HIDE DEF w
    <2> QED BY <2>1, <2>2, PromoterMoves
  <1> QED BY <1>1, <1>2, <1>3, <1>4

LEMMA PromotionStep == PromotionInv /\ [PromotionNext]_promotionVars => PromotionInv'
  <1> SUFFICES ASSUME PromotionInv, [PromotionNext]_promotionVars PROVE PromotionInv'
    OBVIOUS
  <1>1. CASE UNCHANGED <<approvals, targets, promoters, snapshots>>
    BY <1>1 DEF PromotionInv, Examined, ApprovedInTime
  <1>2. ASSUME NEW c \in Candidates, DamageCandidate(c) PROVE PromotionInv'
    BY <1>1, <1>2 DEF DamageCandidate
  <1>3. ASSUME NEW r \in targets, NEW read \in Reads, ReadTarget(r, read) PROVE PromotionInv'
    <2> DEFINE s == [request |-> r, session |-> read.session, asOf |-> read.asOf]
    <2>1. snapshots' = snapshots \cup {s} /\ UNCHANGED <<approvals, targets, promoters>>
      BY <1>3 DEF ReadTarget
    <2>2. r.approvedAt <= read.asOf /\ r.source.session = read.session
      BY <1>3 DEF ReadTarget, RecordsValid
    <2>3. r.source.session = r.session
      BY DEF PromotionInv, Examined
    <2>4. /\ s.request \in targets /\ s.request.approvedAt <= s.asOf
          /\ s.session = s.request.session
      BY <2>2, <2>3
    <2> HIDE DEF s
    <2> QED BY <2>1, <2>4 DEF PromotionInv, Examined, ApprovedInTime
  <1>4. CASE UNCHANGED promotionVars
    BY <1>1, <1>4 DEF promotionVars
  <1> QED BY <1>2, <1>3, <1>4, PromoterStep DEF PromotionNext

(* ExactPaperTargetReader takes up nothing that nobody approved in time, although it looks at
   the target alone and a promoter may die between the two publications. *)
THEOREM ApprovalTheorem == PromotionSpec => []ExecutedTargetsWereApproved
  <1>1. PromotionInv => ExecutedTargetsWereApproved
    BY DEF PromotionInv, ExecutedTargetsWereApproved, Examined, ApprovedInTime
  <1> QED BY PromotionInitial, PromotionStep, <1>1, PTL DEF PromotionSpec

---------------------------------------------------------------------------
(* Why comparing each draft with the one before is enough (readiness/intake.py): to have no
   regression is transitive, and an improvement that is made in one step is still there
   after steps without a regression.  NothingLostInSteps then follows by adding one draft
   at a time; it needs in addition that people who edit the file leave its answers and its
   date alone, or else make a draft of other answers, which is checked like any other. *)

Drafts == {Draft(a, g) : a \in Questionnaires, g \in Dates}

NoRegression(p, c) ==
    /\ DOMAIN p.evidence \subseteq DOMAIN c.evidence
    /\ \A id \in DOMAIN p.evidence : Critical(p.evidence[id]) = Critical(c.evidence[id])
    /\ \A q \in Questions : Approved(p, q) => Approved(c, q)
    /\ \A m \in Metrics : ~CoverageRegressed(p.metrics[m], c.metrics[m])
    /\ Expired(c) \subseteq Expired(p)

LEMMA DraftShape ==
    ASSUME NEW d \in Drafts
    PROVE  /\ DOMAIN d.evidence \subseteq EvidenceIds
           /\ \A m \in Metrics : d.metrics[m] \in Nat \cup {UNKNOWN}
           /\ d.answers \in Questionnaires /\ d.generated \in Dates
           /\ d = Draft(d.answers, d.generated)
  <1>1. PICK a \in Questionnaires, g \in Dates : d = Draft(a, g)
    BY DEF Drafts
  <1>2. d.evidence = Register(a) /\ d.metrics = a.coverage /\ d.answers = a /\ d.generated = g
    BY <1>1 DEF Draft
  <1>3. DOMAIN d.evidence = Ids(a)
    BY <1>2 DEF Register
  <1>4. Ids(a) \subseteq EvidenceIds
    BY IntakeAssumption DEF Ids
  <1> QED BY <1>1, <1>2, <1>3, <1>4, IntakeAssumption

LEMMA RegressionsAreRegressions ==
    ASSUME NEW p, NEW c
    PROVE  Regressions(p, c) = {} <=> NoRegression(p, c)
  <1> DEFINE removed == DOMAIN p.evidence \ DOMAIN c.evidence
             changed == {x \in DOMAIN p.evidence \cap DOMAIN c.evidence :
                            Critical(p.evidence[x]) # Critical(c.evidence[x])}
             refused == {x \in Questions : Approved(p, x) /\ ~Approved(c, x)}
             lowered == {x \in Metrics : CoverageRegressed(p.metrics[x], c.metrics[x])}
             expired == NewlyExpired(p, c)
  <1>1. Regressions(p, c) = {} <=>
            /\ {<<"evidence_removed", id>> : id \in removed} = {}
            /\ {<<"critical_evidence_changed", id>> : id \in changed} = {}
            /\ {<<"decision_regression", q>> : q \in refused} = {}
            /\ {<<"coverage_regression", m>> : m \in lowered} = {}
            /\ {<<"evidence_expired", id>> : id \in expired} = {}
    <2> DEFINE A == {<<"evidence_removed", id>> : id \in removed}
               B == {<<"critical_evidence_changed", id>> : id \in changed}
               C == {<<"decision_regression", q>> : q \in refused}
               D == {<<"coverage_regression", m>> : m \in lowered}
               E == {<<"evidence_expired", id>> : id \in expired}
    <2>1. Regressions(p, c) = A \cup B \cup C \cup D \cup E
      BY Zenon DEF Regressions
    <2> HIDE DEF A, B, C, D, E
    <2>2. A \cup B \cup C \cup D \cup E = {} <=> A = {} /\ B = {} /\ C = {} /\ D = {} /\ E = {}
      OBVIOUS
    <2>3. Regressions(p, c) = {} <=> A = {} /\ B = {} /\ C = {} /\ D = {} /\ E = {}
      BY <2>1, <2>2
    <2> QED BY <2>3 DEF A, B, C, D, E
  <1>2. \A S, k : {<<k, x>> : x \in S} = {} <=> S = {}
    OBVIOUS
  <1>3. Regressions(p, c) = {} <=>
            removed = {} /\ changed = {} /\ refused = {} /\ lowered = {} /\ expired = {}
    <2> HIDE DEF removed, changed, refused, lowered, expired
    <2> QED BY <1>1, <1>2, Zenon
  <1>4. removed = {} <=> DOMAIN p.evidence \subseteq DOMAIN c.evidence
    OBVIOUS
  <1>5. removed = {} => (changed = {} <=> \A id \in DOMAIN p.evidence :
                                Critical(p.evidence[id]) = Critical(c.evidence[id]))
    OBVIOUS
  <1>6. refused = {} <=> \A q \in Questions : Approved(p, q) => Approved(c, q)
    OBVIOUS
  <1>7. lowered = {} <=> \A m \in Metrics : ~CoverageRegressed(p.metrics[m], c.metrics[m])
    OBVIOUS
  <1>8. expired = {} <=> Expired(c) \subseteq Expired(p)
    BY DEF NewlyExpired
  <1> HIDE DEF removed, changed, refused, lowered, expired
  <1> QED BY <1>3, <1>4, <1>5, <1>6, <1>7, <1>8, Zenon DEF NoRegression

LEMMA NoRegressionTransitive ==
    ASSUME NEW p \in Drafts, NEW q \in Drafts, NEW r \in Drafts,
           NoRegression(p, q), NoRegression(q, r)
    PROVE  NoRegression(p, r)
  <1>1. DOMAIN p.evidence \subseteq DOMAIN r.evidence
    BY DEF NoRegression
  <1>2. \A id \in DOMAIN p.evidence : Critical(p.evidence[id]) = Critical(r.evidence[id])
    BY DEF NoRegression
  <1>3. \A x \in Questions : Approved(p, x) => Approved(r, x)
    BY DEF NoRegression
  <1>4. ASSUME NEW m \in Metrics PROVE ~CoverageRegressed(p.metrics[m], r.metrics[m])
    <2>1. /\ ~CoverageRegressed(p.metrics[m], q.metrics[m])
          /\ ~CoverageRegressed(q.metrics[m], r.metrics[m])
      BY DEF NoRegression
    <2>2. /\ p.metrics[m] \in Nat \cup {UNKNOWN} /\ q.metrics[m] \in Nat \cup {UNKNOWN}
          /\ r.metrics[m] \in Nat \cup {UNKNOWN}
      BY DraftShape
    <2> QED BY <2>1, <2>2, IntakeAssumption DEF CoverageRegressed
  <1>5. Expired(r) \subseteq Expired(p)
    BY DEF NoRegression
  <1> QED BY <1>1, <1>2, <1>3, <1>4, <1>5 DEF NoRegression

(* Without a regression the register has not become smaller, so that only a positive change
   is asked for. *)
LEMMA ImprovementIsPositive ==
    ASSUME NEW p \in Drafts, NEW c \in Drafts, NoRegression(p, c)
    PROVE  MayImprove(p, c) <=> PositiveChange(p, c)
  <1>1. IsFiniteSet(DOMAIN c.evidence)
    BY DraftShape, FS_Subset, IntakeAssumption
  <1>2. DOMAIN p.evidence \subseteq DOMAIN c.evidence
    BY DEF NoRegression
  <1>3. /\ Cardinality(DOMAIN p.evidence) <= Cardinality(DOMAIN c.evidence)
        /\ IsFiniteSet(DOMAIN p.evidence)
    BY <1>1, <1>2, FS_Subset
  <1>4. /\ Cardinality(DOMAIN p.evidence) \in Nat /\ Cardinality(DOMAIN c.evidence) \in Nat
    BY <1>1, <1>3, FS_CardinalityType
  <1>5. Cardinality(DOMAIN c.evidence) >= Cardinality(DOMAIN p.evidence)
    BY <1>3, <1>4
  <1>6. Regressions(p, c) = {}
    BY RegressionsAreRegressions
  <1> QED BY <1>5, <1>6 DEF MayImprove

(* What a step improves stays improved, and what has improved over two steps has improved in
   one of them. *)
LEMMA ImprovementsAdd ==
    ASSUME NEW p \in Drafts, NEW q \in Drafts, NEW r \in Drafts,
           NoRegression(p, q), NoRegression(q, r)
    PROVE  MayImprove(p, r) <=> MayImprove(p, q) \/ MayImprove(q, r)
  <1>1. NoRegression(p, r)
    BY NoRegressionTransitive
  <1>2. /\ DOMAIN p.evidence \subseteq DOMAIN q.evidence
        /\ DOMAIN q.evidence \subseteq DOMAIN r.evidence
    BY DEF NoRegression
  <1>3. \A x \in Questions : /\ Approved(p, x) => Approved(q, x)
                             /\ Approved(q, x) => Approved(r, x)
    BY DEF NoRegression
  <1>4. PositiveChange(p, r) <=> PositiveChange(p, q) \/ PositiveChange(q, r)
    BY <1>2, <1>3 DEF PositiveChange
  <1> QED BY <1>1, <1>4, ImprovementIsPositive

-----------------------------------------------------------------------------
(* The file on the desk is a draft of something, whatever has been done to it. *)
OutputOK ==
    output # NoDraft =>
        /\ {"answers", "generated"} \subseteq DOMAIN output
        /\ output.answers \in Questionnaires /\ output.generated \in Dates

IntakeInv == kept \in Seq(Drafts) /\ OutputOK /\ NothingLostInSteps

LEMMA IntakeInitial == IntakeInit => IntakeInv
  <1> SUFFICES ASSUME IntakeInit PROVE IntakeInv
    OBVIOUS
  <1>1. kept = <<>> /\ output = NoDraft
    BY DEF IntakeInit
  <1>2. kept \in Seq(Drafts) /\ DOMAIN kept = {}
    BY <1>1
  <1>3. NothingLostInSteps
    BY <1>2 DEF NothingLostInSteps
  <1> QED BY <1>1, <1>2, <1>3 DEF IntakeInv, OutputOK

(* Adding a draft that shows no regression against the last one. *)
LEMMA DraftKept ==
    ASSUME IntakeInv, KeepDraft
    PROVE  IntakeInv'
  <1> DEFINE n == Len(kept)
  <1>1. kept \in Seq(Drafts) /\ n \in Nat /\ DOMAIN kept = 1..n
    BY DEF IntakeInv
  <1>2. output \in Drafts
    <2>1. output = Draft(output.answers, output.generated)
      BY DEF KeepDraft, Loadable
    <2>2. output.answers \in Questionnaires /\ output.generated \in Dates
      BY DEF IntakeInv, OutputOK, KeepDraft
    <2> QED BY <2>1, <2>2 DEF Drafts
  <1>3. /\ kept' \in Seq(Drafts) /\ DOMAIN kept' = 1..(n + 1)
        /\ \A k \in 1..n : kept'[k] = kept[k] /\ kept[k] \in Drafts
        /\ kept'[n + 1] = output
    BY <1>1, <1>2 DEF KeepDraft
  <1>4. OutputOK'
    BY DEF KeepDraft, OutputOK
  <1> DEFINE Improves(k) == MayImprove(kept'[k], kept'[k + 1])
  <1>5. ASSUME NEW i \in 1..n, NEW j \in 1..n, i < j
        PROVE  /\ Regressions(kept'[i], kept'[j]) = {}
               /\ MayImprove(kept'[i], kept'[j]) <=> \E k \in i..(j - 1) : Improves(k)
    <2>0. NothingLostInSteps /\ i \in DOMAIN kept /\ j \in DOMAIN kept
      BY <1>1 DEF IntakeInv
    <2>1. /\ Regressions(kept[i], kept[j]) = {}
          /\ MayImprove(kept[i], kept[j])
               <=> \E k \in i..(j - 1) : MayImprove(kept[k], kept[k + 1])
      BY <1>5, <2>0 DEF NothingLostInSteps
    <2>2. \A k \in i..(j - 1) : k \in 1..n /\ k + 1 \in 1..n
      BY <1>1, <1>5
    <2> QED BY <1>3, <2>1, <2>2
  <1>6. ASSUME NEW i \in 1..n
        PROVE  /\ Regressions(kept'[i], kept'[n + 1]) = {}
               /\ MayImprove(kept'[i], kept'[n + 1]) <=> \E k \in i..n : Improves(k)
    <2>1. n \in 1..n /\ kept # <<>>
      BY <1>1, <1>6
    <2>2. Regressions(kept[n], output) = {}
      BY <2>1 DEF KeepDraft
    <2>3. NoRegression(kept[n], output)
      BY <2>2, RegressionsAreRegressions
    <2>4. kept'[n] = kept[n] /\ kept[n] \in Drafts
      BY <1>3, <2>1
    <2>5. Improves(n) <=> MayImprove(kept[n], output)
      BY <1>3, <2>4
    <2>6. CASE i = n
      <3>1. Regressions(kept'[i], kept'[n + 1]) = {}
        BY <1>3, <2>2, <2>4, <2>6
      <3>2. i..n = {n}
        BY <1>1, <2>6
      <3>3. MayImprove(kept'[i], kept'[n + 1]) <=> Improves(n)
        BY <2>6
      <3> HIDE DEF Improves
      <3> QED BY <3>1, <3>2, <3>3
    <2>7. CASE i < n
      <3>1. /\ Regressions(kept[i], kept[n]) = {}
            /\ MayImprove(kept'[i], kept'[n]) <=> \E k \in i..(n - 1) : Improves(k)
        BY <1>3, <1>5, <2>1, <2>7
      <3>2. NoRegression(kept[i], kept[n])
        BY <3>1, RegressionsAreRegressions
      <3>3. kept'[i] = kept[i] /\ kept[i] \in Drafts
        BY <1>3
      <3>4. NoRegression(kept[i], output)
        BY <1>2, <2>3, <2>4, <3>2, <3>3, NoRegressionTransitive
      <3>5. Regressions(kept'[i], kept'[n + 1]) = {}
        BY <1>3, <3>3, <3>4, RegressionsAreRegressions
      <3>6. MayImprove(kept[i], output)
              <=> MayImprove(kept[i], kept[n]) \/ MayImprove(kept[n], output)
        BY <1>2, <2>3, <2>4, <3>2, <3>3, ImprovementsAdd
      <3>7. MayImprove(kept'[i], kept'[n + 1])
              <=> (\E k \in i..(n - 1) : Improves(k)) \/ Improves(n)
        <4> HIDE DEF Improves
        <4> QED BY <1>3, <2>4, <2>5, <3>1, <3>3, <3>6
      <3>8. i..n = (i..(n - 1)) \cup {n}
        BY <1>1, <2>7
      <3> HIDE DEF Improves
      <3> QED BY <3>5, <3>7, <3>8
    <2>8. i = n \/ i < n
      <3>1. i \in 1..n /\ n \in Nat
        BY <1>1
      <3> HIDE DEF n, Improves
      <3> QED BY <3>1
    <2> HIDE DEF Improves
    <2> QED BY <2>6, <2>7, <2>8
  <1>7. \A k \in DOMAIN kept' : kept'[k] = Draft(kept'[k].answers, kept'[k].generated)
    <2> SUFFICES ASSUME NEW k \in DOMAIN kept' PROVE kept'[k] \in Drafts
      BY DraftShape
    <2> QED BY <1>2, <1>3
  <1>8. ASSUME NEW i \in DOMAIN kept', NEW j \in DOMAIN kept', i < j
        PROVE  /\ Regressions(kept'[i], kept'[j]) = {}
               /\ MayImprove(kept'[i], kept'[j]) <=> \E k \in i..(j - 1) : Improves(k)
    <2>1. i \in 1..n /\ (j \in 1..n \/ j = n + 1)
      BY <1>1, <1>3, <1>8
    <2>2. CASE j \in 1..n
      BY <1>5, <1>8, <2>1, <2>2
    <2>3. CASE j = n + 1
      <3>1. j - 1 = n
        BY <1>1, <2>3
      <3> HIDE DEF Improves
      <3> QED BY <1>6, <2>1, <2>3, <3>1
    <2> QED BY <2>1, <2>2, <2>3
  <1>9. NothingLostInSteps'
    BY <1>7, <1>8 DEF NothingLostInSteps
  <1> QED BY <1>3, <1>4, <1>9 DEF IntakeInv

LEMMA IntakeStep == IntakeInv /\ [IntakeNext]_intakeVars => IntakeInv'
  <1> SUFFICES ASSUME IntakeInv, [IntakeNext]_intakeVars PROVE IntakeInv'
    OBVIOUS
  <1>1. ASSUME UNCHANGED kept, OutputOK' PROVE IntakeInv'
    BY <1>1 DEF IntakeInv, NothingLostInSteps
  <1>2. CASE \E a \in Questionnaires, g \in Dates : CreateDraft(a, g)
    <2>1. PICK a \in Questionnaires, g \in Dates : CreateDraft(a, g)
      BY <1>2
    <2>2. output' = Draft(a, g) /\ UNCHANGED kept
      BY <2>1 DEF CreateDraft
    <2>3. OutputOK'
      BY <2>2 DEF OutputOK, Draft
    <2> QED BY <1>1, <2>2, <2>3
  <1>3. CASE GiveWay
    BY <1>1, <1>3 DEF GiveWay, OutputOK
  <1>4. CASE EditByHand
    <2>1. /\ output # NoDraft /\ UNCHANGED kept
          /\ {"answers", "generated"} \subseteq DOMAIN output
          /\ output.answers \in Questionnaires /\ output.generated \in Dates
      BY <1>4 DEF EditByHand, IntakeInv, OutputOK
    <2>2. DOMAIN output' = DOMAIN output /\ output'.answers = output.answers
            /\ output'.generated = output.generated
      BY <1>4, <2>1 DEF EditByHand
    <2>3. OutputOK'
      BY <2>1, <2>2 DEF OutputOK
    <2> QED BY <1>1, <2>1, <2>3
  <1>5. CASE KeepDraft
    BY <1>5, DraftKept
  <1>6. CASE UNCHANGED intakeVars
    BY <1>1, <1>6 DEF intakeVars, OutputOK, IntakeInv
  <1> QED BY <1>2, <1>3, <1>4, <1>5, <1>6 DEF IntakeNext

(* However many drafts are kept one after the other (kept, each compared with the last one by
   compare_production_readiness), the last has lost nothing that any of them had. *)
THEOREM NothingLostTheorem == IntakeSpec => []NothingLostInSteps
  <1>1. IntakeInv => NothingLostInSteps
    BY DEF IntakeInv
  <1> QED BY <1>1, IntakeInitial, IntakeStep, PTL DEF IntakeSpec

---------------------------------------------------------------------------
(* Why an admitted pack is supported (readiness/admission.py): the verdict belongs to the
   pack that is there, and the gates together leave no reference that they look up without a
   document that the evidence gate has let through. *)

WellFormedPack(p) ==
    /\ DOMAIN p = SectionNames
    /\ \A section \in SectionNames : WellFormed(section, p[section])

AdmissionInv ==
    /\ WellFormedPack(pack)
    /\ verdict = "admitted" => Admitted(pack)

LEMMA PackTypes ==
    ASSUME NEW p, WellFormedPack(p)
    PROVE  /\ p.asOf \in Nat /\ AsOf(p) \in Nat
           /\ p.scope \in {"synthetic_offline", "production_candidate"}
           /\ p.synthetic \in BOOLEAN
           /\ \A k \in DOMAIN p.evidence :
                /\ p.evidence[k].reviewed \in Nat /\ p.evidence[k].expires \in Nat
                /\ p.evidence[k].kind \in {"official", "contract", "synthetic"}
           /\ \A d \in DOMAIN p.provider.decisions :
                /\ p.provider.decisions[d].reviewed \in Nat
                /\ p.provider.decisions[d].expires \in Nat
           /\ p.security.approvalExpires \in Nat
           /\ \A decision \in {p.security.secretBackend, p.security.rotation} :
                decision.reviewed \in Nat /\ decision.expires \in Nat
  <1>1. p.asOf \in Nat
    BY DEF WellFormedPack, WellFormed, SectionNames
  <1>2. AsOf(p) \in Nat
    BY <1>1 DEF AsOf
  <1>3. WellFormed("scope", p.scope) /\ WellFormed("synthetic", p.synthetic)
    BY DEF WellFormedPack, SectionNames
  <1>4. WellFormed("evidence", p.evidence) /\ WellFormed("provider", p.provider)
    BY DEF WellFormedPack, SectionNames
  <1>5. WellFormed("security", p.security)
    BY DEF WellFormedPack, SectionNames
  <1> QED BY <1>1, <1>2, <1>3, <1>4, <1>5, Zenon DEF WellFormed

(* A document of an admitted pack stands for its identity. *)
LEMMA DocumentsStand ==
    ASSUME NEW p, WellFormedPack(p), EvidenceGate(p), NEW k \in DOMAIN p.evidence
    PROVE  Stands(p, p.evidence[k].id)
  <1>1. \A j \in DOMAIN p.evidence : p.evidence[j].id = p.evidence[k].id <=> j = k
    <2>1. NoDuplicates([j \in DOMAIN p.evidence |-> p.evidence[j].id])
      BY DEF EvidenceGate
    <2> QED BY <2>1 DEF NoDuplicates
  <1>2. DocumentPasses(p, p.evidence[k])
    BY DEF EvidenceGate
  <1>3. /\ p.evidence[k].owner \in KnownOwners(p) /\ p.evidence[k].intact
        /\ AsOf(p) \in p.evidence[k].reviewed..p.evidence[k].expires
    BY <1>2, PackTypes DEF DocumentPasses
  <1>4. p.synthetic \/ p.evidence[k].kind \in {"official", "contract"}
    BY <1>2, PackTypes DEF DocumentPasses, EvidenceGate
  <1> QED BY <1>1, <1>3, <1>4 DEF Stands

LEMMA ReferencesStand ==
    ASSUME NEW p, WellFormedPack(p), EvidenceGate(p), NEW ids, Supported(p, ids)
    PROVE  ids # {} /\ \A id \in ids : Stands(p, id)
  <1> SUFFICES ASSUME NEW id \in ids PROVE Stands(p, id)
    BY DEF Supported
  <1>1. PICK k \in DOMAIN p.evidence : p.evidence[k].id = id
    BY DEF Supported, KnownEvidence
  <1> QED BY <1>1, DocumentsStand

LEMMA DecisionsPass ==
    ASSUME NEW p, Admitted(p), NEW decision \in Decisions(p)
    PROVE  DecisionPasses(p, decision)
BY DEF Decisions, Admitted, SecurityGate, ProviderGate

LEMMA GatesSupport ==
    ASSUME NEW p, WellFormedPack(p), Admitted(p), NEW ids \in LookedUp(p)
    PROVE  ids # {} /\ \A id \in ids : Stands(p, id)
  <1>1. Supported(p, ids)
    <2>1. Supported(p, p.provider.evidence)
      BY DEF Admitted, ProviderGate
    <2>2. Supported(p, p.reconciliation.evidence)
      BY DEF Admitted, ReconciliationGate
    <2>3. Supported(p, p.security.evidence)
      BY DEF Admitted, SecurityGate
    <2>4. \A dataset \in p.provider.datasets : Supported(p, dataset.evidence)
      BY DEF Admitted, ProviderGate, DatasetPasses
    <2>5. \A decision \in Decisions(p) : Supported(p, decision.evidence)
      BY DecisionsPass DEF DecisionPasses
    <2> QED BY <2>1, <2>2, <2>3, <2>4, <2>5 DEF LookedUp
  <1> QED BY <1>1, ReferencesStand DEF Admitted

LEMMA BlockersBacked ==
    ASSUME NEW p, WellFormedPack(p), Admitted(p), NEW b \in RequiredBrokerBlockers
    PROVE  \E k \in DOMAIN p.evidence :
            /\ p.evidence[k].kind = "official" /\ Stands(p, p.evidence[k].id)
            /\ \E j \in DOMAIN p.broker :
                /\ p.broker[j].blocker = b /\ p.broker[j].unknownStated
                /\ p.evidence[k].id \in p.broker[j].evidence
  <1>1. PICK j \in DOMAIN p.broker :
            /\ LastItem(p, b, j) /\ p.broker[j].unknownStated
            /\ OfficialEvidence(p, p.broker[j].evidence) # {}
    BY DEF Admitted, BrokerGate
  <1>2. PICK k \in DOMAIN p.evidence :
            p.evidence[k].id \in p.broker[j].evidence /\ p.evidence[k].kind = "official"
    BY <1>1 DEF OfficialEvidence
  <1>3. Stands(p, p.evidence[k].id)
    BY DocumentsStand DEF Admitted
  <1> QED BY <1>1, <1>2, <1>3 DEF LastItem

LEMMA AdmissionInitial == AdmissionInit => AdmissionInv
  BY AdmissionAssumption DEF AdmissionInit, AdmissionInv, WellFormedPack

LEMMA AdmissionStep == AdmissionInv /\ [AdmissionNext]_admissionVars => AdmissionInv'
  <1> SUFFICES ASSUME AdmissionInv, [AdmissionNext]_admissionVars PROVE AdmissionInv'
    OBVIOUS
  <1>1. CASE Evaluate
    BY <1>1 DEF Evaluate, AdmissionInv
  <1>2. CASE \E section \in DOMAIN Forms : Revise(section)
    <2>1. PICK section \in DOMAIN Forms : Revise(section)
      BY <1>2
    <2>2. PICK form \in Forms[section] : pack' = [pack EXCEPT ![section] = form]
      BY <2>1 DEF Revise
    <2>3. section \in SectionNames /\ WellFormed(section, form)
      BY <2>2, AdmissionAssumption
    <2>4. DOMAIN pack' = SectionNames
      BY <2>2 DEF AdmissionInv, WellFormedPack
    <2>5. \A s \in SectionNames : WellFormed(s, pack'[s])
      BY <2>2, <2>3 DEF AdmissionInv, WellFormedPack
    <2>6. verdict' # "admitted"
      BY <2>1 DEF Revise
    <2> QED BY <2>4, <2>5, <2>6 DEF AdmissionInv, WellFormedPack
  <1>3. CASE UNCHANGED admissionVars
    BY <1>3 DEF admissionVars, AdmissionInv
  <1> QED BY <1>1, <1>2, <1>3 DEF AdmissionNext

(* Whatever sections are revised between evaluations (evaluate_readiness_pack): what the gates
   look up of an admitted pack stands on its own date, each broker blocker has an official
   document that does, and two people approved it.  Restore drills and what else a broker
   blocker refers to are not looked up, and nothing is said of them. *)
THEOREM AdmissionTheorem == AdmissionSpec => []AdmittedMeansSupported
  <1>1. ASSUME AdmissionInv PROVE AdmittedMeansSupported
    <2> SUFFICES ASSUME verdict = "admitted" PROVE AdmittedMeansSupported
      BY DEF AdmittedMeansSupported
    <2>1. WellFormedPack(pack) /\ Admitted(pack)
      BY <1>1 DEF AdmissionInv
    <2>2. ASSUME NEW decision \in Decisions(pack)
          PROVE  /\ decision.status = "approved"
                 /\ AsOf(pack) \in decision.reviewed..decision.expires
      <3>1. DecisionPasses(pack, decision)
        BY <2>1, DecisionsPass
      <3>2. AsOf(pack) \in Nat /\ decision.reviewed \in Nat /\ decision.expires \in Nat
        BY <2>1, PackTypes DEF Decisions
      <3> QED BY <3>1, <3>2 DEF DecisionPasses
    <2>3. /\ pack.security.requestedBy # pack.security.approvedBy
          /\ ~(pack.security.approvalExpires <= pack.asOf)
      BY <2>1, PackTypes DEF Admitted, SecurityGate, TwoStepApproval
    <2>4. \A ids \in LookedUp(pack) : ids # {} /\ \A id \in ids : Stands(pack, id)
      BY <2>1, GatesSupport
    <2>5. \A b \in RequiredBrokerBlockers :
            \E k \in DOMAIN pack.evidence :
                /\ pack.evidence[k].kind = "official" /\ Stands(pack, pack.evidence[k].id)
                /\ \E j \in DOMAIN pack.broker :
                    /\ pack.broker[j].blocker = b /\ pack.broker[j].unknownStated
                    /\ pack.evidence[k].id \in pack.broker[j].evidence
      BY <2>1, BlockersBacked
    <2> QED BY <2>2, <2>3, <2>4, <2>5, Zenon DEF AdmittedMeansSupported
  <1> QED BY <1>1, AdmissionInitial, AdmissionStep, PTL DEF AdmissionSpec
=============================================================================
