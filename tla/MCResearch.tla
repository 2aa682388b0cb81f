------------------------------ MODULE MCResearch ------------------------------
(* Everything that works on files outside the trading day, one part at a time: a behaviour
   publishes artifacts, runs the pipeline, ingests, runs an experiment, promotes targets,
   takes in evidence or evaluates readiness packs.  The parts share no file, so nothing is
   lost by looking at each alone; what they share is the run. *)
EXTENDS ArtifactStore, ResearchPipeline, Ingestion, WalkForward, TargetPromotion,
        EvidenceIntake, MCAdmission

VARIABLE part

(* What the parts without an experiment or a pack keep in its variables. *)
NoPack == pack = <<>> /\ revisions = 0 /\ verdict = "not_evaluated"

NoExperiment ==
    /\ trading = {} /\ bars = <<>> /\ spec = None /\ config = None
    /\ universe = {} /\ features = {} /\ labels = {} /\ samples = {}
    /\ panelStage = "none" /\ experiment = "none"
    /\ trainEnd = 0 /\ folds = <<>> /\ trained = 0 /\ rows = {} /\ ledger = {}

readinessVars == <<promotionVars, intakeVars, admissionVars>>

ResearchInit ==
    /\ part \in {"store", "pipeline", "ingestion", "learning",
                "promotion", "intake", "admission"}
    /\ StoreInit /\ PipelineInit /\ IngestionInit
    /\ PromotionInit /\ IntakeInit
    /\ IF part = "learning" THEN LearningInit ELSE NoExperiment
    /\ IF part = "admission" THEN AdmissionInit ELSE NoPack
    /\ part # "pipeline" => cache = 1

ResearchNext ==
    /\ UNCHANGED part
    /\ \/ part = "store" /\ StoreNext
            /\ UNCHANGED <<pipelineVars, ingestionVars, learningVars, readinessVars>>
       \/ part = "pipeline" /\ PipelineNext
            /\ UNCHANGED <<storeVars, ingestionVars, learningVars, readinessVars>>
       \/ part = "ingestion" /\ IngestionNext
            /\ UNCHANGED <<storeVars, pipelineVars, learningVars, readinessVars>>
       \/ part = "learning" /\ LearningNext
            /\ UNCHANGED <<storeVars, pipelineVars, ingestionVars, readinessVars>>
       \/ part = "promotion" /\ PromotionNext
            /\ UNCHANGED <<storeVars, pipelineVars, ingestionVars, learningVars,
                          intakeVars, admissionVars>>
       \/ part = "intake" /\ IntakeNext
            /\ UNCHANGED <<storeVars, pipelineVars, ingestionVars, learningVars,
                          promotionVars, admissionVars>>
       \/ part = "admission" /\ AdmissionNext
            /\ UNCHANGED <<storeVars, pipelineVars, ingestionVars, learningVars,
                          promotionVars, intakeVars>>

ResearchSpec ==
    ResearchInit
      /\ [][ResearchNext]_<<part, storeVars, pipelineVars, ingestionVars, learningVars,
                           readinessVars>>

(* Four of the ten stages: those that the reader of the predictions compares. *)
MCStages ==
    <<"normalized_market_data", "pit_universe",
      "selected_oos_predictions", "event_driven_backtest">>

MCSessionCount == 1 :> 12 @@ 2 :> 12 @@ 3 :> 11

(* Two jobs about one symbol whose days overlap. *)
MCJobs ==
    [day |-> [symbols |-> <<"2330">>, days |-> {1}],
     days |-> [symbols |-> <<"2330">>, days |-> {1, 2}]]

MCAnswers == "reference" :> {1} @@ "2330" :> {0, 1, Invalid}
(* Days 3 and 9 closed, or none.  The second share is listed later and
   leaves before the end. *)
MCCalendars == {(1..11) \ {3, 9}, 1..11}

MCListing == "a" :> 1 @@ "b" :> 3
MCDelisting == "a" :> 20 @@ "b" :> 10

MCLabelSpecs ==
    {[kind |-> "open_to_open", horizon |-> 1],
     [kind |-> "benchmark_relative", horizon |-> 2],
     [kind |-> "open_to_close", horizon |-> 1]}

MCSplitConfigs ==
    {[method |-> "expanding", train |-> 3, validation |-> 1, test |-> 1, step |-> 2,
      embargo |-> 1, holdout |-> 3],
     [method |-> "rolling", train |-> 4, validation |-> 1, test |-> 1, step |-> 2,
      embargo |-> 1, holdout |-> 1]}

(* One candidate that can be promoted on two instants before its session, and one that
   research has not declared eligible. *)
MCCandidate ==
    [wellFormed |-> TRUE, eligible |-> TRUE, lineageComplete |-> TRUE, created |-> 2,
     session |-> 2, decided |-> 1, available |-> 1]

MCCandidates == {MCCandidate,
                 [MCCandidate EXCEPT !.eligible = FALSE]}

MCRequests ==
    {[source |-> c, approvedAt |-> t, session |-> c.session, reviewed |-> x] :
        c \in MCCandidates, t \in 1..4, x \in BOOLEAN}

MCReads == [session : {2, 3}, asOf : {2, 4}]

(* A contract beside the official review of the broker; it can be retrieved again and is then
   another document with a later expiry. *)
MCItem(id, kind, source, expires) ==
    [id |-> id, owner |-> "o", kind |-> kind, source |-> source, retrieved |-> 1,
     reviewed |-> 1, expires |-> expires, documentVerified |-> TRUE, summaryVerified |-> TRUE]

MCDecision(answer, evidence) ==
    [status |-> answer, owner |-> "o", evidence |-> evidence, answered |-> answer # "unknown"]

MCAnswer(evidence, license, coverage) ==
    [classification |-> [f \in Parts |-> "production_candidate"],
     owner |-> [f \in Parts |-> "o"],
     evidence |-> <<MCItem("review", "official", 1, 9)>> \o evidence,
     unknown |-> {"history_start"}, support |-> {"review"},
     coverage |-> [m \in {"record", "field"} |-> IF m = "record" THEN coverage ELSE 100],
     decisions |-> [q \in {"storage", "rpo_rto"} |->
                      IF q = "storage" THEN MCDecision(license, {"review"})
                                       ELSE MCDecision("approved", {})],
     broker |-> <<[blocker |-> "session_token_expiry", owner |-> "o", evidence |-> {"review"}]>>]

MCEvidence ==
    {<<>>, <<MCItem("a", "contract", 1, 2)>>, <<MCItem("a", "contract", 2, 4)>>}

(* What the intake refuses. *)
MCRefused ==
    LET a == MCAnswer(<<>>, "approved", 100)
    IN {[a EXCEPT !.classification["broker"] = "synthetic_offline"],
        [a EXCEPT !.decisions["storage"].evidence = {"a"}],
        [a EXCEPT !.broker = @ \o @],
        MCAnswer(<<MCItem("a", "contract", 1, 2), MCItem("a", "contract", 2, 4)>>,
                 "approved", 100)}

MCQuestionnaires ==
    {MCAnswer(e, l, c) :
        e \in MCEvidence, l \in {"unknown", "approved"}, c \in {UNKNOWN, 90, 100}}
      \cup MCRefused

MCSymmetry ==
    Permutations(Publishers) \cup Permutations(Processes) \cup Permutations(Writers)
=============================================================================
