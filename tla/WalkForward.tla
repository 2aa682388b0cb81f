------------------------------ MODULE WalkForward ------------------------------
(* Walk-forward experiments over the samples: the splitter (ml/splitting.py), the fold
   loop (ml/experiment.py) and the ledger of out-of-sample predictions (ml/evaluation.py),
   as the ml-experiment command runs them (cli.py).

   A model is the training samples it was fitted on: what is learned depends on nothing
   else, and which candidate the validation scores select changes no date. *)
EXTENDS SamplePanel, Sequences

CONSTANT SplitConfigs   \* records of the WalkForwardConfig fields

ASSUME SplitAssumption ==
    \A c \in SplitConfigs :
        /\ c.method \in {"expanding", "rolling"}
        /\ {c.train, c.validation, c.test, c.step} \subseteq Nat \ {0}
        /\ {c.embargo, c.holdout} \subseteq Nat
        /\ c.step >= c.validation + c.test

VARIABLES
    config,     \* the WalkForwardConfig of the experiment
    trainEnd,   \* train_end_index of the loop
    folds,      \* the folds split off so far
    trained,    \* how many folds the runner has been through
    rows,       \* the prediction rows collected
    ledger,     \* the rows of the saved experiment
    experiment  \* what the command is doing

learningVars ==
    <<panelVars, config, trainEnd, folds, trained, rows, ledger, experiment>>

-----------------------------------------------------------------------------
(* The sessions of the splitter.  The ingested calendar has no status column, so the
   command rebuilds it with a row for every day from the first trading day to the last,
   and takes the days of all its rows. *)
CalendarRows == Min(trading)..Max(trading)

DevelopmentSessions ==
    LET count == Min({config.holdout, Cardinality(CalendarRows)})
    IN  CalendarRows \ LastOf(CalendarRows, count)

(* The days at the positions from..to-1 of the development sessions. *)
Positions(from, to) ==
    LET sessions == DevelopmentSessions
    IN  {d \in sessions : Cardinality({e \in sessions : e < d}) \in from..(to - 1)}

ValidationStart == trainEnd + config.embargo
TestStart == ValidationStart + config.validation
TestEnd == TestStart + config.test

TrainStart == IF config.method = "expanding" THEN 0 ELSE trainEnd - config.train

ValidOn(days) == {s \in samples : s.valid /\ s.day \in days}

(* Mutant: intervals that only touch do not overlap. *)
OverlapsInside(train, evaluation) ==
    train.start < evaluation.end /\ train.end > evaluation.start

(* Two closed label intervals share an instant. *)
Overlaps(train, evaluation) ==
    train.start <= evaluation.end /\ train.end >= evaluation.start

Purged(train, evaluation) ==
    {s \in train : \A e \in evaluation : ~Overlaps(s, e)}

NextFold ==
    LET validation == ValidOn(Positions(ValidationStart, TestStart))
        test == ValidOn(Positions(TestStart, TestEnd))
        evaluation == validation \cup test
    IN  [train |-> Purged(ValidOn(Positions(TrainStart, trainEnd)), evaluation),
         validation |-> validation, test |-> test,
         trainDays |-> Positions(TrainStart, trainEnd),
         validationDays |-> Positions(ValidationStart, TestStart)]

StartSplit ==
    /\ panelStage = "done" /\ experiment = "idle"
    /\ config' \in SplitConfigs
    /\ trainEnd' = config'.train
    /\ experiment' = "splitting"
    /\ UNCHANGED <<panelVars, folds, trained, rows, ledger>>

SplitFold ==
    /\ experiment = "splitting" /\ TestEnd <= Cardinality(DevelopmentSessions)
    /\ LET fold == NextFold
       IN  fold.train # {} /\ folds' = Append(folds, fold)
    /\ trainEnd' = trainEnd + config.step
    /\ UNCHANGED <<panelVars, config, trained, rows, ledger, experiment>>

(* No training sample is left, so there is no fit cutoff. *)
SplitRaises ==
    /\ experiment = "splitting" /\ TestEnd <= Cardinality(DevelopmentSessions)
    /\ NextFold.train = {}
    /\ experiment' = "failed"
    /\ UNCHANGED <<panelVars, config, trainEnd, folds, trained, rows, ledger>>

SplitEnds ==
    /\ experiment = "splitting" /\ TestEnd > Cardinality(DevelopmentSessions)
    /\ experiment' = IF folds = <<>> THEN "failed" ELSE "training"
    /\ UNCHANGED <<panelVars, config, trainEnd, folds, trained, rows, ledger>>

-----------------------------------------------------------------------------
(* The runner. *)
fit_cutoff(fold) == Max({decision_time(s.day) : s \in fold.train})

PredictionRows(k, set, role) ==
    {[instrument |-> s.instrument, day |-> s.day, fold |-> k, role |-> role,
      cutoff |-> fit_cutoff(folds[k])] : s \in set}

(* The two ledgers of a fold are built for its metrics, and an empty one is refused. *)
RunFold ==
    /\ experiment = "training" /\ trained < Len(folds)
    /\ LET k == trained + 1
       IN  /\ folds[k].validation # {} /\ folds[k].test # {}
           /\ rows' = rows \cup PredictionRows(k, folds[k].validation, "validation")
                           \cup PredictionRows(k, folds[k].test, "test")
    /\ trained' = trained + 1
    /\ UNCHANGED <<panelVars, config, trainEnd, folds, ledger, experiment>>

FoldFails ==
    /\ experiment = "training" /\ trained < Len(folds)
    /\ {} \in {folds[trained + 1].validation, folds[trained + 1].test}
    /\ experiment' = "failed"
    /\ UNCHANGED <<panelVars, config, trainEnd, folds, trained, rows, ledger>>

(* No two rows of the ledger predict one instrument at one decision. *)
OneOwner(set) ==
    \A r, q \in set : <<r.instrument, r.day>> = <<q.instrument, q.day>> => r = q

SaveExperiment ==
    /\ experiment = "training" /\ trained = Len(folds)
    /\ IF OneOwner(rows)
         THEN ledger' = rows /\ experiment' = "saved"
         ELSE ledger' = ledger /\ experiment' = "failed"
    /\ UNCHANGED <<panelVars, config, trainEnd, folds, trained, rows>>

-----------------------------------------------------------------------------
LearningInit ==
    /\ PanelInit
    /\ config \in SplitConfigs /\ config = CHOOSE c \in SplitConfigs : TRUE
    /\ trainEnd = 0 /\ folds = <<>> /\ trained = 0
    /\ rows = {} /\ ledger = {} /\ experiment = "idle"

ExperimentNext ==
    StartSplit \/ SplitFold \/ SplitRaises \/ SplitEnds \/ RunFold \/ FoldFails \/ SaveExperiment

BuildNext == PanelNext /\ UNCHANGED <<config, trainEnd, folds, trained, rows, ledger, experiment>>

LearningNext == BuildNext \/ ExperimentNext

LearningSpec == LearningInit /\ [][LearningNext]_learningVars

-----------------------------------------------------------------------------
(* The samples a ledger row's model was fitted on. *)
TrainedOn(row) == folds[row.fold].train

FeatureDays(row) == UNION {Window(row.day, lookback) : lookback \in Lookbacks}

(* Nothing a saved prediction rests on was still to come when it was made: the outcome of
   every sample its model was trained on had been decided (for any instrument, over
   closed days, whatever the horizon and the embargo), the bars its features read had
   been published, and no day of the holdout was predicted or trained on. *)
NoLookahead ==
    \A row \in ledger :
        /\ row.cutoff < decision_time(row.day)
        /\ \A s \in TrainedOn(row) : s.end < decision_time(row.day)
        /\ \A e \in FeatureDays(row) :
             /\ Bar(row.instrument, e) # "missing"
             /\ available_at(row.instrument, e) <= decision_time(row.day)
        /\ row.day \in DevelopmentSessions
        /\ \A s \in TrainedOn(row) : s.day \in DevelopmentSessions

(* Between the training days of a fold and its validation days, as many trading sessions
   are left out as the embargo says. *)
EmbargoCountsTradingSessions ==
    \A k \in DOMAIN folds :
        Cardinality({e \in trading : /\ e > Max(folds[k].trainDays)
                                     /\ e < Min(folds[k].validationDays)}) >= config.embargo
=============================================================================
