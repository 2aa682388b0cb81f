--------------------------- MODULE ResearchPipeline ---------------------------
(* The checkpointed research pipeline over the local cache (pipeline/exploratory.py,
   pipeline/orchestration.py) and the content-addressed stores it publishes into
   (pipeline/artifacts.py, backtest/artifacts.py).

   A version stands for the hash it is in the code: it is the record of everything that
   is hashed, so equal contents with equal lineage are one version.  A candidate
   directory is private to its publisher until the rename and is never read, so it is
   a local of the process.  There is one configuration, hence one checkpoint directory.
   Sessions count from zero, as the list of common days does. *)
EXTENDS Naturals, Sequences, FiniteSets

CONSTANTS
    Stages,         \* the stages of an instance: all of STAGES, or some, in their order
    Processes,      \* runRecords of the command that can be alive at once
    Contents,       \* what the cache files can hold; 0 is kept for "no bars"
    SessionCount,       \* the number of common sessions of each content
    Instruments,    \* how many instruments the configuration names
    MaxStarts, MaxRefreshes,
    MaxMishaps      \* runs killed and artifacts damaged, together

VARIABLES
    cache,          \* the content of the cache files
    disk,           \* version -> "whole" or "damaged", for what has been published
    checkpoints,    \* stage -> version, one file per stage
    runRecords,     \* the records in the pipeline_runs store
    processes,      \* what each run of the command is doing
    faults,         \* how many starts, refreshes and mishaps so far
    torn            \* history: the cache changed while a run was going on

pipelineVars == <<cache, disk, checkpoints, runRecords, processes, faults, torn>>

-----------------------------------------------------------------------------
(* The stages, in order, and what each one names as its inputs. *)
STAGES ==
    <<"normalized_market_data", "pit_universe", "features", "labels", "walk_forward_ml",
      "selected_oos_predictions", "targets", "event_driven_backtest",
      "analytics_attribution", "immutable_artifacts">>

StageNames == {Stages[k] : k \in DOMAIN Stages}

AllInputs ==
    [normalized_market_data |-> <<>>,
     pit_universe |-> [market_data |-> "normalized_market_data"],
     features |-> [market_data |-> "normalized_market_data", universe |-> "pit_universe"],
     labels |-> [market_data |-> "normalized_market_data", universe |-> "pit_universe"],
     walk_forward_ml |-> [features |-> "features", labels |-> "labels"],
     selected_oos_predictions |->
        [dataset_version |-> "normalized_market_data", universe_version |-> "pit_universe",
         model |-> "walk_forward_ml"],
     targets |-> [selected_oos_predictions |-> "selected_oos_predictions"],
     event_driven_backtest |->
        [dataset_version |-> "normalized_market_data", universe_version |-> "pit_universe",
         predictions |-> "selected_oos_predictions"],
     analytics_attribution |-> [event_driven_backtest |-> "event_driven_backtest"],
     immutable_artifacts |-> [analytics_attribution |-> "analytics_attribution"]]

(* An instance without some stages has no lineage to them either. *)
LineageRoles(stage) == {role \in DOMAIN AllInputs[stage] : AllInputs[stage][role] \in StageNames}

(* No stage comes before one that it names, as in STAGES, and a backtest has the stages
   that it checks its predictions against. *)
ASSUME PipelineAssumption ==
    /\ Stages \in Seq(DOMAIN AllInputs)
    /\ \A k \in DOMAIN Stages : \A role \in LineageRoles(Stages[k]) :
          \E j \in 1..(k - 1) : Stages[j] = AllInputs[Stages[k]][role]
    /\ "event_driven_backtest" \in StageNames =>
          {"normalized_market_data", "pit_universe", "selected_oos_predictions"} \subseteq StageNames
    /\ Contents \subseteq Nat \ {0} /\ Contents # {}
    /\ SessionCount \in [Contents -> Nat]
    /\ Instruments \in Nat \ {0}
    /\ {MaxStarts, MaxRefreshes, MaxMishaps} \subseteq Nat

StageLineage(stage, outputs) == [role \in LineageRoles(stage) |-> outputs[AllInputs[stage][role]]]

(* The decision sessions that get a prediction, the sessions an earlier one is trained
   on, and whether every fit has its two observations. *)
\* Mutant: a prediction for a session whose trade cannot settle.
PredictedSessionsTooLate(bars) ==
    {k \in 0..SessionCount[bars] : k >= 7 /\ k + 2 < SessionCount[bars]}

PredictedSessions(bars) == {k \in 0..SessionCount[bars] : k >= 7 /\ k + 3 < SessionCount[bars]}

TrainingSessions(k) == {j \in 5..k : j + 1 < k}

FitsPossible(bars) ==
    \A k \in PredictedSessions(bars) : Cardinality(TrainingSessions(k)) * Instruments >= 2

(* The stages whose records are computed from the bars; the others only name versions,
   and predictions without a row do not depend on them either. *)
ComputedFrom(stage, bars) ==
    IF \/ stage \in {"normalized_market_data", "pit_universe", "features", "labels",
                     "event_driven_backtest"}
       \/ stage = "selected_oos_predictions" /\ PredictedSessions(bars) # {}
    THEN bars ELSE 0

(* The version a stage publishes: its records, its lineage, and for the first stage the
   checksum of the files.  The model of a backtest is the one its predictions name. *)
StageVersion(stage, me) ==
    [stage |-> stage,
     bars |-> ComputedFrom(stage, me.bars),
     source |-> IF stage = "normalized_market_data" THEN me.source ELSE 0,
     lineage |-> StageLineage(stage, me.outputs)]

-----------------------------------------------------------------------------
(* What the event backtest makes of the predictions with the bars it was given. *)
Predictions(me) == me.outputs["selected_oos_predictions"]

DecisionSessions(me) ==
    IF Predictions(me).bars = 0 THEN {} ELSE PredictedSessions(Predictions(me).bars)

(* A decision trades on the next common session, if there is one. *)
TradeSessions(me) ==
    {k + 1 : k \in {d \in DecisionSessions(me) : d + 1 < SessionCount[me.bars]}}

\* Mutant: the predictions of any dataset are taken.
ReaderAcceptsAny(me) ==
    /\ disk[Predictions(me)] = "whole"
    /\ DecisionSessions(me) # {}
    /\ \A d \in DecisionSessions(me) : d < SessionCount[me.bars]

(* The reader takes predictions of this dataset and universe only, for sessions that
   are in the bars, and at least one of them. *)
ReaderAccepts(me) ==
    /\ disk[Predictions(me)] = "whole"
    /\ Predictions(me).lineage.dataset_version = me.outputs["normalized_market_data"]
    /\ Predictions(me).lineage.universe_version = me.outputs["pit_universe"]
    /\ DecisionSessions(me) # {}
    /\ \A d \in DecisionSessions(me) : d < SessionCount[me.bars]

BacktestPossible(me) ==
    /\ SessionCount[me.bars] >= 12
    /\ ReaderAccepts(me)
    /\ TradeSessions(me) # {}

(* A fill of the last trading session settles two sessions later; without that session
   in the calendar the engine raises, if there is such a fill. *)
SettlementFits(me) == \A t \in TradeSessions(me) : t + 2 < SessionCount[me.bars]

RunnerPossible(stage, me) ==
    CASE stage = "selected_oos_predictions" -> FitsPossible(me.bars)
      [] stage = "event_driven_backtest" -> BacktestPossible(me)
      [] OTHER -> TRUE

RunnerCertain(stage, me) ==
    stage = "event_driven_backtest" => SettlementFits(me)

-----------------------------------------------------------------------------
NoRun == [pc |-> "idle", bars |-> 0, source |-> 0, index |-> 1, outputs |-> <<>>]

PipelineInit ==
    /\ cache \in Contents
    /\ disk = <<>> /\ checkpoints = <<>> /\ runRecords = {}
    /\ processes = [p \in Processes |-> NoRun]
    /\ faults = [starts |-> 0, refreshes |-> 0, mishaps |-> 0]
    /\ torn = FALSE

Recorded(f, k, v) == [x \in DOMAIN f \cup {k} |-> IF x = k THEN v ELSE f[x]]

RunAlive(p) == processes[p].pc # "idle"

StageOf(p) == Stages[processes[p].index]

AtStage(p) == processes[p].pc = "stage" /\ processes[p].index <= Len(Stages)

(* A finished stage: its output is known to the run, which goes to the next one. *)
FinishStage(p, v) ==
    processes' = [processes EXCEPT ![p].pc = "stage", ![p].index = @ + 1,
                         ![p].outputs = Recorded(@, StageOf(p), v)]

RunRecord(p, status) ==
    [status |-> status, coverage |-> processes[p].bars, outputs |-> processes[p].outputs,
     failed |-> IF status = "failed" THEN StageOf(p) ELSE "none"]

PublishRun(p, status) ==
    /\ runRecords' = runRecords \cup {RunRecord(p, status)}
    /\ processes' = [processes EXCEPT ![p] = NoRun]

(* plan, and the bars that _load_bars keeps for the rest of the run. *)
LoadBars(p) ==
    /\ ~RunAlive(p)
    /\ SessionCount[cache] > 0 /\ faults.starts < MaxStarts
    /\ faults' = [faults EXCEPT !.starts = @ + 1]
    /\ processes' = [processes EXCEPT ![p] = [NoRun EXCEPT !.pc = "source", !.bars = cache]]
    /\ UNCHANGED <<cache, disk, checkpoints, runRecords, torn>>

(* _source_checksum reads the files again. *)
SourceChecksum(p) ==
    /\ processes[p].pc = "source"
    /\ processes' = [processes EXCEPT ![p].pc = "stage", ![p].source = cache]
    /\ UNCHANGED <<cache, disk, checkpoints, runRecords, faults, torn>>

\* Mutant: every run computes everything again.
HasCheckpointNever(p) == FALSE

HasCheckpoint(p) == StageOf(p) \in DOMAIN checkpoints

(* A checkpoint: its artifact is verified and taken, or the validator raises, outside
   of the handler that turns a failing stage into a failed run. *)
Resume(p) ==
    /\ AtStage(p) /\ HasCheckpoint(p)
    /\ IF disk[checkpoints[StageOf(p)]] = "whole"
       THEN FinishStage(p, checkpoints[StageOf(p)])
       ELSE processes' = [processes EXCEPT ![p] = NoRun]
    /\ UNCHANGED <<cache, disk, checkpoints, runRecords, faults, torn>>

\* Mutant: the checkpoint is written first.
RunStageCheckpointFirst(p) ==
    LET v == StageVersion(StageOf(p), processes[p])
    IN /\ AtStage(p) /\ ~HasCheckpoint(p)
       /\ RunnerPossible(StageOf(p), processes[p])
       /\ checkpoints' = Recorded(checkpoints, StageOf(p), v)
       /\ processes' = [processes EXCEPT ![p].pc = "checkpoint"]
       /\ UNCHANGED <<cache, disk, runRecords, faults, torn>>

(* No checkpoint: the runner computes its records and publishes them, or takes the
   artifact that is there already.  ArtifactStore shows that publication is one step. *)
RunStage(p) ==
    LET v == StageVersion(StageOf(p), processes[p])
    IN /\ AtStage(p) /\ ~HasCheckpoint(p)
       /\ RunnerPossible(StageOf(p), processes[p])
       /\ v \in DOMAIN disk => disk[v] = "whole"
       /\ disk' = Recorded(disk, v, "whole")
       /\ processes' = [processes EXCEPT ![p].pc = "checkpoint"]
       /\ UNCHANGED <<cache, checkpoints, runRecords, faults, torn>>

StageFails(p) ==
    LET v == StageVersion(StageOf(p), processes[p])
    IN /\ AtStage(p) /\ ~HasCheckpoint(p)
       /\ \/ ~RunnerPossible(StageOf(p), processes[p])
          \/ ~RunnerCertain(StageOf(p), processes[p])
          \/ v \in DOMAIN disk /\ disk[v] = "damaged"
       /\ PublishRun(p, "failed")
       /\ UNCHANGED <<cache, disk, checkpoints, faults, torn>>

SaveCheckpoint(p) ==
    LET v == StageVersion(StageOf(p), processes[p])
    IN /\ processes[p].pc = "checkpoint"
       /\ checkpoints' = Recorded(checkpoints, StageOf(p), v)
       /\ FinishStage(p, v)
       /\ UNCHANGED <<cache, disk, runRecords, faults, torn>>

CompleteRun(p) ==
    /\ processes[p].pc = "stage" /\ processes[p].index > Len(Stages)
    /\ PublishRun(p, "completed")
    /\ UNCHANGED <<cache, disk, checkpoints, faults, torn>>

-----------------------------------------------------------------------------
(* The environment: a process dies; somebody downloads the cache again; a published
   directory loses a file or a byte, which its readers detect. *)
RunKilled(p) ==
    /\ RunAlive(p) /\ faults.mishaps < MaxMishaps
    /\ faults' = [faults EXCEPT !.mishaps = @ + 1]
    /\ processes' = [processes EXCEPT ![p] = NoRun]
    /\ UNCHANGED <<cache, disk, checkpoints, runRecords, torn>>

CacheRefreshed ==
    /\ faults.refreshes < MaxRefreshes
    /\ faults' = [faults EXCEPT !.refreshes = @ + 1]
    /\ cache' \in Contents \ {cache}
    /\ torn' = (torn \/ \E p \in Processes : RunAlive(p))
    /\ UNCHANGED <<disk, checkpoints, runRecords, processes>>

ArtifactDamaged(v) ==
    /\ disk[v] = "whole" /\ faults.mishaps < MaxMishaps
    /\ faults' = [faults EXCEPT !.mishaps = @ + 1]
    /\ disk' = [disk EXCEPT ![v] = "damaged"]
    /\ UNCHANGED <<cache, checkpoints, runRecords, processes, torn>>

PipelineStep(p) ==
    \/ LoadBars(p) \/ SourceChecksum(p)
    \/ Resume(p) \/ RunStage(p) \/ StageFails(p)
    \/ SaveCheckpoint(p) \/ CompleteRun(p)

PipelineNext ==
    \/ \E p \in Processes : PipelineStep(p) \/ RunKilled(p)
    \/ CacheRefreshed
    \/ \E v \in DOMAIN disk : ArtifactDamaged(v)

PipelineSpec == PipelineInit /\ [][PipelineNext]_pipelineVars

-----------------------------------------------------------------------------
(* Unless the cache changes under a run, the runs that complete name the same artifacts,
   whichever of them computed a stage and whichever resumed it: the checkpoints decide,
   whatever is downloaded between two runs. *)
CompletedRunsAgree ==
    torn \/ \A r, s \in runRecords :
              r.status = "completed" /\ s.status = "completed" => r.outputs = s.outputs

Undamaged == \A v \in DOMAIN disk : disk[v] = "whole"

(* Made from a cache of another length: predictions have no row when it was too short. *)
OtherLength(v, bars) ==
    IF v.bars = 0 THEN v.stage = "selected_oos_predictions"
    ELSE SessionCount[v.bars] # SessionCount[bars]

(* Twelve common sessions are enough: with a cache that stays the same, no stage refuses
   them, the last prediction can still be traded and its trade settled.  (A cache of
   another length that was downloaded after the first checkpoints is not covered.) *)
EnoughSessionsSuffice ==
    Instruments >= 2 /\ ~torn /\ Undamaged =>
        \A r \in runRecords : r.status = "failed" =>
            \/ SessionCount[r.coverage] < 12
            \/ \E v \in DOMAIN disk : OtherLength(v, r.coverage)

(* A checkpoint names an artifact that was published before it, so does the lineage of
   every artifact, whoever died in between; and a backtest used the dataset and the
   universe that its predictions were made from, although the two may come from different
   runs and the cache may have changed while they went on. *)
LineageConsistent ==
    /\ \A stage \in DOMAIN checkpoints : checkpoints[stage] \in DOMAIN disk
    /\ \A v \in DOMAIN disk : \A role \in DOMAIN v.lineage : v.lineage[role] \in DOMAIN disk
    /\ \A v \in DOMAIN disk : v.stage = "event_driven_backtest" =>
          \A role \in {"dataset_version", "universe_version"} :
              v.lineage[role] = v.lineage.predictions.lineage[role]
=============================================================================
