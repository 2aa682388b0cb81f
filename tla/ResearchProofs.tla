---------------------------- MODULE ResearchProofs ----------------------------
(***************************************************************************)
(* What holds of the components that work on files, for every value of     *)
(* their constants.                                                        *)
(*   1. The artifact store: publication by rename implements the catalog,  *)
(*      for any number of publishers, versions, deaths and losses.         *)
(*   2. The research pipeline: lineage is of what has been published, runs *)
(*      that complete agree, and twelve common sessions are enough.        *)
(*   3. The walk-forward experiments: no prediction rests on anything that  *)
(*      was still to come.                                                 *)
(*   4. Ingestion: runs that do not overlap keep the first observation, and *)
(*      what a job downloaded is published when it is complete; two        *)
(*      writers, overlapping, leave no pointer to an unreadable file.      *)
(***************************************************************************)
EXTENDS ArtifactStore, ResearchPipeline, WalkForward, Ingestion, SumTheorems

-----------------------------------------------------------------------------
(* The artifact store.  The rename is the step that publishes; everything else stutters,
   confirms or loses. *)
Writing ==
    [pc : {"idle", "write", "rename", "return"}, version : ArtifactVersions \cup {"none"},
     written : Nat]

(* Only a complete candidate is renamed, and only what is there is returned. *)
StoreInv ==
    /\ DOMAIN directories \subseteq ArtifactVersions
    /\ writers \in [Publishers -> Writing]
    /\ \A p \in Publishers :
        /\ writers[p].pc # "idle" => writers[p].version \in ArtifactVersions
        /\ writers[p].pc = "rename" => CandidateComplete(writers[p])
        /\ writers[p].pc = "return" => writers[p].version \in DOMAIN directories

Lost == {v \in DOMAIN directories : ~Verified(v)}

CatalogVars == <<DOMAIN directories, Lost, returned>>

-----------------------------------------------------------------------------
LEMMA FilesAreCounted ==
    ASSUME NEW v
    PROVE  DOMAIN Files(v) = 1..Len(Files(v)) /\ Len(Files(v)) \in Nat
  <1>1. CASE v \in ExactVersions
    <2>1. Files(v) = <<"records.jsonl", "records.sha256", "manifest.json">>
      BY <1>1 DEF Files
    <2> QED BY <2>1
  <1>2. CASE v \notin ExactVersions
    <2>1. Files(v) = <<"artifact.json", "artifact.sha256">>
      BY <1>2 DEF Files
    <2> QED BY <2>1
  <1> QED BY <1>1, <1>2

LEMMA CompleteCandidateVerifies ==
    ASSUME NEW w, CandidateComplete(w)
    PROVE  Candidate(w) = Inventory(w.version)
  BY FilesAreCounted DEF CandidateComplete, Candidate, Inventory

(* A publisher that goes on, gives up or dies touches nobody else. *)
LEMMA WriterMoves ==
    ASSUME StoreInv, NEW p \in Publishers, NEW w \in Writing,
           w.pc # "idle" => w.version \in ArtifactVersions,
           w.pc = "rename" => CandidateComplete(w),
           w.pc = "return" => w.version \in DOMAIN directories',
           writers' = [writers EXCEPT ![p] = w],
           DOMAIN directories \subseteq DOMAIN directories',
           DOMAIN directories' \subseteq ArtifactVersions
    PROVE  StoreInv'
  <1>1. writers' \in [Publishers -> Writing]
    BY DEF StoreInv
  <1>2. ASSUME NEW q \in Publishers
        PROVE  /\ writers'[q].pc # "idle" => writers'[q].version \in ArtifactVersions
               /\ writers'[q].pc = "rename" => CandidateComplete(writers'[q])
               /\ writers'[q].pc = "return" => writers'[q].version \in DOMAIN directories'
    <2>1. CASE q = p
      <3>1. writers'[q] = w
        BY <2>1 DEF StoreInv
      <3> QED BY <3>1
    <2>2. CASE q # p
      <3>1. writers'[q] = writers[q]
        BY <2>2 DEF StoreInv
      <3> QED BY <3>1 DEF StoreInv
    <2> QED BY <2>1, <2>2
  <1> QED BY <1>1, <1>2 DEF StoreInv, CandidateComplete

LEMMA Unpublished ==
    ASSUME UNCHANGED directories
    PROVE  UNCHANGED <<DOMAIN directories, Lost>>
  BY DEF Lost, Verified

-----------------------------------------------------------------------------
(* What a step does to the invariant and to the catalog. *)
Fits == StoreInv' /\ [Catalog!Next]_CatalogVars

LEMMA PublishAgainFits ==
    ASSUME StoreInv, NEW p \in Publishers, NEW v \in ArtifactVersions, PublishAgain(p, v)
    PROVE  Fits
  <1>1. StoreInv'
    <2>1. NoWriter \in Writing /\ NoWriter.pc = "idle"
      BY DEF NoWriter, Writing
    <2>2. writers' = [writers EXCEPT ![p] = NoWriter] /\ UNCHANGED directories
      BY DEF PublishAgain, Return
    <2> QED BY <2>1, <2>2, WriterMoves DEF StoreInv
  <1>2. Catalog!Confirm(v)
    BY Unpublished DEF PublishAgain, Return, Verified, Catalog!Confirm, Lost
  <1> QED BY <1>1, <1>2 DEF Fits, Catalog!Next

(* A publisher works on its own candidate. *)
LEMMA CandidateStepFits ==
    ASSUME StoreInv, NEW p \in Publishers,
           (\E v \in ArtifactVersions : OpenCandidate(p, v)) \/ WriteFile(p)
             \/ VerifyCandidate(p) \/ WriterDies(p)
    PROVE  Fits
  <1>1. UNCHANGED <<directories, returned>>
    BY DEF OpenCandidate, WriteFile, VerifyCandidate, WriterDies
  <1>2. UNCHANGED CatalogVars
    BY <1>1, Unpublished DEF CatalogVars
  <1>3. PICK w \in Writing :
          /\ writers' = [writers EXCEPT ![p] = w]
          /\ w.pc # "idle" => w.version \in ArtifactVersions
          /\ w.pc = "rename" => CandidateComplete(w)
          /\ w.pc # "return"
    <2>1. writers[p] \in Writing
      BY DEF StoreInv
    <2>2. ASSUME NEW v \in ArtifactVersions, OpenCandidate(p, v)
          PROVE  \E w \in Writing :
                   /\ writers' = [writers EXCEPT ![p] = w]
                   /\ w.pc # "idle" => w.version \in ArtifactVersions
                   /\ w.pc = "rename" => CandidateComplete(w)
                   /\ w.pc # "return"
      <3> DEFINE w == [pc |-> "write", version |-> v, written |-> 0]
      <3>1. w \in Writing
        BY DEF Writing
      <3> QED BY <2>2, <3>1 DEF OpenCandidate
    <2>3. CASE WriteFile(p)
      <3> DEFINE w == [writers[p] EXCEPT !.written = @ + 1]
      <3>1. w \in Writing /\ w.pc = "write" /\ w.version = writers[p].version
        BY <2>1, <2>3 DEF Writing, WriteFile
      <3>2. writers' = [writers EXCEPT ![p] = w]
        BY <2>3 DEF WriteFile
      <3> QED BY <2>3, <3>1, <3>2 DEF StoreInv, WriteFile
    <2>4. CASE VerifyCandidate(p)
      <3> DEFINE w == [writers[p] EXCEPT !.pc = "rename"]
      <3>1. /\ w \in Writing /\ w.pc = "rename"
            /\ w.version = writers[p].version /\ w.written = writers[p].written
        BY <2>1 DEF Writing
      <3>2. writers' = [writers EXCEPT ![p] = w]
        BY <2>4 DEF VerifyCandidate
      <3>3. writers[p].version \in ArtifactVersions
        BY <2>4 DEF VerifyCandidate, StoreInv
      <3>4. CandidateComplete(w)
        BY <2>4, <3>1 DEF VerifyCandidate, CandidateComplete
      <3> QED BY <3>1, <3>2, <3>3, <3>4
    <2>5. CASE WriterDies(p)
      <3>1. NoWriter \in Writing /\ NoWriter.pc = "idle"
        BY DEF NoWriter, Writing
      <3> QED BY <2>5, <3>1 DEF WriterDies
    <2> QED BY <2>2, <2>3, <2>4, <2>5
  <1>4. StoreInv'
    BY <1>1, <1>3, WriterMoves DEF StoreInv
  <1> QED BY <1>2, <1>4 DEF Fits

LEMMA RenameFits ==
    ASSUME StoreInv, NEW p \in Publishers, RenameCandidate(p)
    PROVE  Fits
  <1> DEFINE v == writers[p].version
             w == [writers[p] EXCEPT !.pc = "return"]
  <1>1. v \in ArtifactVersions /\ CandidateComplete(writers[p]) /\ writers[p] \in Writing
    BY DEF RenameCandidate, StoreInv
  <1>2. w \in Writing /\ w.pc = "return" /\ w.version = v
    BY <1>1 DEF Writing
  <1>3. CASE v \notin DOMAIN directories
    <2>1. /\ directories' = [x \in DOMAIN directories \cup {v} |->
                               IF x = v THEN Candidate(writers[p]) ELSE directories[x]]
          /\ writers' = [writers EXCEPT ![p] = w]
          /\ UNCHANGED returned
      BY <1>3 DEF RenameCandidate
    <2>2. DOMAIN directories' = DOMAIN directories \cup {v}
      BY <2>1
    <2>3. StoreInv'
      BY <1>1, <1>2, <2>1, <2>2, WriterMoves DEF StoreInv
    <2>4. directories'[v] = Inventory(v)
      BY <1>1, <2>1, CompleteCandidateVerifies
    <2>5. Lost' = Lost
      BY <1>3, <2>1, <2>2, <2>4 DEF Lost, Verified
    <2>6. Catalog!Publish(v)
      BY <1>3, <2>1, <2>2, <2>5 DEF Catalog!Publish, Lost
    <2> QED BY <1>1, <2>3, <2>6 DEF Fits, Catalog!Next
  <1>4. CASE v \in DOMAIN directories
    <2>1. /\ writers' = IF Verified(v) THEN [writers EXCEPT ![p] = w]
                                       ELSE [writers EXCEPT ![p] = NoWriter]
          /\ UNCHANGED <<directories, returned>>
      BY <1>4 DEF RenameCandidate
    <2>2. NoWriter \in Writing /\ NoWriter.pc = "idle"
      BY DEF NoWriter, Writing
    <2>3. StoreInv'
      <3>1. CASE Verified(v)
        BY <1>1, <1>2, <1>4, <2>1, <3>1, WriterMoves DEF StoreInv
      <3>2. CASE ~Verified(v)
        BY <2>1, <2>2, <3>2, WriterMoves DEF StoreInv
      <3> QED BY <3>1, <3>2
    <2>4. UNCHANGED CatalogVars
      BY <2>1, Unpublished DEF CatalogVars
    <2> QED BY <2>3, <2>4 DEF Fits
  <1> QED BY <1>3, <1>4

LEMMA ReturnFits ==
    ASSUME StoreInv, NEW p \in Publishers, ReturnManifest(p)
    PROVE  Fits
  <1> DEFINE v == writers[p].version
  <1>1. v \in ArtifactVersions /\ v \in DOMAIN directories
    BY DEF ReturnManifest, StoreInv
  <1>2. StoreInv'
    <2>1. NoWriter \in Writing /\ NoWriter.pc = "idle"
      BY DEF NoWriter, Writing
    <2>2. writers' = [writers EXCEPT ![p] = NoWriter] /\ UNCHANGED directories
      BY DEF ReturnManifest, Return
    <2> QED BY <2>1, <2>2, WriterMoves DEF StoreInv
  <1>3. Catalog!Confirm(v)
    BY <1>1, Unpublished DEF ReturnManifest, Return, Catalog!Confirm, Lost
  <1> QED BY <1>1, <1>2, <1>3 DEF Fits, Catalog!Next

LEMMA LossFits ==
    ASSUME StoreInv, NEW v \in DOMAIN directories, NEW f \in Inventory(v), LoseFile(v, f)
    PROVE  Fits
  <1>1. /\ directories' = [directories EXCEPT ![v] = @ \ {f}]
        /\ UNCHANGED <<writers, returned>>
    BY DEF LoseFile
  <1>2. DOMAIN directories' = DOMAIN directories
    BY <1>1
  <1>3. StoreInv'
    BY <1>1, <1>2 DEF StoreInv, CandidateComplete
  <1>4. Lost' = Lost \cup {v}
    <2>1. f \notin directories'[v]
      BY <1>1
    <2>2. directories'[v] # Inventory(v)
      BY <2>1
    <2>3. \A x \in DOMAIN directories : x # v => directories'[x] = directories[x]
      BY <1>1
    <2> QED BY <1>2, <2>2, <2>3 DEF Lost, Verified
  <1>5. Catalog!Lose(v)
    BY <1>1, <1>2, <1>4 DEF Catalog!Lose, Lost
  <1>6. v \in ArtifactVersions
    BY DEF StoreInv
  <1> QED BY <1>3, <1>5, <1>6 DEF Fits, Catalog!Next

-----------------------------------------------------------------------------
LEMMA StoreInitial == StoreInit => StoreInv /\ Catalog!Init
  <1> SUFFICES ASSUME StoreInit PROVE StoreInv /\ Catalog!Init
    OBVIOUS
  <1>1. DOMAIN directories = {}
    BY DEF StoreInit
  <1>2. StoreInv
    BY <1>1 DEF StoreInit, StoreInv, NoWriter, Writing
  <1>3. Catalog!Init
    BY <1>1 DEF Catalog!Init, StoreInit
  <1> QED BY <1>2, <1>3

LEMMA StoreStep == StoreInv /\ [StoreNext]_storeVars => Fits
  <1> SUFFICES ASSUME StoreInv, [StoreNext]_storeVars PROVE Fits
    OBVIOUS
  <1>1. CASE UNCHANGED storeVars
    <2>1. UNCHANGED CatalogVars
      BY <1>1, Unpublished DEF storeVars, CatalogVars
    <2>2. StoreInv'
      BY <1>1 DEF storeVars, StoreInv, CandidateComplete
    <2> QED BY <2>1, <2>2 DEF Fits
  <1>2. CASE StoreNext
    BY <1>2, PublishAgainFits, CandidateStepFits, RenameFits, ReturnFits, LossFits
       DEF StoreNext
  <1> QED BY <1>1, <1>2

(* publish of both stores implements the catalog: a version's directory appears whole and
   at once, stays, and is returned only after it has appeared, whoever races or dies. *)
THEOREM PublicationImplements == StoreSpec => ImplementsCatalog
  <1>1. StoreInit => StoreInv /\ Catalog!Init
    BY StoreInitial
  <1>2. StoreInv /\ [StoreNext]_storeVars => StoreInv' /\ [Catalog!Next]_CatalogVars
    BY StoreStep DEF Fits
  <1> QED BY <1>1, <1>2, PTL DEF StoreSpec, ImplementsCatalog, Catalog!Spec, CatalogVars, Lost

-----------------------------------------------------------------------------
(* The research pipeline.  A run has been through the stages before its index, and has an
   output of each that has been published. *)
StagesBefore(k) == {Stages[j] : j \in 1..(k - 1)}

RunWellFormed(me) ==
    /\ DOMAIN me = {"pc", "bars", "source", "index", "outputs"}
    /\ me.pc \in {"idle", "source", "stage", "checkpoint"}
    /\ me.pc # "idle" => me.bars \in Contents
    /\ me.pc = "source" => me.index = 1
    /\ me.index \in 1..(Len(Stages) + 1)
    /\ DOMAIN me.outputs = StagesBefore(me.index)
    /\ me.pc = "checkpoint" => me.index \in DOMAIN Stages

OutputsPublished(me) ==
    /\ \A stage \in DOMAIN me.outputs : me.outputs[stage] \in DOMAIN disk
    /\ me.pc = "checkpoint" => StageVersion(Stages[me.index], me) \in DOMAIN disk

PipelineTypeOK ==
    /\ cache \in Contents
    /\ torn \in BOOLEAN
    /\ DOMAIN checkpoints \subseteq StageNames
    /\ DOMAIN processes = Processes
    /\ \A p \in Processes : RunWellFormed(processes[p])

PipelinePublished ==
    /\ \A p \in Processes : OutputsPublished(processes[p])
    /\ LineageConsistent

-----------------------------------------------------------------------------
LEMMA StagesAreNamed ==
    /\ Len(Stages) \in Nat
    /\ DOMAIN Stages = 1..Len(Stages)
    /\ \A k \in DOMAIN Stages : Stages[k] \in StageNames
    /\ StageNames = StagesBefore(Len(Stages) + 1)
BY PipelineAssumption DEF StageNames, StagesBefore

(* What is assumed of the order of the stages holds of all ten (STAGES and the inputs of
   each in exploratory.py). *)
LEMMA AllStagesInOrder ==
    \A k \in DOMAIN STAGES : \A role \in DOMAIN AllInputs[STAGES[k]] :
        \E j \in 1..(k - 1) : STAGES[j] = AllInputs[STAGES[k]][role]
<1> SUFFICES ASSUME NEW k \in DOMAIN STAGES, NEW role \in DOMAIN AllInputs[STAGES[k]]
             PROVE  \E j \in 1..(k - 1) : STAGES[j] = AllInputs[STAGES[k]][role]
  OBVIOUS
<1>1. k \in 1..10
  BY DEF STAGES
<1>2. /\ STAGES[1] = "normalized_market_data" /\ STAGES[2] = "pit_universe"
      /\ STAGES[3] = "features" /\ STAGES[4] = "labels" /\ STAGES[5] = "walk_forward_ml"
      /\ STAGES[6] = "selected_oos_predictions" /\ STAGES[7] = "targets"
      /\ STAGES[8] = "event_driven_backtest" /\ STAGES[9] = "analytics_attribution"
      /\ STAGES[10] = "immutable_artifacts"
  BY DEF STAGES
<1>3. \E j \in 1..10 : j < k /\ STAGES[j] = AllInputs[STAGES[k]][role]
  <2>1. CASE k = 1
    BY <1>2, <2>1 DEF AllInputs
  <2>2. CASE k = 2
    BY <1>2, <2>2 DEF AllInputs
  <2>3. CASE k = 3
    BY <1>2, <2>3 DEF AllInputs
  <2>4. CASE k = 4
    BY <1>2, <2>4 DEF AllInputs
  <2>5. CASE k = 5
    <3>1. AllInputs[STAGES[k]] = [features |-> "features", labels |-> "labels"]
      BY <1>2, <2>5 DEF AllInputs
    <3>2. CASE role = "features"
      BY <1>2, <2>5, <3>1, <3>2
    <3>3. CASE role = "labels"
      BY <1>2, <2>5, <3>1, <3>3
    <3> QED BY <3>1, <3>2, <3>3
  <2>6. CASE k = 6
    BY <1>2, <2>6 DEF AllInputs
  <2>7. CASE k = 7
    BY <1>2, <2>7 DEF AllInputs
  <2>8. CASE k = 8
    BY <1>2, <2>8 DEF AllInputs
  <2>9. CASE k = 9
    BY <1>2, <2>9 DEF AllInputs
  <2>10. CASE k = 10
    BY <1>2, <2>10 DEF AllInputs
  <2> QED BY <1>1, <2>1, <2>2, <2>3, <2>4, <2>5, <2>6, <2>7, <2>8, <2>9, <2>10
<1> QED BY <1>1, <1>3

LEMMA NextStagesBefore ==
    ASSUME NEW k \in DOMAIN Stages
    PROVE  /\ k \in 1..Len(Stages)
           /\ k + 1 \in 1..(Len(Stages) + 1)
           /\ StagesBefore(k + 1) = StagesBefore(k) \cup {Stages[k]}
<1>1. k \in 1..Len(Stages) /\ Len(Stages) \in Nat
  BY StagesAreNamed
<1>2. 1..(k + 1 - 1) = (1..(k - 1)) \cup {k}
  BY <1>1
<1> QED BY <1>1, <1>2 DEF StagesBefore

(* The inputs of a stage come before it. *)
LEMMA InputsComeBefore ==
    ASSUME NEW k \in DOMAIN Stages, NEW role \in LineageRoles(Stages[k])
    PROVE  AllInputs[Stages[k]][role] \in StagesBefore(k)
BY PipelineAssumption DEF StagesBefore

LEMMA BacktestRoles ==
    ASSUME "event_driven_backtest" \in StageNames
    PROVE  /\ {"dataset_version", "universe_version", "predictions"}
                 \subseteq LineageRoles("event_driven_backtest")
           /\ {"dataset_version", "universe_version"}
                 \subseteq LineageRoles("selected_oos_predictions")
           /\ AllInputs["event_driven_backtest"]
                 = [dataset_version |-> "normalized_market_data",
                    universe_version |-> "pit_universe",
                    predictions |-> "selected_oos_predictions"]
           /\ AllInputs["selected_oos_predictions"].dataset_version = "normalized_market_data"
           /\ AllInputs["selected_oos_predictions"].universe_version = "pit_universe"
BY PipelineAssumption DEF LineageRoles, AllInputs

LEMMA RecordedFacts ==
    ASSUME NEW f, NEW k, NEW v
    PROVE  /\ DOMAIN Recorded(f, k, v) = DOMAIN f \cup {k}
           /\ Recorded(f, k, v)[k] = v
           /\ \A x \in DOMAIN f : x # k => Recorded(f, k, v)[x] = f[x]
BY DEF Recorded

LEMMA FinishedStage ==
    ASSUME PipelineTypeOK, NEW p \in Processes, NEW v, FinishStage(p, v),
           processes[p].pc \in {"stage", "checkpoint"}, processes[p].index \in DOMAIN Stages
    PROVE  /\ DOMAIN processes' = Processes
           /\ \A q \in Processes \ {p} : processes'[q] = processes[q]
           /\ processes'[p].pc = "stage"
           /\ processes'[p].bars = processes[p].bars
           /\ processes'[p].source = processes[p].source
           /\ processes'[p].index = processes[p].index + 1
           /\ processes'[p].outputs = Recorded(processes[p].outputs, StageOf(p), v)
           /\ RunWellFormed(processes'[p])
<1> DEFINE me == processes[p]
           n == [me EXCEPT !.pc = "stage", !.index = @ + 1,
                           !.outputs = Recorded(@, StageOf(p), v)]
<1>1. processes' = [processes EXCEPT ![p] = n]
  BY DEF FinishStage
<1>2. RunWellFormed(me) /\ DOMAIN processes = Processes
  BY DEF PipelineTypeOK
<1>3. DOMAIN me = {"pc", "bars", "source", "index", "outputs"}
  BY <1>2 DEF RunWellFormed
<1>4. /\ DOMAIN n = {"pc", "bars", "source", "index", "outputs"}
      /\ n.pc = "stage"
      /\ n.bars = me.bars
      /\ n.source = me.source
      /\ n.index = me.index + 1
      /\ n.outputs = Recorded(me.outputs, StageOf(p), v)
  BY <1>3
<1>5. /\ DOMAIN processes' = Processes
      /\ processes'[p] = n
      /\ \A q \in Processes \ {p} : processes'[q] = processes[q]
  BY <1>1, <1>2
<1> HIDE DEF n
<1>6. DOMAIN n.outputs = StagesBefore(n.index)
  <2>1. DOMAIN n.outputs = DOMAIN me.outputs \cup {Stages[me.index]}
    BY <1>4 DEF StageOf, Recorded
  <2>2. DOMAIN me.outputs = StagesBefore(me.index)
    BY <1>2 DEF RunWellFormed
  <2> QED BY <1>4, <2>1, <2>2, NextStagesBefore
<1>7. n.index \in 1..(Len(Stages) + 1)
  BY <1>4, NextStagesBefore
<1>8. n.bars \in Contents
  BY <1>2, <1>4 DEF RunWellFormed
<1>9. RunWellFormed(n)
  BY <1>4, <1>6, <1>7, <1>8 DEF RunWellFormed
<1> QED BY <1>4, <1>5, <1>9

(* A run that ends, or that reads the cache, is well formed. *)
LEMMA PipelineTypeStep ==
    ASSUME PipelineTypeOK, [PipelineNext]_pipelineVars
    PROVE  PipelineTypeOK'
<1> SUFFICES ASSUME ~ UNCHANGED pipelineVars PROVE PipelineTypeOK'
  BY DEF pipelineVars, PipelineTypeOK
<1>0. RunWellFormed(NoRun)
  BY StagesAreNamed DEF RunWellFormed, NoRun, StagesBefore
<1>1. ASSUME NEW p \in Processes, PipelineStep(p) \/ RunKilled(p)
      PROVE  /\ cache' = cache /\ torn' = torn
             /\ DOMAIN processes' = Processes
             /\ \A q \in Processes \ {p} : processes'[q] = processes[q]
             /\ RunWellFormed(processes'[p])
             /\ DOMAIN checkpoints' \subseteq StageNames
  <2> DEFINE me == processes[p]
  <2>1. cache \in Contents /\ DOMAIN processes = Processes /\ RunWellFormed(me)
        /\ DOMAIN checkpoints \subseteq StageNames
    BY DEF PipelineTypeOK
  <2>2. DOMAIN me = {"pc", "bars", "source", "index", "outputs"}
    BY <2>1 DEF RunWellFormed
  <2>3. AtStage(p) => me.index \in DOMAIN Stages
    BY <2>1, StagesAreNamed DEF AtStage, RunWellFormed
  <2>4. CASE LoadBars(p)
    <3> DEFINE n == [NoRun EXCEPT !.pc = "source", !.bars = cache]
    <3>1. RunWellFormed(n)
      BY <1>0, <2>1 DEF RunWellFormed, NoRun
    <3>2. processes' = [processes EXCEPT ![p] = n]
      BY <2>4 DEF LoadBars
    <3> HIDE DEF n
    <3> QED BY <2>1, <2>4, <3>1, <3>2 DEF LoadBars
  <2>5. CASE SourceChecksum(p)
    <3> DEFINE n == [me EXCEPT !.pc = "stage", !.source = cache]
    <3>1. RunWellFormed(n)
      BY <2>1, <2>2, <2>5 DEF RunWellFormed, SourceChecksum
    <3>2. processes' = [processes EXCEPT ![p] = n]
      BY <2>5 DEF SourceChecksum
    <3> HIDE DEF n
    <3> QED BY <2>1, <2>5, <3>1, <3>2 DEF SourceChecksum
  <2>6. CASE RunStage(p)
    <3> DEFINE n == [me EXCEPT !.pc = "checkpoint"]
    <3>1. RunWellFormed(n)
      BY <2>1, <2>2, <2>3, <2>6 DEF RunWellFormed, RunStage, AtStage
    <3>2. processes' = [processes EXCEPT ![p] = n]
      BY <2>6 DEF RunStage
    <3> HIDE DEF n
    <3> QED BY <2>1, <2>6, <3>1, <3>2 DEF RunStage
  <2>7. ASSUME NEW v, FinishStage(p, v), me.pc \in {"stage", "checkpoint"},
               me.index \in DOMAIN Stages, UNCHANGED <<cache, torn>>,
               DOMAIN checkpoints' \subseteq DOMAIN checkpoints \cup {StageOf(p)}
        PROVE  /\ cache' = cache /\ torn' = torn
               /\ DOMAIN processes' = Processes
               /\ \A q \in Processes \ {p} : processes'[q] = processes[q]
               /\ RunWellFormed(processes'[p])
               /\ DOMAIN checkpoints' \subseteq StageNames
    BY <2>1, <2>7, FinishedStage, StagesAreNamed DEF StageOf
  <2>8. CASE SaveCheckpoint(p)
    <3> DEFINE v == StageVersion(StageOf(p), me)
    <3>1. /\ FinishStage(p, v)
          /\ checkpoints' = Recorded(checkpoints, StageOf(p), v)
          /\ me.pc = "checkpoint"
          /\ UNCHANGED <<cache, torn>>
      BY <2>8 DEF SaveCheckpoint
    <3> HIDE DEF v
    <3>2. DOMAIN checkpoints' = DOMAIN checkpoints \cup {StageOf(p)}
      BY <3>1, RecordedFacts
    <3>3. me.index \in DOMAIN Stages
      BY <2>1, <3>1 DEF RunWellFormed
    <3> QED BY <2>7, <3>1, <3>2, <3>3
  <2>9. ASSUME processes' = [processes EXCEPT ![p] = NoRun],
               UNCHANGED <<cache, torn, checkpoints>>
        PROVE  /\ cache' = cache /\ torn' = torn
               /\ DOMAIN processes' = Processes
               /\ \A q \in Processes \ {p} : processes'[q] = processes[q]
               /\ RunWellFormed(processes'[p])
               /\ DOMAIN checkpoints' \subseteq StageNames
    BY <1>0, <2>1, <2>9
  <2>10. CASE Resume(p)
    BY <2>3, <2>7, <2>9, <2>10 DEF Resume, AtStage
  <2>11. CASE StageFails(p) \/ CompleteRun(p) \/ RunKilled(p)
    BY <2>9, <2>11 DEF StageFails, CompleteRun, RunKilled, PublishRun
  <2> QED BY <1>1, <2>4, <2>5, <2>6, <2>8, <2>10, <2>11 DEF PipelineStep
<1>2. CASE \E p \in Processes : PipelineStep(p) \/ RunKilled(p)
  BY <1>1, <1>2 DEF PipelineTypeOK
<1>3. CASE CacheRefreshed
  BY <1>3 DEF CacheRefreshed, PipelineTypeOK
<1>4. CASE \E v \in DOMAIN disk : ArtifactDamaged(v)
  BY <1>4 DEF ArtifactDamaged, PipelineTypeOK
<1> QED BY <1>2, <1>3, <1>4 DEF PipelineNext

-----------------------------------------------------------------------------
(* What is published stays there: only its state can change. *)
LEMMA DiskGrows ==
    ASSUME [PipelineNext]_pipelineVars
    PROVE  DOMAIN disk \subseteq DOMAIN disk'
<1>1. ASSUME NEW p, RunStage(p) PROVE DOMAIN disk \subseteq DOMAIN disk'
  <2> DEFINE v == StageVersion(StageOf(p), processes[p])
  <2>1. disk' = Recorded(disk, v, "whole")
    BY <1>1 DEF RunStage
  <2> HIDE DEF v
  <2> QED BY <2>1 DEF Recorded
<1>2. ASSUME NEW v, ArtifactDamaged(v) PROVE DOMAIN disk \subseteq DOMAIN disk'
  BY <1>2 DEF ArtifactDamaged
<1>3. ASSUME NEW p,
             \/ LoadBars(p) \/ SourceChecksum(p) \/ Resume(p) \/ StageFails(p)
             \/ SaveCheckpoint(p) \/ CompleteRun(p) \/ RunKilled(p)
      PROVE  disk' = disk
  BY <1>3 DEF LoadBars, SourceChecksum, Resume, StageFails, SaveCheckpoint, CompleteRun, RunKilled
<1>4. CacheRefreshed \/ UNCHANGED pipelineVars => disk' = disk
  BY DEF CacheRefreshed, pipelineVars
<1> QED BY <1>1, <1>2, <1>3, <1>4 DEF PipelineNext, PipelineStep

(* The version a stage publishes names outputs of the run, and a backtest is published
   only if its predictions are of its dataset and its universe. *)
LEMMA NewVersion ==
    ASSUME PipelineTypeOK, NEW p \in Processes, AtStage(p),
           RunnerPossible(StageOf(p), processes[p]), OutputsPublished(processes[p])
    PROVE  LET v == StageVersion(StageOf(p), processes[p])
           IN  /\ \A role \in DOMAIN v.lineage : v.lineage[role] \in DOMAIN disk
               /\ v.stage = "event_driven_backtest" =>
                    \A role \in {"dataset_version", "universe_version"} :
                        v.lineage[role] = v.lineage.predictions.lineage[role]
<1> DEFINE me == processes[p]
           k == me.index
           v == StageVersion(Stages[k], me)
<1>1. k \in DOMAIN Stages /\ DOMAIN me.outputs = StagesBefore(k)
  BY StagesAreNamed DEF AtStage, PipelineTypeOK, RunWellFormed
<1>2. /\ v.stage = Stages[k]
      /\ v.lineage = [role \in LineageRoles(Stages[k]) |-> me.outputs[AllInputs[Stages[k]][role]]]
  BY DEF StageVersion, StageLineage
<1> HIDE DEF v
<1>3. ASSUME NEW role \in DOMAIN v.lineage PROVE v.lineage[role] \in DOMAIN disk
  <2>1. role \in LineageRoles(Stages[k])
    BY <1>2
  <2>2. AllInputs[Stages[k]][role] \in DOMAIN me.outputs
    BY <1>1, <2>1, InputsComeBefore
  <2> QED BY <1>2, <2>1, <2>2 DEF OutputsPublished
<1>4. ASSUME Stages[k] = "event_driven_backtest"
      PROVE  \A role \in {"dataset_version", "universe_version"} :
                 v.lineage[role] = v.lineage.predictions.lineage[role]
  <2>1. Stages[k] \in StageNames
    BY <1>1, StagesAreNamed
  <2>2. /\ v.lineage.dataset_version = me.outputs["normalized_market_data"]
        /\ v.lineage.universe_version = me.outputs["pit_universe"]
        /\ v.lineage.predictions = me.outputs["selected_oos_predictions"]
    BY <1>2, <1>4, <2>1, BacktestRoles
  <2>3. ReaderAccepts(me)
    BY <1>4 DEF RunnerPossible, BacktestPossible, StageOf
  <2> QED BY <2>2, <2>3 DEF ReaderAccepts, Predictions
<1> QED BY <1>2, <1>3, <1>4 DEF StageOf, v

(* What it takes, beside a run of its own, for a step to keep what is published. *)
LEMMA PublishedFits ==
    ASSUME PipelineTypeOK, PipelinePublished, [PipelineNext]_pipelineVars,
           NEW p \in Processes,
           \A q \in Processes \ {p} : processes'[q] = processes[q],
           OutputsPublished(processes[p])',
           \A stage \in DOMAIN checkpoints' : checkpoints'[stage] \in DOMAIN disk',
           \A v \in DOMAIN disk' \ DOMAIN disk :
               /\ \A role \in DOMAIN v.lineage : v.lineage[role] \in DOMAIN disk
               /\ v.stage = "event_driven_backtest" =>
                     \A role \in {"dataset_version", "universe_version"} :
                         v.lineage[role] = v.lineage.predictions.lineage[role]
    PROVE  PipelinePublished'
<1>1. DOMAIN disk \subseteq DOMAIN disk'
  BY DiskGrows
<1>2. ASSUME NEW q \in Processes PROVE OutputsPublished(processes[q])'
  <2>1. CASE q = p
    BY <2>1
  <2>2. CASE q # p
    <3>1. OutputsPublished(processes[q])
      BY DEF PipelinePublished
    <3> QED BY <1>1, <2>2, <3>1 DEF OutputsPublished
  <2> QED BY <2>1, <2>2
<1>3. LineageConsistent'
  BY <1>1 DEF LineageConsistent, PipelinePublished
<1> QED BY <1>2, <1>3 DEF PipelinePublished

(* Lineage follows from what has been published, whoever publishes, resumes or dies. *)
LEMMA PipelinePublishedStep ==
    ASSUME PipelineTypeOK, PipelinePublished, [PipelineNext]_pipelineVars
    PROVE  PipelinePublished'
<1>0. /\ DOMAIN disk \subseteq DOMAIN disk'
      /\ DOMAIN processes = Processes
      /\ \A stage \in DOMAIN checkpoints : checkpoints[stage] \in DOMAIN disk
  BY DiskGrows DEF PipelineTypeOK, PipelinePublished, LineageConsistent
<1>1. ASSUME NEW p \in Processes, PipelineStep(p) \/ RunKilled(p) PROVE PipelinePublished'
  <2> DEFINE me == processes[p]
             v == StageVersion(StageOf(p), me)
             Kept == /\ \A q \in Processes \ {p} : processes'[q] = processes[q]
                     /\ checkpoints' = checkpoints
                     /\ disk' = disk
  <2>1. RunWellFormed(me) /\ OutputsPublished(me)
    BY DEF PipelineTypeOK, PipelinePublished
  <2>2. DOMAIN me = {"pc", "bars", "source", "index", "outputs"}
    BY <2>1 DEF RunWellFormed
  <2>3. ASSUME Kept, OutputsPublished(processes[p])' PROVE PipelinePublished'
    BY <1>0, <2>3, PublishedFits
  <2>4. ASSUME processes' = [processes EXCEPT ![p] = NoRun], UNCHANGED <<disk, checkpoints>>
        PROVE  PipelinePublished'
    <3>1. processes'[p] = NoRun /\ Kept
      BY <1>0, <2>4
    <3>2. OutputsPublished(processes[p])'
      BY <3>1 DEF OutputsPublished, NoRun
    <3> QED BY <2>3, <3>1, <3>2
  <2>5. CASE LoadBars(p)
    <3>1. processes'[p].outputs = <<>> /\ processes'[p].pc = "source" /\ Kept
      BY <1>0, <2>5 DEF LoadBars, NoRun
    <3>2. OutputsPublished(processes[p])'
      BY <3>1 DEF OutputsPublished
    <3> QED BY <2>3, <3>1, <3>2
  <2>6. CASE SourceChecksum(p)
    <3>1. processes'[p].outputs = me.outputs /\ processes'[p].pc = "stage" /\ Kept
      BY <1>0, <2>2, <2>6 DEF SourceChecksum
    <3>2. OutputsPublished(processes[p])'
      BY <2>1, <3>1 DEF OutputsPublished
    <3> QED BY <2>3, <3>1, <3>2
  <2>7. ASSUME NEW w \in DOMAIN disk, FinishStage(p, w), me.pc \in {"stage", "checkpoint"},
               me.index \in DOMAIN Stages
        PROVE  /\ \A q \in Processes \ {p} : processes'[q] = processes[q]
               /\ OutputsPublished(processes[p])'
    <3>1. /\ processes'[p].pc = "stage"
          /\ processes'[p].outputs = Recorded(me.outputs, StageOf(p), w)
          /\ \A q \in Processes \ {p} : processes'[q] = processes[q]
      BY <2>7, FinishedStage
    <3>2. \A stage \in DOMAIN processes'[p].outputs : processes'[p].outputs[stage] \in DOMAIN disk
      BY <2>1, <3>1 DEF OutputsPublished, Recorded
    <3> QED BY <1>0, <3>1, <3>2 DEF OutputsPublished
  <2>8. CASE SaveCheckpoint(p)
    <3>1. /\ me.pc = "checkpoint" /\ me.index \in DOMAIN Stages
          /\ checkpoints' = Recorded(checkpoints, StageOf(p), v)
          /\ FinishStage(p, v) /\ disk' = disk
      BY <2>1, <2>8 DEF SaveCheckpoint, RunWellFormed
    <3>2. v \in DOMAIN disk
      BY <2>1, <3>1 DEF OutputsPublished, StageOf
    <3> HIDE DEF v
    <3>3. \A stage \in DOMAIN checkpoints' : checkpoints'[stage] \in DOMAIN disk'
      BY <1>0, <3>1, <3>2 DEF Recorded
    <3> QED BY <2>7, <3>1, <3>2, <3>3, PublishedFits
  <2>9. CASE Resume(p)
    <3>1. me.pc = "stage" /\ me.index \in DOMAIN Stages /\ StageOf(p) \in DOMAIN checkpoints
          /\ UNCHANGED <<disk, checkpoints>>
      BY <2>1, <2>9, StagesAreNamed DEF Resume, AtStage, HasCheckpoint, RunWellFormed
    <3>2. CASE FinishStage(p, checkpoints[StageOf(p)])
      BY <1>0, <2>3, <2>7, <3>1, <3>2
    <3>3. CASE processes' = [processes EXCEPT ![p] = NoRun]
      BY <2>4, <3>1, <3>3
    <3> QED BY <2>9, <3>2, <3>3 DEF Resume
  <2>10. CASE RunStage(p)
    <3>1. /\ AtStage(p) /\ RunnerPossible(StageOf(p), me)
          /\ disk' = Recorded(disk, v, "whole")
          /\ processes' = [processes EXCEPT ![p].pc = "checkpoint"]
          /\ checkpoints' = checkpoints
      BY <2>10 DEF RunStage
    <3>2. /\ \A q \in Processes \ {p} : processes'[q] = processes[q]
          /\ processes'[p].pc = "checkpoint"
          /\ processes'[p].bars = me.bars /\ processes'[p].source = me.source
          /\ processes'[p].index = me.index /\ processes'[p].outputs = me.outputs
      BY <1>0, <2>2, <3>1
    <3>3. StageVersion(Stages[me.index], processes'[p]) = v
      BY <3>2 DEF StageVersion, StageOf
    <3>4. /\ \A role \in DOMAIN v.lineage : v.lineage[role] \in DOMAIN disk
          /\ v.stage = "event_driven_backtest" =>
               \A role \in {"dataset_version", "universe_version"} :
                   v.lineage[role] = v.lineage.predictions.lineage[role]
      BY <2>1, <3>1, NewVersion
    <3> HIDE DEF v
    <3>5. DOMAIN disk' = DOMAIN disk \cup {v}
      BY <3>1 DEF Recorded
    <3>6. OutputsPublished(processes[p])'
      BY <2>1, <3>2, <3>3, <3>5 DEF OutputsPublished
    <3>7. \A stage \in DOMAIN checkpoints' : checkpoints'[stage] \in DOMAIN disk'
      BY <1>0, <3>1, <3>5
    <3> QED BY <3>2, <3>4, <3>5, <3>6, <3>7, PublishedFits
  <2>11. CASE StageFails(p) \/ CompleteRun(p) \/ RunKilled(p)
    BY <2>4, <2>11 DEF StageFails, CompleteRun, RunKilled, PublishRun
  <2> QED BY <1>1, <2>5, <2>6, <2>8, <2>9, <2>10, <2>11 DEF PipelineStep
<1>2. ASSUME UNCHANGED <<checkpoints, processes>>, DOMAIN disk' = DOMAIN disk
      PROVE  PipelinePublished'
  BY <1>2 DEF PipelinePublished, OutputsPublished, LineageConsistent
<1>3. ASSUME NEW v \in DOMAIN disk, ArtifactDamaged(v) PROVE PipelinePublished'
  BY <1>2, <1>3 DEF ArtifactDamaged
<1>4. CacheRefreshed \/ UNCHANGED pipelineVars => PipelinePublished'
  BY <1>2 DEF CacheRefreshed, pipelineVars
<1> QED BY <1>1, <1>3, <1>4 DEF PipelineNext

LEMMA PipelineStart == PipelineInit => PipelineTypeOK /\ PipelinePublished
<1> SUFFICES ASSUME PipelineInit PROVE PipelineTypeOK /\ PipelinePublished
  OBVIOUS
<1>1. RunWellFormed(NoRun) /\ OutputsPublished(NoRun)
  BY StagesAreNamed DEF RunWellFormed, NoRun, StagesBefore, OutputsPublished
<1>2. \A p \in Processes : processes[p] = NoRun
  BY DEF PipelineInit
<1>3. PipelineTypeOK
  <2>1. DOMAIN checkpoints = {} /\ DOMAIN processes = Processes
    BY DEF PipelineInit
  <2>2. cache \in Contents /\ torn \in BOOLEAN
    BY DEF PipelineInit
  <2> QED BY <1>1, <1>2, <2>1, <2>2 DEF PipelineTypeOK
<1>4. PipelinePublished
  BY <1>1, <1>2 DEF PipelineInit, PipelinePublished, LineageConsistent
<1> QED BY <1>3, <1>4

(* The two are inductive for any stages in order, contents and number of runs. *)
THEOREM PipelineInvariance == PipelineSpec => [](PipelineTypeOK /\ PipelinePublished)
BY PipelineStart, PipelineTypeStep, PipelinePublishedStep, PTL DEF PipelineSpec

(* Checkpoints and lineage name what was published before them, and a backtest is of the
   dataset and the universe of its predictions (orchestration.py, resume and run). *)
THEOREM LineageTheorem == PipelineSpec => []LineageConsistent
BY PipelineInvariance, PTL DEF PipelinePublished

-----------------------------------------------------------------------------
(* While no cache changes under a run, every run follows the checkpoints: whoever computes
   a stage computes what the others would. *)
FreshVersion(stage) ==
    [stage |-> stage,
     bars |-> ComputedFrom(stage, cache),
     source |-> IF stage = "normalized_market_data" THEN cache ELSE 0,
     lineage |-> StageLineage(stage, checkpoints)]

FollowsCheckpoints(me) ==
    me.pc # "idle" =>
        /\ me.bars = cache
        /\ me.pc # "source" => me.source = cache
        /\ StagesBefore(me.index) \subseteq DOMAIN checkpoints
        /\ me.outputs = [stage \in StagesBefore(me.index) |-> checkpoints[stage]]
        /\ me.pc = "checkpoint" /\ Stages[me.index] \in DOMAIN checkpoints =>
              checkpoints[Stages[me.index]] = FreshVersion(Stages[me.index])

CheckpointLineage(stage) ==
    /\ checkpoints[stage].stage = stage
    /\ \A role \in LineageRoles(stage) : AllInputs[stage][role] \in DOMAIN checkpoints
    /\ checkpoints[stage].lineage = StageLineage(stage, checkpoints)

CompletedFromCheckpoints(r) ==
    r.status = "completed" =>
        /\ StageNames \subseteq DOMAIN checkpoints
        /\ r.outputs = [stage \in StageNames |-> checkpoints[stage]]

Settled ==
    /\ \A p \in Processes : FollowsCheckpoints(processes[p])
    /\ \A stage \in DOMAIN checkpoints : CheckpointLineage(stage)
    /\ \A r \in runRecords : CompletedFromCheckpoints(r)

(* What a run that follows the checkpoints publishes. *)
LEMMA VersionIsFresh ==
    ASSUME NEW me, FollowsCheckpoints(me), me.pc \in {"stage", "checkpoint"},
           me.index \in DOMAIN Stages
    PROVE  /\ StageVersion(Stages[me.index], me) = FreshVersion(Stages[me.index])
           /\ \A role \in LineageRoles(Stages[me.index]) :
                 AllInputs[Stages[me.index]][role] \in DOMAIN checkpoints
<1> DEFINE s == Stages[me.index]
<1>1. /\ me.bars = cache /\ me.source = cache
      /\ StagesBefore(me.index) \subseteq DOMAIN checkpoints
      /\ me.outputs = [stage \in StagesBefore(me.index) |-> checkpoints[stage]]
  BY DEF FollowsCheckpoints
<1>2. \A role \in LineageRoles(s) : AllInputs[s][role] \in StagesBefore(me.index)
  BY InputsComeBefore
<1>3. StageLineage(s, me.outputs) = StageLineage(s, checkpoints)
  BY <1>1, <1>2 DEF StageLineage
<1> QED BY <1>1, <1>2, <1>3 DEF StageVersion, FreshVersion

(* A step of one run that writes no checkpoint. *)
LEMMA SettledKept ==
    ASSUME Settled, UNCHANGED <<cache, checkpoints>>, NEW p \in Processes,
           \A q \in Processes \ {p} : processes'[q] = processes[q],
           FollowsCheckpoints(processes[p])',
           \A r \in runRecords' \ runRecords : CompletedFromCheckpoints(r)
    PROVE  Settled'
<1>1. ASSUME NEW q \in Processes PROVE FollowsCheckpoints(processes[q])'
  <2>1. CASE q = p
    BY <2>1
  <2>2. CASE q # p
    BY <2>2 DEF Settled, FollowsCheckpoints, FreshVersion
  <2> QED BY <2>1, <2>2
<1>2. \A stage \in DOMAIN checkpoints' : CheckpointLineage(stage)'
  BY DEF Settled, CheckpointLineage
<1>3. \A r \in runRecords' : CompletedFromCheckpoints(r)'
  BY DEF Settled, CompletedFromCheckpoints
<1> QED BY <1>1, <1>2, <1>3 DEF Settled

(* The one that writes a checkpoint writes what is there already, if anything is. *)
LEMMA SettledSaved ==
    ASSUME PipelineTypeOK, Settled, NEW p \in Processes, SaveCheckpoint(p)
    PROVE  Settled'
<1> DEFINE me == processes[p]
           s == Stages[me.index]
           v == FreshVersion(s)
<1>1. RunWellFormed(me) /\ FollowsCheckpoints(me) /\ me.pc = "checkpoint"
  BY DEF PipelineTypeOK, Settled, SaveCheckpoint
<1>2. me.index \in DOMAIN Stages
  BY <1>1 DEF RunWellFormed
<1>3. StageVersion(s, me) = v /\ \A role \in LineageRoles(s) : AllInputs[s][role] \in DOMAIN checkpoints
  BY <1>1, <1>2, VersionIsFresh
<1>4. FinishStage(p, v) /\ checkpoints' = Recorded(checkpoints, s, v)
      /\ UNCHANGED <<cache, runRecords>>
  BY <1>3 DEF SaveCheckpoint, StageOf
<1>5. s \in DOMAIN checkpoints => checkpoints[s] = v
  BY <1>1 DEF FollowsCheckpoints
<1>6. v.stage = s /\ v.lineage = StageLineage(s, checkpoints)
  BY DEF FreshVersion
<1> HIDE DEF v
<1>7. /\ DOMAIN checkpoints' = DOMAIN checkpoints \cup {s}
      /\ checkpoints'[s] = v
      /\ \A x \in DOMAIN checkpoints : checkpoints'[x] = checkpoints[x]
  BY <1>4, <1>5 DEF Recorded
<1>8. ASSUME NEW stage, \A role \in LineageRoles(stage) : AllInputs[stage][role] \in DOMAIN checkpoints
      PROVE  StageLineage(stage, checkpoints') = StageLineage(stage, checkpoints)
  BY <1>7, <1>8 DEF StageLineage
<1>9. ASSUME NEW stage, \A role \in LineageRoles(stage) : AllInputs[stage][role] \in DOMAIN checkpoints
      PROVE  FreshVersion(stage)' = FreshVersion(stage)
  BY <1>4, <1>8, <1>9 DEF FreshVersion
<1>10. ASSUME NEW q \in Processes, q # p PROVE FollowsCheckpoints(processes[q])'
  <2> DEFINE you == processes[q]
  <2>0. PICK t : t = Stages[you.index]
    OBVIOUS
  <2>1. processes'[q] = you
    BY <1>1, <1>2, <1>4, <1>10, FinishedStage
  <2>2. RunWellFormed(you) /\ FollowsCheckpoints(you)
    BY DEF PipelineTypeOK, Settled
  <2>3. ASSUME you.pc = "checkpoint", t \in DOMAIN checkpoints'
        PROVE  checkpoints'[t] = FreshVersion(t)'
    <3>1. you.index \in DOMAIN Stages
      BY <2>2, <2>3 DEF RunWellFormed
    <3>2. FreshVersion(t)' = FreshVersion(t)
      BY <1>9, <2>0, <2>2, <2>3, <3>1, VersionIsFresh
    <3>3. CASE t \in DOMAIN checkpoints
      BY <1>7, <2>0, <2>2, <2>3, <3>2, <3>3 DEF FollowsCheckpoints
    <3>4. CASE t = s
      BY <1>7, <3>2, <3>4 DEF v
    <3> QED BY <1>7, <2>3, <3>3, <3>4
  <2>4. you.pc # "idle" => [stage \in StagesBefore(you.index) |-> checkpoints'[stage]]
                             = [stage \in StagesBefore(you.index) |-> checkpoints[stage]]
    BY <1>7, <2>2 DEF FollowsCheckpoints
  <2> QED BY <1>4, <1>7, <2>0, <2>1, <2>2, <2>3, <2>4 DEF FollowsCheckpoints
<1>11. FollowsCheckpoints(processes[p])'
  <2> DEFINE n == processes'[p]
  <2>1. /\ n.pc = "stage" /\ n.bars = me.bars /\ n.source = me.source
        /\ n.index = me.index + 1
        /\ n.outputs = Recorded(me.outputs, s, v)
    BY <1>1, <1>2, <1>4, FinishedStage DEF StageOf
  <2>2. /\ me.bars = cache /\ me.source = cache
        /\ StagesBefore(me.index) \subseteq DOMAIN checkpoints
        /\ me.outputs = [stage \in StagesBefore(me.index) |-> checkpoints[stage]]
    BY <1>1 DEF FollowsCheckpoints
  <2>3. StagesBefore(n.index) = StagesBefore(me.index) \cup {s}
    BY <1>2, <2>1, NextStagesBefore
  <2>4. n.outputs = [stage \in StagesBefore(n.index) |-> checkpoints'[stage]]
    BY <1>7, <2>1, <2>2, <2>3 DEF Recorded
  <2> QED BY <1>4, <1>7, <2>1, <2>2, <2>3, <2>4 DEF FollowsCheckpoints
<1>12. ASSUME NEW stage \in DOMAIN checkpoints' PROVE CheckpointLineage(stage)'
  <2>1. CASE stage \in DOMAIN checkpoints
    BY <1>7, <1>8, <2>1 DEF Settled, CheckpointLineage
  <2>2. CASE stage = s
    BY <1>3, <1>6, <1>7, <1>8, <2>2 DEF CheckpointLineage
  <2> QED BY <1>7, <2>1, <2>2
<1>13. ASSUME NEW r \in runRecords' PROVE CompletedFromCheckpoints(r)'
  <2>1. CompletedFromCheckpoints(r)
    BY <1>4 DEF Settled
  <2> QED BY <1>7, <2>1 DEF CompletedFromCheckpoints
<1> QED BY <1>10, <1>11, <1>12, <1>13 DEF Settled

(* Unless a cache has changed under a run, everything stays settled. *)
LEMMA SettledStep ==
    ASSUME PipelineTypeOK, torn \/ Settled, [PipelineNext]_pipelineVars
    PROVE  torn' \/ Settled'
<1> SUFFICES ASSUME ~torn' PROVE Settled'
  OBVIOUS
<1>0. torn \in BOOLEAN /\ torn' \in BOOLEAN /\ DOMAIN processes = Processes
  BY PipelineTypeStep DEF PipelineTypeOK
<1>1. torn => torn'
  BY DEF PipelineNext, PipelineStep, pipelineVars, LoadBars, SourceChecksum, Resume, RunStage,
         StageFails, SaveCheckpoint, CompleteRun, RunKilled, CacheRefreshed, ArtifactDamaged
<1> Settled
  BY <1>0, <1>1
<1>2. ASSUME NEW p \in Processes, PipelineStep(p) \/ RunKilled(p) PROVE Settled'
  <2> DEFINE me == processes[p]
  <2>1. RunWellFormed(me) /\ FollowsCheckpoints(me)
    BY DEF PipelineTypeOK, Settled
  <2>2. DOMAIN me = {"pc", "bars", "source", "index", "outputs"}
    BY <2>1 DEF RunWellFormed
  <2>3. ASSUME processes' = [processes EXCEPT ![p] = NoRun], UNCHANGED <<cache, checkpoints>>,
               \A r \in runRecords' \ runRecords : CompletedFromCheckpoints(r)
        PROVE  Settled'
    <3>1. processes'[p].pc = "idle" /\ \A q \in Processes \ {p} : processes'[q] = processes[q]
      BY <1>0, <2>3 DEF NoRun
    <3>2. FollowsCheckpoints(processes[p])'
      BY <3>1 DEF FollowsCheckpoints
    <3> QED BY <2>3, <3>1, <3>2, SettledKept
  <2>4. CASE LoadBars(p)
    <3>1. /\ processes'[p].pc = "source" /\ processes'[p].bars = cache
          /\ processes'[p].index = 1 /\ processes'[p].outputs = <<>>
          /\ \A q \in Processes \ {p} : processes'[q] = processes[q]
          /\ UNCHANGED <<cache, checkpoints, runRecords>>
      BY <1>0, <2>4 DEF LoadBars, NoRun
    <3>2. StagesBefore(1) = {}
      BY DEF StagesBefore
    <3>3. FollowsCheckpoints(processes[p])'
      BY <3>1, <3>2 DEF FollowsCheckpoints
    <3> QED BY <3>1, <3>3, SettledKept
  <2>5. CASE SourceChecksum(p)
    <3>1. /\ processes'[p].pc = "stage" /\ processes'[p].bars = me.bars
          /\ processes'[p].source = cache
          /\ processes'[p].index = me.index /\ processes'[p].outputs = me.outputs
          /\ \A q \in Processes \ {p} : processes'[q] = processes[q]
          /\ UNCHANGED <<cache, checkpoints, runRecords>> /\ me.pc = "source"
      BY <1>0, <2>2, <2>5 DEF SourceChecksum
    <3>2. FollowsCheckpoints(processes[p])'
      BY <2>1, <3>1 DEF FollowsCheckpoints
    <3> QED BY <3>1, <3>2, SettledKept
  <2>6. CASE RunStage(p)
    <3>1. /\ processes'[p].pc = "checkpoint" /\ processes'[p].bars = me.bars
          /\ processes'[p].source = me.source
          /\ processes'[p].index = me.index /\ processes'[p].outputs = me.outputs
          /\ \A q \in Processes \ {p} : processes'[q] = processes[q]
          /\ UNCHANGED <<cache, checkpoints, runRecords>> /\ me.pc = "stage"
          /\ Stages[me.index] \notin DOMAIN checkpoints
      BY <1>0, <2>2, <2>6 DEF RunStage, AtStage, HasCheckpoint, StageOf
    <3>2. FollowsCheckpoints(processes[p])'
      BY <2>1, <3>1 DEF FollowsCheckpoints
    <3> QED BY <3>1, <3>2, SettledKept
  <2>7. CASE Resume(p)
    <3> DEFINE s == Stages[me.index]
    <3>1. /\ me.pc = "stage" /\ me.index \in DOMAIN Stages /\ s \in DOMAIN checkpoints
          /\ UNCHANGED <<cache, checkpoints, runRecords>>
      BY <2>1, <2>7, StagesAreNamed DEF Resume, AtStage, HasCheckpoint, RunWellFormed, StageOf
    <3>2. CASE FinishStage(p, checkpoints[s])
      <4>1. /\ processes'[p].pc = "stage" /\ processes'[p].bars = me.bars
            /\ processes'[p].source = me.source /\ processes'[p].index = me.index + 1
            /\ processes'[p].outputs = Recorded(me.outputs, s, checkpoints[s])
            /\ \A q \in Processes \ {p} : processes'[q] = processes[q]
        BY <3>1, <3>2, FinishedStage DEF StageOf
      <4>2. StagesBefore(me.index + 1) = StagesBefore(me.index) \cup {s}
        BY <3>1, NextStagesBefore
      <4>3. FollowsCheckpoints(processes[p])'
        BY <2>1, <3>1, <4>1, <4>2 DEF FollowsCheckpoints, Recorded
      <4> QED BY <3>1, <4>1, <4>3, SettledKept
    <3>3. CASE processes' = [processes EXCEPT ![p] = NoRun]
      BY <2>3, <3>1, <3>3
    <3> QED BY <2>7, <3>2, <3>3 DEF Resume, StageOf
  <2>8. CASE StageFails(p)
    <3>1. /\ runRecords' = runRecords \cup {RunRecord(p, "failed")}
          /\ processes' = [processes EXCEPT ![p] = NoRun]
          /\ UNCHANGED <<cache, checkpoints>>
      BY <2>8 DEF StageFails, PublishRun
    <3>2. RunRecord(p, "failed").status = "failed"
      BY DEF RunRecord
    <3> QED BY <2>3, <3>1, <3>2 DEF CompletedFromCheckpoints
  <2>9. CASE CompleteRun(p)
    <3>1. /\ runRecords' = runRecords \cup {RunRecord(p, "completed")}
          /\ processes' = [processes EXCEPT ![p] = NoRun]
          /\ UNCHANGED <<cache, checkpoints>>
          /\ me.pc = "stage" /\ me.index > Len(Stages)
      BY <2>9 DEF CompleteRun, PublishRun
    <3>2. me.index = Len(Stages) + 1 /\ StagesBefore(me.index) = StageNames
      BY <2>1, <3>1, StagesAreNamed DEF RunWellFormed
    <3>3. RunRecord(p, "completed").outputs = me.outputs
      BY DEF RunRecord
    <3>4. CompletedFromCheckpoints(RunRecord(p, "completed"))
      BY <2>1, <3>1, <3>2, <3>3 DEF CompletedFromCheckpoints, FollowsCheckpoints
    <3> QED BY <2>3, <3>1, <3>4
  <2>10. CASE RunKilled(p)
    BY <2>3, <2>10 DEF RunKilled
  <2> QED BY <1>2, <2>4, <2>5, <2>6, <2>7, <2>8, <2>9, <2>10, SettledSaved DEF PipelineStep
<1>3. CASE CacheRefreshed
  <2>1. /\ UNCHANGED <<checkpoints, runRecords, processes>>
        /\ \A p \in Processes : ~RunAlive(p)
    BY <1>0, <1>3 DEF CacheRefreshed
  <2>2. \A p \in Processes : FollowsCheckpoints(processes[p])'
    BY <2>1 DEF FollowsCheckpoints, RunAlive
  <2>3. \A stage \in DOMAIN checkpoints' : CheckpointLineage(stage)'
    BY <2>1 DEF Settled, CheckpointLineage
  <2>4. \A r \in runRecords' : CompletedFromCheckpoints(r)'
    BY <2>1 DEF Settled, CompletedFromCheckpoints
  <2> QED BY <2>2, <2>3, <2>4 DEF Settled
<1>4. ASSUME UNCHANGED <<cache, checkpoints, runRecords, processes>> PROVE Settled'
  BY <1>4 DEF Settled, FollowsCheckpoints, FreshVersion, CheckpointLineage, CompletedFromCheckpoints
<1>5. CASE \E v \in DOMAIN disk : ArtifactDamaged(v)
  BY <1>4, <1>5 DEF ArtifactDamaged
<1>6. CASE UNCHANGED pipelineVars
  BY <1>4, <1>6 DEF pipelineVars
<1> QED BY <1>2, <1>3, <1>5, <1>6 DEF PipelineNext

LEMMA SettledStart == PipelineInit => Settled
<1> SUFFICES ASSUME PipelineInit PROVE Settled
  OBVIOUS
<1>1. runRecords = {} /\ \A p \in Processes : processes[p].pc = "idle"
  BY DEF PipelineInit, NoRun
<1>2. DOMAIN checkpoints = {}
  BY DEF PipelineInit
<1> QED BY <1>1, <1>2 DEF Settled, FollowsCheckpoints

(* Runs that complete name the same artifacts, however many there were, wherever they were
   killed and whichever resumed which, as long as no cache changed under one of them. *)
THEOREM AgreementTheorem == PipelineSpec => []CompletedRunsAgree
<1>1. PipelineInit => torn \/ Settled
  BY SettledStart
<1>2. PipelineTypeOK /\ (torn \/ Settled) /\ [PipelineNext]_pipelineVars => (torn \/ Settled)'
  BY SettledStep
<1>3. torn \/ Settled => CompletedRunsAgree
  BY DEF Settled, CompletedRunsAgree, CompletedFromCheckpoints
<1> QED BY <1>1, <1>2, <1>3, PipelineInvariance, PTL DEF PipelineSpec

-----------------------------------------------------------------------------
(* With twelve sessions every fit has its two observations, and the last prediction can
   be traded and its trade settled. *)
LEMMA FitsArePossible ==
    ASSUME NEW held, SessionCount[held] \in Nat, Instruments >= 2
    PROVE  FitsPossible(held)
<1> SUFFICES ASSUME NEW k \in PredictedSessions(held)
             PROVE  Cardinality(TrainingSessions(k)) * Instruments >= 2
  BY DEF FitsPossible
<1>1. k \in Nat /\ k >= 7
  BY DEF PredictedSessions
<1>2. 5 \in TrainingSessions(k) /\ TrainingSessions(k) \subseteq 5..k
  BY <1>1 DEF TrainingSessions
<1>3. IsFiniteSet(TrainingSessions(k))
  <2>1. IsFiniteSet(5..k)
    BY <1>1, FS_Interval
  <2> QED BY <1>2, <2>1, FS_Subset
<1>4. Cardinality(TrainingSessions(k)) \in Nat /\ Cardinality(TrainingSessions(k)) # 0
  BY <1>2, <1>3, FS_CardinalityType, FS_EmptySet
<1>5. \A c, i \in Nat : c # 0 /\ i >= 2 => c * i >= 2
  <2> SUFFICES ASSUME NEW c \in Nat, NEW i \in Nat, c # 0, i >= 2 PROVE c * i >= 2
    OBVIOUS
  <2>1. (c - 1) \in Nat /\ (c - 1) * i >= 0
    OBVIOUS
  <2>2. c * i = (c - 1) * i + i
    OBVIOUS
  <2> QED BY <2>1, <2>2
<1> QED BY <1>4, <1>5, PipelineAssumption

LEMMA TwelveSessionsPredicted ==
    ASSUME NEW held, NEW n \in Nat, SessionCount[held] = n, n >= 12
    PROVE  7 \in PredictedSessions(held)
           /\ \A k \in PredictedSessions(held) : k \in Nat /\ k + 3 < n
BY DEF PredictedSessions

(* A run with twelve sessions finds no reason to fail, if everything in the store is whole
   and was made from caches of that length. *)
LEMMA StageSucceeds ==
    ASSUME PipelineTypeOK, PipelinePublished, Settled, Undamaged, Instruments >= 2,
           NEW p \in Processes, AtStage(p),
           SessionCount[processes[p].bars] >= 12,
           \A v \in DOMAIN disk : ~OtherLength(v, processes[p].bars)
    PROVE  /\ RunnerPossible(StageOf(p), processes[p])
           /\ RunnerCertain(StageOf(p), processes[p])
<1> DEFINE me == processes[p]
           n == SessionCount[me.bars]
           s == Stages[me.index]
<1>1. /\ RunWellFormed(me) /\ FollowsCheckpoints(me) /\ OutputsPublished(me)
      /\ me.pc = "stage" /\ me.index \in DOMAIN Stages
  BY StagesAreNamed DEF PipelineTypeOK, PipelinePublished, Settled, AtStage, RunWellFormed
<1>2. me.bars \in Contents /\ n \in Nat
  BY <1>1, PipelineAssumption DEF RunWellFormed
<1>3. s = "selected_oos_predictions" => FitsPossible(me.bars)
  BY <1>2, FitsArePossible
<1>4. ASSUME s = "event_driven_backtest" PROVE BacktestPossible(me) /\ SettlementFits(me)
  <2> DEFINE made == Predictions(me)
  <2>1. {"normalized_market_data", "pit_universe", "selected_oos_predictions"}
          \subseteq StagesBefore(me.index)
    <3>1. "event_driven_backtest" \in StageNames
      BY <1>1, <1>4, StagesAreNamed
    <3>2. \A role \in {"dataset_version", "universe_version", "predictions"} :
             AllInputs[s][role] \in StagesBefore(me.index)
      BY <1>1, <1>4, <3>1, BacktestRoles, InputsComeBefore
    <3> QED BY <1>4, <3>1, <3>2, BacktestRoles
  <2>2. /\ made = checkpoints["selected_oos_predictions"]
        /\ me.outputs["normalized_market_data"] = checkpoints["normalized_market_data"]
        /\ me.outputs["pit_universe"] = checkpoints["pit_universe"]
        /\ "selected_oos_predictions" \in DOMAIN checkpoints
        /\ made \in DOMAIN disk
    BY <1>1, <2>1 DEF FollowsCheckpoints, Predictions, OutputsPublished
  <2>3. CheckpointLineage("selected_oos_predictions")
    BY <2>2 DEF Settled
  <2>4. /\ made.lineage.dataset_version = me.outputs["normalized_market_data"]
        /\ made.lineage.universe_version = me.outputs["pit_universe"]
        /\ made.stage = "selected_oos_predictions"
    <3>1. "event_driven_backtest" \in StageNames
      BY <1>1, <1>4, StagesAreNamed
    <3> QED BY <2>2, <2>3, <3>1, BacktestRoles DEF CheckpointLineage, StageLineage
  <2>5. disk[made] = "whole" /\ ~OtherLength(made, me.bars)
    BY <2>2 DEF Undamaged
  <2>6. made.bars # 0 /\ SessionCount[made.bars] = n
    BY <2>4, <2>5 DEF OtherLength
  <2> DEFINE days == PredictedSessions(made.bars)
  <2>7. DecisionSessions(me) = days
    BY <2>6 DEF DecisionSessions
  <2>8. 7 \in days /\ \A k \in days : k \in Nat /\ k + 3 < n
    BY <1>2, <2>6, TwelveSessionsPredicted
  <2> HIDE DEF days, made
  <2>9. ReaderAccepts(me)
    BY <1>2, <2>4, <2>5, <2>7, <2>8 DEF ReaderAccepts, made
  <2>10. 8 \in TradeSessions(me) /\ \A t \in TradeSessions(me) : t + 2 < n
    BY <1>2, <2>7, <2>8 DEF TradeSessions
  <2> QED BY <2>9, <2>10 DEF BacktestPossible, SettlementFits
<1> QED BY <1>3, <1>4 DEF RunnerPossible, RunnerCertain, StageOf

(* Nothing that is damaged becomes whole again. *)
LEMMA DamageStays ==
    ASSUME [PipelineNext]_pipelineVars, Undamaged'
    PROVE  Undamaged
<1>0. DOMAIN disk \subseteq DOMAIN disk'
  BY DiskGrows
<1>1. ASSUME NEW p, RunStage(p) PROVE Undamaged
  <2> DEFINE v == StageVersion(StageOf(p), processes[p])
  <2>1. disk' = Recorded(disk, v, "whole") /\ (v \in DOMAIN disk => disk[v] = "whole")
    BY <1>1 DEF RunStage
  <2> HIDE DEF v
  <2> QED BY <2>1 DEF Recorded, Undamaged
<1>2. ASSUME NEW v \in DOMAIN disk, ArtifactDamaged(v) PROVE Undamaged
  <2>1. v \in DOMAIN disk' /\ disk'[v] = "damaged"
    BY <1>2 DEF ArtifactDamaged
  <2> QED BY <2>1 DEF Undamaged
<1>3. ASSUME disk' = disk PROVE Undamaged
  BY <1>3 DEF Undamaged
<1>4. ASSUME NEW p,
             \/ LoadBars(p) \/ SourceChecksum(p) \/ Resume(p) \/ StageFails(p)
             \/ SaveCheckpoint(p) \/ CompleteRun(p) \/ RunKilled(p)
      PROVE  Undamaged
  BY <1>3, <1>4 DEF LoadBars, SourceChecksum, Resume, StageFails, SaveCheckpoint, CompleteRun,
                    RunKilled
<1>5. CacheRefreshed \/ UNCHANGED pipelineVars => Undamaged
  BY <1>3 DEF CacheRefreshed, pipelineVars
<1> QED BY <1>1, <1>2, <1>4, <1>5 DEF PipelineNext, PipelineStep

(* A step records a failure only of a run that had a reason. *)
LEMMA EnoughStep ==
    ASSUME PipelineTypeOK, PipelinePublished, torn \/ Settled, EnoughSessionsSuffice,
           [PipelineNext]_pipelineVars
    PROVE  EnoughSessionsSuffice'
<1> DEFINE Excused(r) == \/ SessionCount[r.coverage] < 12
                         \/ \E v \in DOMAIN disk : OtherLength(v, r.coverage)
<1> SUFFICES ASSUME Instruments >= 2, ~torn', Undamaged',
                    NEW r \in runRecords', r.status = "failed"
             PROVE  Excused(r)'
  BY DEF EnoughSessionsSuffice
<1>1. torn => torn'
  BY DEF PipelineNext, PipelineStep, pipelineVars, LoadBars, SourceChecksum, Resume, RunStage,
         StageFails, SaveCheckpoint, CompleteRun, RunKilled, CacheRefreshed, ArtifactDamaged
<1>2. Settled /\ ~torn /\ Undamaged /\ DOMAIN disk \subseteq DOMAIN disk'
  BY <1>1, DamageStays, DiskGrows
<1>3. Excused(r) => Excused(r)'
  BY <1>2
<1>4. CASE r \in runRecords
  BY <1>2, <1>3, <1>4 DEF EnoughSessionsSuffice
<1>5. ASSUME NEW p \in Processes, StageFails(p), r = RunRecord(p, "failed") PROVE Excused(r)
  <2>1. r.coverage = processes[p].bars /\ AtStage(p)
    BY <1>5 DEF RunRecord, StageFails
  <2>2. ASSUME ~Excused(r) PROVE FALSE
    <3>1. SessionCount[processes[p].bars] \in Nat
      BY <2>1, PipelineAssumption DEF AtStage, PipelineTypeOK, RunWellFormed
    <3>2. RunnerPossible(StageOf(p), processes[p]) /\ RunnerCertain(StageOf(p), processes[p])
      BY <1>2, <2>1, <2>2, <3>1, StageSucceeds
    <3>3. \A v \in DOMAIN disk : disk[v] # "damaged"
      BY <1>2 DEF Undamaged
    <3> QED BY <1>5, <3>2, <3>3 DEF StageFails
  <2> QED BY <2>2
<1>6. ASSUME r \notin runRecords
      PROVE  \E p \in Processes : StageFails(p) /\ r = RunRecord(p, "failed")
  <2>1. \A p : RunRecord(p, "completed").status = "completed"
    BY DEF RunRecord
  <2> QED
    BY <1>6, <2>1 DEF PipelineNext, PipelineStep, pipelineVars, LoadBars, SourceChecksum, Resume,
       RunStage, StageFails, SaveCheckpoint, CompleteRun, RunKilled, CacheRefreshed,
       ArtifactDamaged, PublishRun
<1> QED BY <1>3, <1>4, <1>5, <1>6

(* Twelve common sessions are enough for every stage, for any number of runs that begin,
   die and resume each other, while the cache keeps its length (build_predictions and the
   settlement of the event backtest, pipeline/exploratory.py). *)
THEOREM EnoughSessionsTheorem == PipelineSpec => []EnoughSessionsSuffice
<1>1. PipelineInit => EnoughSessionsSuffice /\ (torn \/ Settled)
  BY SettledStart DEF PipelineInit, EnoughSessionsSuffice
<1>2. PipelineTypeOK /\ PipelinePublished /\ (torn \/ Settled) /\ EnoughSessionsSuffice
        /\ [PipelineNext]_pipelineVars => (torn \/ Settled)' /\ EnoughSessionsSuffice'
  BY SettledStep, EnoughStep
<1> QED BY <1>1, <1>2, PipelineInvariance, PTL DEF PipelineSpec

-----------------------------------------------------------------------------
(* The walk-forward experiments.  What the samples say of the panel they were joined from. *)
KnownAt(i, day, lookback) ==
    \A e \in Window(day, lookback) :
        Bar(i, e) # "missing" /\ available_at(i, e) <= decision_time(day)

(* A supervised row is of a session; one that is valid has an interval, from the entry to
   the exit of its label, and all of its features. *)
SampleSound(s) ==
    /\ s.day \in trading
    /\ s.valid =>
         /\ Exit(s.day) # None
         /\ s.start = OpenOf(Entry(s.day))
         /\ s.end = ExitInstant(s.day)
         /\ \A lookback \in Lookbacks : KnownAt(s.instrument, s.day, lookback)

PanelSound ==
    /\ trading \subseteq 1..Days
    /\ panelStage \in {"universe", "features", "labels", "samples", "done"}
    /\ \A member \in universe : member[2] \in trading
    /\ panelStage = "universe" => features = {}
    /\ \A i, day, lookback : <<i, day, lookback>> \in features => KnownAt(i, day, lookback)
    /\ \A l \in labels : l = Label(l.instrument, l.day) /\ l.day \in trading
    /\ \A s \in samples : SampleSound(s)

(* Before and after: the samples a fold is fitted on, and those it is judged by. *)
Evaluation(fold) == fold.validation \cup fold.test

Folds ==
    [train : SUBSET samples, validation : SUBSET samples, test : SUBSET samples,
     trainDays : SUBSET DevelopmentSessions, validationDays : SUBSET DevelopmentSessions]

FoldSound(fold) ==
    /\ fold.train # {}
    /\ fold.train \cup Evaluation(fold)
         \subseteq {s \in samples : s.valid /\ s.day \in DevelopmentSessions}
    /\ \A s \in fold.train : \A e \in Evaluation(fold) : s.day < e.day /\ ~Overlaps(s, e)

RowSound(row) ==
    /\ row.fold \in DOMAIN folds
    /\ row.cutoff = fit_cutoff(folds[row.fold])
    /\ \E e \in Evaluation(folds[row.fold]) : e.instrument = row.instrument /\ e.day = row.day

ExperimentSound ==
    /\ config \in SplitConfigs
    /\ trainEnd \in Nat /\ trained \in Nat
    /\ experiment \in {"idle", "splitting", "training", "saved", "failed"}
    /\ experiment # "idle" => panelStage = "done"
    /\ experiment = "idle" => folds = <<>>
    /\ experiment \in {"idle", "splitting"} => rows = {}
    /\ folds \in Seq(Folds)
    /\ \A k \in DOMAIN folds : FoldSound(folds[k])
    /\ \A row \in rows \cup ledger : RowSound(row)

-----------------------------------------------------------------------------
LEMMA DaysAreNatural ==
    ASSUME trading \subseteq 1..Days
    PROVE  \A d \in trading : d \in Nat
<1>1. Days \in Nat
  BY PanelAssumption
<1> QED BY <1>1

(* The days around a session. *)
LEMMA EntryFacts ==
    ASSUME trading \subseteq 1..Days, NEW day \in trading, Future(day) # {}
    PROVE  /\ Entry(day) \in trading /\ Entry(day) > day
           /\ \A e \in trading : e > day => Entry(day) <= e
<1>1. Future(day) \subseteq Nat
  BY DaysAreNatural DEF Future
<1>2. \E n \in Future(day) : \A m \in Future(day) : n <= m
  BY <1>1, LeastNumber
<1>3. Entry(day) \in Future(day) /\ \A e \in Future(day) : Entry(day) <= e
  BY <1>2 DEF Entry, Min
<1> QED BY <1>3 DEF Future

LEMMA ExitFacts ==
    ASSUME trading \subseteq 1..Days, NEW day \in trading, Exit(day) # None
    PROVE  /\ Future(day) # {}
           /\ Exit(day) \in trading
           /\ Exit(day) >= Entry(day)
           /\ ExitInstant(day) \in {3 * Exit(day), 3 * Exit(day) + 1}
<1>1. Exit(day) \in Future(day)
  BY DEF Exit, ExitAt
<1>2. Exit(day) \in trading /\ Exit(day) > day
  BY <1>1 DEF Future
<1>3. Exit(day) >= Entry(day)
  BY <1>1, <1>2, EntryFacts
<1> QED BY <1>1, <1>2, <1>3 DEF ExitInstant, OpenOf, CloseOf

(* The purge: what an earlier sample earned was decided before a later one is predicted. *)
LEMMA PurgedIsDecided ==
    ASSUME trading \subseteq 1..Days,
           NEW s, NEW e, SampleSound(s), SampleSound(e), s.valid, e.valid,
           s.day < e.day, ~Overlaps(s, e)
    PROVE  s.end < decision_time(e.day)
<1>1. \A d \in trading : d \in Nat
  BY DaysAreNatural
<1>2. /\ s.day \in trading /\ Exit(s.day) # None
      /\ s.start = OpenOf(Entry(s.day)) /\ s.end = ExitInstant(s.day)
      /\ e.day \in trading /\ Exit(e.day) # None
      /\ e.start = OpenOf(Entry(e.day)) /\ e.end = ExitInstant(e.day)
  BY DEF SampleSound
<1> DEFINE x == Exit(s.day)
           n == Entry(e.day)
<1>3. /\ Entry(s.day) \in trading
      /\ \A d \in trading : d > s.day => Entry(s.day) <= d
      /\ x \in trading /\ s.end \in {3 * x, 3 * x + 1}
  BY <1>2, EntryFacts, ExitFacts
<1>4. /\ n \in trading /\ n > e.day
      /\ \A d \in trading : d > e.day => n <= d
      /\ Exit(e.day) \in trading /\ Exit(e.day) >= n
      /\ e.end \in {3 * Exit(e.day), 3 * Exit(e.day) + 1}
  BY <1>2, EntryFacts, ExitFacts
<1>5. s.start = 3 * Entry(s.day) /\ e.start = 3 * n
  BY <1>2 DEF OpenOf
<1> HIDE DEF x, n
<1> DEFINE m == Entry(s.day)
           y == Exit(e.day)
           a == s.day
           b == e.day
<1>6. /\ m \in Nat /\ n \in Nat /\ x \in Nat /\ y \in Nat /\ a \in Nat /\ b \in Nat
      /\ a < b /\ b < n /\ n <= y
  BY <1>1, <1>2, <1>3, <1>4
<1>7. m <= n
  <2>1. n > s.day
    BY <1>6
  <2> QED BY <1>3, <1>4, <2>1
<1>8. x > b => n <= x
  BY <1>3, <1>4
<1> HIDE DEF m, y, a, b
<1>9. s.start = 3 * m /\ e.start = 3 * n
  BY <1>5 DEF m
<1>10. s.end \in {3 * x, 3 * x + 1} /\ e.end \in {3 * y, 3 * y + 1}
  BY <1>3, <1>4 DEF y
<1>11. s.start <= e.end
  BY <1>6, <1>7, <1>9, <1>10
<1>12. s.end < e.start
  BY <1>6, <1>9, <1>10, <1>11 DEF Overlaps
<1>13. x <= b
  BY <1>6, <1>8, <1>9, <1>10, <1>12
<1> QED BY <1>6, <1>10, <1>13 DEF decision_time, b

LEMMA GreatestNumber ==
    ASSUME NEW S, S \subseteq Nat, S # {}, NEW b \in Nat, \A x \in S : x <= b
    PROVE  Max(S) \in S /\ \A x \in S : x <= Max(S)
<1> DEFINE gaps == {b - x : x \in S}
<1>1. gaps \subseteq Nat /\ gaps # {}
  <2>1. ASSUME NEW x \in S PROVE b - x \in Nat
    OBVIOUS
  <2> QED BY <2>1
<1>2. \E n \in gaps : \A m \in gaps : n <= m
  BY <1>1, LeastNumber
<1>3. PICK y \in S : \A m \in gaps : b - y <= m
  BY <1>2
<1>4. \A x \in S : y >= x
  BY <1>3
<1>5. \E z \in S : \A x \in S : z >= x
  BY <1>4
<1>6. Max(S) \in S /\ \A x \in S : Max(S) >= x
  BY <1>5 DEF Max
<1> QED BY <1>6

-----------------------------------------------------------------------------
(* The panel is built once, stage by stage, over days, bars and a label that stay. *)
LEMMA DaysStay ==
    ASSUME UNCHANGED <<trading, bars, spec>>
    PROVE  /\ \A i, day, lookback : KnownAt(i, day, lookback)' = KnownAt(i, day, lookback)
           /\ \A day : Future(day)' = Future(day) /\ Entry(day)' = Entry(day)
           /\ \A day : Exit(day)' = Exit(day) /\ ExitInstant(day)' = ExitInstant(day)
           /\ \A i, day : Bar(i, day)' = Bar(i, day)
           /\ \A i, day : LabelValid(i, day)' = LabelValid(i, day)
           /\ \A i, day : Label(i, day)' = Label(i, day)
<1>1. \A i, day : Bar(i, day)' = Bar(i, day)
  BY DEF Bar
<1>2. \A i, day, lookback : KnownAt(i, day, lookback)' = KnownAt(i, day, lookback)
  BY <1>1 DEF KnownAt, Window, LastOf, available_at
<1>3. \A day : Future(day)' = Future(day)
  BY DEF Future
<1>4. \A day : Entry(day)' = Entry(day)
  BY <1>3 DEF Entry
<1>5. \A day, n : ExitAt(day, n)' = ExitAt(day, n)
  BY DEF ExitAt, Future
<1>6. \A day : Exit(day)' = Exit(day)
  BY <1>5 DEF Exit
<1>7. \A day : ExitInstant(day)' = ExitInstant(day)
  BY <1>6 DEF ExitInstant
<1>8. \A day : BenchmarkKnown(day)' = BenchmarkKnown(day)
  BY <1>1 DEF BenchmarkKnown
<1>9. \A i, day : LabelValid(i, day)' = LabelValid(i, day)
  BY DEF LabelValid, Bar, Entry, Exit, ExitAt, Future, BenchmarkKnown
<1>10. \A i, day : Label(i, day)' = Label(i, day)
  BY <1>3, <1>4, <1>6, <1>7, <1>9 DEF Label
<1> QED BY <1>1, <1>2, <1>3, <1>4, <1>6, <1>7, <1>9, <1>10

LEMMA PanelStep ==
    ASSUME PanelSound, PanelNext
    PROVE  PanelSound'
<1>1. UNCHANGED <<trading, bars, spec>>
  BY DEF PanelNext, BuildUniverse, BuildFeatures, BuildLabels, BuildSamples
<1>2. \A i, day, lookback : KnownAt(i, day, lookback)' = KnownAt(i, day, lookback)
  BY <1>1, DaysStay
<1>3. \A l : l = Label(l.instrument, l.day) => l = Label(l.instrument, l.day)'
  BY <1>1, DaysStay
<1>4. \A s : SampleSound(s) => SampleSound(s)'
  BY <1>1, DaysStay DEF SampleSound
<1>5. CASE BuildUniverse
  <2>1. \A member \in universe' : member[2] \in trading
    BY <1>5 DEF BuildUniverse
  <2> QED BY <1>1, <1>2, <1>3, <1>4, <1>5, <2>1 DEF PanelSound, BuildUniverse
<1>6. CASE BuildFeatures
  <2>1. ASSUME NEW i, NEW day, NEW lookback, <<i, day, lookback>> \in features'
        PROVE  KnownAt(i, day, lookback)
    BY <1>6, <2>1 DEF BuildFeatures, FeatureValid, KnownAt
  <2> QED BY <1>1, <1>2, <1>3, <1>4, <1>6, <2>1 DEF PanelSound, BuildFeatures
<1>7. CASE BuildLabels
  <2>1. ASSUME NEW l \in labels' PROVE l = Label(l.instrument, l.day) /\ l.day \in trading
    <3>1. PICK member \in universe : l = Label(member[1], member[2])
      BY <1>7 DEF BuildLabels
    <3>2. l.instrument = member[1] /\ l.day = member[2]
      BY <3>1 DEF Label
    <3> QED BY <3>1, <3>2 DEF PanelSound
  <2> QED BY <1>1, <1>2, <1>3, <1>4, <1>7, <2>1 DEF PanelSound, BuildLabels
<1>8. CASE BuildSamples
  <2>1. ASSUME NEW s \in samples' PROVE SampleSound(s)
    <3>1. PICK l \in labels : s = Sample(l)
      BY <1>8 DEF BuildSamples
    <3>2. l = Label(l.instrument, l.day) /\ l.day \in trading
      BY DEF PanelSound
    <3>3. s.day = l.day /\ s.instrument = l.instrument
          /\ s.valid = Complete(l)
          /\ s.start = Interval(l)[1] /\ s.end = Interval(l)[2]
      BY <3>1 DEF Sample
    <3>4. ASSUME s.valid
          PROVE  /\ Exit(s.day) # None
                 /\ s.start = OpenOf(Entry(s.day))
                 /\ s.end = ExitInstant(s.day)
      <4>1. l.valid /\ LabelValid(l.instrument, l.day)
        <5>1. Label(l.instrument, l.day).valid = LabelValid(l.instrument, l.day)
          BY Zenon DEF Label
        <5>2. l.valid
          BY <3>3, <3>4 DEF Complete
        <5> QED BY <3>2, <5>1, <5>2, Zenon
      <4>2. s.start = l.start /\ s.end = l.end
        BY <3>3, <4>1 DEF Interval
      <4>3. Exit(l.day) # None
        BY <4>1 DEF LabelValid
      <4>4. Future(l.day) # {}
        BY <3>2, <4>3, ExitFacts DEF PanelSound
      <4>5. /\ l.start = IF Future(l.day) = {} THEN None ELSE OpenOf(Entry(l.day))
            /\ l.end = IF Exit(l.day) = None THEN None ELSE ExitInstant(l.day)
        BY <3>2 DEF Label
      <4> QED BY <3>3, <4>2, <4>3, <4>4, <4>5
    <3>5. ASSUME s.valid, NEW lookback \in Lookbacks PROVE KnownAt(s.instrument, s.day, lookback)
      BY <3>3, <3>5 DEF Complete, PanelSound
    <3> QED BY <3>2, <3>3, <3>4, <3>5 DEF SampleSound
  <2> QED BY <1>1, <1>2, <1>3, <1>4, <1>8, <2>1 DEF PanelSound, BuildSamples
<1> QED BY <1>5, <1>6, <1>7, <1>8 DEF PanelNext

-----------------------------------------------------------------------------
(* Positions of the development sessions keep the order of the days. *)
LEMMA PositionsInOrder ==
    ASSUME trading \subseteq 1..Days, trading # {},
           NEW from \in Int, NEW to \in Int, NEW start \in Int, NEW end \in Int, to <= start,
           NEW d \in Positions(from, to), NEW e \in Positions(start, end),
           d \in trading, e \in trading
    PROVE  d < e
<1> DEFINE Before(x) == {y \in DevelopmentSessions : y < x}
<1>1. Days \in Nat /\ trading \subseteq Nat
  BY PanelAssumption, DaysAreNatural
<1>2. Min(trading) \in Nat /\ Max(trading) \in Nat
  <2>1. \E n \in trading : \A m \in trading : n <= m
    BY <1>1, LeastNumber
  <2>2. Min(trading) \in trading
    BY <2>1 DEF Min
  <2>3. Max(trading) \in trading
    <3>1. \A x \in trading : x <= Days
      BY <1>1
    <3> QED BY <1>1, <3>1, GreatestNumber
  <2> QED BY <1>1, <2>2, <2>3
<1>3. DevelopmentSessions \subseteq Nat /\ IsFiniteSet(DevelopmentSessions)
  <2>1. CalendarRows \subseteq Nat
    BY <1>2 DEF CalendarRows
  <2>2. IsFiniteSet(CalendarRows)
    BY <1>2, FS_Interval DEF CalendarRows
  <2>3. DevelopmentSessions \subseteq CalendarRows
    BY DEF DevelopmentSessions
  <2> QED BY <2>1, <2>2, <2>3, FS_Subset
<1>4. /\ Cardinality(Before(d)) \in from..(to - 1)
      /\ Cardinality(Before(e)) \in start..(end - 1)
  BY DEF Positions
<1>5. Cardinality(Before(d)) < Cardinality(Before(e))
  BY <1>4
<1>6. ASSUME e <= d PROVE FALSE
  <2>1. d \in Nat /\ e \in Nat
    BY <1>1
  <2>2. Before(e) \subseteq Before(d)
    <3> SUFFICES ASSUME NEW y \in DevelopmentSessions, y < e PROVE y < d
      OBVIOUS
    <3> QED BY <1>3, <1>6, <2>1
  <2>3. IsFiniteSet(Before(d))
    BY <1>3, FS_Subset
  <2>4. Cardinality(Before(e)) <= Cardinality(Before(d))
    BY <2>2, <2>3, FS_Subset
  <2> QED BY <1>4, <1>5, <2>4
<1> QED BY <1>1, <1>6

(* What the splitter splits off: everything in training is before everything it is judged
   by, with no overlap. *)
LEMMA NextFoldSound ==
    ASSUME PanelSound, ExperimentSound, NextFold.train # {}
    PROVE  NextFold \in Folds /\ FoldSound(NextFold)
<1> DEFINE train == ValidOn(Positions(TrainStart, trainEnd))
           validation == ValidOn(Positions(ValidationStart, TestStart))
           test == ValidOn(Positions(TestStart, TestEnd))
<1>1. /\ NextFold.train = Purged(train, validation \cup test)
      /\ NextFold.validation = validation
      /\ NextFold.test = test
      /\ NextFold.trainDays = Positions(TrainStart, trainEnd)
      /\ NextFold.validationDays = Positions(ValidationStart, TestStart)
  BY DEF NextFold
<1>2. \A from, to : Positions(from, to) \subseteq DevelopmentSessions
  BY DEF Positions
<1>3. /\ train \cup validation \cup test
            \subseteq {s \in samples : s.valid /\ s.day \in DevelopmentSessions}
      /\ NextFold.train \subseteq train
  BY <1>1, <1>2 DEF ValidOn, Purged
<1>4. NextFold \in Folds
  <2> DEFINE purged == Purged(train, validation \cup test)
             trainDays == Positions(TrainStart, trainEnd)
             validationDays == Positions(ValidationStart, TestStart)
  <2>1. NextFold = [train |-> purged, validation |-> validation, test |-> test,
                    trainDays |-> trainDays, validationDays |-> validationDays]
    BY DEF NextFold
  <2>2. /\ purged \subseteq samples /\ validation \subseteq samples /\ test \subseteq samples
        /\ trainDays \subseteq DevelopmentSessions
        /\ validationDays \subseteq DevelopmentSessions
    BY <1>1, <1>2, <1>3
  <2> HIDE DEF purged, validation, test, trainDays, validationDays
  <2> QED BY <2>1, <2>2 DEF Folds
<1>5. /\ trainEnd \in Int /\ TrainStart \in Int
      /\ ValidationStart \in Int /\ TestStart \in Int /\ TestEnd \in Int
      /\ trainEnd <= ValidationStart /\ trainEnd <= TestStart
  <2>1. config.embargo \in Nat /\ config.validation \in Nat /\ config.test \in Nat
        /\ config.train \in Nat /\ trainEnd \in Nat
    BY SplitAssumption DEF ExperimentSound
  <2> QED BY <2>1 DEF TrainStart, ValidationStart, TestStart, TestEnd
<1>6. ASSUME NEW s \in NextFold.train, NEW e \in validation \cup test
      PROVE  s.day < e.day /\ ~Overlaps(s, e)
  <2>1. ~Overlaps(s, e)
    BY <1>1 DEF Purged
  <2>2. s.day \in trading /\ e.day \in trading
    BY <1>3 DEF PanelSound, SampleSound
  <2>3. s.day \in Positions(TrainStart, trainEnd)
    BY <1>3 DEF ValidOn
  <2>4. e.day \in Positions(ValidationStart, TestStart) \/ e.day \in Positions(TestStart, TestEnd)
    BY DEF ValidOn
  <2>5. trading \subseteq 1..Days
    BY DEF PanelSound
  <2> QED BY <1>5, <2>1, <2>2, <2>3, <2>4, <2>5, PositionsInOrder
<1> HIDE DEF train, validation, test
<1> QED BY <1>1, <1>3, <1>4, <1>6 DEF FoldSound, Evaluation

-----------------------------------------------------------------------------
LEMMA LearningStart == LearningInit => PanelSound /\ ExperimentSound
<1> SUFFICES ASSUME LearningInit PROVE PanelSound /\ ExperimentSound
  OBVIOUS
<1>1. PanelSound
  BY PanelAssumption DEF LearningInit, PanelInit, PanelSound
<1>2. folds = <<>> /\ rows = {} /\ ledger = {} /\ experiment = "idle"
  BY DEF LearningInit
<1>3. folds \in Seq(Folds) /\ DOMAIN folds = {}
  BY <1>2
<1>4. config \in SplitConfigs /\ trainEnd \in Nat /\ trained \in Nat
  BY DEF LearningInit
<1> QED BY <1>1, <1>2, <1>3, <1>4 DEF ExperimentSound

(* The artifacts are built before the experiment starts. *)
LEMMA BuildKeeps ==
    ASSUME PanelSound, ExperimentSound, BuildNext
    PROVE  PanelSound' /\ ExperimentSound'
<1>1. PanelSound'
  BY PanelStep DEF BuildNext
<1>2. panelStage # "done" /\ UNCHANGED <<config, trainEnd, folds, trained, rows, ledger, experiment>>
  BY DEF BuildNext, PanelNext, BuildUniverse, BuildFeatures, BuildLabels, BuildSamples
<1>3. experiment = "idle" /\ folds = <<>> /\ rows = {}
  BY <1>2 DEF ExperimentSound
<1>4. ledger = {}
  <2> SUFFICES ASSUME NEW row \in ledger PROVE FALSE
    OBVIOUS
  <2> QED BY <1>3 DEF ExperimentSound, RowSound
<1>5. folds' \in Seq(Folds') /\ DOMAIN folds' = {}
  BY <1>2, <1>3
<1>6. config' \in SplitConfigs /\ trainEnd' \in Nat /\ trained' \in Nat
      /\ experiment' = "idle"
      /\ rows' = {} /\ ledger' = {} /\ folds' = <<>>
  BY <1>2, <1>3, <1>4 DEF ExperimentSound
<1> QED BY <1>1, <1>5, <1>6 DEF ExperimentSound

(* While the panel and the configuration stay, folds and rows stay sound. *)
LEMMA FoldsStay ==
    ASSUME UNCHANGED panelVars, config' = config
    PROVE  /\ PanelSound => PanelSound'
           /\ DevelopmentSessions' = DevelopmentSessions
           /\ Folds' = Folds
           /\ \A fold : FoldSound(fold) => FoldSound(fold)'
<1>1. UNCHANGED <<trading, bars, spec, universe, features, labels, samples, panelStage>>
  BY DEF panelVars
<1>2. DevelopmentSessions' = DevelopmentSessions
  BY <1>1 DEF DevelopmentSessions, CalendarRows, LastOf
<1>3. \A fold : FoldSound(fold) => FoldSound(fold)'
  BY <1>1, <1>2 DEF FoldSound
<1>4. PanelSound => PanelSound'
  <2>1. \A i, day, lookback : KnownAt(i, day, lookback)' = KnownAt(i, day, lookback)
    BY <1>1, DaysStay
  <2>2. \A l : l = Label(l.instrument, l.day) => l = Label(l.instrument, l.day)'
    BY <1>1, DaysStay
  <2>3. \A s : SampleSound(s) => SampleSound(s)'
    BY <1>1, DaysStay DEF SampleSound
  <2> QED BY <1>1, <2>1, <2>2, <2>3 DEF PanelSound
<1> QED BY <1>1, <1>2, <1>3, <1>4 DEF Folds

LEMMA RowsStay ==
    ASSUME NEW row, RowSound(row), DOMAIN folds \subseteq DOMAIN folds',
           \A k \in DOMAIN folds : folds'[k] = folds[k]
    PROVE  RowSound(row)'
BY DEF RowSound, fit_cutoff

LEMMA ExperimentStep ==
    ASSUME PanelSound, ExperimentSound, ExperimentNext
    PROVE  PanelSound' /\ ExperimentSound'
<1>1. UNCHANGED panelVars /\ panelStage' = panelStage
  BY DEF ExperimentNext, StartSplit, SplitFold, SplitRaises, SplitEnds, RunFold, FoldFails,
         SaveExperiment, panelVars
<1>2. CASE StartSplit
  <2>1. /\ experiment = "idle" /\ folds = <<>> /\ rows = {} /\ panelStage = "done"
        /\ UNCHANGED <<folds, rows, ledger>> /\ config' \in SplitConfigs
        /\ trainEnd' = config'.train /\ experiment' = "splitting"
    BY <1>2 DEF StartSplit, ExperimentSound
  <2>2. ledger = {}
    <3> SUFFICES ASSUME NEW row \in ledger PROVE FALSE
      OBVIOUS
    <3> QED BY <2>1 DEF ExperimentSound, RowSound
  <2>3. trainEnd' \in Nat /\ trained' \in Nat
    BY <1>2, <2>1, SplitAssumption DEF StartSplit, ExperimentSound
  <2>4. folds' \in Seq(Folds') /\ DOMAIN folds' = {}
    BY <2>1
  <2>5. PanelSound'
    <3>1. UNCHANGED <<trading, bars, spec, universe, features, labels, samples, panelStage>>
      BY <1>1 DEF panelVars
    <3>2. \A i, day, lookback : KnownAt(i, day, lookback)' = KnownAt(i, day, lookback)
      BY <3>1, DaysStay
    <3>3. \A l : l = Label(l.instrument, l.day) => l = Label(l.instrument, l.day)'
      BY <3>1, DaysStay
    <3>4. \A s : SampleSound(s) => SampleSound(s)'
      BY <3>1, DaysStay DEF SampleSound
    <3> QED BY <3>1, <3>2, <3>3, <3>4 DEF PanelSound
  <2> QED BY <1>1, <2>1, <2>2, <2>3, <2>4, <2>5 DEF ExperimentSound
<1>3. CASE SplitFold
  <2>1. /\ experiment = "splitting" /\ NextFold.train # {}
        /\ folds' = Append(folds, NextFold)
        /\ trainEnd' = trainEnd + config.step
        /\ UNCHANGED <<config, rows, ledger, experiment>>
    BY <1>3 DEF SplitFold
  <2>2. NextFold \in Folds /\ FoldSound(NextFold)
    BY <2>1, NextFoldSound
  <2>3. PICK fold : fold = NextFold
    OBVIOUS
  <2>4. folds \in Seq(Folds) /\ config \in SplitConfigs /\ trainEnd \in Nat
    BY DEF ExperimentSound
  <2>5. /\ folds' \in Seq(Folds)
        /\ DOMAIN folds' = DOMAIN folds \cup {Len(folds) + 1}
        /\ folds'[Len(folds) + 1] = fold
        /\ \A k \in DOMAIN folds : folds'[k] = folds[k]
    BY <2>1, <2>2, <2>3, <2>4
  <2>6. \A k \in DOMAIN folds' : FoldSound(folds'[k])
    BY <2>2, <2>3, <2>5 DEF ExperimentSound
  <2>7. ASSUME NEW k \in DOMAIN folds' PROVE FoldSound(folds[k])'
    <3>1. PICK f : f = folds'[k]
      OBVIOUS
    <3>2. FoldSound(f)'
      BY <1>1, <2>1, <2>6, <3>1, FoldsStay
    <3> QED BY <3>1, <3>2
  <2>8. \A row \in rows' \cup ledger' : RowSound(row)'
    BY <2>1, <2>5, RowsStay DEF ExperimentSound
  <2>9. trainEnd' \in Nat /\ trained' \in Nat
    BY <1>3, <2>1, <2>4, SplitAssumption DEF SplitFold, ExperimentSound
  <2>10. PanelSound' /\ Folds' = Folds
    BY <1>1, <2>1, FoldsStay
  <2> QED BY <1>1, <2>1, <2>4, <2>5, <2>7, <2>8, <2>9, <2>10 DEF ExperimentSound
<1>4. ASSUME UNCHANGED <<config, trainEnd, folds>>, trained' \in Nat,
             experiment' \in {"training", "saved", "failed"}, panelStage = "done",
             \A row \in rows' \cup ledger' : RowSound(row)
      PROVE  PanelSound' /\ ExperimentSound'
  <2>1. PanelSound' /\ Folds' = Folds /\ \A fold : FoldSound(fold) => FoldSound(fold)'
    BY <1>1, <1>4, FoldsStay
  <2>2. \A k \in DOMAIN folds' : FoldSound(folds[k])'
    <3> SUFFICES ASSUME NEW k \in DOMAIN folds' PROVE FoldSound(folds[k])'
      OBVIOUS
    <3>1. PICK f : f = folds'[k]
      OBVIOUS
    <3>2. FoldSound(f)'
      BY <1>4, <2>1, <3>1 DEF ExperimentSound
    <3> QED BY <3>1, <3>2
  <2>3. \A row \in rows' \cup ledger' : RowSound(row)'
    BY <1>4, RowsStay
  <2> QED BY <1>1, <1>4, <2>1, <2>2, <2>3 DEF ExperimentSound
<1>5. CASE SplitRaises \/ SplitEnds \/ FoldFails
  <2>1. experiment # "idle" /\ UNCHANGED <<config, trainEnd, folds, trained, rows, ledger>>
        /\ experiment' \in {"training", "failed"}
    BY <1>5 DEF SplitRaises, SplitEnds, FoldFails
  <2> QED BY <1>4, <2>1 DEF ExperimentSound
<1>6. CASE SaveExperiment
  <2>1. experiment = "training" /\ UNCHANGED <<config, trainEnd, folds, trained, rows>>
        /\ experiment' \in {"saved", "failed"} /\ ledger' \in {rows, ledger}
    BY <1>6 DEF SaveExperiment
  <2> QED BY <1>4, <2>1 DEF ExperimentSound
<1>7. CASE RunFold
  <2> DEFINE k == trained + 1
  <2>1. /\ experiment = "training" /\ UNCHANGED <<config, trainEnd, folds, ledger, experiment>>
        /\ k \in DOMAIN folds /\ trained' \in Nat
        /\ rows' = rows \cup PredictionRows(k, folds[k].validation, "validation")
                        \cup PredictionRows(k, folds[k].test, "test")
    <3>1. trained \in Nat /\ trained < Len(folds) /\ trained' = trained + 1
      BY <1>7 DEF RunFold, ExperimentSound
    <3>2. k \in DOMAIN folds /\ trained' \in Nat
      BY <3>1 DEF ExperimentSound
    <3> QED BY <1>7, <3>2 DEF RunFold
  <2>2. ASSUME NEW row, \/ row \in PredictionRows(k, folds[k].validation, "validation")
                        \/ row \in PredictionRows(k, folds[k].test, "test")
        PROVE  RowSound(row)
    <3>1. PICK s \in Evaluation(folds[k]) :
             row.instrument = s.instrument /\ row.day = s.day
               /\ row.fold = k /\ row.cutoff = fit_cutoff(folds[k])
      BY <2>2 DEF PredictionRows, Evaluation
    <3> QED BY <2>1, <3>1 DEF RowSound
  <2> HIDE DEF k
  <2> QED BY <1>4, <2>1, <2>2 DEF ExperimentSound
<1> QED BY <1>2, <1>3, <1>5, <1>6, <1>7 DEF ExperimentNext

THEOREM LearningInvariance == LearningSpec => [](PanelSound /\ ExperimentSound)
<1>1. PanelSound /\ ExperimentSound /\ [LearningNext]_learningVars => (PanelSound /\ ExperimentSound)'
  <2> SUFFICES ASSUME PanelSound, ExperimentSound, [LearningNext]_learningVars
               PROVE  PanelSound' /\ ExperimentSound'
    OBVIOUS
  <2>1. CASE UNCHANGED learningVars
    <3>1. UNCHANGED panelVars
          /\ UNCHANGED <<config, trainEnd, folds, trained, rows, ledger, experiment>>
      BY <2>1 DEF learningVars
    <3>2. PanelSound'
      BY <3>1, FoldsStay
    <3>3. Folds' = Folds /\ \A fold : FoldSound(fold) => FoldSound(fold)'
      BY <3>1, FoldsStay
    <3>4. ASSUME NEW k \in DOMAIN folds' PROVE FoldSound(folds[k])'
      <4>1. PICK f : f = folds'[k]
        OBVIOUS
      <4>2. FoldSound(f)'
        BY <3>1, <3>3, <4>1 DEF ExperimentSound
      <4> QED BY <4>1, <4>2
    <3>5. \A row \in rows' \cup ledger' : RowSound(row)'
      BY <3>1, RowsStay DEF ExperimentSound
    <3>6. ExperimentSound'
      BY <3>1, <3>3, <3>4, <3>5 DEF ExperimentSound, panelVars
    <3> QED BY <3>2, <3>6
  <2> QED BY <2>1, BuildKeeps, ExperimentStep DEF LearningNext
<1> QED BY <1>1, LearningStart, PTL DEF LearningSpec

(* What a row of the ledger rests on, of one fold that is sound. *)
LEMMA FoldLooksBack ==
    ASSUME PanelSound, ExperimentSound, NEW fold, FoldSound(fold),
           NEW e \in Evaluation(fold)
    PROVE  /\ fit_cutoff(fold) < decision_time(e.day)
           /\ \A s \in fold.train : s.end < decision_time(e.day)
           /\ \A d \in UNION {Window(e.day, lookback) : lookback \in Lookbacks} :
                Bar(e.instrument, d) # "missing"
                  /\ available_at(e.instrument, d) <= decision_time(e.day)
           /\ e.day \in DevelopmentSessions
           /\ \A s \in fold.train : s.day \in DevelopmentSessions
<1>1. /\ \A s \in fold.train : s \in samples /\ s.valid /\ s.day \in DevelopmentSessions
                                 /\ s.day < e.day /\ ~Overlaps(s, e)
      /\ e \in samples /\ e.valid /\ e.day \in DevelopmentSessions
  BY DEF FoldSound
<1>2. SampleSound(e) /\ \A s \in fold.train : SampleSound(s)
  BY <1>1 DEF PanelSound
<1>3. trading \subseteq 1..Days
  BY DEF PanelSound
<1>4. \A s \in fold.train : s.end < decision_time(e.day)
  BY <1>1, <1>2, <1>3, PurgedIsDecided
<1>5. fit_cutoff(fold) < decision_time(e.day)
  <2> DEFINE decisions == {decision_time(s.day) : s \in fold.train}
  <2>1. e.day \in Nat /\ \A s \in fold.train : s.day \in Nat
    BY <1>2, <1>3, DaysAreNatural DEF SampleSound
  <2>2. decision_time(e.day) \in Nat
    BY <2>1 DEF decision_time
  <2>3. ASSUME NEW s \in fold.train
        PROVE  decision_time(s.day) \in Nat /\ decision_time(s.day) < decision_time(e.day)
    BY <1>1, <2>1 DEF decision_time
  <2>4. decisions \subseteq Nat /\ decisions # {}
        /\ \A n \in decisions : n < decision_time(e.day)
    BY <2>3 DEF FoldSound
  <2>5. fit_cutoff(fold) = Max(decisions)
    BY DEF fit_cutoff
  <2> HIDE DEF decisions
  <2>6. \A n \in decisions : n <= decision_time(e.day)
    BY <2>2, <2>4
  <2>7. Max(decisions) \in decisions
    BY <2>2, <2>4, <2>6, GreatestNumber
  <2> QED BY <2>4, <2>5, <2>7
<1>6. \A lookback \in Lookbacks : KnownAt(e.instrument, e.day, lookback)
  BY <1>1, <1>2 DEF SampleSound
<1> QED BY <1>1, <1>4, <1>5, <1>6 DEF KnownAt

(* Nothing a saved prediction rests on was still to come when it was made, whatever the
   calendar, the bars, the horizon, the lookbacks and the windows of the splitter:
   ml/splitting.py, ml/experiment.py and ml/evaluation.py over the samples. *)
THEOREM LookaheadTheorem == LearningSpec => []NoLookahead
<1>1. PanelSound /\ ExperimentSound => NoLookahead
  <2> SUFFICES ASSUME PanelSound, ExperimentSound, NEW row \in ledger
               PROVE  /\ row.cutoff < decision_time(row.day)
                      /\ \A s \in TrainedOn(row) : s.end < decision_time(row.day)
                      /\ \A e \in FeatureDays(row) :
                           /\ Bar(row.instrument, e) # "missing"
                           /\ available_at(row.instrument, e) <= decision_time(row.day)
                      /\ row.day \in DevelopmentSessions
                      /\ \A s \in TrainedOn(row) : s.day \in DevelopmentSessions
    BY DEF NoLookahead
  <2> DEFINE fold == folds[row.fold]
  <2>1. /\ row.cutoff = fit_cutoff(fold) /\ FoldSound(fold)
        /\ \E e \in Evaluation(fold) : e.instrument = row.instrument /\ e.day = row.day
    BY DEF ExperimentSound, RowSound
  <2>2. PICK e \in Evaluation(fold) : e.instrument = row.instrument /\ e.day = row.day
    BY <2>1
  <2>3. TrainedOn(row) = fold.train
    BY DEF TrainedOn
  <2> HIDE DEF fold
  <2> QED BY <2>1, <2>2, <2>3, FoldLooksBack DEF FeatureDays
<1> QED BY <1>1, LearningInvariance, PTL

-----------------------------------------------------------------------------
(* Ingestion by runs that do not overlap.  A run has the answers to its first requests, all
   of them once it merges; what it has learned is in the checkpoint of its job; and every
   answer it may take from there is in the raw store. *)
RunFields ==
    {"pc", "job", "completed", "got", "prices", "calendar", "instruments", "next"}

PublishingPlaces == {"stage", "open", "write", "rename", "promote", "switch"}

RunTyped(run) ==
    /\ DOMAIN run = RunFields
    /\ run.pc \in {"idle", "obtain", "save", "calendar", "instruments", "judge", "complete"}
                    \cup PublishingPlaces
    /\ run.pc # "idle" => run.job \in JobNamesOf
    /\ run.pc \in {"idle", "obtain", "save", "calendar", "instruments"} => run.next = 1
    /\ run.pc \in PublishingPlaces => run.next \in 1..6
    /\ run.pc = "judge" => run.next = 2
    /\ run.pc = "complete" => run.next = 7

IngestionTypes ==
    /\ DOMAIN ingestors = Writers /\ \A p \in Writers : RunTyped(ingestors[p])
    /\ DOMAIN jobs = JobNamesOf
    /\ \A j \in JobNamesOf : DOMAIN jobs[j] = {"completed", "status"}
    /\ DOMAIN ended = {"begun", "killed", "repeated"}
    /\ fetched \in Nat

FirstKeys(job, n) == {KeyOf(job, RequestsOf(job)[i]) : i \in 1..n}

AllKeys(job) == FirstKeys(job, Len(RequestsOf(job)))

InRaw(completed) == \A key \in DOMAIN completed : RawKey(key, completed[key]) \in DOMAIN raw

HasAnswers(run) ==
    /\ InRaw(run.completed)
    /\ \A key \in DOMAIN run.got :
         /\ key \in DOMAIN run.completed
         /\ run.got[key].value = run.completed[key]
         /\ run.got[key].at \in Nat
    /\ \E n \in 0..Len(RequestsOf(run.job)) :
         DOMAIN run.got = FirstKeys(run.job, n) /\ Cardinality(DOMAIN run.got) = n
    /\ run.pc \notin {"obtain", "save"} => DOMAIN run.got = AllKeys(run.job)

InCheckpoint(run) ==
    /\ run.pc # "save" => jobs[run.job].completed = run.completed
    /\ run.pc = "save" => jobs[run.job].status # "complete" /\ DOMAIN run.completed # {}

JobsSound ==
    /\ \A k \in DOMAIN raw : raw[k] \in Nat
    /\ \A j \in JobNamesOf : InRaw(jobs[j].completed)
    /\ \A j \in JobNamesOf : jobs[j].status = "complete" =>
         AllKeys(j) \subseteq DOMAIN jobs[j].completed

(* What has been merged holds every price that is current and every price that came in,
   and what has been published by the run is what is current. *)
Dated(frame) == \A k \in DOMAIN frame : frame[k].at \in Nat

Extends(new, old) ==
    \A k \in DOMAIN old : k \in DOMAIN new /\ new[k].at <= old[k].at

Merged(run) ==
    run.pc \notin {"obtain", "save"} =>
        /\ Dated(run.prices) /\ DOMAIN IncomingPrices(run) \subseteq DOMAIN run.prices
        /\ run.next <= 2 => Extends(run.prices, Latest("prices"))
        /\ \A k \in 2..(run.next - 1) :
             /\ HasCurrent(Publications[k])
             /\ FrameOf(Publications[k]) = DataOf(Publications[k], run)

PricesSound ==
    /\ Dated(Latest("prices"))
    /\ \A j \in JobNamesOf : jobs[j].status = "complete" =>
         HasCurrent("prices") /\ Asked(j) \subseteq DOMAIN FrameOf("prices")
    /\ HasCurrent("universe") =>
         HasCurrent("prices") /\ HasCurrent("instruments") /\ HasCurrent("calendar")

(* The universe is the one of the current datasets, or somebody still owes it: the run that
   has published prices, a job that is open, or the repetition that was killed. *)
Consistent ==
    FrameOf("universe") = <<Values(FrameOf("instruments")), Values(FrameOf("prices")),
                            DOMAIN FrameOf("calendar")>>

Open(j) == jobs[j].status # "complete" /\ DOMAIN jobs[j].completed # {}

UniverseOwed ==
    HasCurrent("universe") =>
        \/ Consistent \/ ended.repeated
        \/ \E j \in JobNamesOf : Open(j)
        \/ \E p \in Writers : Ingesting(p) /\ ingestors[p].next \in 3..5

(* Whatever has been renamed is whole, and what is published has been renamed. *)
FilesSound ==
    /\ \A v \in DOMAIN parquets : parquets[v].whole /\ DOMAIN parquets[v] = {"by", "whole"}
    /\ \A v \in DOMAIN temps : DOMAIN temps[v] = {"by", "whole"}
    /\ \A d \in DOMAIN current : current[d] \in DOMAIN parquets

HoldsFile(p, run) ==
    /\ run.pc = "write" => Staged(run) \in DOMAIN temps /\ temps[Staged(run)].by = p
    /\ run.pc = "rename" => Staged(run) \in DOMAIN temps /\ temps[Staged(run)].whole
    /\ run.pc \in {"promote", "switch"} => Staged(run) \in DOMAIN parquets

OneRun == \A p, q \in Writers : Ingesting(p) /\ Ingesting(q) => p = q

RunSound(p, run) ==
    HasAnswers(run) /\ InCheckpoint(run) /\ Merged(run) /\ HoldsFile(p, run)

Alone ==
    /\ OneRun /\ JobsSound /\ PricesSound /\ UniverseOwed /\ FilesSound
    /\ \A p \in Writers : Ingesting(p) => RunSound(p, ingestors[p])

-----------------------------------------------------------------------------
LEMMA RequestFacts ==
    ASSUME NEW j \in JobNamesOf
    PROVE  /\ Len(RequestsOf(j)) \in Nat /\ Len(RequestsOf(j)) > 0
           /\ DOMAIN RequestsOf(j) = 1..Len(RequestsOf(j))
           /\ KeyOf(j, Reference) \in AllKeys(j)
           /\ \A s \in SymbolsOf(j) : /\ KeyOf(j, s) = <<s, Jobs[j].days>>
                                      /\ KeyOf(j, s) \in AllKeys(j)
           /\ \A i, k \in 1..Len(RequestsOf(j)) :
                KeyOf(j, RequestsOf(j)[i]) = KeyOf(j, RequestsOf(j)[k]) => i = k
<1> DEFINE symbols == Jobs[j].symbols
           R == RequestsOf(j)
<1>1. /\ symbols \in Seq(SymbolsOf(j)) /\ Reference \notin SymbolsOf(j)
      /\ \A i, k \in DOMAIN symbols : symbols[i] = symbols[k] => i = k
  BY IngestionAssumption
<1>2. R = <<Reference>> \o symbols
  BY DEF RequestsOf
<1>3. SymbolsOf(j) = {symbols[i] : i \in DOMAIN symbols}
  BY DEF SymbolsOf
<1> HIDE DEF symbols, R
<1>4. Len(symbols) \in Nat /\ DOMAIN symbols = 1..Len(symbols)
  BY <1>1
<1>5. /\ Len(R) = Len(symbols) + 1 /\ DOMAIN R = 1..Len(R)
      /\ R[1] = Reference /\ \A i \in 2..Len(R) : R[i] = symbols[i - 1]
  <2>1. symbols \in Seq(SymbolsOf(j) \cup {Reference})
        /\ <<Reference>> \in Seq(SymbolsOf(j) \cup {Reference})
    BY <1>1
  <2> QED BY <1>2, <1>4, <2>1
<1>6. \A i \in 2..Len(R) : (i - 1) \in DOMAIN symbols /\ R[i] \in SymbolsOf(j)
  BY <1>3, <1>4, <1>5
<1>7. \A s \in SymbolsOf(j) : \E i \in 2..Len(R) : R[i] = s
  <2> SUFFICES ASSUME NEW s \in SymbolsOf(j) PROVE \E i \in 2..Len(R) : R[i] = s
    OBVIOUS
  <2>1. PICK i \in DOMAIN symbols : s = symbols[i]
    BY <1>3
  <2>2. i + 1 \in 2..Len(R) /\ (i + 1) - 1 = i
    BY <1>4, <1>5
  <2>3. R[i + 1] = symbols[i]
    BY <1>5, <2>2
  <2> QED BY <2>1, <2>2, <2>3
<1>8. \A i, k \in 1..Len(R) : R[i] = R[k] => i = k
  <2> SUFFICES ASSUME NEW i \in 1..Len(R), NEW k \in 1..Len(R), R[i] = R[k] PROVE i = k
    OBVIOUS
  <2>1. CASE i = 1 \/ k = 1
    BY <1>1, <1>4, <1>5, <1>6, <2>1
  <2>2. CASE i # 1 /\ k # 1
    <3>1. i \in 2..Len(R) /\ k \in 2..Len(R)
      BY <1>4, <1>5, <2>2
    <3>2. i - 1 = k - 1
      BY <1>1, <1>5, <1>6, <3>1
    <3> QED BY <3>1, <3>2
  <2> QED BY <2>1, <2>2
<1>9. \A r, q : KeyOf(j, r) = KeyOf(j, q) => r = q
  BY DEF KeyOf
<1>10. \A s \in SymbolsOf(j) : KeyOf(j, s) = <<s, Jobs[j].days>>
  BY <1>1 DEF KeyOf
<1>11. AllKeys(j) = {KeyOf(j, R[i]) : i \in 1..Len(R)}
  BY DEF AllKeys, FirstKeys, R
<1>12. KeyOf(j, Reference) \in AllKeys(j)
  <2>1. 1 \in 1..Len(R)
    BY <1>4, <1>5
  <2> QED BY <1>5, <1>11, <2>1
<1>13. \A s \in SymbolsOf(j) : KeyOf(j, s) \in AllKeys(j)
  <2> SUFFICES ASSUME NEW s \in SymbolsOf(j) PROVE KeyOf(j, s) \in AllKeys(j)
    OBVIOUS
  <2>1. PICK i \in 2..Len(R) : R[i] = s
    BY <1>7
  <2>2. i \in 1..Len(R)
    OBVIOUS
  <2> QED BY <1>11, <2>1, <2>2
<1>14. \A i, k \in 1..Len(R) : KeyOf(j, R[i]) = KeyOf(j, R[k]) => i = k
  BY <1>8, <1>9
<1>15. Len(R) \in Nat /\ Len(R) > 0
  BY <1>4, <1>5
<1> QED BY <1>5, <1>10, <1>12, <1>13, <1>14, <1>15 DEF R

(* One request further: a key that no earlier request has. *)
LEMMA NextKeyIsNew ==
    ASSUME NEW j \in JobNamesOf, NEW n \in 0..Len(RequestsOf(j)), NEW S,
           S = FirstKeys(j, n), Cardinality(S) = n, n < Len(RequestsOf(j))
    PROVE  LET key == KeyOf(j, RequestsOf(j)[n + 1])
           IN  /\ key \notin S /\ key \in AllKeys(j)
               /\ S \cup {key} = FirstKeys(j, n + 1)
               /\ Cardinality(S \cup {key}) = n + 1
               /\ (n + 1) \in 0..Len(RequestsOf(j))
<1> DEFINE R == RequestsOf(j)
           key == KeyOf(j, R[n + 1])
<1>1. Len(R) \in Nat /\ n \in Nat /\ (n + 1) \in 1..Len(R)
  BY RequestFacts
<1>2. \A i, k \in 1..Len(R) : KeyOf(j, R[i]) = KeyOf(j, R[k]) => i = k
  BY RequestFacts
<1>3. S = {KeyOf(j, R[i]) : i \in 1..n}
  BY DEF FirstKeys
<1>4. FirstKeys(j, n + 1) = {KeyOf(j, R[i]) : i \in 1..(n + 1)}
  BY DEF FirstKeys
<1>5. key \in AllKeys(j)
  BY <1>1 DEF AllKeys, FirstKeys
<1> HIDE DEF R
<1>6. key \notin S
  <2> SUFFICES ASSUME NEW i \in 1..n, key = KeyOf(j, R[i]) PROVE FALSE
    BY <1>3
  <2>1. i \in 1..Len(R) /\ i # n + 1
    BY <1>1
  <2> QED BY <1>1, <1>2, <2>1
<1>7. S \cup {key} = FirstKeys(j, n + 1)
  <2>1. 1..(n + 1) = (1..n) \cup {n + 1}
    BY <1>1
  <2> QED BY <1>3, <1>4, <2>1
<1>8. IsFiniteSet(S)
  <2>1. IsFiniteSet(1..n)
    BY <1>1, FS_Interval
  <2> DEFINE f == [i \in 1..n |-> KeyOf(j, R[i])]
  <2>2. f \in Surjection(1..n, S)
    BY <1>3 DEF Surjection
  <2> HIDE DEF f
  <2> QED BY <2>1, <2>2, FS_Surjection
<1>9. Cardinality(S \cup {key}) = n + 1
  BY <1>6, <1>8, FS_AddElement
<1> QED BY <1>1, <1>5, <1>6, <1>7, <1>9 DEF R

-----------------------------------------------------------------------------
(* Who steps, and what it leaves. *)
LEMMA OnlyThisRun ==
    ASSUME IngestionTypes, OneRun, NEW p \in Writers, Ingesting(p), NEW n, Set(p, n)
    PROVE  /\ DOMAIN ingestors' = Writers
           /\ ingestors'[p] = n
           /\ \A q \in Writers : q # p => ingestors'[q] = ingestors[q] /\ ~Ingesting(q)'
           /\ \A q \in Writers : Ingesting(q)' => q = p
           /\ OneRun'
<1>1. /\ DOMAIN ingestors' = Writers /\ ingestors'[p] = n
      /\ \A q \in Writers : q # p => ingestors'[q] = ingestors[q]
  BY DEF Set, IngestionTypes
<1>2. \A q \in Writers : q # p => ~Ingesting(q)'
  BY <1>1 DEF OneRun, Ingesting
<1> QED BY <1>1, <1>2 DEF OneRun

(* Two states of a run that differ in its place only. *)
Same(n, run) ==
    /\ n.job = run.job /\ n.completed = run.completed /\ n.got = run.got
    /\ n.prices = run.prices /\ n.calendar = run.calendar
    /\ n.instruments = run.instruments /\ n.next = run.next

LEMMA Moved ==
    ASSUME NEW run, RunTyped(run), NEW pc
    PROVE  LET n == [run EXCEPT !.pc = pc]
           IN  DOMAIN n = RunFields /\ n.pc = pc /\ Same(n, run)
BY DEF RunTyped, RunFields, Same

LEMMA DataStays ==
    ASSUME NEW run, NEW n, n.got = run.got, n.prices = run.prices,
           n.calendar = run.calendar, n.instruments = run.instruments
    PROVE  \A d : DataOf(d, n) = DataOf(d, run)
<1>1. Sources(n) = Sources(run)
  BY DEF Sources
<1>2. \A d, data : DatasetVersion(d, data, n) = DatasetVersion(d, data, run)
  BY <1>1 DEF DatasetVersion
<1>3. QualityReport(n) = QualityReport(run)
  BY DEF QualityReport, LatestInstant
<1> QED BY <1>2, <1>3 DEF DataOf

LEMMA DataOfRun ==
    ASSUME NEW run, NEW n, Same(n, run)
    PROVE  /\ \A d : DataOf(d, n) = DataOf(d, run)
           /\ Staged(n) = Staged(run) /\ IncomingPrices(n) = IncomingPrices(run)
<1>1. Sources(n) = Sources(run)
  BY DEF Sources, Same
<1>2. \A d, data : DatasetVersion(d, data, n) = DatasetVersion(d, data, run)
  BY <1>1 DEF DatasetVersion
<1>4. \A d : DataOf(d, n) = DataOf(d, run)
  BY DataStays DEF Same
<1>5. Staged(n) = Staged(run)
  BY <1>2, <1>4 DEF Staged, Publication, Same
<1>6. IncomingPrices(n) = IncomingPrices(run)
  BY DEF IncomingPrices, Got, Same
<1> QED BY <1>4, <1>5, <1>6

(* What each part reads. *)
LEMMA PartsStay ==
    ASSUME NEW run, NEW p
    PROVE  /\ raw' = raw => HasAnswers(run)' = HasAnswers(run)
           /\ jobs' = jobs => InCheckpoint(run)' = InCheckpoint(run)
           /\ current' = current => Merged(run)' = Merged(run)
           /\ UNCHANGED <<temps, parquets>> => HoldsFile(p, run)' = HoldsFile(p, run)
           /\ UNCHANGED <<raw, jobs>> => JobsSound' = JobsSound
           /\ UNCHANGED <<current, jobs>> => PricesSound' = PricesSound
           /\ UNCHANGED <<temps, parquets, current>> => FilesSound' = FilesSound
<1>1. raw' = raw => HasAnswers(run)' = HasAnswers(run)
  BY DEF HasAnswers, InRaw
<1>2. jobs' = jobs => InCheckpoint(run)' = InCheckpoint(run)
  BY DEF InCheckpoint
<1>3. current' = current => Merged(run)' = Merged(run)
  BY DEF Merged, Latest, HasCurrent, FrameOf
<1>4. UNCHANGED <<temps, parquets>> => HoldsFile(p, run)' = HoldsFile(p, run)
  BY DEF HoldsFile
<1>5. UNCHANGED <<raw, jobs>> => JobsSound' = JobsSound
  BY DEF JobsSound, InRaw
<1>6. UNCHANGED <<current, jobs>> => PricesSound' = PricesSound
  BY DEF PricesSound, Latest, HasCurrent, FrameOf, Asked
<1>7. UNCHANGED <<temps, parquets, current>> => FilesSound' = FilesSound
  BY DEF FilesSound
<1> QED BY <1>1, <1>2, <1>3, <1>4, <1>5, <1>6, <1>7

(* A run that has merged its downloads keeps them, wherever it goes. *)
LEMMA RunMoves ==
    ASSUME NEW run, NEW n, Same(n, run),
           run.pc \notin {"obtain", "save"}, n.pc \notin {"obtain", "save"},
           HasAnswers(run), InCheckpoint(run), Merged(run)
    PROVE  HasAnswers(n) /\ InCheckpoint(n) /\ Merged(n)
<1>1. HasAnswers(n)
  BY DEF HasAnswers, Same
<1>2. InCheckpoint(n)
  BY DEF InCheckpoint, Same
<1>3. Merged(n)
  <2>1. \A d : DataOf(d, n) = DataOf(d, run)
    BY DataOfRun
  <2>2. IncomingPrices(n) = IncomingPrices(run)
    BY DataOfRun
  <2> QED BY <2>1, <2>2 DEF Merged, Same
<1> QED BY <1>1, <1>2, <1>3

(* Steps that move a run on, whatever they do to the files. *)
LEMMA MovingOn ==
    ASSUME IngestionTypes, Alone, NEW p \in Writers,
           NEW run, run = ingestors[p], run.pc \in PublishingPlaces \cup {"judge"},
           NEW pc, pc \in PublishingPlaces, NEW n, n = [run EXCEPT !.pc = pc],
           Goto(p, pc), UNCHANGED <<fetched, raw, jobs, ended, overlapped, current>>
    PROVE  /\ IngestionTypes' /\ OneRun' /\ JobsSound' /\ PricesSound' /\ UniverseOwed'
           /\ ingestors'[p] = n /\ n.pc = pc /\ Staged(n) = Staged(run)
           /\ \A q \in Writers : Ingesting(q)' => q = p
           /\ HasAnswers(n)' /\ InCheckpoint(n)' /\ Merged(n)'
<1>1. Ingesting(p) /\ Set(p, n)
  BY DEF Ingesting, PublishingPlaces, Goto
<1>2. /\ DOMAIN ingestors' = Writers /\ ingestors'[p] = n
      /\ \A q \in Writers : q # p => ingestors'[q] = ingestors[q] /\ ~Ingesting(q)'
      /\ \A q \in Writers : Ingesting(q)' => q = p
      /\ OneRun'
  BY <1>1, OnlyThisRun DEF Alone
<1>3. RunTyped(run) /\ RunSound(p, run)
  BY <1>1 DEF IngestionTypes, Alone
<1>4. DOMAIN n = RunFields /\ n.pc = pc /\ Same(n, run)
  BY <1>3, Moved
<1>5. RunTyped(n)
  BY <1>3, <1>4 DEF RunTyped, PublishingPlaces, Same
<1>6. IngestionTypes'
  BY <1>2, <1>5 DEF IngestionTypes
<1>7. HasAnswers(n) /\ InCheckpoint(n) /\ Merged(n)
  <2>1. run.pc \notin {"obtain", "save"} /\ n.pc \notin {"obtain", "save"}
    BY <1>4 DEF PublishingPlaces
  <2>2. HasAnswers(run) /\ InCheckpoint(run) /\ Merged(run)
    BY <1>3 DEF RunSound
  <2> QED BY <1>4, <2>1, <2>2, RunMoves
<1>8. HasAnswers(n)' /\ InCheckpoint(n)' /\ Merged(n)'
  BY <1>7, PartsStay
<1>9. JobsSound' /\ PricesSound'
  BY PartsStay DEF Alone
<1>10. UniverseOwed'
  <2>1. Consistent' = Consistent /\ \A j : Open(j)' = Open(j)
    BY DEF Consistent, FrameOf, Open
  <2>2. ASSUME NEW q \in Writers, Ingesting(q), ingestors[q].next \in 3..5
        PROVE  Ingesting(q)' /\ ingestors'[q].next \in 3..5
    <3>1. q = p
      BY <1>1, <2>2 DEF Alone, OneRun
    <3> QED BY <1>2, <1>4, <2>2, <3>1 DEF Ingesting, PublishingPlaces, Same
  <2> QED BY <2>1, <2>2 DEF Alone, UniverseOwed, HasCurrent
<1>11. Staged(n) = Staged(run)
  BY <1>4, DataOfRun
<1> QED BY <1>2, <1>4, <1>6, <1>8, <1>9, <1>10, <1>11

LEMMA StillAlone ==
    ASSUME NEW p \in Writers, NEW n, ingestors'[p] = n,
           OneRun', JobsSound', PricesSound', UniverseOwed', FilesSound',
           \A q \in Writers : Ingesting(q)' => q = p,
           HasAnswers(n)', InCheckpoint(n)', Merged(n)', HoldsFile(p, n)'
    PROVE  Alone'
<1>1. RunSound(p, n)'
  BY DEF RunSound
<1>2. ASSUME NEW q \in Writers, Ingesting(q)' PROVE RunSound(q, ingestors[q])'
  BY <1>1, <1>2
<1> QED BY <1>2 DEF Alone

(* The files: whatever is renamed has been written by this run to the end. *)
LEMMA StageKeeps ==
    ASSUME IngestionTypes, Alone, NEW p \in Writers, StageExisting(p) \/ StageMissing(p)
    PROVE  IngestionTypes' /\ Alone'
<1>1. PICK run : run = ingestors[p]
  OBVIOUS
<1>2. PICK pc \in {"promote", "open"} :
         /\ run.pc = "stage" /\ Goto(p, pc) /\ UNCHANGED <<datasetVars, Outside>>
         /\ pc = "promote" => Staged(run) \in DOMAIN parquets
  BY <1>1 DEF StageExisting, StageMissing
<1>3. PICK n : n = [run EXCEPT !.pc = pc]
  OBVIOUS
<1>4. /\ UNCHANGED <<fetched, raw, jobs, ended, overlapped, current, temps, parquets>>
      /\ run.pc \in PublishingPlaces \cup {"judge"} /\ pc \in PublishingPlaces
  BY <1>2 DEF datasetVars, Outside, PublishingPlaces
<1>5. /\ IngestionTypes' /\ OneRun' /\ JobsSound' /\ PricesSound' /\ UniverseOwed'
      /\ ingestors'[p] = n /\ n.pc = pc /\ Staged(n) = Staged(run)
      /\ \A q \in Writers : Ingesting(q)' => q = p
      /\ HasAnswers(n)' /\ InCheckpoint(n)' /\ Merged(n)'
  BY <1>1, <1>2, <1>3, <1>4, MovingOn
<1>6. FilesSound'
  BY <1>4, PartsStay DEF Alone
<1>7. HoldsFile(p, n)
  BY <1>2, <1>5 DEF HoldsFile
<1>8. HoldsFile(p, n)'
  BY <1>4, <1>7, PartsStay
<1> QED BY <1>5, <1>6, <1>8, StillAlone

LEMMA OpenKeeps ==
    ASSUME IngestionTypes, Alone, NEW p \in Writers, OpenParquet(p)
    PROVE  IngestionTypes' /\ Alone'
<1>1. PICK run : run = ingestors[p]
  OBVIOUS
<1>2. PICK n : n = [run EXCEPT !.pc = "write"]
  OBVIOUS
<1>3. PICK v : v = Staged(run)
  OBVIOUS
<1>4. /\ run.pc = "open" /\ Goto(p, "write")
      /\ UNCHANGED <<fetched, raw, jobs, ended, overlapped, current, parquets>>
      /\ temps' = Put(temps, v, [by |-> p, whole |-> FALSE])
  BY <1>1, <1>3 DEF OpenParquet, OpenTemporary, Outside
<1>5. run.pc \in PublishingPlaces \cup {"judge"} /\ "write" \in PublishingPlaces
  BY <1>4 DEF PublishingPlaces
<1>6. /\ IngestionTypes' /\ OneRun' /\ JobsSound' /\ PricesSound' /\ UniverseOwed'
      /\ ingestors'[p] = n /\ n.pc = "write" /\ Staged(n) = Staged(run)
      /\ \A q \in Writers : Ingesting(q)' => q = p
      /\ HasAnswers(n)' /\ InCheckpoint(n)' /\ Merged(n)'
  BY <1>1, <1>2, <1>4, <1>5, MovingOn
<1>7. /\ DOMAIN temps' = DOMAIN temps \cup {v}
      /\ \A w \in DOMAIN temps' :
           temps'[w] = IF w = v THEN [by |-> p, whole |-> FALSE] ELSE temps[w]
  BY <1>4 DEF Put
<1>8. FilesSound'
  BY <1>4, <1>7 DEF Alone, FilesSound
<1>9. Staged(n) = v
  BY <1>3, <1>6
<1>10. HoldsFile(p, n)'
  BY <1>6, <1>7, <1>9 DEF HoldsFile
<1> QED BY <1>6, <1>8, <1>10, StillAlone

LEMMA WriteKeeps ==
    ASSUME IngestionTypes, Alone, NEW p \in Writers, WriteParquet(p)
    PROVE  IngestionTypes' /\ Alone'
<1>1. PICK run : run = ingestors[p]
  OBVIOUS
<1>2. PICK n : n = [run EXCEPT !.pc = "rename"]
  OBVIOUS
<1>3. PICK v : v = Staged(run)
  OBVIOUS
<1>4. /\ run.pc = "write" /\ Goto(p, "rename")
      /\ UNCHANGED <<fetched, raw, jobs, ended, overlapped, current>>
      /\ temps' = Written(temps, p, v) /\ parquets' = Written(parquets, p, v)
  BY <1>1, <1>3 DEF WriteParquet, FinishTemporary, Outside
<1>5. run.pc \in PublishingPlaces \cup {"judge"} /\ "rename" \in PublishingPlaces
  BY <1>4 DEF PublishingPlaces
<1>6. /\ IngestionTypes' /\ OneRun' /\ JobsSound' /\ PricesSound' /\ UniverseOwed'
      /\ ingestors'[p] = n /\ n.pc = "rename" /\ Staged(n) = Staged(run)
      /\ \A q \in Writers : Ingesting(q)' => q = p
      /\ HasAnswers(n)' /\ InCheckpoint(n)' /\ Merged(n)'
  BY <1>1, <1>2, <1>4, <1>5, MovingOn
<1>7. v \in DOMAIN temps /\ temps[v].by = p
  BY <1>1, <1>3, <1>4 DEF Alone, RunSound, HoldsFile, Ingesting
<1>8. /\ DOMAIN temps' = DOMAIN temps /\ temps'[v].whole
      /\ \A w \in DOMAIN temps' : DOMAIN temps'[w] = {"by", "whole"}
  BY <1>4, <1>7 DEF Written, Alone, FilesSound
<1>9. /\ DOMAIN parquets' = DOMAIN parquets
      /\ \A w \in DOMAIN parquets' :
           parquets'[w].whole /\ DOMAIN parquets'[w] = {"by", "whole"}
  BY <1>4 DEF Written, Alone, FilesSound
<1>10. FilesSound'
  BY <1>4, <1>8, <1>9 DEF Alone, FilesSound
<1>11. Staged(n) = v
  BY <1>3, <1>6
<1>12. HoldsFile(p, n)'
  BY <1>6, <1>7, <1>8, <1>11 DEF HoldsFile
<1> QED BY <1>6, <1>10, <1>12, StillAlone

LEMMA RenameKeeps ==
    ASSUME IngestionTypes, Alone, NEW p \in Writers, RenameParquet(p)
    PROVE  IngestionTypes' /\ Alone'
<1>1. PICK run : run = ingestors[p]
  OBVIOUS
<1>2. PICK n : n = [run EXCEPT !.pc = "promote"]
  OBVIOUS
<1>3. PICK v : v = Staged(run)
  OBVIOUS
<1>4. /\ run.pc = "rename" /\ Goto(p, "promote")
      /\ UNCHANGED <<fetched, raw, jobs, ended, overlapped, current>>
      /\ v \in DOMAIN temps
      /\ parquets' = Put(parquets, v, temps[v]) /\ temps' = Drop(temps, v)
  BY <1>1, <1>3 DEF RenameParquet, RenameTemporary, Outside
<1>5. run.pc \in PublishingPlaces \cup {"judge"} /\ "promote" \in PublishingPlaces
  BY <1>4 DEF PublishingPlaces
<1>6. /\ IngestionTypes' /\ OneRun' /\ JobsSound' /\ PricesSound' /\ UniverseOwed'
      /\ ingestors'[p] = n /\ n.pc = "promote" /\ Staged(n) = Staged(run)
      /\ \A q \in Writers : Ingesting(q)' => q = p
      /\ HasAnswers(n)' /\ InCheckpoint(n)' /\ Merged(n)'
  BY <1>1, <1>2, <1>4, <1>5, MovingOn
<1>7. temps[v].whole /\ DOMAIN temps[v] = {"by", "whole"}
  BY <1>1, <1>3, <1>4 DEF Alone, RunSound, HoldsFile, Ingesting, FilesSound
<1>8. /\ DOMAIN parquets' = DOMAIN parquets \cup {v}
      /\ \A w \in DOMAIN parquets' :
           parquets'[w] = IF w = v THEN temps[v] ELSE parquets[w]
  BY <1>4 DEF Put
<1>9. DOMAIN temps' \subseteq DOMAIN temps /\ \A w \in DOMAIN temps' : temps'[w] = temps[w]
  BY <1>4 DEF Drop
<1>10. FilesSound'
  BY <1>4, <1>7, <1>8, <1>9 DEF Alone, FilesSound
<1>11. Staged(n) = v
  BY <1>3, <1>6
<1>12. HoldsFile(p, n)'
  BY <1>6, <1>8, <1>11 DEF HoldsFile
<1> QED BY <1>6, <1>10, <1>12, StillAlone

LEMMA LockKeeps ==
    ASSUME IngestionTypes, Alone, NEW p \in Writers, LockAndVerify(p)
    PROVE  IngestionTypes' /\ Alone'
<1>1. PICK run : run = ingestors[p]
  OBVIOUS
<1>2. PICK n : n = [run EXCEPT !.pc = "switch"]
  OBVIOUS
<1>3. /\ run.pc = "promote" /\ Goto(p, "switch") /\ Staged(run) \in DOMAIN parquets
      /\ UNCHANGED <<fetched, raw, jobs, ended, overlapped, current, temps, parquets>>
  BY <1>1 DEF LockAndVerify, LockAndRegister, Promotable, Readable, Outside
<1>4. run.pc \in PublishingPlaces \cup {"judge"} /\ "switch" \in PublishingPlaces
  BY <1>3 DEF PublishingPlaces
<1>5. /\ IngestionTypes' /\ OneRun' /\ JobsSound' /\ PricesSound' /\ UniverseOwed'
      /\ ingestors'[p] = n /\ n.pc = "switch" /\ Staged(n) = Staged(run)
      /\ \A q \in Writers : Ingesting(q)' => q = p
      /\ HasAnswers(n)' /\ InCheckpoint(n)' /\ Merged(n)'
  BY <1>1, <1>2, <1>3, <1>4, MovingOn
<1>6. FilesSound'
  BY <1>3, PartsStay DEF Alone
<1>7. HoldsFile(p, n)
  BY <1>3, <1>5 DEF HoldsFile
<1>8. HoldsFile(p, n)'
  BY <1>3, <1>7, PartsStay
<1> QED BY <1>5, <1>6, <1>8, StillAlone

-----------------------------------------------------------------------------
(* The end of a run leaves the files whole and nobody at work. *)
LEMMA RunEnded ==
    ASSUME IngestionTypes, Alone, NEW p \in Writers, Ingesting(p), EndRun(p)
    PROVE  /\ DOMAIN ingestors' = Writers /\ \A q \in Writers : RunTyped(ingestors'[q])
           /\ \A q \in Writers : ~Ingesting(q)'
           /\ OneRun' /\ FilesSound' /\ current' = current
<1>1. Set(p, NoIngestion) /\ ReleaseAll(p)
  BY DEF EndRun
<1>2. /\ DOMAIN ingestors' = Writers /\ ingestors'[p] = NoIngestion
      /\ \A q \in Writers : q # p => ingestors'[q] = ingestors[q] /\ ~Ingesting(q)'
      /\ OneRun'
  BY <1>1, OnlyThisRun DEF Alone
<1>3. RunTyped(NoIngestion) /\ NoIngestion.pc = "idle"
  BY DEF RunTyped, NoIngestion, RunFields, PublishingPlaces
<1>4. \A q \in Writers : RunTyped(ingestors'[q]) /\ ~Ingesting(q)'
  BY <1>2, <1>3 DEF IngestionTypes, Ingesting
<1>5. /\ temps' = Abandoned(temps, p) /\ parquets' = Abandoned(parquets, p)
      /\ current' = current
  BY <1>1 DEF ReleaseAll
<1>6. \A v \in DOMAIN parquets :
         DOMAIN parquets[v] = {"by", "whole"} =>
           /\ [parquets[v] EXCEPT !.by = Nobody].whole = parquets[v].whole
           /\ DOMAIN [parquets[v] EXCEPT !.by = Nobody] = {"by", "whole"}
  OBVIOUS
<1>7. /\ DOMAIN parquets' = DOMAIN parquets
      /\ \A v \in DOMAIN parquets' :
           parquets'[v].whole /\ DOMAIN parquets'[v] = {"by", "whole"}
  BY <1>5, <1>6 DEF Abandoned, Alone, FilesSound
<1>8. /\ DOMAIN temps' = DOMAIN temps
      /\ \A v \in DOMAIN temps' : DOMAIN temps'[v] = {"by", "whole"}
  BY <1>5 DEF Abandoned, Alone, FilesSound
<1>9. FilesSound'
  BY <1>5, <1>7, <1>8 DEF Alone, FilesSound
<1> QED BY <1>2, <1>4, <1>5, <1>9

(* A run that had published nothing but its report owes nothing. *)
LEMMA EndsEarly ==
    ASSUME IngestionTypes, Alone, NEW p \in Writers, Ingesting(p), EndRun(p),
           ingestors[p].next \notin 3..5,
           UNCHANGED <<fetched, raw, jobs, ended, overlapped>>
    PROVE  IngestionTypes' /\ Alone'
<1>1. /\ DOMAIN ingestors' = Writers /\ \A q \in Writers : RunTyped(ingestors'[q])
      /\ \A q \in Writers : ~Ingesting(q)'
      /\ OneRun' /\ FilesSound' /\ current' = current
  BY RunEnded
<1>2. IngestionTypes'
  BY <1>1 DEF IngestionTypes
<1>3. JobsSound' /\ PricesSound'
  BY <1>1, PartsStay DEF Alone
<1>4. UniverseOwed'
  <2>1. Consistent' = Consistent /\ \A j : Open(j)' = Open(j)
    BY <1>1 DEF Consistent, FrameOf, Open
  <2>2. \A q \in Writers : Ingesting(q) => ingestors[q].next \notin 3..5
    BY DEF Alone, OneRun
  <2> QED BY <1>1, <2>1, <2>2 DEF Alone, UniverseOwed, HasCurrent
<1> QED BY <1>1, <1>2, <1>3, <1>4 DEF Alone

LEMMA RaisesKeeps ==
    ASSUME IngestionTypes, Alone, NEW p \in Writers,
           MergeRaises(p) \/ StoreRaises(p)
    PROVE  IngestionTypes' /\ Alone'
<1>1. CASE MergeRaises(p)
  <2>1. ingestors[p].pc \in {"obtain", "calendar", "instruments"}
        /\ EndRun(p) /\ UNCHANGED <<fetched, raw, jobs, ended, overlapped>>
    BY <1>1 DEF MergeRaises, HasAll
  <2>2. Ingesting(p) /\ ingestors[p].next = 1
    BY <2>1 DEF Ingesting, IngestionTypes, RunTyped
  <2> QED BY <2>1, <2>2, EndsEarly
<1>2. CASE StoreRaises(p)
  <2>1. Ingesting(p)
    BY <1>2 DEF StoreRaises, Ingesting
  <2>2. HoldsFile(p, ingestors[p]) /\ FilesSound
    BY <2>1 DEF Alone, RunSound
  <2>3. FALSE
    BY <1>2, <2>2 DEF StoreRaises, TemporaryGone, PromotionRefused, Promotable, Readable,
      HoldsFile, FilesSound
  <2> QED BY <2>3
<1> QED BY <1>1, <1>2

LEMMA JudgeKeeps ==
    ASSUME IngestionTypes, Alone, NEW p \in Writers, Judge(p)
    PROVE  IngestionTypes' /\ Alone'
<1>1. PICK run : run = ingestors[p]
  OBVIOUS
<1>2. PICK n : n = [run EXCEPT !.pc = "stage"]
  OBVIOUS
<1>3. /\ run.pc = "judge" /\ UNCHANGED <<fetched, raw, jobs, ended, overlapped>>
      /\ \/ Goto(p, "stage") /\ UNCHANGED datasetVars
         \/ EndRun(p)
  BY <1>1 DEF Judge, Outside
<1>4. CASE EndRun(p)
  <2>1. Ingesting(p) /\ ingestors[p].next = 2
    BY <1>1, <1>3 DEF Ingesting, IngestionTypes, RunTyped
  <2> QED BY <1>3, <1>4, <2>1, EndsEarly
<1>5. CASE Goto(p, "stage") /\ UNCHANGED datasetVars
  <2>1. UNCHANGED <<current, temps, parquets>>
    BY <1>5 DEF datasetVars
  <2>2. run.pc \in PublishingPlaces \cup {"judge"} /\ "stage" \in PublishingPlaces
    BY <1>3 DEF PublishingPlaces
  <2>3. /\ IngestionTypes' /\ OneRun' /\ JobsSound' /\ PricesSound' /\ UniverseOwed'
        /\ ingestors'[p] = n /\ n.pc = "stage" /\ Staged(n) = Staged(run)
        /\ \A q \in Writers : Ingesting(q)' => q = p
        /\ HasAnswers(n)' /\ InCheckpoint(n)' /\ Merged(n)'
    BY <1>1, <1>2, <1>3, <1>5, <2>1, <2>2, MovingOn
  <2>4. FilesSound'
    BY <2>1, PartsStay DEF Alone
  <2>5. HoldsFile(p, n)'
    BY <2>3 DEF HoldsFile
  <2> QED BY <2>3, <2>4, <2>5, StillAlone
<1> QED BY <1>3, <1>4, <1>5

LEMMA KilledKeeps ==
    ASSUME IngestionTypes, Alone, NEW p \in Writers, Killed(p)
    PROVE  IngestionTypes' /\ Alone'
<1>1. PICK run : run = ingestors[p]
  OBVIOUS
<1>2. /\ Ingesting(p) /\ EndRun(p) /\ UNCHANGED <<fetched, raw, jobs, overlapped>>
      /\ DOMAIN ended' = DOMAIN ended
      /\ ended.repeated => ended'.repeated
      /\ jobs[run.job].status = "complete" => ended'.repeated
  BY <1>1 DEF Killed, IngestionTypes
<1>3. /\ DOMAIN ingestors' = Writers /\ \A q \in Writers : RunTyped(ingestors'[q])
      /\ \A q \in Writers : ~Ingesting(q)'
      /\ OneRun' /\ FilesSound' /\ current' = current
  BY <1>2, RunEnded
<1>4. IngestionTypes'
  BY <1>2, <1>3 DEF IngestionTypes
<1>5. JobsSound' /\ PricesSound'
  BY <1>2, <1>3, PartsStay DEF Alone
<1>6. UniverseOwed'
  <2>1. Consistent' = Consistent /\ (\A j : Open(j)' = Open(j))
        /\ HasCurrent("universe")' = HasCurrent("universe")
    BY <1>2, <1>3 DEF Consistent, FrameOf, Open, HasCurrent
  <2>2. ASSUME run.next \in 3..5 PROVE run.job \in JobNamesOf /\ (Open(run.job) \/ ended'.repeated)
    <3>1. RunTyped(run) /\ RunSound(p, run) /\ run.pc # "idle"
      BY <1>1, <1>2 DEF IngestionTypes, Alone, Ingesting
    <3>2. run.job \in JobNamesOf /\ run.pc \notin {"obtain", "save"}
      BY <2>2, <3>1 DEF RunTyped
    <3>3. KeyOf(run.job, Reference) \in DOMAIN run.completed
      BY <3>1, <3>2, RequestFacts DEF RunSound, HasAnswers
    <3>4. DOMAIN jobs[run.job].completed # {}
      BY <3>1, <3>2, <3>3 DEF RunSound, InCheckpoint
    <3> QED BY <1>2, <3>2, <3>4 DEF Open
  <2>3. ASSUME NEW q \in Writers, Ingesting(q), ingestors[q].next \in 3..5
        PROVE  run.next \in 3..5
    BY <1>1, <1>2, <2>3 DEF Alone, OneRun
  <2> QED BY <1>2, <2>1, <2>2, <2>3 DEF Alone, UniverseOwed
<1> QED BY <1>3, <1>4, <1>5, <1>6 DEF Alone

(* What a run that is complete has published. *)
LEMMA AllPublished ==
    ASSUME NEW run, run.pc \notin {"obtain", "save"}, Merged(run), run.next >= 6, run.next \in Nat
    PROVE  /\ HasCurrent("prices") /\ FrameOf("prices") = run.prices
           /\ Consistent
<1>1. /\ Publications[2] = "prices" /\ Publications[3] = "instruments"
      /\ Publications[4] = "calendar" /\ Publications[5] = "universe"
  BY DEF Publications
<1>2. {2, 3, 4, 5} \subseteq 2..(run.next - 1)
  OBVIOUS
<1>3. \A k \in {2, 3, 4, 5} :
         HasCurrent(Publications[k]) /\ FrameOf(Publications[k]) = DataOf(Publications[k], run)
  BY <1>2 DEF Merged
<1>4. /\ DataOf("prices", run) = run.prices
      /\ DataOf("instruments", run) = run.instruments
      /\ DataOf("calendar", run) = run.calendar
      /\ DataOf("universe", run) =
           <<Values(run.instruments), Values(run.prices), DOMAIN run.calendar>>
  BY Zenon DEF DataOf
<1>5. /\ FrameOf("prices") = DataOf("prices", run) /\ HasCurrent("prices")
      /\ FrameOf("instruments") = DataOf("instruments", run)
      /\ FrameOf("calendar") = DataOf("calendar", run)
      /\ FrameOf("universe") = DataOf("universe", run)
  BY <1>1, <1>3
<1> QED BY <1>4, <1>5 DEF Consistent

LEMMA CompleteKeeps ==
    ASSUME IngestionTypes, Alone, NEW p \in Writers, CompleteJob(p)
    PROVE  IngestionTypes' /\ Alone'
<1>1. PICK run : run = ingestors[p]
  OBVIOUS
<1>2. /\ run.pc = "complete" /\ EndRun(p) /\ UNCHANGED <<fetched, raw, ended, overlapped>>
      /\ jobs' = [jobs EXCEPT ![run.job] =
                     [completed |-> run.completed, status |-> "complete"]]
  BY <1>1 DEF CompleteJob
<1>3. Ingesting(p) /\ RunTyped(run) /\ RunSound(p, run)
  BY <1>1, <1>2 DEF Ingesting, IngestionTypes, Alone
<1>4. run.job \in JobNamesOf /\ run.next = 7
  BY <1>2, <1>3 DEF RunTyped
<1>5. /\ DOMAIN ingestors' = Writers /\ \A q \in Writers : RunTyped(ingestors'[q])
      /\ \A q \in Writers : ~Ingesting(q)'
      /\ OneRun' /\ FilesSound' /\ current' = current
  BY <1>2, <1>3, RunEnded
<1>6. /\ DOMAIN jobs' = JobNamesOf
      /\ jobs'[run.job] = [completed |-> run.completed, status |-> "complete"]
      /\ \A j \in JobNamesOf : j # run.job => jobs'[j] = jobs[j]
      /\ \A j \in JobNamesOf : jobs'[j].completed = jobs[j].completed
  BY <1>2, <1>3, <1>4 DEF IngestionTypes, RunSound, InCheckpoint
<1>7. IngestionTypes'
  BY <1>2, <1>5, <1>6 DEF IngestionTypes
<1>8. HasCurrent("prices") /\ FrameOf("prices") = run.prices /\ Consistent
  BY <1>2, <1>3, <1>4, AllPublished DEF RunSound
<1>9. AllKeys(run.job) \subseteq DOMAIN run.completed
  BY <1>2, <1>3 DEF RunSound, HasAnswers
<1>10. JobsSound'
  BY <1>2, <1>6, <1>9 DEF Alone, JobsSound, InRaw
<1>11. Asked(run.job)' \subseteq DOMAIN run.prices
  <2> SUFFICES ASSUME NEW s \in SymbolsOf(run.job), NEW d \in Jobs[run.job].days,
                      run.completed[<<s, Jobs[run.job].days>>] # 0
               PROVE  <<s, d>> \in DOMAIN run.prices
    BY <1>6 DEF Asked
  <2>1. KeyOf(run.job, s) = <<s, Jobs[run.job].days>> /\ KeyOf(run.job, s) \in AllKeys(run.job)
    BY <1>4, RequestFacts
  <2>2. Got(run, s).value # 0
    BY <1>2, <1>3, <2>1 DEF Got, RunSound, HasAnswers
  <2>3. <<s, d>> \in DOMAIN IncomingPrices(run)
    BY <2>2 DEF IncomingPrices
  <2> QED BY <1>2, <1>3, <2>3 DEF RunSound, Merged
<1>12. PricesSound'
  <2>1. Latest("prices")' = Latest("prices") /\ HasCurrent("prices")'
        /\ FrameOf("prices")' = run.prices
    BY <1>5, <1>8 DEF Latest, HasCurrent, FrameOf
  <2>2. ASSUME NEW j \in JobNamesOf, jobs'[j].status = "complete"
        PROVE  Asked(j)' \subseteq DOMAIN run.prices
    <3>1. CASE j = run.job
      BY <1>11, <3>1
    <3>2. CASE j # run.job
      <4>1. Asked(j)' = Asked(j) /\ jobs[j].status = "complete"
        BY <1>6, <2>2, <3>2 DEF Asked
      <4> QED BY <1>8, <4>1 DEF Alone, PricesSound
    <3> QED BY <3>1, <3>2
  <2>3. Dated(Latest("prices"))'
    BY <2>1 DEF Alone, PricesSound, Dated
  <2>4. \A d : HasCurrent(d)' = HasCurrent(d)
    BY <1>5 DEF HasCurrent
  <2> QED BY <2>1, <2>2, <2>3, <2>4 DEF Alone, PricesSound
<1>13. UniverseOwed'
  <2>1. Consistent'
    BY <1>5, <1>8 DEF Consistent, FrameOf
  <2> QED BY <2>1 DEF UniverseOwed
<1> QED BY <1>5, <1>7, <1>10, <1>12, <1>13 DEF Alone

-----------------------------------------------------------------------------
(* The downloads. *)
LEMMA BeginKeeps ==
    ASSUME IngestionTypes, Alone, NEW p \in Writers, NEW j \in JobNamesOf,
           BeginIngestion(p, j), ~overlapped'
    PROVE  IngestionTypes' /\ Alone'
<1>1. PICK n : n = [NoIngestion EXCEPT !.pc = "obtain", !.job = j,
                                       !.completed = jobs[j].completed]
  OBVIOUS
<1>2. /\ Set(p, n) /\ UNCHANGED <<temps, parquets, current, fetched, raw, jobs>>
      /\ overlapped' = (overlapped \/ \E r \in Writers : Ingesting(r))
      /\ ended' = [ended EXCEPT !.begun = @ + 1]
  BY <1>1 DEF BeginIngestion, datasetVars
<1>3. /\ DOMAIN n = RunFields /\ n.pc = "obtain" /\ n.job = j /\ n.got = <<>> /\ n.next = 1
      /\ n.completed = jobs[j].completed
  BY <1>1 DEF NoIngestion, RunFields
<1>4. /\ DOMAIN ingestors' = Writers /\ ingestors'[p] = n
      /\ \A q \in Writers : q # p => ingestors'[q] = ingestors[q]
  BY <1>2 DEF Set, IngestionTypes
<1>5. DOMAIN ended' = DOMAIN ended /\ ended'.repeated = ended.repeated
  BY <1>2 DEF IngestionTypes
<1>6. IngestionTypes'
  <2>1. RunTyped(n)
    BY <1>3 DEF RunTyped, PublishingPlaces
  <2> QED BY <1>2, <1>4, <1>5, <2>1 DEF IngestionTypes
<1>7. Alone'
  <2>1. Alone /\ \A r \in Writers : ~Ingesting(r)
    BY <1>2
  <2>2. \A q \in Writers : Ingesting(q)' => q = p
    BY <1>4, <2>1 DEF Ingesting
  <2>3. OneRun'
    BY <2>2 DEF OneRun
  <2>4. JobsSound' /\ PricesSound' /\ FilesSound'
    BY <1>2, <2>1, PartsStay DEF Alone
  <2>5. UniverseOwed'
    <3>1. Consistent' = Consistent /\ (\A i : Open(i)' = Open(i))
          /\ HasCurrent("universe")' = HasCurrent("universe")
      BY <1>2 DEF Consistent, FrameOf, Open, HasCurrent
    <3> QED BY <1>5, <2>1, <3>1 DEF Alone, UniverseOwed
  <2>6. HasAnswers(n)
    <3>1. Len(RequestsOf(j)) \in Nat
      BY RequestFacts
    <3>2. DOMAIN n.got = {} /\ FirstKeys(j, 0) = {} /\ Cardinality({}) = 0
      BY <1>3, FS_EmptySet DEF FirstKeys
    <3>3. InRaw(n.completed)
      BY <1>3, <2>1 DEF Alone, JobsSound
    <3> QED BY <1>3, <3>1, <3>2, <3>3 DEF HasAnswers
  <2>7. InCheckpoint(n) /\ Merged(n) /\ HoldsFile(p, n)
    BY <1>3 DEF InCheckpoint, Merged, HoldsFile
  <2>8. HasAnswers(n)' /\ InCheckpoint(n)' /\ Merged(n)' /\ HoldsFile(p, n)'
    BY <1>2, <2>6, <2>7, PartsStay
  <2> QED BY <1>4, <2>2, <2>3, <2>4, <2>5, <2>8, StillAlone
<1> QED BY <1>6, <1>7

(* One answer more, from the raw store or from the provider. *)
LEMMA AnswerKept ==
    ASSUME NEW run, RunTyped(run), run.pc = "obtain", HasAnswers(run), run.next = 1,
           NEW key, NEW value, NEW at \in Nat, NEW n,
           Cardinality(DOMAIN run.got) < Len(RequestsOf(run.job)),
           key = KeyOf(run.job, RequestsOf(run.job)[Cardinality(DOMAIN run.got) + 1]),
           n.pc \in {"obtain", "save"}, n.job = run.job,
           n.got = Put(run.got, key, [value |-> value, at |-> at]),
           DOMAIN n.completed = DOMAIN run.completed \cup {key},
           \A x \in DOMAIN n.completed :
             n.completed[x] = IF x = key THEN value ELSE run.completed[x],
           DOMAIN raw \subseteq DOMAIN raw', RawKey(key, value) \in DOMAIN raw'
    PROVE  HasAnswers(n)' /\ key \in AllKeys(run.job)
<1>1. run.job \in JobNamesOf
  BY DEF RunTyped
<1>2. PICK k \in 0..Len(RequestsOf(run.job)) :
         DOMAIN run.got = FirstKeys(run.job, k) /\ Cardinality(DOMAIN run.got) = k
  BY DEF HasAnswers
<1>3. /\ key \notin DOMAIN run.got /\ key \in AllKeys(run.job)
      /\ DOMAIN run.got \cup {key} = FirstKeys(run.job, k + 1)
      /\ Cardinality(DOMAIN run.got \cup {key}) = k + 1
      /\ (k + 1) \in 0..Len(RequestsOf(run.job))
  BY <1>1, <1>2, NextKeyIsNew
<1>4. /\ DOMAIN n.got = DOMAIN run.got \cup {key}
      /\ \A x \in DOMAIN n.got :
           n.got[x] = IF x = key THEN [value |-> value, at |-> at] ELSE run.got[x]
  BY DEF Put
<1>5. InRaw(n.completed)'
  BY DEF HasAnswers, InRaw
<1>6. ASSUME NEW x \in DOMAIN n.got
      PROVE  /\ x \in DOMAIN n.completed /\ n.got[x].value = n.completed[x]
             /\ n.got[x].at \in Nat
  BY <1>4 DEF HasAnswers
<1>7. \E m \in 0..Len(RequestsOf(n.job)) :
         DOMAIN n.got = FirstKeys(n.job, m) /\ Cardinality(DOMAIN n.got) = m
  BY <1>3, <1>4
<1> QED BY <1>3, <1>5, <1>6, <1>7 DEF HasAnswers

LEMMA ObtainKeeps ==
    ASSUME IngestionTypes, Alone, NEW p \in Writers, ObtainSaved(p)
    PROVE  IngestionTypes' /\ Alone'
<1>1. PICK run : run = ingestors[p]
  OBVIOUS
<1>2. PICK key : key = NextKey(p)
  OBVIOUS
<1>3. PICK value : value = run.completed[key]
  OBVIOUS
<1>4. PICK n : n = [run EXCEPT
                      !.got = Put(@, key, [value |-> value, at |-> raw[RawKey(key, value)]])]
  OBVIOUS
<1>5. /\ run.pc = "obtain" /\ Cardinality(DOMAIN run.got) < Len(RequestsOf(run.job))
      /\ key = KeyOf(run.job, RequestsOf(run.job)[Cardinality(DOMAIN run.got) + 1])
      /\ key \in DOMAIN run.completed
      /\ Set(p, n) /\ UNCHANGED <<temps, parquets, current, fetched, raw, jobs, ended, overlapped>>
  BY <1>1, <1>2, <1>3, <1>4 DEF ObtainSaved, HasRequest, NextKey, NextRequest, datasetVars
<1>6. Ingesting(p) /\ RunTyped(run) /\ RunSound(p, run) /\ run.next = 1
  BY <1>1, <1>5 DEF Ingesting, IngestionTypes, Alone, RunTyped
<1>7. /\ DOMAIN ingestors' = Writers /\ ingestors'[p] = n
      /\ \A q \in Writers : q # p => ingestors'[q] = ingestors[q] /\ ~Ingesting(q)'
      /\ \A q \in Writers : Ingesting(q)' => q = p
      /\ OneRun'
  BY <1>5, <1>6, OnlyThisRun DEF Alone
<1>8. /\ DOMAIN n = RunFields /\ n.pc = "obtain" /\ n.job = run.job /\ n.next = 1
      /\ n.completed = run.completed
      /\ n.got = Put(run.got, key, [value |-> value, at |-> raw[RawKey(key, value)]])
  BY <1>4, <1>5, <1>6 DEF RunTyped, RunFields
<1>9. IngestionTypes'
  <2>1. RunTyped(n)
    BY <1>5, <1>6, <1>8 DEF RunTyped, PublishingPlaces
  <2> QED BY <1>5, <1>7, <2>1 DEF IngestionTypes
<1>10. RawKey(key, value) \in DOMAIN raw /\ raw[RawKey(key, value)] \in Nat
  BY <1>3, <1>5, <1>6 DEF RunSound, HasAnswers, InRaw, Alone, JobsSound
<1>11. HasAnswers(n)'
  <2>1. PICK at \in Nat : at = raw[RawKey(key, value)]
    BY <1>10
  <2>2. n.got = Put(run.got, key, [value |-> value, at |-> at])
    BY <1>8, <2>1
  <2>3. /\ DOMAIN n.completed = DOMAIN run.completed \cup {key}
        /\ \A x \in DOMAIN n.completed :
             n.completed[x] = IF x = key THEN value ELSE run.completed[x]
    BY <1>3, <1>5, <1>8
  <2>4. DOMAIN raw \subseteq DOMAIN raw' /\ RawKey(key, value) \in DOMAIN raw'
    BY <1>5, <1>10
  <2>5. HasAnswers(run) /\ n.pc \in {"obtain", "save"} /\ n.job = run.job
    BY <1>6, <1>8 DEF RunSound
  <2> QED BY <1>5, <1>6, <2>2, <2>3, <2>4, <2>5, AnswerKept
<1>12. InCheckpoint(n)' /\ Merged(n)' /\ HoldsFile(p, n)'
  <2>1. InCheckpoint(n) /\ Merged(n) /\ HoldsFile(p, n)
    BY <1>5, <1>6, <1>8 DEF RunSound, InCheckpoint, Merged, HoldsFile
  <2> QED BY <1>5, <2>1, PartsStay
<1>13. JobsSound' /\ PricesSound' /\ FilesSound'
  BY <1>5, PartsStay DEF Alone
<1>14. UniverseOwed'
  <2>1. Consistent' = Consistent /\ (\A i : Open(i)' = Open(i))
        /\ HasCurrent("universe")' = HasCurrent("universe")
    BY <1>5 DEF Consistent, FrameOf, Open, HasCurrent
  <2>2. \A q \in Writers : Ingesting(q) => ingestors[q].next \notin 3..5
    BY <1>1, <1>6 DEF Alone, OneRun
  <2> QED BY <1>5, <2>1, <2>2 DEF Alone, UniverseOwed
<1> QED BY <1>7, <1>9, <1>11, <1>12, <1>13, <1>14, StillAlone

LEMMA FetchKeeps ==
    ASSUME IngestionTypes, Alone, NEW p \in Writers, NEW answer,
           HasRequest(p), Fetch(p, answer)
    PROVE  IngestionTypes' /\ Alone'
<1>1. PICK run : run = ingestors[p]
  OBVIOUS
<1>2. PICK key : key = NextKey(p)
  OBVIOUS
<1>3. PICK at : at = fetched + 1
  OBVIOUS
<1>4. PICK n : n = [run EXCEPT !.pc = "save",
                      !.completed = Put(@, key, answer),
                      !.got = Put(@, key, [value |-> answer, at |-> at])]
  OBVIOUS
<1>5. /\ run.pc = "obtain" /\ Cardinality(DOMAIN run.got) < Len(RequestsOf(run.job))
      /\ key = KeyOf(run.job, RequestsOf(run.job)[Cardinality(DOMAIN run.got) + 1])
      /\ key \notin DOMAIN run.completed
      /\ fetched' = at
      /\ raw' = IF RawKey(key, answer) \in DOMAIN raw THEN raw
                ELSE Put(raw, RawKey(key, answer), at)
      /\ Set(p, n) /\ UNCHANGED <<temps, parquets, current, jobs, ended, overlapped>>
  BY <1>1, <1>2, <1>3, <1>4 DEF Fetch, HasRequest, NextKey, NextRequest, datasetVars
<1>6. Ingesting(p) /\ RunTyped(run) /\ RunSound(p, run) /\ run.next = 1
  BY <1>1, <1>5 DEF Ingesting, IngestionTypes, Alone, RunTyped
<1>7. /\ DOMAIN ingestors' = Writers /\ ingestors'[p] = n
      /\ \A q \in Writers : q # p => ingestors'[q] = ingestors[q] /\ ~Ingesting(q)'
      /\ \A q \in Writers : Ingesting(q)' => q = p
      /\ OneRun'
  BY <1>5, <1>6, OnlyThisRun DEF Alone
<1>8. /\ DOMAIN n = RunFields /\ n.pc = "save" /\ n.job = run.job /\ n.next = 1
      /\ n.completed = Put(run.completed, key, answer)
      /\ n.got = Put(run.got, key, [value |-> answer, at |-> at])
  BY <1>4, <1>5, <1>6 DEF RunTyped, RunFields
<1>9. at \in Nat
  BY <1>3 DEF IngestionTypes
<1>10. IngestionTypes'
  <2>1. RunTyped(n)
    BY <1>5, <1>6, <1>8 DEF RunTyped, PublishingPlaces
  <2> QED BY <1>5, <1>7, <1>9, <2>1 DEF IngestionTypes
<1>11. /\ DOMAIN raw \subseteq DOMAIN raw' /\ RawKey(key, answer) \in DOMAIN raw'
       /\ \A k \in DOMAIN raw' : raw'[k] \in Nat
  <2>1. CASE RawKey(key, answer) \in DOMAIN raw
    BY <1>5, <2>1 DEF Alone, JobsSound
  <2>2. CASE RawKey(key, answer) \notin DOMAIN raw
    <3>1. raw' = Put(raw, RawKey(key, answer), at)
      BY <1>5, <2>2
    <3> QED BY <1>9, <3>1 DEF Put, Alone, JobsSound
  <2> QED BY <2>1, <2>2
<1>12. /\ DOMAIN n.completed = DOMAIN run.completed \cup {key}
       /\ \A x \in DOMAIN n.completed :
            n.completed[x] = IF x = key THEN answer ELSE run.completed[x]
  BY <1>8 DEF Put
<1>13. HasAnswers(n)' /\ key \in AllKeys(run.job)
  <2>1. HasAnswers(run) /\ n.pc \in {"obtain", "save"} /\ n.job = run.job
    BY <1>6, <1>8 DEF RunSound
  <2> QED BY <1>5, <1>6, <1>8, <1>9, <1>11, <1>12, <2>1, AnswerKept
<1>14. run.job \in JobNamesOf
  BY <1>5, <1>6 DEF RunTyped
<1>15. jobs[run.job].status # "complete"
  BY <1>5, <1>6, <1>13, <1>14 DEF RunSound, InCheckpoint, Alone, JobsSound
<1>16. InCheckpoint(n)' /\ Merged(n)' /\ HoldsFile(p, n)'
  <2>1. InCheckpoint(n)
    BY <1>8, <1>12, <1>15 DEF InCheckpoint
  <2>2. Merged(n) /\ HoldsFile(p, n)
    BY <1>8 DEF Merged, HoldsFile
  <2> QED BY <1>5, <2>1, <2>2, PartsStay
<1>17. JobsSound'
  BY <1>5, <1>11 DEF Alone, JobsSound, InRaw
<1>18. PricesSound' /\ FilesSound'
  BY <1>5, PartsStay DEF Alone
<1>19. UniverseOwed'
  <2>1. Consistent' = Consistent /\ (\A i : Open(i)' = Open(i))
        /\ HasCurrent("universe")' = HasCurrent("universe")
    BY <1>5 DEF Consistent, FrameOf, Open, HasCurrent
  <2>2. \A q \in Writers : Ingesting(q) => ingestors[q].next \notin 3..5
    BY <1>1, <1>6 DEF Alone, OneRun
  <2> QED BY <1>5, <2>1, <2>2 DEF Alone, UniverseOwed
<1> QED BY <1>7, <1>10, <1>13, <1>16, <1>17, <1>18, <1>19, StillAlone

LEMMA SaveKeeps ==
    ASSUME IngestionTypes, Alone, NEW p \in Writers, SaveObtained(p)
    PROVE  IngestionTypes' /\ Alone'
<1>1. PICK run : run = ingestors[p]
  OBVIOUS
<1>2. PICK n : n = [run EXCEPT !.pc = "obtain"]
  OBVIOUS
<1>3. /\ run.pc = "save" /\ Set(p, n)
      /\ UNCHANGED <<temps, parquets, current, fetched, raw, ended, overlapped>>
      /\ jobs' = [jobs EXCEPT ![run.job].completed = run.completed]
  BY <1>1, <1>2 DEF SaveObtained, Goto, datasetVars
<1>4. Ingesting(p) /\ RunTyped(run) /\ RunSound(p, run) /\ run.next = 1
      /\ run.job \in JobNamesOf
  BY <1>1, <1>3 DEF Ingesting, IngestionTypes, Alone, RunTyped
<1>5. /\ DOMAIN ingestors' = Writers /\ ingestors'[p] = n
      /\ \A q \in Writers : q # p => ingestors'[q] = ingestors[q] /\ ~Ingesting(q)'
      /\ \A q \in Writers : Ingesting(q)' => q = p
      /\ OneRun'
  BY <1>3, <1>4, OnlyThisRun DEF Alone
<1>6. DOMAIN n = RunFields /\ n.pc = "obtain" /\ Same(n, run)
  BY <1>2, <1>4, Moved
<1>7. /\ DOMAIN jobs' = JobNamesOf
      /\ jobs'[run.job].completed = run.completed
      /\ \A j \in JobNamesOf : j # run.job => jobs'[j] = jobs[j]
      /\ \A j \in JobNamesOf : jobs'[j].status = jobs[j].status
                                 /\ DOMAIN jobs'[j] = {"completed", "status"}
  BY <1>3, <1>4 DEF IngestionTypes
<1>8. IngestionTypes'
  <2>1. RunTyped(n)
    BY <1>4, <1>6 DEF RunTyped, PublishingPlaces, Same
  <2> QED BY <1>3, <1>5, <1>7, <2>1 DEF IngestionTypes
<1>9. jobs[run.job].status # "complete" /\ DOMAIN run.completed # {} /\ InRaw(run.completed)
  BY <1>3, <1>4 DEF RunSound, InCheckpoint, HasAnswers
<1>10. HasAnswers(n)'
  <2>1. HasAnswers(n)
    BY <1>3, <1>4, <1>6 DEF RunSound, HasAnswers, Same
  <2> QED BY <1>3, <2>1, PartsStay
<1>11. InCheckpoint(n)'
  BY <1>6, <1>7 DEF InCheckpoint, Same
<1>12. Merged(n)' /\ HoldsFile(p, n)'
  BY <1>6 DEF Merged, HoldsFile
<1>13. JobsSound'
  <2>1. \A j \in JobNamesOf : jobs'[j].completed
           = IF j = run.job THEN run.completed ELSE jobs[j].completed
    BY <1>7
  <2>2. \A j \in JobNamesOf : InRaw(jobs[j].completed)'
    BY <1>3, <1>9, <2>1 DEF Alone, JobsSound, InRaw
  <2> QED BY <1>3, <1>7, <1>9, <2>1, <2>2 DEF Alone, JobsSound
<1>14. PricesSound'
  <2>1. Dated(Latest("prices"))' /\ (\A d : HasCurrent(d)' = HasCurrent(d))
        /\ FrameOf("prices")' = FrameOf("prices")
    BY <1>3 DEF Alone, PricesSound, Dated, Latest, HasCurrent, FrameOf
  <2>2. ASSUME NEW j \in JobNamesOf, jobs'[j].status = "complete"
        PROVE  jobs[j].status = "complete" /\ Asked(j)' = Asked(j)
    BY <1>7, <1>9, <2>2 DEF Asked
  <2> QED BY <2>1, <2>2 DEF Alone, PricesSound
<1>15. FilesSound'
  BY <1>3, PartsStay DEF Alone
<1>16. UniverseOwed'
  <2>1. Consistent' = Consistent /\ HasCurrent("universe")' = HasCurrent("universe")
    BY <1>3 DEF Consistent, FrameOf, HasCurrent
  <2>2. \A i \in JobNamesOf : Open(i) => Open(i)'
    BY <1>7, <1>9 DEF Open
  <2>3. \A q \in Writers : Ingesting(q) => ingestors[q].next \notin 3..5
    BY <1>1, <1>4 DEF Alone, OneRun
  <2> QED BY <1>3, <2>1, <2>2, <2>3 DEF Alone, UniverseOwed
<1> QED BY <1>5, <1>8, <1>10, <1>11, <1>12, <1>13, <1>14, <1>15, <1>16, StillAlone

-----------------------------------------------------------------------------
(* The merges.  Of two rows of a key the one that was ingested first is kept. *)
LEMMA FirstIsKept ==
    ASSUME NEW old, NEW new, NEW tie, Dated(old), Dated(new)
    PROVE  LET merged == Merge(old, new, "first", tie)
           IN  /\ Dated(merged) /\ Extends(merged, old)
               /\ DOMAIN new \subseteq DOMAIN merged
<1> DEFINE merged == Merge(old, new, "first", tie)
<1>1. DOMAIN merged = DOMAIN old \cup DOMAIN new
  BY DEF Merge
<1>2. \A k \in DOMAIN merged :
         /\ k \notin DOMAIN old => merged[k] = new[k]
         /\ k \notin DOMAIN new => merged[k] = old[k]
         /\ merged[k] = new[k] \/ merged[k] = old[k]
  BY DEF Merge
<1>3. ASSUME NEW k \in DOMAIN old \cap DOMAIN new
      PROVE  /\ new[k].at < old[k].at => merged[k] = new[k]
             /\ ~(new[k].at < old[k].at) /\ new[k].at > old[k].at => merged[k] = old[k]
  BY DEF Merge, Dated
<1> HIDE DEF merged
<1>4. Dated(merged)
  BY <1>1, <1>2 DEF Dated
<1>5. ASSUME NEW k \in DOMAIN old PROVE merged[k].at <= old[k].at
  <2>1. CASE k \notin DOMAIN new
    BY <1>1, <1>2, <2>1 DEF Dated
  <2>2. CASE k \in DOMAIN new
    <3>1. new[k].at \in Nat /\ old[k].at \in Nat
      BY <2>2 DEF Dated
    <3>2. merged[k] = new[k] \/ merged[k] = old[k]
      BY <1>1, <1>2
    <3>3. ~(new[k].at < old[k].at) /\ new[k].at > old[k].at => merged[k] = old[k]
      BY <1>3, <2>2
    <3> QED BY <3>1, <3>2, <3>3
  <2> QED BY <2>1, <2>2
<1>6. Extends(merged, old) /\ DOMAIN new \subseteq DOMAIN merged
  BY <1>1, <1>5 DEF Extends
<1> QED BY <1>4, <1>6 DEF merged

LEMMA MergeKeeps ==
    ASSUME IngestionTypes, Alone, NEW p \in Writers, NEW tie,
           MergePrices(p, tie) \/ MergeCalendar(p, tie) \/ MergeInstruments(p, tie)
    PROVE  IngestionTypes' /\ Alone'
<1>1. PICK run : run = ingestors[p]
  OBVIOUS
<1>2. /\ run.pc \in {"obtain", "calendar", "instruments"}
      /\ run.pc = "obtain" => HasAll(p)
  BY <1>1 DEF MergePrices, MergeCalendar, MergeInstruments, HasAll
<1>3. Ingesting(p) /\ RunTyped(run) /\ RunSound(p, run) /\ run.next = 1
      /\ run.job \in JobNamesOf
  BY <1>1, <1>2 DEF Ingesting, IngestionTypes, Alone, RunTyped
<1>4. DOMAIN run.got = AllKeys(run.job)
  <2>1. CASE run.pc = "obtain"
    <3>1. ~(Cardinality(DOMAIN run.got) < Len(RequestsOf(run.job)))
      BY <1>1, <1>2, <2>1 DEF HasAll, HasRequest
    <3>2. PICK k \in 0..Len(RequestsOf(run.job)) :
             DOMAIN run.got = FirstKeys(run.job, k) /\ Cardinality(DOMAIN run.got) = k
      BY <1>3 DEF RunSound, HasAnswers
    <3>3. k = Len(RequestsOf(run.job))
      BY <1>3, <3>1, <3>2, RequestFacts
    <3> QED BY <3>2, <3>3 DEF AllKeys
  <2>2. CASE run.pc # "obtain"
    BY <1>2, <1>3, <2>2 DEF RunSound, HasAnswers
  <2> QED BY <2>1, <2>2
<1>5. UNCHANGED <<temps, parquets, current, fetched, raw, jobs, ended, overlapped>>
  BY DEF MergePrices, MergeCalendar, MergeInstruments, MergeDataset, datasetVars
<1>6. PICK n : /\ Set(p, n) /\ DOMAIN n = RunFields
               /\ n.pc \in {"calendar", "instruments", "stage"}
               /\ n.job = run.job /\ n.got = run.got /\ n.completed = run.completed
               /\ n.next = run.next
               /\ \/ /\ run.pc = "obtain"
                     /\ n.prices = Merge(Latest("prices"), IncomingPrices(run), "first", tie)
                  \/ run.pc # "obtain" /\ n.prices = run.prices
  <2>1. CASE MergePrices(p, tie)
    <3> DEFINE frame == Merge(Latest("prices"), IncomingPrices(run), "first", tie)
               n == [run EXCEPT !.pc = "calendar", !["prices"] = frame]
    <3>1. run.pc = "obtain" /\ Set(p, n)
      BY <1>1, <2>1 DEF MergePrices, MergeDataset, HasAll
    <3>2. /\ DOMAIN n = RunFields /\ n.pc = "calendar" /\ n.prices = frame
          /\ n.job = run.job /\ n.got = run.got /\ n.completed = run.completed
          /\ n.next = run.next
      BY <1>3 DEF RunTyped, RunFields
    <3> QED BY <3>1, <3>2
  <2>2. CASE MergeCalendar(p, tie)
    <3> DEFINE frame == Merge(Latest("calendar"), IncomingCalendar(run), "first", tie)
               n == [run EXCEPT !.pc = "instruments", !["calendar"] = frame]
    <3>1. run.pc = "calendar" /\ Set(p, n)
      BY <1>1, <2>2 DEF MergeCalendar, MergeDataset
    <3>2. /\ DOMAIN n = RunFields /\ n.pc = "instruments" /\ n.prices = run.prices
          /\ n.job = run.job /\ n.got = run.got /\ n.completed = run.completed
          /\ n.next = run.next
      BY <1>3 DEF RunTyped, RunFields
    <3> QED BY <3>1, <3>2
  <2>3. CASE MergeInstruments(p, tie)
    <3> DEFINE frame == Merge(Latest("instruments"), IncomingInstruments(run, run.prices),
                              "last", tie)
               n == [run EXCEPT !.pc = "stage", !["instruments"] = frame]
    <3>1. run.pc = "instruments" /\ Set(p, n)
      BY <1>1, <2>3 DEF MergeInstruments, MergeDataset
    <3>2. /\ DOMAIN n = RunFields /\ n.pc = "stage" /\ n.prices = run.prices
          /\ n.job = run.job /\ n.got = run.got /\ n.completed = run.completed
          /\ n.next = run.next
      BY <1>3 DEF RunTyped, RunFields
    <3> QED BY <3>1, <3>2
  <2> QED BY <2>1, <2>2, <2>3
<1>7. /\ DOMAIN ingestors' = Writers /\ ingestors'[p] = n
      /\ \A q \in Writers : q # p => ingestors'[q] = ingestors[q] /\ ~Ingesting(q)'
      /\ \A q \in Writers : Ingesting(q)' => q = p
      /\ OneRun'
  BY <1>3, <1>6, OnlyThisRun DEF Alone
<1>8. IngestionTypes'
  <2>1. RunTyped(n)
    BY <1>3, <1>6 DEF RunTyped, PublishingPlaces
  <2> QED BY <1>5, <1>7, <2>1 DEF IngestionTypes
<1>9. HasAnswers(n)
  BY <1>3, <1>4, <1>6 DEF RunSound, HasAnswers
<1>10. InCheckpoint(n) /\ HoldsFile(p, n)
  <2>1. run.pc # "save" /\ n.pc # "save"
    BY <1>2, <1>6
  <2> QED BY <1>3, <1>6, <2>1 DEF RunSound, InCheckpoint, HoldsFile
<1>11. IncomingPrices(n) = IncomingPrices(run)
  BY <1>6 DEF IncomingPrices, Got
<1>12. Dated(IncomingPrices(run))
  <2> SUFFICES ASSUME NEW s \in SymbolsOf(run.job) PROVE Got(run, s).at \in Nat
    BY DEF IncomingPrices, Dated
  <2>1. KeyOf(run.job, s) \in DOMAIN run.got
    BY <1>3, <1>4, RequestFacts
  <2> QED BY <1>3, <2>1 DEF Got, RunSound, HasAnswers
<1>13. Merged(n)
  <2>1. /\ Dated(n.prices) /\ DOMAIN IncomingPrices(run) \subseteq DOMAIN n.prices
        /\ Extends(n.prices, Latest("prices"))
    <3>1. CASE run.pc = "obtain"
      <4>1. Dated(Latest("prices"))
        BY DEF Alone, PricesSound
      <4>2. n.prices = Merge(Latest("prices"), IncomingPrices(run), "first", tie)
        BY <1>6, <3>1
      <4> QED BY <1>12, <4>1, <4>2, FirstIsKept
    <3>2. CASE run.pc # "obtain"
      BY <1>2, <1>3, <1>6, <3>2 DEF RunSound, Merged
    <3> QED BY <3>1, <3>2
  <2>2. n.next = 1 /\ 2..(n.next - 1) = {}
    BY <1>3, <1>6
  <2> QED BY <1>11, <2>1, <2>2 DEF Merged
<1>14. HasAnswers(n)' /\ InCheckpoint(n)' /\ Merged(n)' /\ HoldsFile(p, n)'
  BY <1>5, <1>9, <1>10, <1>13, PartsStay
<1>15. JobsSound' /\ PricesSound' /\ FilesSound'
  BY <1>5, PartsStay DEF Alone
<1>16. UniverseOwed'
  <2>1. Consistent' = Consistent /\ (\A i : Open(i)' = Open(i))
        /\ HasCurrent("universe")' = HasCurrent("universe")
    BY <1>5 DEF Consistent, FrameOf, Open, HasCurrent
  <2>2. \A q \in Writers : Ingesting(q) => ingestors[q].next \notin 3..5
    BY <1>1, <1>3 DEF Alone, OneRun
  <2> QED BY <1>5, <2>1, <2>2 DEF Alone, UniverseOwed
<1> QED BY <1>7, <1>8, <1>14, <1>15, <1>16, StillAlone

-----------------------------------------------------------------------------
(* The pointers. *)
LEMMA SwitchFacts ==
    ASSUME IngestionTypes, Alone, NEW p \in Writers, NEW run, run = ingestors[p], Switch(p)
    PROVE  /\ Ingesting(p) /\ RunTyped(run) /\ RunSound(p, run)
           /\ run.pc = "switch" /\ run.next \in 1..6 /\ run.job \in JobNamesOf
           /\ current' = Put(current, Publications[run.next], Staged(run))
           /\ UNCHANGED <<temps, parquets, fetched, raw, jobs, ended, overlapped>>
           /\ Staged(run)[3] = DataOf(Publications[run.next], run)
           /\ Set(p, [run EXCEPT !.next = run.next + 1,
                                 !.pc = IF run.next = 1 THEN "judge"
                                        ELSE IF run.next = 6 THEN "complete" ELSE "stage"])
<1>1. run.pc = "switch"
  BY DEF Switch
<1>2. Ingesting(p) /\ RunTyped(run) /\ RunSound(p, run)
  BY <1>1 DEF Ingesting, IngestionTypes, Alone
<1>3. run.next \in 1..6 /\ run.job \in JobNamesOf
  BY <1>1, <1>2 DEF RunTyped, PublishingPlaces
<1>4. /\ current' = Put(current, Publications[run.next], Staged(run))
      /\ UNCHANGED <<temps, parquets, fetched, raw, jobs, ended, overlapped>>
  BY DEF Switch, SwitchCurrent, Publication, Outside
<1>5. Staged(run)[3] = DataOf(Publications[run.next], run)
  BY DEF Staged, Publication, DatasetVersion
<1>6. Len(Publications) = 6
  BY DEF Publications
<1>7. Set(p, [run EXCEPT !.next = run.next + 1,
                         !.pc = IF run.next = 1 THEN "judge"
                                ELSE IF run.next = 6 THEN "complete" ELSE "stage"])
  BY <1>6 DEF Switch
<1> QED BY <1>1, <1>2, <1>3, <1>4, <1>5, <1>7

(* What the switch makes of the pointers, dataset by dataset. *)
LEMMA SwitchedFrames ==
    ASSUME IngestionTypes, Alone, NEW p \in Writers, NEW run, run = ingestors[p], Switch(p)
    PROVE  /\ \A d : d # Publications[run.next] =>
                HasCurrent(d)' = HasCurrent(d)
                  /\ (HasCurrent(d) => FrameOf(d)' = FrameOf(d))
                  /\ Latest(d)' = Latest(d)
           /\ HasCurrent(Publications[run.next])'
           /\ FrameOf(Publications[run.next])' = DataOf(Publications[run.next], run)
           /\ Latest(Publications[run.next])' = DataOf(Publications[run.next], run)
<1>1. PICK d0 : d0 = Publications[run.next]
  OBVIOUS
<1>2. current' = Put(current, d0, Staged(run)) /\ Staged(run)[3] = DataOf(d0, run)
  BY <1>1, SwitchFacts
<1>3. /\ DOMAIN current' = DOMAIN current \cup {d0}
      /\ current'[d0] = Staged(run)
      /\ \A d \in DOMAIN current : d # d0 => current'[d] = current[d]
  BY <1>2 DEF Put
<1>4. \A d : d # d0 =>
         HasCurrent(d)' = HasCurrent(d)
           /\ (HasCurrent(d) => FrameOf(d)' = FrameOf(d))
           /\ Latest(d)' = Latest(d)
  BY <1>3 DEF HasCurrent, FrameOf, Latest
<1>5. /\ HasCurrent(d0)' /\ FrameOf(d0)' = DataOf(d0, run)
      /\ Latest(d0)' = DataOf(d0, run)
  BY <1>2, <1>3 DEF HasCurrent, FrameOf, Latest
<1> QED BY <1>1, <1>4, <1>5

LEMMA SwitchKeeps ==
    ASSUME IngestionTypes, Alone, NEW p \in Writers, Switch(p)
    PROVE  IngestionTypes' /\ Alone'
<1>1. PICK run : run = ingestors[p]
  OBVIOUS
<1>2. PICK d0 : d0 = Publications[run.next]
  OBVIOUS
<1>3. PICK n : n = [run EXCEPT !.next = run.next + 1,
                               !.pc = IF run.next = 1 THEN "judge"
                                      ELSE IF run.next = 6 THEN "complete" ELSE "stage"]
  OBVIOUS
<1>4. /\ Ingesting(p) /\ RunTyped(run) /\ RunSound(p, run)
      /\ run.pc = "switch" /\ run.next \in 1..6 /\ run.job \in JobNamesOf
      /\ current' = Put(current, d0, Staged(run))
      /\ UNCHANGED <<temps, parquets, fetched, raw, jobs, ended, overlapped>>
      /\ Set(p, n)
  BY <1>1, <1>2, <1>3, SwitchFacts
<1>5. /\ \A d : d # d0 =>
           HasCurrent(d)' = HasCurrent(d)
             /\ (HasCurrent(d) => FrameOf(d)' = FrameOf(d))
             /\ Latest(d)' = Latest(d)
      /\ HasCurrent(d0)'
      /\ FrameOf(d0)' = DataOf(d0, run) /\ Latest(d0)' = DataOf(d0, run)
  BY <1>1, <1>2, SwitchedFrames
<1>6. /\ DOMAIN ingestors' = Writers /\ ingestors'[p] = n
      /\ \A q \in Writers : q # p => ingestors'[q] = ingestors[q] /\ ~Ingesting(q)'
      /\ \A q \in Writers : Ingesting(q)' => q = p
      /\ OneRun'
  BY <1>4, OnlyThisRun DEF Alone
<1>7. /\ DOMAIN n = RunFields /\ n.next = run.next + 1
      /\ n.pc = IF run.next = 1 THEN "judge"
                ELSE IF run.next = 6 THEN "complete" ELSE "stage"
      /\ n.job = run.job /\ n.completed = run.completed /\ n.got = run.got
      /\ n.prices = run.prices /\ n.calendar = run.calendar
      /\ n.instruments = run.instruments
  BY <1>3, <1>4 DEF RunTyped, RunFields
<1>8. n.pc \in {"judge", "complete", "stage"}
  BY <1>7
<1>9. IngestionTypes'
  <2>1. RunTyped(n)
    BY <1>4, <1>7 DEF RunTyped, PublishingPlaces
  <2> QED BY <1>4, <1>6, <2>1 DEF IngestionTypes
<1>10. /\ \A k \in 1..6 : k # run.next => Publications[k] # d0
       /\ \A k \in 1..6 : Publications[k] = "prices" => k = 2
       /\ Publications[2] = "prices" /\ Publications[3] = "instruments"
       /\ Publications[4] = "calendar" /\ Publications[5] = "universe"
  <2>1. /\ Publications[1] = "quality" /\ Publications[2] = "prices"
        /\ Publications[3] = "instruments" /\ Publications[4] = "calendar"
        /\ Publications[5] = "universe" /\ Publications[6] = "universe_metadata"
    BY DEF Publications
  <2> QED BY <1>2, <1>4, <2>1
<1>11. /\ DataOf("prices", run) = run.prices
       /\ DataOf("instruments", run) = run.instruments
       /\ DataOf("calendar", run) = run.calendar
       /\ DataOf("universe", run) =
            <<Values(run.instruments), Values(run.prices), DOMAIN run.calendar>>
  BY Zenon DEF DataOf
<1>12. /\ Dated(run.prices) /\ DOMAIN IncomingPrices(run) \subseteq DOMAIN run.prices
       /\ run.next <= 2 => Extends(run.prices, Latest("prices"))
       /\ \A k \in 2..(run.next - 1) :
            /\ HasCurrent(Publications[k])
            /\ FrameOf(Publications[k]) = DataOf(Publications[k], run)
  BY <1>4 DEF RunSound, Merged
<1>13. HasAnswers(n)' /\ InCheckpoint(n)'
  <2>1. HasAnswers(n) /\ InCheckpoint(n)
    BY <1>4, <1>7, <1>8 DEF RunSound, HasAnswers, InCheckpoint
  <2> QED BY <1>4, <2>1, PartsStay
<1>14. \A k \in 2..run.next :
          /\ HasCurrent(Publications[k])'
          /\ FrameOf(Publications[k])' = DataOf(Publications[k], run)
  <2> SUFFICES ASSUME NEW k \in 2..run.next
               PROVE  /\ HasCurrent(Publications[k])'
                      /\ FrameOf(Publications[k])' = DataOf(Publications[k], run)
    OBVIOUS
  <2>1. CASE k = run.next
    BY <1>2, <1>5, <2>1
  <2>2. CASE k # run.next
    <3>1. k \in 2..(run.next - 1) /\ k \in 1..6
      BY <1>4, <2>2
    <3>2. PICK d : d = Publications[k]
      OBVIOUS
    <3>3. HasCurrent(d) /\ FrameOf(d) = DataOf(d, run) /\ d # d0
      BY <1>10, <1>12, <2>2, <3>1, <3>2
    <3> QED BY <1>5, <3>2, <3>3
  <2> QED BY <2>1, <2>2
<1>15. Merged(n)'
  <2>1. \A d : DataOf(d, n) = DataOf(d, run)
    BY <1>7, DataStays
  <2>2. IncomingPrices(n) = IncomingPrices(run)
    BY <1>7 DEF IncomingPrices, Got
  <2>3. n.next <= 2 => Extends(n.prices, Latest("prices"))'
    <3>1. CASE run.next = 1
      <4>1. "prices" # d0
        BY <1>10, <3>1
      <4>2. Latest("prices")' = Latest("prices")
        BY <1>5, <4>1
      <4> QED BY <1>7, <1>12, <3>1, <4>2 DEF Extends
    <3>2. CASE run.next # 1
      BY <1>4, <1>7, <3>2
    <3> QED BY <3>1, <3>2
  <2>4. 2..(n.next - 1) = 2..run.next
    BY <1>4, <1>7
  <2>5. Dated(n.prices)' /\ (DOMAIN IncomingPrices(n) \subseteq DOMAIN n.prices)'
    BY <1>7, <1>12, <2>2 DEF Dated
  <2> QED BY <1>14, <2>1, <2>3, <2>4, <2>5 DEF Merged
<1>16. HoldsFile(p, n)'
  BY <1>8 DEF HoldsFile
<1>17. JobsSound'
  BY <1>4, PartsStay DEF Alone
<1>18. FilesSound'
  <2>1. Staged(run) \in DOMAIN parquets
    BY <1>4 DEF RunSound, HoldsFile
  <2>2. /\ DOMAIN current' = DOMAIN current \cup {d0}
        /\ \A d \in DOMAIN current' :
             current'[d] = IF d = d0 THEN Staged(run) ELSE current[d]
    BY <1>4 DEF Put
  <2> QED BY <1>4, <2>1, <2>2 DEF Alone, FilesSound
<1>19. PricesSound'
  <2>1. \A j : Asked(j)' = Asked(j)
    BY <1>4 DEF Asked
  <2>2. \A d : HasCurrent(d) => HasCurrent(d)'
    BY <1>5
  <2>3. Dated(Latest("prices"))'
    <3>1. CASE d0 = "prices"
      BY <1>5, <1>11, <1>12, <3>1 DEF Dated
    <3>2. CASE d0 # "prices"
      BY <1>5, <3>2 DEF Dated, Alone, PricesSound
    <3> QED BY <3>1, <3>2
  <2>4. HasCurrent("prices") => DOMAIN FrameOf("prices") \subseteq DOMAIN FrameOf("prices")'
    <3>1. CASE d0 = "prices"
      <4>1. run.next = 2
        BY <1>2, <1>4, <1>10, <3>1
      <4>2. Extends(run.prices, Latest("prices")) /\ FrameOf("prices")' = run.prices
        BY <1>5, <1>11, <1>12, <3>1, <4>1
      <4>3. HasCurrent("prices") => Latest("prices") = FrameOf("prices")
        BY DEF Latest, FrameOf
      <4> QED BY <4>2, <4>3 DEF Extends
    <3>2. CASE d0 # "prices"
      BY <1>5, <3>2
    <3> QED BY <3>1, <3>2
  <2>5. HasCurrent("universe")' =>
          HasCurrent("prices")' /\ HasCurrent("instruments")' /\ HasCurrent("calendar")'
    <3>1. CASE d0 = "universe"
      <4>1. run.next = 5
        BY <1>2, <1>4, <1>10, <3>1
      <4> QED BY <1>10, <1>14, <4>1
    <3>2. CASE d0 # "universe"
      BY <1>5, <2>2, <3>2 DEF Alone, PricesSound
    <3> QED BY <3>1, <3>2
  <2> QED BY <1>4, <2>1, <2>2, <2>3, <2>4, <2>5 DEF Alone, PricesSound
<1>20. UniverseOwed'
  <2>1. CASE run.next \in 2..4
    <3>1. Ingesting(p)' /\ ingestors'[p].next \in 3..5
      BY <1>6, <1>7, <1>8, <2>1 DEF Ingesting
    <3> QED BY <3>1 DEF UniverseOwed
  <2>2. CASE run.next = 5
    <3>1. /\ FrameOf("universe")' = DataOf("universe", run)
          /\ FrameOf("instruments")' = DataOf("instruments", run)
          /\ FrameOf("prices")' = DataOf("prices", run)
          /\ FrameOf("calendar")' = DataOf("calendar", run)
      BY <1>10, <1>14, <2>2
    <3>2. Consistent'
      BY <1>11, <3>1 DEF Consistent
    <3> QED BY <3>2 DEF UniverseOwed
  <2>3. CASE run.next \in {1, 6}
    <3>1. d0 \notin {"prices", "instruments", "calendar", "universe"}
      BY <1>4, <1>10, <2>3
    <3>2. \A d \in {"prices", "instruments", "calendar", "universe"} :
             HasCurrent(d)' = HasCurrent(d) /\ (HasCurrent(d) => FrameOf(d)' = FrameOf(d))
      BY <1>5, <3>1
    <3>3. HasCurrent("universe") /\ Consistent => Consistent'
      BY <3>2 DEF Alone, PricesSound, Consistent
    <3>4. \A q \in Writers : Ingesting(q) => ingestors[q].next \notin 3..5
      BY <1>1, <1>4, <2>3 DEF Alone, OneRun
    <3>5. \A j : Open(j)' = Open(j)
      BY <1>4 DEF Open
    <3> QED BY <1>4, <3>2, <3>3, <3>4, <3>5 DEF Alone, UniverseOwed
  <2> QED BY <1>4, <2>1, <2>2, <2>3
<1> QED BY <1>6, <1>9, <1>13, <1>15, <1>16, <1>17, <1>18, <1>19, <1>20, StillAlone

(* The prices that are switched to hold all that were there. *)
LEMMA SwitchExtends ==
    ASSUME IngestionTypes, Alone, NEW p \in Writers, Switch(p), HasCurrent("prices")
    PROVE  Extends(FrameOf("prices"), FrameOf("prices"))
             /\ Extends(FrameOf("prices")', FrameOf("prices"))
<1>1. PICK run : run = ingestors[p]
  OBVIOUS
<1>2. /\ RunSound(p, run) /\ run.pc = "switch" /\ run.next \in 1..6
  BY <1>1, SwitchFacts
<1>3. Latest("prices") = FrameOf("prices") /\ Dated(FrameOf("prices"))
  BY DEF Latest, FrameOf, Alone, PricesSound
<1>4. Extends(FrameOf("prices"), FrameOf("prices"))
  BY <1>3 DEF Extends, Dated
<1>5. CASE Publications[run.next] = "prices"
  <2>1. run.next = 2
    BY <1>2, <1>5 DEF Publications
  <2>2. Extends(run.prices, FrameOf("prices"))
    BY <1>2, <1>3, <2>1 DEF RunSound, Merged
  <2>3. FrameOf("prices")' = DataOf("prices", run)
    BY <1>1, <1>5, SwitchedFrames
  <2>4. DataOf("prices", run) = run.prices
    BY Zenon DEF DataOf
  <2> QED BY <1>4, <2>2, <2>3, <2>4
<1>6. CASE Publications[run.next] # "prices"
  <2>1. FrameOf("prices")' = FrameOf("prices")
    BY <1>1, <1>6, SwitchedFrames
  <2> QED BY <1>4, <2>1
<1> QED BY <1>5, <1>6

-----------------------------------------------------------------------------
LEMMA IngestionStart == IngestionInit => IngestionTypes /\ Alone
<1> SUFFICES ASSUME IngestionInit PROVE IngestionTypes /\ Alone
  OBVIOUS
<1>1. /\ temps = <<>> /\ parquets = <<>> /\ current = <<>> /\ fetched = 0 /\ raw = <<>>
      /\ jobs = [j \in JobNamesOf |-> [completed |-> <<>>, status |-> "open"]]
      /\ ingestors = [p \in Writers |-> NoIngestion]
      /\ ended = [begun |-> 0, killed |-> 0, repeated |-> FALSE]
  BY DEF IngestionInit, DatasetInit
<1>2. RunTyped(NoIngestion) /\ NoIngestion.pc = "idle"
  BY DEF RunTyped, NoIngestion, RunFields, PublishingPlaces
<1>3. IngestionTypes
  BY <1>1, <1>2 DEF IngestionTypes
<1>4. \A p \in Writers : ~Ingesting(p)
  BY <1>1, <1>2 DEF Ingesting
<1>5. DOMAIN temps = {} /\ DOMAIN parquets = {} /\ DOMAIN current = {} /\ DOMAIN raw = {}
      /\ \A j \in JobNamesOf : DOMAIN jobs[j].completed = {} /\ jobs[j].status = "open"
  BY <1>1
<1>6. JobsSound /\ FilesSound
  BY <1>5 DEF JobsSound, FilesSound, InRaw
<1>7. PricesSound
  <2>1. DOMAIN Latest("prices") = {}
    BY <1>5 DEF Latest, HasCurrent
  <2> QED BY <1>5, <2>1 DEF PricesSound, Dated, HasCurrent
<1> QED BY <1>3, <1>4, <1>5, <1>6, <1>7 DEF Alone, OneRun, UniverseOwed, HasCurrent

LEMMA IngestionStep ==
    ASSUME overlapped \/ (IngestionTypes /\ Alone), IngestionNext, ~overlapped'
    PROVE  IngestionTypes' /\ Alone'
<1>1. PICK p \in Writers :
         \/ \E j \in JobNamesOf : BeginIngestion(p, j)
         \/ ObtainSaved(p) \/ SaveObtained(p)
         \/ \E answer : HasRequest(p) /\ Fetch(p, answer)
         \/ \E tie : MergePrices(p, tie) \/ MergeCalendar(p, tie) \/ MergeInstruments(p, tie)
         \/ MergeRaises(p) \/ StoreRaises(p)
         \/ StageExisting(p) \/ StageMissing(p) \/ OpenParquet(p) \/ WriteParquet(p)
         \/ RenameParquet(p) \/ LockAndVerify(p) \/ Switch(p)
         \/ Judge(p) \/ CompleteJob(p) \/ Killed(p)
  BY DEF IngestionNext
<1>2. IngestionTypes /\ Alone
  <2>1. overlapped => overlapped'
    BY <1>1 DEF BeginIngestion, ObtainSaved, SaveObtained, Fetch, MergePrices, MergeCalendar,
      MergeInstruments, MergeDataset, MergeRaises, StoreRaises, StageExisting, StageMissing,
      OpenParquet, WriteParquet, RenameParquet, LockAndVerify, Switch, Judge, CompleteJob,
      Killed, Outside
  <2> QED BY <2>1
<1> QED BY <1>1, <1>2, BeginKeeps, ObtainKeeps, SaveKeeps, FetchKeeps, MergeKeeps, RaisesKeeps,
      StageKeeps, OpenKeeps, WriteKeeps, RenameKeeps, LockKeeps, SwitchKeeps, JudgeKeeps,
      CompleteKeeps, KilledKeeps

(* While no two runs have been alive at once, the datasets are whole, they hold what the
   complete jobs asked for, and what is not consistent is owed: IngestionService.run over
   storage/local.py, for any jobs, answers, deaths and number of processes. *)
THEOREM IngestionInvariance == IngestionSpec => [](overlapped \/ (IngestionTypes /\ Alone))
<1> DEFINE I == overlapped \/ (IngestionTypes /\ Alone)
<1>1. IngestionInit => I
  BY IngestionStart
<1>2. I /\ [IngestionNext]_ingestionVars => I'
  <2> SUFFICES ASSUME I, [IngestionNext]_ingestionVars, ~overlapped'
               PROVE  IngestionTypes' /\ Alone'
    OBVIOUS
  <2>1. CASE IngestionNext
    BY <2>1, IngestionStep
  <2>2. CASE UNCHANGED ingestionVars
    <3>1. UNCHANGED <<temps, parquets, current, fetched, raw, jobs, ingestors, ended, overlapped>>
      BY <2>2 DEF ingestionVars
    <3>2. IngestionTypes /\ Alone
      BY <3>1
    <3>3. IngestionTypes'
      BY <3>1, <3>2 DEF IngestionTypes
    <3>4. JobsSound' /\ PricesSound' /\ FilesSound'
      BY <3>1, <3>2, PartsStay DEF Alone
    <3>5. OneRun'
      BY <3>1, <3>2 DEF Alone, OneRun, Ingesting
    <3>6. UniverseOwed'
      BY <3>1, <3>2 DEF Alone, UniverseOwed, HasCurrent, Consistent, FrameOf, Open, Ingesting
    <3>7. ASSUME NEW q \in Writers, Ingesting(q)' PROVE RunSound(q, ingestors[q])'
      <4>1. PICK run : run = ingestors[q]
        OBVIOUS
      <4>2. RunSound(q, run) /\ ingestors'[q] = run
        BY <3>1, <3>2, <3>7, <4>1 DEF Alone, Ingesting
      <4>3. RunSound(q, run)'
        BY <3>1, <4>2, PartsStay DEF RunSound
      <4> QED BY <4>2, <4>3
    <3> QED BY <3>3, <3>4, <3>5, <3>6, <3>7 DEF Alone
  <2> QED BY <2>1, <2>2
<1> QED BY <1>1, <1>2, PTL DEF IngestionSpec

(* Runs that do not overlap never leave a pointer to a file that its readers refuse,
   wherever they are killed: promote_dataset of storage/local.py. *)
THEOREM ReadableTheorem == IngestionSpec => [](~overlapped => CurrentIsReadable)
<1>1. overlapped \/ (IngestionTypes /\ Alone) => (~overlapped => CurrentIsReadable)
  BY DEF Alone, FilesSound, CurrentIsReadable, CurrentReadable, HasCurrent, Readable
<1> QED BY <1>1, IngestionInvariance, PTL

(* What a job downloaded is published once it is complete, and once no job is open the
   universe is the one of the current datasets. *)
THEOREM PublishedTheorem == IngestionSpec => []PublishedWhenComplete
<1>1. overlapped \/ (IngestionTypes /\ Alone) => PublishedWhenComplete
  <2> SUFFICES ASSUME ~overlapped, IngestionTypes, Alone
               PROVE  /\ \A j \in JobNamesOf : jobs[j].status = "complete" =>
                            HasCurrent("prices")
                              /\ Asked(j) \subseteq DOMAIN FrameOf("prices")
                      /\ NothingUnfinished /\ ~ended.repeated /\ HasCurrent("universe") =>
                            Consistent
    BY DEF PublishedWhenComplete, Consistent
  <2>1. \A j \in JobNamesOf : jobs[j].status = "complete" =>
           HasCurrent("prices") /\ Asked(j) \subseteq DOMAIN FrameOf("prices")
    BY DEF Alone, PricesSound
  <2>2. ASSUME NothingUnfinished, ~ended.repeated, HasCurrent("universe") PROVE Consistent
    <3>1. \A p \in Writers : ~Ingesting(p)
      BY <2>2 DEF NothingUnfinished
    <3>2. \A j \in JobNamesOf : ~Open(j)
      BY <2>2 DEF NothingUnfinished, Open
    <3> QED BY <2>2, <3>1, <3>2 DEF Alone, UniverseOwed
  <2> QED BY <2>1, <2>2
<1> QED BY <1>1, IngestionInvariance, PTL

(* No step of runs that do not overlap loses a price or replaces it by one that was
   ingested later: _merge of data/ingestion.py. *)
THEOREM FirstObservationTheorem == IngestionSpec => FirstObservationStays
<1>1. /\ overlapped \/ (IngestionTypes /\ Alone)
      /\ (overlapped \/ (IngestionTypes /\ Alone))'
      /\ [IngestionNext]_ingestionVars
      => [~overlapped' /\ HasCurrent("prices") =>
            LET now == current'["prices"][3]
            IN \A k \in DOMAIN FrameOf("prices") :
                 k \in DOMAIN now /\ now[k].at <= FrameOf("prices")[k].at]_ingestionVars
  <2> SUFFICES ASSUME overlapped \/ (IngestionTypes /\ Alone), IngestionNext,
                      ~overlapped', HasCurrent("prices")
               PROVE  Extends(FrameOf("prices")', FrameOf("prices"))
    BY DEF Extends, FrameOf
  <2>1. IngestionTypes /\ Alone
    <3> SUFFICES ASSUME overlapped PROVE overlapped'
      OBVIOUS
    <3>1. PICK p \in Writers :
            \/ \E j \in JobNamesOf : BeginIngestion(p, j)
            \/ ObtainSaved(p) \/ SaveObtained(p)
            \/ \E answer \in UNION {Answers[r] : r \in DOMAIN Answers} : Fetch(p, answer)
            \/ \E tie \in {"old", "new"} :
                  MergePrices(p, tie) \/ MergeCalendar(p, tie) \/ MergeInstruments(p, tie)
            \/ MergeRaises(p) \/ StoreRaises(p)
            \/ StageExisting(p) \/ StageMissing(p) \/ OpenParquet(p) \/ WriteParquet(p)
            \/ RenameParquet(p) \/ LockAndVerify(p) \/ Switch(p)
            \/ Judge(p) \/ CompleteJob(p) \/ Killed(p)
      BY DEF IngestionNext
    <3>2. CASE \/ \E j \in JobNamesOf : BeginIngestion(p, j)
               \/ ObtainSaved(p) \/ SaveObtained(p)
               \/ \E answer \in UNION {Answers[r] : r \in DOMAIN Answers} : Fetch(p, answer)
      BY <3>2 DEF BeginIngestion, ObtainSaved, SaveObtained, Fetch, Outside
    <3>3. CASE \E tie \in {"old", "new"} :
                 MergePrices(p, tie) \/ MergeCalendar(p, tie) \/ MergeInstruments(p, tie)
      BY <3>3 DEF MergePrices, MergeCalendar, MergeInstruments, MergeDataset, Outside
    <3>4. CASE \/ MergeRaises(p) \/ StoreRaises(p) \/ Judge(p) \/ CompleteJob(p) \/ Killed(p)
               \/ Switch(p)
      BY <3>4 DEF MergeRaises, StoreRaises, Judge, CompleteJob, Killed, Switch, Outside
    <3>5. CASE \/ StageExisting(p) \/ StageMissing(p) \/ OpenParquet(p) \/ WriteParquet(p)
               \/ RenameParquet(p) \/ LockAndVerify(p)
      BY <3>5 DEF StageExisting, StageMissing, OpenParquet, WriteParquet, RenameParquet,
        LockAndVerify, Outside
    <3> QED BY <3>1, <3>2, <3>3, <3>4, <3>5
  <2>2. CASE \E p \in Writers : Switch(p)
    BY <2>1, <2>2, SwitchExtends
  <2>3. CASE ~\E p \in Writers : Switch(p)
    <3>1. current' = current
      <4>1. PICK p \in Writers :
              \/ \E j \in JobNamesOf : BeginIngestion(p, j)
              \/ ObtainSaved(p) \/ SaveObtained(p)
              \/ \E answer \in UNION {Answers[r] : r \in DOMAIN Answers} : Fetch(p, answer)
              \/ \E tie \in {"old", "new"} :
                    MergePrices(p, tie) \/ MergeCalendar(p, tie) \/ MergeInstruments(p, tie)
              \/ MergeRaises(p) \/ StoreRaises(p)
              \/ StageExisting(p) \/ StageMissing(p) \/ OpenParquet(p) \/ WriteParquet(p)
              \/ RenameParquet(p) \/ LockAndVerify(p)
              \/ Judge(p) \/ CompleteJob(p) \/ Killed(p)
        BY <2>3 DEF IngestionNext
      <4>2. CASE \/ \E j \in JobNamesOf : BeginIngestion(p, j)
                 \/ ObtainSaved(p) \/ SaveObtained(p)
                 \/ \E answer \in UNION {Answers[r] : r \in DOMAIN Answers} : Fetch(p, answer)
        BY <4>2 DEF BeginIngestion, ObtainSaved, SaveObtained, Fetch, datasetVars, Outside
      <4>3. CASE \E tie \in {"old", "new"} :
                   MergePrices(p, tie) \/ MergeCalendar(p, tie) \/ MergeInstruments(p, tie)
        BY <4>3 DEF MergePrices, MergeCalendar, MergeInstruments, MergeDataset, datasetVars,
          Outside
      <4>4. CASE MergeRaises(p) \/ StoreRaises(p) \/ Judge(p) \/ CompleteJob(p) \/ Killed(p)
        BY <4>4 DEF MergeRaises, StoreRaises, Judge, CompleteJob, Killed, EndRun, ReleaseAll,
          datasetVars, Outside
      <4>5. CASE \/ StageExisting(p) \/ StageMissing(p) \/ OpenParquet(p) \/ WriteParquet(p)
                 \/ RenameParquet(p) \/ LockAndVerify(p)
        BY <4>5 DEF StageExisting, StageMissing, OpenParquet, OpenTemporary, WriteParquet,
          FinishTemporary, RenameParquet, RenameTemporary, LockAndVerify, LockAndRegister,
          datasetVars, Outside
      <4> QED BY <4>1, <4>2, <4>3, <4>4, <4>5
    <3>2. FrameOf("prices")' = FrameOf("prices") /\ Latest("prices") = FrameOf("prices")
      BY <3>1 DEF FrameOf, Latest
    <3> QED BY <2>1, <3>2 DEF Alone, PricesSound, Dated, Extends
  <2> QED BY <2>2, <2>3
<1> QED BY <1>1, IngestionInvariance, PTL DEF IngestionSpec, FirstObservationStays

-----------------------------------------------------------------------------
(* Two writers, overlapping as they like.  Once a version has a file at its final path,
   nobody sets out to write it, so at most one of the two is still at it. *)
Storing(run, v) == run.pc \in {"open", "write", "rename"} /\ Staged(run) = v

\* What a writer at work on a version that is already there will rename over it.
WillReplace(p, run, v) ==
    Storing(run, v) /\ v \in DOMAIN temps =>
        /\ run.pc = "write" => temps[v].by = p
        /\ run.pc = "rename" => temps[v].whole

PairFiles ==
    /\ \A v \in DOMAIN temps : DOMAIN temps[v] = {"by", "whole"}
    /\ \A v \in DOMAIN parquets : DOMAIN parquets[v] = {"by", "whole"}

PairRuns ==
    /\ DOMAIN ingestors = Writers
    /\ \A p \in Writers : DOMAIN ingestors[p] = RunFields

OneAtWork ==
    \A v \in DOMAIN parquets : \A p, q \in Writers :
        Storing(ingestors[p], v) /\ Storing(ingestors[q], v) => p = q

Replacements ==
    \A v \in DOMAIN parquets : \A p \in Writers : WillReplace(p, ingestors[p], v)

PromotesReadable ==
    \A p \in Writers : ingestors[p].pc = "switch" => Readable(Staged(ingestors[p]))

PointsToReadable == \A d \in DOMAIN current : Readable(current[d])

PairInvariant ==
    PairFiles /\ PairRuns /\ OneAtWork /\ Replacements /\ PromotesReadable /\ PointsToReadable

(* The run of one writer goes on, those of the others do not. *)
LEMMA OthersStay ==
    ASSUME PairRuns, NEW p \in Writers, NEW n, Set(p, n), DOMAIN n = RunFields
    PROVE  /\ PairRuns' /\ ingestors'[p] = n
           /\ \A q \in Writers : q # p => ingestors'[q] = ingestors[q]
BY DEF PairRuns, Set

(* A run that goes on with its publication stages the same version. *)
LEMMA SameVersion ==
    ASSUME PairRuns, NEW p \in Writers, NEW pc, Goto(p, pc)
    PROVE  /\ PairRuns' /\ ingestors'[p].pc = pc
           /\ Staged(ingestors'[p]) = Staged(ingestors[p])
           /\ \A q \in Writers : q # p => ingestors'[q] = ingestors[q]
<1>1. PICK run : run = ingestors[p]
  OBVIOUS
<1>2. PICK n : n = [run EXCEPT !.pc = pc]
  OBVIOUS
<1>3. DOMAIN run = RunFields /\ Set(p, n)
  BY <1>1, <1>2 DEF PairRuns, Goto
<1>4. DOMAIN n = RunFields /\ n.pc = pc /\ Same(n, run)
  BY <1>2, <1>3 DEF RunFields, Same
<1>5. Staged(n) = Staged(run)
  BY <1>4, DataOfRun
<1> QED BY <1>1, <1>3, <1>4, <1>5, OthersStay

(* Steps that leave the files alone and end up at no work on them. *)
LEMMA PairIdles ==
    ASSUME PairInvariant, NEW p \in Writers, NEW n, Set(p, n), DOMAIN n = RunFields,
           n.pc \notin {"open", "write", "rename", "switch"},
           UNCHANGED <<temps, parquets>>,
           \A d \in DOMAIN current' : Readable(current'[d])
    PROVE  PairInvariant'
<1>1. /\ PairRuns' /\ ingestors'[p] = n
      /\ \A q \in Writers : q # p => ingestors'[q] = ingestors[q]
  BY OthersStay DEF PairInvariant
<1>2. PairFiles' /\ PointsToReadable'
  BY DEF PairInvariant, PairFiles, PointsToReadable, Readable
<1>3. OneAtWork'
  BY <1>1 DEF PairInvariant, OneAtWork, Storing
<1>4. Replacements'
  BY <1>1 DEF PairInvariant, Replacements, WillReplace, Storing
<1>5. PromotesReadable'
  BY <1>1 DEF PairInvariant, PromotesReadable, Readable
<1> QED BY <1>1, <1>2, <1>3, <1>4, <1>5 DEF PairInvariant

(* A writer that sets out to write finds no file of the version. *)
LEMMA PairStages ==
    ASSUME PairInvariant, NEW p \in Writers, StageMissing(p)
    PROVE  PairInvariant'
<1>1. /\ Goto(p, "open") /\ Staged(ingestors[p]) \notin DOMAIN parquets
      /\ UNCHANGED <<temps, parquets, current>>
  BY DEF StageMissing, datasetVars
<1>2. /\ PairRuns' /\ ingestors'[p].pc = "open"
      /\ Staged(ingestors'[p]) = Staged(ingestors[p])
      /\ \A q \in Writers : q # p => ingestors'[q] = ingestors[q]
  BY <1>1, SameVersion DEF PairInvariant
<1>3. PairFiles' /\ PointsToReadable'
  BY <1>1 DEF PairInvariant, PairFiles, PointsToReadable, Readable
<1>4. OneAtWork' /\ Replacements'
  BY <1>1, <1>2 DEF PairInvariant, OneAtWork, Replacements, WillReplace, Storing
<1>5. PromotesReadable'
  BY <1>1, <1>2 DEF PairInvariant, PromotesReadable, Readable
<1> QED BY <1>2, <1>3, <1>4, <1>5 DEF PairInvariant

(* Who opens the temporary path of a version that is there is the only one at it. *)
LEMMA PairOpens ==
    ASSUME PairInvariant, NEW p \in Writers, OpenParquet(p)
    PROVE  PairInvariant'
<1>1. PICK v : v = Staged(ingestors[p])
  OBVIOUS
<1>2. /\ ingestors[p].pc = "open" /\ Goto(p, "write") /\ UNCHANGED <<parquets, current>>
      /\ temps' = Put(temps, v, [by |-> p, whole |-> FALSE])
  BY <1>1 DEF OpenParquet, OpenTemporary
<1>3. /\ PairRuns' /\ ingestors'[p].pc = "write" /\ Staged(ingestors'[p]) = v
      /\ \A q \in Writers : q # p => ingestors'[q] = ingestors[q]
  BY <1>1, <1>2, SameVersion DEF PairInvariant
<1>4. /\ DOMAIN temps' = DOMAIN temps \cup {v}
      /\ \A w \in DOMAIN temps' :
           temps'[w] = IF w = v THEN [by |-> p, whole |-> FALSE] ELSE temps[w]
  BY <1>2 DEF Put
<1>5. PairFiles' /\ PointsToReadable'
  BY <1>2, <1>4 DEF PairInvariant, PairFiles, PointsToReadable, Readable
<1>6. OneAtWork'
  BY <1>1, <1>2, <1>3 DEF PairInvariant, OneAtWork, Storing
<1>7. Replacements'
  <2> SUFFICES ASSUME NEW w \in DOMAIN parquets, NEW q \in Writers
               PROVE  WillReplace(q, ingestors[q], w)'
    BY <1>2 DEF Replacements
  <2>1. CASE w # v
    <3>1. WillReplace(q, ingestors[q], w)
      BY DEF PairInvariant, Replacements
    <3>2. w \in DOMAIN temps' => w \in DOMAIN temps /\ temps'[w] = temps[w]
      BY <1>4, <2>1
    <3>3. CASE q = p
      BY <1>3, <2>1, <3>3 DEF WillReplace, Storing
    <3>4. CASE q # p
      BY <1>3, <3>1, <3>2, <3>4 DEF WillReplace, Storing
    <3> QED BY <3>3, <3>4
  <2>2. CASE w = v /\ q = p
    BY <1>3, <1>4, <2>2 DEF WillReplace, Storing
  <2>3. CASE w = v /\ q # p
    <3>1. ~Storing(ingestors[q], v)
      BY <1>1, <1>2, <2>3 DEF PairInvariant, OneAtWork, Storing
    <3> QED BY <1>3, <2>3, <3>1 DEF WillReplace, Storing
  <2> QED BY <2>1, <2>2, <2>3
<1>8. PromotesReadable'
  BY <1>2, <1>3 DEF PairInvariant, PromotesReadable, Readable
<1> QED BY <1>3, <1>5, <1>6, <1>7, <1>8 DEF PairInvariant

(* A file that is written to its end is whole, wherever it has been renamed to. *)
LEMMA PairWrites ==
    ASSUME PairInvariant, NEW p \in Writers, WriteParquet(p)
    PROVE  PairInvariant'
<1>1. PICK v : v = Staged(ingestors[p])
  OBVIOUS
<1>2. /\ ingestors[p].pc = "write" /\ Goto(p, "rename") /\ UNCHANGED current
      /\ temps' = Written(temps, p, v) /\ parquets' = Written(parquets, p, v)
  BY <1>1 DEF WriteParquet, FinishTemporary
<1>3. /\ PairRuns' /\ ingestors'[p].pc = "rename" /\ Staged(ingestors'[p]) = v
      /\ \A q \in Writers : q # p => ingestors'[q] = ingestors[q]
  BY <1>1, <1>2, SameVersion DEF PairInvariant
<1>4. ASSUME NEW files, \A w \in DOMAIN files : DOMAIN files[w] = {"by", "whole"}
      PROVE  LET after == Written(files, p, v)
             IN  /\ DOMAIN after = DOMAIN files
                 /\ \A w \in DOMAIN files :
                      /\ DOMAIN after[w] = {"by", "whole"}
                      /\ after[w].by = files[w].by
                      /\ files[w].whole => after[w].whole
                      /\ w # v => after[w] = files[w]
                      /\ w = v /\ files[w].by = p => after[w].whole
  BY <1>4 DEF Written
<1>5. /\ DOMAIN temps' = DOMAIN temps
      /\ \A w \in DOMAIN temps :
           /\ DOMAIN temps'[w] = {"by", "whole"} /\ temps'[w].by = temps[w].by
           /\ temps[w].whole => temps'[w].whole
           /\ w = v /\ temps[w].by = p => temps'[w].whole
  BY <1>2, <1>4 DEF PairInvariant, PairFiles
<1>6. /\ DOMAIN parquets' = DOMAIN parquets
      /\ \A w \in DOMAIN parquets :
           /\ DOMAIN parquets'[w] = {"by", "whole"}
           /\ parquets[w].whole => parquets'[w].whole
  BY <1>2, <1>4 DEF PairInvariant, PairFiles
<1>7. PairFiles' /\ PointsToReadable'
  BY <1>2, <1>5, <1>6 DEF PairInvariant, PairFiles, PointsToReadable, Readable
<1>8. OneAtWork'
  BY <1>1, <1>2, <1>3, <1>6 DEF PairInvariant, OneAtWork, Storing
<1>9. Replacements'
  <2> SUFFICES ASSUME NEW w \in DOMAIN parquets, NEW q \in Writers
               PROVE  WillReplace(q, ingestors[q], w)'
    BY <1>6 DEF Replacements
  <2>1. WillReplace(q, ingestors[q], w)
    BY DEF PairInvariant, Replacements
  <2>2. CASE q # p
    BY <1>3, <1>5, <2>1, <2>2 DEF WillReplace, Storing
  <2>3. CASE q = p
    BY <1>1, <1>2, <1>3, <1>5, <2>1, <2>3 DEF WillReplace, Storing
  <2> QED BY <2>2, <2>3
<1>10. PromotesReadable'
  BY <1>2, <1>3, <1>6 DEF PairInvariant, PromotesReadable, Readable
<1> QED BY <1>3, <1>7, <1>8, <1>9, <1>10 DEF PairInvariant

(* With two writers the one that renames leaves at most one behind. *)
TwoWriters == \A p, q, r \in Writers : p = q \/ q = r \/ p = r

LEMMA PairRenames ==
    ASSUME TwoWriters, PairInvariant, NEW p \in Writers, RenameParquet(p)
    PROVE  PairInvariant'
<1>1. PICK v : v = Staged(ingestors[p])
  OBVIOUS
<1>2. /\ ingestors[p].pc = "rename" /\ Goto(p, "promote") /\ UNCHANGED current
      /\ v \in DOMAIN temps /\ parquets' = Put(parquets, v, temps[v]) /\ temps' = Drop(temps, v)
  BY <1>1 DEF RenameParquet, RenameTemporary
<1>3. /\ PairRuns' /\ ingestors'[p].pc = "promote" /\ Staged(ingestors'[p]) = v
      /\ \A q \in Writers : q # p => ingestors'[q] = ingestors[q]
  BY <1>1, <1>2, SameVersion DEF PairInvariant
<1>4. /\ DOMAIN temps' = DOMAIN temps \ {v}
      /\ \A w \in DOMAIN temps' : temps'[w] = temps[w]
  BY <1>2 DEF Drop
<1>5. /\ DOMAIN parquets' = DOMAIN parquets \cup {v}
      /\ \A w \in DOMAIN parquets' : parquets'[w] = IF w = v THEN temps[v] ELSE parquets[w]
  BY <1>2 DEF Put
<1>6. v \in DOMAIN parquets => temps[v].whole
  BY <1>1, <1>2 DEF PairInvariant, Replacements, WillReplace, Storing
<1>7. \A w : Readable(w) => Readable(w)'
  BY <1>5, <1>6 DEF Readable
<1>8. PairFiles' /\ PointsToReadable'
  BY <1>2, <1>4, <1>5, <1>7 DEF PairInvariant, PairFiles, PointsToReadable
<1>9. OneAtWork'
  <2> SUFFICES ASSUME NEW w \in DOMAIN parquets', NEW q \in Writers, NEW r \in Writers,
                      Storing(ingestors'[q], w), Storing(ingestors'[r], w)
               PROVE  q = r
    BY DEF OneAtWork, Storing
  <2>1. q # p /\ r # p
    BY <1>3 DEF Storing
  <2>2. CASE w = v
    BY <2>1 DEF TwoWriters
  <2>3. CASE w # v
    BY <1>3, <1>5, <2>1, <2>3 DEF PairInvariant, OneAtWork
  <2> QED BY <2>2, <2>3
<1>10. Replacements'
  <2> SUFFICES ASSUME NEW w \in DOMAIN parquets', NEW q \in Writers
               PROVE  WillReplace(q, ingestors[q], w)'
    BY DEF Replacements
  <2>1. CASE w = v \/ q = p
    BY <1>3, <1>4, <2>1 DEF WillReplace, Storing
  <2>2. CASE w # v /\ q # p
    BY <1>3, <1>4, <1>5, <2>2 DEF PairInvariant, Replacements, WillReplace, Storing
  <2> QED BY <2>1, <2>2
<1>11. PromotesReadable'
  BY <1>3, <1>7 DEF PairInvariant, PromotesReadable
<1> QED BY <1>3, <1>8, <1>9, <1>10, <1>11 DEF PairInvariant

(* A candidate is read before it is promoted. *)
LEMMA PairLocks ==
    ASSUME PairInvariant, NEW p \in Writers, LockAndVerify(p)
    PROVE  PairInvariant'
<1>1. /\ Goto(p, "switch") /\ Readable(Staged(ingestors[p]))
      /\ UNCHANGED <<temps, parquets, current>>
  BY DEF LockAndVerify, LockAndRegister, Promotable
<1>2. /\ PairRuns' /\ ingestors'[p].pc = "switch"
      /\ Staged(ingestors'[p]) = Staged(ingestors[p])
      /\ \A q \in Writers : q # p => ingestors'[q] = ingestors[q]
  BY <1>1, SameVersion DEF PairInvariant
<1>3. PairFiles' /\ PointsToReadable'
  BY <1>1 DEF PairInvariant, PairFiles, PointsToReadable, Readable
<1>4. OneAtWork' /\ Replacements'
  BY <1>1, <1>2 DEF PairInvariant, OneAtWork, Replacements, WillReplace, Storing
<1>5. PromotesReadable'
  BY <1>1, <1>2 DEF PairInvariant, PromotesReadable, Readable
<1> QED BY <1>2, <1>3, <1>4, <1>5 DEF PairInvariant

(* The pointer is switched to the version that was read under the lock. *)
LEMMA PairSwitches ==
    ASSUME PairInvariant, NEW p \in Writers, Switch(p)
    PROVE  PairInvariant'
<1>1. PICK run : run = ingestors[p]
  OBVIOUS
<1>2. /\ run.pc = "switch" /\ UNCHANGED <<temps, parquets>>
      /\ current' = Put(current, Publication(run), Staged(run))
  BY <1>1 DEF Switch, SwitchCurrent
<1>3. PICK pc \in {"judge", "complete", "stage"} :
        Set(p, [run EXCEPT !.next = @ + 1, !.pc = pc])
  BY <1>1, Zenon DEF Switch
<1>4. PICK n : n = [run EXCEPT !.next = @ + 1, !.pc = pc]
  OBVIOUS
<1>5. DOMAIN n = RunFields /\ n.pc = pc
  BY <1>1, <1>4 DEF PairInvariant, PairRuns, RunFields
<1>6. Readable(Staged(run))
  BY <1>1, <1>2 DEF PairInvariant, PromotesReadable
<1>7. \A d \in DOMAIN current' : Readable(current'[d])
  BY <1>2, <1>6 DEF Put, PairInvariant, PointsToReadable
<1> QED BY <1>2, <1>3, <1>4, <1>5, <1>7, PairIdles

(* The end of a run, by an exception or a signal: its files stay as they are. *)
LEMMA PairEnds ==
    ASSUME PairInvariant, NEW p \in Writers, EndRun(p)
    PROVE  PairInvariant'
<1>1. /\ Set(p, NoIngestion) /\ UNCHANGED current
      /\ temps' = Abandoned(temps, p) /\ parquets' = Abandoned(parquets, p)
  BY DEF EndRun, ReleaseAll
<1>2. NoIngestion.pc = "idle" /\ DOMAIN NoIngestion = RunFields
  BY DEF NoIngestion, RunFields
<1>3. /\ PairRuns' /\ ingestors'[p].pc = "idle"
      /\ \A q \in Writers : q # p => ingestors'[q] = ingestors[q]
  BY <1>1, <1>2, OthersStay DEF PairInvariant
<1>4. ASSUME NEW files, \A w \in DOMAIN files : DOMAIN files[w] = {"by", "whole"}
      PROVE  LET after == Abandoned(files, p)
             IN  /\ DOMAIN after = DOMAIN files
                 /\ \A w \in DOMAIN files :
                      /\ DOMAIN after[w] = {"by", "whole"}
                      /\ after[w].whole = files[w].whole
                      /\ files[w].by # p => after[w].by = files[w].by
  BY <1>4 DEF Abandoned
<1>5. /\ DOMAIN temps' = DOMAIN temps
      /\ \A w \in DOMAIN temps :
           /\ DOMAIN temps'[w] = {"by", "whole"} /\ temps'[w].whole = temps[w].whole
           /\ temps[w].by # p => temps'[w].by = temps[w].by
  BY <1>1, <1>4 DEF PairInvariant, PairFiles
<1>6. /\ DOMAIN parquets' = DOMAIN parquets
      /\ \A w \in DOMAIN parquets :
           DOMAIN parquets'[w] = {"by", "whole"} /\ parquets'[w].whole = parquets[w].whole
  BY <1>1, <1>4 DEF PairInvariant, PairFiles
<1>7. PairFiles' /\ PointsToReadable'
  BY <1>1, <1>5, <1>6 DEF PairInvariant, PairFiles, PointsToReadable, Readable
<1>8. OneAtWork'
  BY <1>3, <1>6 DEF PairInvariant, OneAtWork, Storing
<1>9. Replacements'
  BY <1>3, <1>5, <1>6 DEF PairInvariant, Replacements, WillReplace, Storing
<1>10. PromotesReadable'
  BY <1>3, <1>6 DEF PairInvariant, PromotesReadable, Readable
<1> QED BY <1>3, <1>7, <1>8, <1>9, <1>10 DEF PairInvariant

(* Everything before the first publication, and the checks after it. *)
LEMMA PairElsewhere ==
    ASSUME PairInvariant, NEW p \in Writers,
           \/ \E j \in JobNamesOf : BeginIngestion(p, j)
           \/ ObtainSaved(p) \/ SaveObtained(p)
           \/ \E answer : Fetch(p, answer)
           \/ \E tie : MergePrices(p, tie) \/ MergeCalendar(p, tie) \/ MergeInstruments(p, tie)
           \/ StageExisting(p) \/ Judge(p)
    PROVE  PairInvariant'
<1> DEFINE Elsewhere(n) == DOMAIN n = RunFields
                             /\ n.pc \notin {"open", "write", "rename", "switch"}
<1>1. PICK run : run = ingestors[p] /\ DOMAIN run = RunFields
  BY DEF PairInvariant, PairRuns
<1>2. \A d \in DOMAIN current : Readable(current[d])
  BY DEF PairInvariant, PointsToReadable
<1>3. ASSUME NEW n, Set(p, n), Elsewhere(n), UNCHANGED datasetVars PROVE PairInvariant'
  BY <1>2, <1>3, PairIdles DEF datasetVars, Readable
<1>4. CASE \E j \in JobNamesOf : BeginIngestion(p, j)
  <2>1. PICK j \in JobNamesOf : BeginIngestion(p, j)
    BY <1>4
  <2>2. Elsewhere([NoIngestion EXCEPT !.pc = "obtain", !.job = j,
                                     !.completed = jobs[j].completed])
    BY DEF NoIngestion, RunFields
  <2> QED BY <1>3, <2>1, <2>2 DEF BeginIngestion
<1>5. CASE ObtainSaved(p) \/ \E answer : Fetch(p, answer)
  <2>1. run.pc = "obtain" /\ UNCHANGED datasetVars
    BY <1>1, <1>5 DEF ObtainSaved, Fetch, HasRequest
  <2>2. CASE ObtainSaved(p)
    <3>1. PICK got : Set(p, [run EXCEPT !.got = got])
      BY <1>1, <2>2 DEF ObtainSaved
    <3>2. Elsewhere([run EXCEPT !.got = got])
      BY <1>1, <2>1 DEF RunFields
    <3> QED BY <1>3, <2>1, <3>1, <3>2
  <2>3. CASE \E answer : Fetch(p, answer)
    <3>1. PICK got, completed :
             Set(p, [run EXCEPT !.pc = "save", !.completed = completed, !.got = got])
      BY <1>1, <2>3 DEF Fetch
    <3>2. Elsewhere([run EXCEPT !.pc = "save", !.completed = completed, !.got = got])
      BY <1>1 DEF RunFields
    <3> QED BY <1>3, <2>1, <3>1, <3>2
  <2> QED BY <1>5, <2>2, <2>3
<1>6. \A pc \in {"obtain", "promote", "stage"} : Elsewhere([run EXCEPT !.pc = pc])
  BY <1>1 DEF RunFields
<1>7. CASE SaveObtained(p) \/ StageExisting(p)
  BY <1>1, <1>3, <1>6, <1>7 DEF SaveObtained, StageExisting, Goto
<1>8. CASE \E tie : MergePrices(p, tie) \/ MergeCalendar(p, tie) \/ MergeInstruments(p, tie)
  <2>1. PICK dataset \in {"prices", "calendar", "instruments"},
             pc \in {"calendar", "instruments", "stage"} :
                \E frame : MergeDataset(p, dataset, frame, pc)
    BY <1>8 DEF MergePrices, MergeCalendar, MergeInstruments
  <2>2. PICK frame : MergeDataset(p, dataset, frame, pc)
    BY <2>1
  <2>3. Elsewhere([run EXCEPT !.pc = pc, ![dataset] = frame])
    BY <1>1 DEF RunFields
  <2> QED BY <1>1, <1>3, <2>2, <2>3 DEF MergeDataset
<1>9. CASE Judge(p)
  BY <1>1, <1>3, <1>6, <1>9, PairEnds DEF Judge, Goto
<1> QED BY <1>4, <1>5, <1>7, <1>8, <1>9

(* Every step of either writer. *)
LEMMA PairStep ==
    ASSUME TwoWriters, PairInvariant, IngestionNext
    PROVE  PairInvariant'
<1>1. PICK p \in Writers :
         \/ \E j \in JobNamesOf : BeginIngestion(p, j)
         \/ ObtainSaved(p) \/ SaveObtained(p)
         \/ \E answer : HasRequest(p) /\ Fetch(p, answer)
         \/ \E tie : MergePrices(p, tie) \/ MergeCalendar(p, tie) \/ MergeInstruments(p, tie)
         \/ MergeRaises(p) \/ StoreRaises(p)
         \/ StageExisting(p) \/ StageMissing(p) \/ OpenParquet(p) \/ WriteParquet(p)
         \/ RenameParquet(p) \/ LockAndVerify(p) \/ Switch(p)
         \/ Judge(p) \/ CompleteJob(p) \/ Killed(p)
  BY DEF IngestionNext
<1>2. MergeRaises(p) \/ StoreRaises(p) \/ CompleteJob(p) \/ Killed(p) => EndRun(p)
  BY DEF MergeRaises, StoreRaises, CompleteJob, Killed
<1> QED BY <1>1, <1>2, PairEnds, PairElsewhere, PairStages, PairOpens, PairWrites, PairRenames,
      PairLocks, PairSwitches

(* Two writers never leave a pointer to a file that its readers refuse, wherever their runs
   overlap and are killed, whatever one of them truncates or renames under the hands of the
   other (storage/local.py write_dataset and promote_dataset, which share one temporary path
   per version). *)
THEOREM PairReadableTheorem == ASSUME TwoWriters PROVE IngestionSpec => []CurrentIsReadable
<1>1. IngestionInit => PairInvariant
  <2> SUFFICES ASSUME IngestionInit PROVE PairInvariant
    OBVIOUS
  <2>1. /\ DOMAIN temps = {} /\ DOMAIN parquets = {} /\ DOMAIN current = {}
        /\ ingestors = [p \in Writers |-> NoIngestion]
    BY DEF IngestionInit, DatasetInit
  <2>2. NoIngestion.pc = "idle" /\ DOMAIN NoIngestion = RunFields
    BY DEF NoIngestion, RunFields
  <2> QED BY <2>1, <2>2 DEF PairInvariant, PairFiles, PairRuns, OneAtWork, Replacements,
        PromotesReadable, PointsToReadable
<1>2. PairInvariant /\ [IngestionNext]_ingestionVars => PairInvariant'
  <2> SUFFICES ASSUME PairInvariant, UNCHANGED ingestionVars PROVE PairInvariant'
    BY PairStep
  <2> QED BY DEF ingestionVars, PairInvariant, PairFiles, PairRuns, OneAtWork, Replacements,
        PromotesReadable, PointsToReadable, WillReplace, Storing, Readable
<1>3. PairInvariant => CurrentIsReadable
  BY DEF PairInvariant, PointsToReadable, CurrentIsReadable, CurrentReadable, HasCurrent
<1> QED BY <1>1, <1>2, <1>3, PTL DEF IngestionSpec
=============================================================================
