# A TLA+ model of Island Quant

This directory specifies, model-checks and proves properties of `tw_stock_tool`, the Python
package `src/island_quant`. Paths below are relative to that package unless they start with
`docs/`, `tests/`, `static/` or `twbacktest/`.

The repository is a modular monolith with three parts. A **research side**
ingests daily prices, builds features, labels, models and backtests, and publishes every
result as an immutable artifact. A **trading side** has a double-entry portfolio ledger that
an event-driven backtest and a paper-trading desk both use; the desk turns one artifact into
orders, delivers them to a deterministic in-memory broker and accounts for the fills. Between
them stand **gates**: promotion of a research target, intake of production evidence, and
admission of a readiness pack.

Contents: [1 Inventory](#1-inventory), [2 Modules](#2-modules), [3 Runs](#3-runs),
[4 Proofs](#4-proofs), [5 What the models found out](#5-what-the-models-found-out),
[6 Not modelled](#6-not-modelled), [7 Plan](#7-plan).

## 1. Inventory

### 1.1 Trading side

| Component | State | Operations | Talks to |
|---|---|---|---|
| Paper OMS (`oms/service.py`, `oms/repository.py`, `oms/models.py`) | one SQLite file: `orders` (state, filled, version, sequence), `events` (the journal), `fills`, `outbox`, `reservations` | `queue`, `process_outbox`, `request_cancel`/`apply_cancel_result`, `request_replace`/`apply_replace_result`, `recover_unknown` | the broker (calls), any other process on the same file |
| Paper broker (`brokers/paper.py`) | `_responses` and requests, in memory of one process | `submit`, `cancel`, `replace`, lookups | called by `process_outbox` and reconciliation |
| Reconciliation (`oms/reconciliation.py`) | none | `reconcile_oms` compares OMS and broker | startup and the `reconciliation` job |
| Scheduler (`operations/scheduler.py`) | SQLite: `scheduler_runs` (one row per job and session), `scheduler_lock` (leader) | `run`, `acquire_leader` | calls the job handlers |
| State store (`operations/monitoring.py`) | SQLite: `service_state` (safe mode), `service_starts`, alerts, metrics, portfolio and target snapshots | `record_start`, `enter_safe_mode`, `resume`, `raise_alert`, `publish_*` | everyone |
| Lifecycle (`operations/lifecycle.py`) | none that matters | `startup`, `shutdown`, `health` | state store, reconciliation |
| Runtime (`operations/runtime.py`) | `target_snapshot`, in memory of one cycle | `run_once`: startup, lease, ten jobs | all of the above |
| Target executor (`operations/strategy.py`) | none | `execute` turns a target into `queue` calls | OMS, portfolio snapshot |
| Projection (`operations/accounting.py`) | a ledger rebuilt from all fills every time | `project` | OMS, ledger, state store |
| Soak runner (`operations/soak.py`) | a checkpointed plan | drives `run_once` twice per session | runtime |
| Ledger (`portfolio/accounting.py`) | cash, payables, receivables, positions, journal, in memory | `apply_fill`, `process_settlements`, dividends, splits, `mark`, `snapshot`, `reconcile` | used by the backtest, its replay and the projection |
| Backtest (`backtest/*`, `execution/simulation.py`, `risk/*`) | ledger, reservations, event journal | one run over pinned sessions; `replay_events` | prediction and market artifacts |
| Offline broker fixture (`brokers/contracts.py`, `brokers/fixture.py`) | orders, heard events, sequence numbers, health, kill switch | `open`, `submit`, `cancel`, `replace`, `ingest_event`, reconnect | a venue's callbacks |

The OMS tables, the scheduler tables and the operations tables are three databases with no
transaction across them. Each repository call is one transaction; a process can be interleaved
with another process, or die, between any two of them. The paper broker's memory dies with its
process. `run_once` runs with a frozen clock `as_of` that its caller supplies.

### 1.2 Research side

| Component | State | What makes it hard |
|---|---|---|
| Exact artifact store, backtest store (`pipeline/artifacts.py`, `backtest/artifacts.py`) | directories named by content | concurrent publishers, a crash before the rename |
| Checkpointed pipeline (`pipeline/orchestration.py`, `exploratory.py`, `predictions.py`) | one checkpoint per stage, artifacts | a crash between artifact and checkpoint, a cache that changes under a run |
| Ingestion and local store (`data/ingestion.py`, `storage/local.py`) | job checkpoints, raw files, six datasets with a view and a current pointer each | a crash between publications, shared temporary files, overlapping runs |
| Calendar, universe, features, labels, dataset (`data/*`, `features/*`, `labels/*`, `ml/dataset.py`) | none between calls | who knew what when |
| Walk-forward experiment (`ml/splitting.py`, `ml/experiment.py`, `ml/evaluation.py`) | folds, the prediction ledger | purge, embargo, holdout, intervals that span closed days |

### 1.3 Gates

| Component | State | What makes it hard |
|---|---|---|
| Target promotion (`operations/promotion.py`, the reader of `operations/strategy.py`) | approvals and targets in the artifact store | two publications, a reader that looks at one |
| Evidence intake (`readiness/intake.py`) | one mutable draft file, compared with the one kept before | a baseline that moves with each comparison, expiry judged at each draft's own date, edits by hand |
| Production admission (`readiness/admission.py`) | one pack file | references checked apart from what they refer to, days beside instants |

### 1.4 What makes the components correct

* **OMS.** The order row is the fold of its journal. Fills are counted once however often a
  request is delivered. Request, reservation and state are written together. Nothing is executed
  before delivery or after closing. Reservations never exceed what there is. Every queued order
  is delivered.
* **Scheduler, lifecycle, runtime.** A completed run is never claimed again; jobs are claimed in
  order, never past a failed one; the lease keeps processes apart; no job runs in safe mode; a
  session finishes after any crash; a repeated session changes nothing.
* **Desk.** However cycles die, repeat or are left behind, the desk never holds or may buy more
  than its last execution decided, and the replay of its fills can pay for them.
* **Ledger and backtest.** Money moves between accounts and is never made; what risk approved
  can be paid for and delivered; everything settles; the replay accepts a run exactly when it should.
* **Offline broker.** Nothing counts twice; a session that is not healthy takes no new risk.
* **Research.** Artifacts appear whole or not at all; completed runs agree; lineage names what
  was used; interrupted ingestion ends in one consistent set; no prediction knows its future.
* **Gates.** What is executed was approved; what a chain of comparisons guards is never lost;
  what is admitted is supported.

`PROJECT.json` lists every component with its status, and every hazard with the line where it
bites.

## 2. Modules

| Module | Models | Composed by | Proved in |
|---|---|---|---|
| `OMSStates` | states, terminal states and allowed transitions of `oms/models.py` | `PaperOMS` | |
| `PaperOMS` | the OMS with the broker it delivers to | `MCPaperOMSRace`, `MCPaperOMSDesk` | `PaperOMSProofs` |
| `OrderLifecycle` | abstract specification of one order | `PaperOMS!Lifecycle` | `PaperOMSProofs` |
| `PaperService` | `run_once` with scheduler, lease, startup and safe mode | `MCPaperServiceAlone`, `MCPaperServicePair` | `PaperServiceProofs` |
| `TradingPolicies` | fees, taxes, slippage, tick rounding, settlement dates | `PortfolioLedger` | `TradingProofs` |
| `PortfolioLedger` | the ledger, an operation being a function from ledger to ledger | `PendingOrders`, `PaperDesk` | `TradingProofs` |
| `PendingOrders` | reservations and the pre-trade evaluation | `TargetPolicies` | `TradingProofs` |
| `TargetPolicies` | targets from predictions, rebalance policies, orders from targets | `BacktestEngine` | `TradingProofs` |
| `BacktestEngine` | the daily loop of a run with its journal | `BacktestReplay` | `TradingProofs` |
| `BacktestReplay` | `replay_events` over that journal, with a second ledger | `MCTrading` | `TradingProofs`, `ReplayProofs` |
| `PaperDesk` | the runtime's money: targets, sizing, reservations, fills, projection, day by day | `MCTrading` | `DeskProofs` |
| `OfflineBroker` | the broker fixture and its contract | `MCTrading` | `TradingProofs` |
| `ArtifactCatalog` | abstract specification of an immutable store | `ArtifactStore` | |
| `ArtifactStore` | publication file by file, verification, rename, lost race | `MCResearch` | `ResearchProofs` |
| `ResearchPipeline` | stages, checkpoints, the reader of the predictions | `MCResearch` | `ResearchProofs` |
| `DatasetStore` | dataset files, views, pointers, promotion lock | `Ingestion` | `ResearchProofs` |
| `Ingestion` | `IngestionService.run` over that store | `MCResearch` | `ResearchProofs` |
| `SamplePanel` | universe, feature samples, labels, their join | `WalkForward` | `ResearchProofs` |
| `WalkForward` | splitter, fold loop, prediction ledger | `MCResearch`, `MCLearning` | `ResearchProofs` |
| `TargetPromotion` | promoter and reader | `MCResearch` | `GateProofs` |
| `EvidenceIntake` | drafts and their comparison | `MCResearch` | `GateProofs` |
| `ProductionAdmission` | the five gates of a pack | `MCAdmission`, `MCResearch` | `GateProofs` |

### 2.1 `PaperOMS` and `OrderLifecycle`

The five tables are variables, with one record per order. An order is named by its idempotency
key. Hash ids, prices and payloads are abstracted. An event keeps its order, next state,
sequence and the *business* part of its identity, because the UNIQUE constraint on identities
is what makes retries harmless and what refuses a second cancel.

* A **client** runs `queue` as six steps: lookup, create, the `RiskPending` transition, the read
  of the reserved amounts, the verdict's transition, and the outbox transaction. `ClientCrash`
  may come between any two of them.
* A **worker** runs `process_outbox` against its own broker: scan, send, `Submitted`, the answer,
  one step per fill, mark delivered. The answer can be lost with the process (`WorkerRestart`),
  and then so is the broker's memory.
* An **operator** makes the five service calls that change orders by hand. A read followed by one
  version-guarded transaction is one step: versions only grow, so the call succeeds only if
  nothing came in between.

A repository call that raises changes no table (`Refused`). `Acceptable` lists the checks of
`transition` in their order. Rows that processes have read are kept as `snap` and go stale in
the model as they do in the program. `Required` is the order's gross with fees and taxes,
computed once as in `queue`; `Reduced` scales the cash still reserved at each fill as
`transition_fill` does, with integer division in place of Decimal.

`OrderLifecycle` has five phases (absent, vetting, queued, working, closed) and the executed
quantity. `PaperOMS!Lifecycle` maps the fourteen OMS states onto the phases. Refused calls,
repeated events, cancel and replace requests and manual moves between open states stutter.

### 2.2 `PaperService`

A process is a program counter with the locals of `run_once`: the session, the clock, the
current job, the attempts it has read and whether `target_snapshot` is set.

| Step | Code |
|---|---|
| `Start` | the call of `run_once`, which also clears `target_snapshot` |
| `RecordStart`, `Reconcile`, `CheckState`, `AutoResume` | `PaperServiceLifecycle.startup` |
| `acquire_leader` | `PaperScheduler.acquire_leader` |
| `ReadRun`, `ClaimRun`, `CompleteRun`, `FailRun` | the SELECT, the upsert, and the two updates of `PaperScheduler.run` |
| `DecisionSnapshot`, `RiskEvaluation`, `OrderSubmission`, `DailyReport`, `OtherJob`, `HandlerRaises` | the handlers, by what they change that something later reads |
| `enter_safe_mode`, `resume` | `OperationsStateStore` |
| `Exit`, `Crash` | the end of a process between or inside cycles |

`ReadRun` and `ClaimRun` are two steps because Python's `sqlite3` opens no transaction for the
SELECT. The OMS appears as a summary per session (none, pending, open, closed). One unit of time
is the backoff of a first attempt. `NoTime` (-1) stands for NULL.

### 2.3 Ledger, backtest and replay

A ledger is a record: settled cash, payables, receivables, dividends, positions with cost basis,
price and age, the balance of each account. An operation that raises sets `error`; callers drop
such a ledger, so half-done updates are not kept. Money is an integer and rates are over
`RateUnit`; rounding is where the code rounds.

`BacktestEngine` has a step per part of a day: `NoSession` or `DecideSession` (with the eve's prices and
holdings), `Account` (08:30: settlements and dividends due), one `Act` per corporate action of the day in the order
of their ids, `Open` (the opening mark), one `Execute` per intent (risk, reservation, simulated fill, release; sales
first, then by instrument), `CloseSession`, and `Complete` after the last settlement. `Raise` ends a run with the reason the code raises for. `BacktestReplay` reads
the journal event by event as `replay_events` does.

### 2.4 `PaperDesk`

The same service seen from the money. Each day has a market and a target; a cycle goes through
decision, risk (sizing, then queueing one command after another), submission (a step per order, its fills
included), reconciliation (projection) and marking. A cycle can die between any two steps, a
risk limit can fail, a day can be left unfinished. What the state store's limits compare is
left out: that they fail is a nondeterministic choice. `blind` and `repriced` are auxiliary and
say when an execution has not seen every fill, and when a fill cost more than was approved.

### 2.5 `OfflineBroker`

One session with the commands of the fixture and its callbacks, each of which may arrive in any
order and any number of times. Refused commands and callbacks heard before stutter. Resending a request
under its old key is the idempotent answer; reusing a client id under a *new* key would
overwrite the order, and `RequestAssumption` leaves that out, as the OMS derives one from the other.

### 2.6 Files: `ArtifactStore`, `ResearchPipeline`, `DatasetStore`, `Ingestion`

A version stands for the hash it is in the code: the record of what is hashed. In
`ArtifactStore` a writer's candidate directory is private, and the rename is where publishers meet; it
implements `ArtifactCatalog`, where a version is published, confirmed or lost. That is why the
other modules may publish in one step. `ResearchPipeline` keeps, per run, the stage it is in, what it
has read and when; the cache may be refreshed between reading the bars and hashing their
files. `Ingestion` runs the downloads from or into a job's checkpoint, the merge with the current
frames, the validation, and six publications, each with the steps of `DatasetStore`:
temporary file, rename, verification, lock, view, pointer.

Simplified, where no property depends on it: on POSIX a candidate can be renamed onto a version's directory that
has lost all of its files, which the model refuses; a checkpoint written by an overlapping run keeps its
status in the model where the code puts back the status that this run loaded; a raw answer is named by its
request where the code names it by the checksum of its body (`storage/local.py:76-79`), so that equal answers to two
requests share a file and the instant of the first; and a DuckDB connection that another process's connection refuses
(`storage/local.py:347`) is left out.

### 2.7 Learning: `SamplePanel`, `WalkForward`

Days are calendar days, open or closed; each has three instants (open, close, evening). A bar is
what the four builders look at (there, late, untraded, locked, unpriced, thin). A model is the
set of samples it was fitted on, since no date depends on the fitted values.

### 2.8 Gates

`TargetPromotion`: an approval is known by the request it records and a target by its approval.
Instants come two to a day. A dry run changes nothing and is left out.

`EvidenceIntake`: the four files are one record of answers. `Draft` derives the register, the
blockers, the metrics and the checksum; `Loadable` derives them again. `EditByHand` is a person
who tidies a draft. `KeepDraft` is a comparison with the draft kept last that reports no
regression: the code only prints the report, and keeping the draft is the use the report is made for.

`ProductionAdmission`: a pack is a record of sections. What a section only attests is the set of
what it attests. `Revise` replaces one section; `Evaluate` is the command. `LookedUp` are the references that
a gate compares with the documents of the pack, `References` all there are: the restore drills and what a broker
blocker names besides one official document are in the second set only, as in the code
(`readiness/admission.py:760` and `854-859`).

## 3. Runs

| Run | Instance | What it shows |
|---|---|---|
| `oms_race` | one order of a behaviour, of quantity 2 (2 clients at once, cancel and recovery) or 3 (clients one after the other, all operator calls); 2 workers, markets that are missing, or fill 1 or 2 at either of two prices (904,610 states) | journal, outbox, reservation and order row agree under every interleaving; every fill counts once, the reservation covers what remains, a delivered row has been applied; the order follows `OrderLifecycle` |
| `oms_desk` | 3 orders (buy, sell, buy) for cash and inventory that do not cover all; 1 client, 1 worker, 1 restart, cancel requests | reservations within the account; every queued order is delivered |
| `oms_overcommit` | 2 orders, 2 clients | **violation**: two approvals read the same reserved cash |
| `oms_recovery` | 1 order, recovery to `Cancelled` allowed | **violation**: a terminal order keeps its reservation |
| `service_alone` | 1 process, 2 sessions (one with a target), 5 jobs, 1 crash, 1 resume | safe mode, completed runs, job order, replay, and that sessions finish |
| `service_lease` | 2 processes with different owners, 1 session, 2 jobs, 4 instants, 1 crash, 1 resume | the lease separates cycles |
| `service_rerun` | the same with the one owner the command line uses, no crash | **violation**: a completed run is claimed again |
| `service_lineage` | the constants of `service_alone` | **violation**: a report without lineage for a session with orders |
| `trading` | backtest, desk and offline broker, one at a time (449,290 states) | the replay's verdict, approved orders execute, all settles, money is conserved, purchases stay covered while sales pay for themselves; the desk stays within its target and can pay; the broker's fills match its orders and an unhealthy session takes no new risk |
| `research` | store, pipeline, ingestion, learning, promotion, intake and admission, one at a time (830,616 states) | the catalog is implemented, runs agree, lineage fits, twelve sessions are enough; datasets are readable, complete and keep first observations; no lookahead; what is executed was approved; comparisons lose nothing; what the gates look up of an admitted pack stands |
| `embargo` | 1 instrument, 9 days, closed days among them | **violation**: an embargo of closed days only |
| `admission` | the pack and the forms of `research`, 2 revisions | **violation**: a pack is admitted with a restore drill, or a broker blocker, that refers to a document which is not there |

`trading` and `research` choose one part in the first state and leave the variables of the others
alone: the parts share no state, and what would be many small runs is two.

### 3.1 Bounds, and why they are enough

* `oms_race` has two of everything that can be concurrent: two stale snapshots, two brokers with
  different answers, two deliveries of one request, and the fills that they bring: a repeated one, two partial ones,
  a partial one completed by another, and one that would be too much. The constraint `OneOrder` bounds it: a
  behaviour is about one order; order 1 is not replaced, and the clients of order 2 do not overlap. Orders meet only
  in the reserved sums, which `oms_desk` and `oms_overcommit` cover. `oms_desk` has orders that
  compete for the cash (4 and 3 against 5), a sale of the whole position, and one restart.
* `service_alone` has a session before and after the one that fails, so that an order of one
  can be delivered in the other. Two instants, one further apart than every timeout, give
  "too early" and "late enough". `service_lease` needs four instants, because a lease of 2 must be live,
  just expiring and expired, with both orders of arrival. Times are scaled, keeping the order of the
  program's 30 s backoff, 2 min lease, 5 min start window and 15 min grace.
* `trading`, backtest: two instruments, four days, settlement after one session; four setups that between them
  have every target kind, rebalance frequency and missing-data policy, a split and a dividend overnight, a
  halted and a thin instrument. `maximum_gross_exposure` is 1. The failures `conversion`,
  `available_cash_negative` and `execution_price` are not reached. Desk: three trading days of four,
  three markets (ordinary; doubled and thin; halted with a capacity of zero), one interruption.
  Broker: two clients, eight callbacks (duplicates, gaps, late and corrupted ones), four fixtures, five sequence numbers.
* `research`, store: three publishers and two versions, one loss. Pipeline: four of the ten stages, which are
  those that the reader of the predictions compares; two processes, two starts, one
  refresh, one mishap. Ingestion: two jobs about one symbol with overlapping days, one request standing for
  the three reference requests, five fetches, three runs, two of one job alive at once, which are killed only at the
  write or at the switch (`KillPoints`). Learning: two instruments, eleven days with and without closed ones,
  one flawed bar. Promotion: two candidates, four approval instants,
  two promoters. Intake: eighteen questionnaires and four that are refused, two dates, three drafts.
  Admission: one complete pack, all of whose references stand, and three revisions out of forms that break
  references, owners, dates and attestations of every gate and mend them again.

Actions and branches that one instance cannot reach are reached by another one. Symmetry is used
only among publishers, pipeline processes, ingestion writers, clients and workers, which the modules treat alike, and in no run with a liveness property.

**Deadlock** is checked in `trading`, where a finished run stutters explicitly, and nowhere else:
the other systems may stop, with all orders delivered, every process idle and the bounds used up. In
`service_alone` the supervisor can always start another cycle, and liveness is a property instead.

### 3.2 Fairness

* `oms_desk` assumes `WF` of a worker's steps: a delivering process that is up runs its loop, and
  the scheduler calls it again. Clients, operators and crashes have none. Restarts are
  bounded by `MaxRestarts`: a process that dies for ever delivers nothing.
* `service_alone` assumes `WF` of a process's steps (a cycle that is not killed goes on) and `SF`
  of a call for each session at the last instant: the supervisor or operator keeps calling
  `run_once`, and each session comes up between the others. Strong fairness is needed because a
  running cycle disables the start of another one over and over. Crashes are bounded by
  `MaxCrashes` and `LastCrash`. `SessionsFinish` allows the service to stay in safe mode, from
  which only a person resumes.

No other run has a liveness property, and none states fairness.

### 3.3 Disagreements with the documents

1. `oms_overcommit`: ADR 0013 (lines 10-11) has approval, outbox and reservation in one ACID
   transaction. `queue` reads the reserved sums before it, in a transaction of its own.
2. `oms_recovery`: ADR 0013 (line 12) has cancellation and rejection release the reservation.
   `recover_unknown` does not.
3. `service_rerun`: the runbook (lines 61-62) promises a singleton lease and that a completed
   decision session is never run again. Every command-line process has the same owner name, so
   the lease admits them all, and the run table is read and claimed in separate transactions.
4. `service_lineage`: the runbook (lines 37-38) has lineage in the daily report of a normal run.
   A cycle that resumes a session skips the completed decision job, has no target in memory, and
   reports none.
5. `embargo`: ADR 0007 (line 18) counts an embargo in trading sessions. The splitter counts rows
   of the canonical calendar, which has a row for every day.
6. `admission`: `docs/READINESS_DECISION_PACK_SCHEMA.md` (lines 25-26) has any missing, expired or unowned evidence
   produce no-go. The security gate asks of the restore drills only that they are named
   (`readiness/admission.py:760`), and the broker gate asks of what a blocker names only that one official document is
   among it (`854-859`). A reference to a document that is not in the pack passes both.

## 4. Proofs

All theorems are about the unbounded constants: any number of orders, clients, workers, sessions,
jobs, instants, processes, callbacks, runs, stages, instruments, days, questionnaires, drafts and revisions.

| Theorem | Says | Assumes |
|---|---|---|
| `PaperOMSProofs!InductiveInvariant` | `Spec => []Inductive` | |
| `TypeCorrect`, `JournalTheorem`, `QueuedTogetherTheorem`, `SnapshotsTheorem` | its conjuncts | |
| `Refinement` | `Spec => ImplementsLifecycle` | |
| `AccountsInvariant` | `Spec => [](Inductive /\ Accounts)` | |
| `FillsTheorem` | `Spec => []FillsAccountForOrder` | |
| `ReservationTheorem` | `Spec => []ReservationFollowsOrder` | |
| `DeliveredTheorem` | `Spec => []DeliveredMeansApplied` | |
| `ReservationLimit` | `Spec => []NoOverReservation` | one client (`SingleClient`) |
| `PaperServiceProofs!ServiceTypes` | `Spec => []TypeOK` | |
| `LeaseTheorem` | `Spec => []LeaseExclusive` | the clock never goes back (`Forward`), owners differ |
| `SafeModeTheorem` | `Spec => []NoJobInSafeMode` | one process (`Alone`) |
| `CompletedTheorem` | `Spec => CompletedStays` | one process |
| `ReplayTheorem` | `Spec => ReplayChangesNothing` | one process |
| `OrderTheorem` | `Spec => ClaimsInOrder` | one process |
| `TradingProofs!EngineTheorem` | `Spec => []EngineInvariant` (`BacktestEngine`) | |
| `MoneyTheorem` | `Spec => []MoneyConserved` | |
| `CoverTheorem` | `Spec => []PurchasesStayCovered` | |
| `SettledTheorem` | `Spec => []SettledAtTheEnd` | settlement at least a session later |
| `ExecutingTheorem` | `Spec => []Executing` (sound books) | |
| `NoRefusalTheorem` | `Spec => []ApprovedOrdersExecute` | no sale at a quoted price costs more than it fetches |
| `ApprovedTheorem` | `Spec => [](SalesPay => ApprovedOrdersExecute)` | |
| `RefusalTheorem` | the one refusal possible is a payable that is not covered when due | |
| `BrokerInvariance` | `BrokerSpec => []BrokerInvariant` | |
| `UnhealthyTheorem` | `BrokerSpec => []UnhealthyStopsNewRisk` | |
| `SequencesTheorem` | sequence numbers used once, no order overfilled | |
| `BrokerFillsTheorem` | `BrokerSpec => []FillsMatchOrders` | |
| `ReplayProofs!VerdictTheorem` | `Spec => []ReplayVerdict` (`BacktestReplay`) | |
| `DeskProofs!DeskTheorem` | `DeskSpec => []DeskInvariant` | |
| `TargetTheorem` | `DeskSpec => []NeverBeyondTarget` | |
| `FundsTheorem` | `DeskSpec => []MoneyInvariant` (the replay can pay) | |
| `SolventDeskTheorem` | `DeskSpec => [](DeskSalesPay /\ Today + SettlementLag <= DeskHorizon => FillsStayAffordable)` | |
| `AffordableTheorem` | `DeskSpec => []FillsStayAffordable` | no sale at a market's price costs more than it fetches; the calendar reaches the last settlement |
| `ResearchProofs!PublicationImplements` | `StoreSpec => ImplementsCatalog` | |
| `PipelineInvariance`, `LineageTheorem` | `PipelineSpec => []LineageConsistent` | |
| `AgreementTheorem` | `PipelineSpec => []CompletedRunsAgree` | |
| `EnoughSessionsTheorem` | `PipelineSpec => []EnoughSessionsSuffice` | |
| `LearningInvariance`, `LookaheadTheorem` | `LearningSpec => []NoLookahead` | |
| `IngestionInvariance` | `IngestionSpec => [](overlapped \/ (IngestionTypes /\ Alone))` | |
| `ReadableTheorem` | `IngestionSpec => [](~overlapped => CurrentIsReadable)` | |
| `PairReadableTheorem` | `IngestionSpec => []CurrentIsReadable` | two writers |
| `PublishedTheorem` | `IngestionSpec => []PublishedWhenComplete` | |
| `FirstObservationTheorem` | `IngestionSpec => FirstObservationStays` | |
| `GateProofs!ApprovalTheorem` | `PromotionSpec => []ExecutedTargetsWereApproved` | |
| `NothingLostTheorem` | `IntakeSpec => []NothingLostInSteps` | |
| `AdmissionTheorem` | `AdmissionSpec => []AdmittedMeansSupported`: the references that gates look up stand; drills and further references of a broker blocker are outside it | |

The only other assumptions are the named ones on the constants (`OrdersAssumption`, `ServiceAssumption`, `PolicyAssumption`, `BandsAssumption`, `LedgerAssumption`, `OrderAssumption`, `EngineAssumption`, `DeskAssumption`,
`RequestAssumption`, `CallbackAssumption`, `StoreAssumption`, `PipelineAssumption`, `PanelAssumption`, `SplitAssumption`,
`IngestionAssumption`, `IntakeAssumption`, `AdmissionAssumption`), which TLC evaluates in the runs.
They say what the code validates or what the shape of its tables is: a stage reads only stages before it, a
window has a length, a request names one of a job's days.

**OMS.** `JournalMatchesOrder` is not inductive alone. A worker that marks or fills must be
handling an order that was queued (`WorkersHandleQueued`); an order has an outbox row exactly
from `SubmitPending` on (`QueuedStates`). Filled must mean nothing remains
(`FilledWithinQuantity`), because a worker decides between `Filled` and `PartiallyFilled` on the
row it has read, before the transaction checks the version. That is where `SnapshotsFaithful`
comes in: an equal version means an equal row. Every action of clients, workers and operators is
first shown to be one of four kinds of table step, and the invariant is shown once for each kind.

**Refinement.** Each table step is mapped to `Accept`, `Refuse`, `Queue`, `Deliver`, `Close`,
`Execute` or a stutter, by cases on the allowed transitions. The inductive invariant rules out a
fill on a closed order and a close of a filled one.

**Sums.** The prover has no induction over a data structure and cannot use a library theorem that takes an
operator. `SumTheorems` proves what is needed of `SumFunctionOnSet` without either: the fold is a CHOOSE of a
recursive function on subsets; that such a function exists is shown from the least size at which it would not, and with
it the two facts all else rests on, the sum over the empty set and the sum over a set with
one element more. From these follow sums of pointwise equal, smaller and split functions.

**Accounts of the OMS.** That fills add up needs to know that only fills change the filled quantity, that a fill's
identity is new when it is stored (`FillsStored`), and that a worker's row is the current one when
its version matches. `ReservationFollowsOrder` is extended to orders that a recovery leaves open
(`ReservationsFit`). `DeliveredMeansApplied` is about two tables and a broker that dies: each worker
between its answer and its mark carries what it still has to store (`DeliveriesApplied`), a broker answers with at
most one fill and only when it acknowledges (`AnswersSound`), and no order returns behind
`SubmitPending` (`EventsUndelivered`), although `ALLOWED_TRANSITIONS` has an edge back to it from
`Replaced`: that event would be written under an identity it already has. `NoOverReservation`
needs, for the only client, that what it read of the reserved sums is at least what is reserved (`Cleared`):
everybody else only shrinks reservations.

**Lease.** `LeaseExclusive` relates two clocks; the invariant relates each to the lock. The lock
covers every process in the loop (`as_of + Lease <= expires_at`), and by one lease more once
somebody else owns it (`Covered`). An expired lease then puts the newcomer a lease behind
everybody. So does a lease of its own from an earlier cycle, provided it ends no later than the
one it would take now (`ClockBound`), and that is what needs a clock that does not go back. With
one owner for all, or a clock that goes back, the theorem is false.

**Single process.** Safe mode is off from the moment startup lets a process through
(`PassedResumed`). The run a process works on is not completed (`WorksOnOpenRun`), since what it
read is still so: the step that fails with two processes. From this, too, a session whose runs are all
completed has nobody at its handlers (`FinishedStep`). For the order of the jobs, the jobs behind a process are
completed or taken to be running (`Orderly`): a row leaves these states only when its own cycle works on
it, and a process is at one job at a time.

**Ledger and backtest.** The worth of a ledger (`Worth`: cash and receivables less payables, plus what the shares cost,
less what was earned) is kept by every operation that does not raise: what a purchase owes is the cost it
adds, what a sale is owed is the cost it removes and the gain it books, however a partial sale rounds; settlements
and dividends move between accounts, splits and marks touch none of them (`FillFacts`, `SettlementFacts`, `AccrueFacts`, `SplitFacts`).
`MoneyConserved` is that worth spelled out.
`PurchasesStayCovered` needs in `EngineInvariant` that nothing due is overdue (`DueLater`, `PaidLater`, by the `Bound` up to
which the morning has settled), so that the payables that count against cash are all of those. What risk
approves fits into `Available` less what is reserved; a fill costs at most the share of the reservation it
uses up, because fee and tax grow with the gross and the price was bounded by the order's; and only a sale at a loss takes cash.
`SettledAtTheEnd` adds that a completed run has lived through the last due date (`DoneLate`); with a lag of zero it is false (5.3).
`ApprovedOrdersExecute` says of nine reasons to raise that none occurs. `Executing` has, of a run that has not failed,
that its books are `Sound`: every account of the journal holds the figure `reconcile` compares it with, and no time is later than
the step of the day (`OnTime`; before the first session nothing is recorded, as the account opens on its eve). Each operation of the
ledger is shown to keep that when its postings are what it changes (`TradeSound`, `MovementSound`, `SharesSound`), so reconciling cannot
fail; risk has compared a purchase with the cash and a sale with the shares that no other order reserves; an action of a day
was never applied before (`AppliedBefore`, from the unique identifiers `_validate_inputs` asks for). What remains is a payable
that is due: all payables together are covered (`PayablesCover`) unless a sale took cash, which the fees of the policy decide.

`ReplayVerdict` is about a journal that is read only when the run is over, so its invariant reads it all the time.
A replay of the finished journal looks ahead: at the first mark of a close it collects all marks of that instant (`ReplayMark`).
`Followed` therefore speaks of every journal that continues the one written so far, with closes only from today on
(`Continues`): after the events so far, its replay has the ledger, reserved orders, fills, counts and actions of the run,
and knows its intents and verdicts (`Follows`), or has been refused because of a silent close.
`Rebuilt` is read one event at a time (`RebuiltFacts`), so each action of the engine is
answered by the replay of the events it writes: one lemma for each kind of event (`FilledReplayed`,
`SettledReplayed`, `ClosesReplayed` and the like), and one for each action (`OpenReplays`, `ExecuteReplays`,
`CloseSessionReplays`). The marks of a session are made one after the other in the replay and all at once in the model of the engine;
they agree because no instrument is marked twice (`OneMoreMark`). A close ages what has no mark and then marks the rest in both, as the
replay finds the same marks at that instant (`ClosedHere`). A close without any mark ages positions only in the engine:
the snapshot after it shows another account exactly when something was held (`QuietClose`). Snapshots agree
because the books are sound (`Executing`). `ReplayInvariant` quantifies over all continuations, so TLC checks `ReplayVerdict` itself.

**Offline broker.** `UnhealthyStopsNewRisk` is not inductive: `open` leaves the switch alone when
the session has expired. `ExpiredKeepsKill` adds that a fixture with that fault has never lifted it. All
changes to an order go through one lemma, which advances its sequence number; that every event
heard lies at or below that number gives each sequence to one event. A fill that counts is a new
member of the events heard, so the sum of the fills grows by exactly what the order does.

**Desk.** What is held and what may still be bought are sums over fills and orders; an order passes from the
one to the other in the step that fills it. `DeskInvariant` has the purchases of an execution within its `limit` until they are
queued (`CommandsWithin`), which is arithmetic over the projected positions as long as the published portfolio holds what was
filled. That it does whenever it has seen every fill (`PortfolioTrue`) is proved of the replay: a ledger that goes through all
days and all fills of a day without raising holds the sum of the fills it has met (`Replays`, over `Seen`), since a
settlement and a mark move no shares (`ProjectionFacts`). A sale fits because what was reserved for
the earlier ones is never less than what they have left (`OrderSound`).
`FillsStayAffordable` speaks of a replay that is done only when the desk projects, so its invariant follows the replay all the time:
`Ongoing` is the ledger of today with the fills so far and no marks, as a function of any fills and markets. A fill is one more
`ApplyFill` on it (`OngoingFill`), a new day the marks and then the settlements of the next (`OngoingDay`), and both leave the
past as it is. `MoneyInvariant` says that this ledger is `Solvent`, that it has available what the submitted
orders have reserved (`Funded`), and, when the portfolio has seen every fill, what the portfolio says is available; that
is what `queue` compares a new purchase with. A fill then spends at most what its order had reserved
(`FillCosts`: fees grow with the gross, and the price is not above the approved one) and sells shares that are held (`SaleIsHeld`, by
`NeverBeyondTarget`); settlements and marks take nothing as long as no sale owed money (`SalesPayIn`).

**Artifact store.** `StoreInv` says that only a complete candidate is at its rename and only what is there is
about to be returned. Then the rename of a free name is `Publish`, a return is `Confirm`, damage is `Lose`, and
every other step stutters; `Lost` does not change at a rename because a complete candidate verifies.

**Pipeline.** Lineage needs that a run carries the outputs of exactly the stages before its own
(`RunWellFormed`), all of them published (`OutputsPublished`). Agreement is proved from `Settled`: while no cache has
changed under a run, what a run carries is what the checkpoints name, wherever there is one, and a stage
computed from the checkpointed inputs has one version, so a race for a checkpoint is one of equals.
`EnoughSessionsSuffice` counts: with two instruments and twelve sessions every fit has two
observations, and the last prediction can be traded and settled. The proof needs that the cache
keeps its length (`OtherLength`); when it grows or shrinks between two reads of a run, the property does not hold, so it says so.

**Learning.** `PanelSound` has, for each supervised row, when its features were known and when its
interval began and ended, in instants of the canonical calendar; `FoldSound` that everything a fold is fitted on
lies before what it is judged by, by positions. Positions of sessions keep the order of days (`PositionsInOrder`),
a label interval spans `horizon` sessions (`ExitFacts`), and the purge compares these intervals
(`PurgedIsDecided`). No bound on the number of days, instruments or closed days is used.

**Ingestion.** With one run at a time the invariant (`Alone`) follows the data: the answers of a
job are in the raw store, those a run carries are in its checkpoint or about to be (`InCheckpoint`), a merged
frame extends the current one and keeps the earlier of two observations (`Merged`), whatever is renamed is
whole (`FilesSound`), and the universe is that of the current datasets unless the run at work or an open job still
owes it (`UniverseOwed`). `PublishedWhenComplete` excepts a day that a run obtained twice
(`ended.repeated`, see 5.5). With two runs that overlap (`PairInvariant`), once a version has its final file
nobody sets out to write it again, so at most one of the two is still at it; the other can only have passed it on the way to
its own promotion. With three writers two can still be at it, and one renames a partial file over what the third
promoted (5.5).

**Promotion.** `PromotionInv` carries what `_validate` found of a request from the process that holds it to the approval and
the target, and says that a process between the two publications has published the approval. The damage of a
candidate after its validation is harmless, as nothing reads it again.

**Intake.** The property is about all pairs of kept drafts, the code about neighbours. Each kind of regression is
shown to be transitive along steps without regressions, expiry included: whatever the dates, what has
not newly expired in either of two steps has not newly expired over both, because the critical
fields, the expiry among them, are the same. `MayImprove` over a chain needs in addition
that the number of pieces of evidence does not shrink, which follows from none being removed.

**Admission.** A verdict is about the pack it was made for, because every revision withdraws it.
What is left is that the five gates together imply that every reference which they look up (`LookedUp`) means a document
that stands, though none of them checks it alone: uniqueness comes from the evidence gate, existence from the gate
that refers. Of restore drills, and of what a broker blocker names besides one official document, nothing is proved: it
does not hold, as `admission` shows.

**Only model-checked.** Liveness (`EveryQueuedOrderDelivered`, `SessionsFinish`), which the prover does not cover.

`FillsStayAffordable` and `ApprovedOrdersExecute` do not hold for every policy: a sale whose costs exceed its proceeds takes
money that an approved purchase counts on (5.3). The theorems say so, as a condition on the run
or on the constants; the fees and prices of the instance meet it.

## 5. What the models found out

Beside the six violations of section 3: behaviour that a maintainer should know, each seen in a model and followed back
to the code. Where we know a document or a docstring that says otherwise, it is quoted.

### 5.1 OMS and service

* A market whose participation cap rounds to zero shares yields a fill of zero shares, which
  `transition_fill` refuses; the loop ends there, and the rows behind it wait with it. The same
  happens when a second broker fills what the first one rejected. `EveryQueuedOrderDelivered`
  is checked for markets in which this does not happen.
* A client that dies inside `queue` leaves an order that a retry returns as it is.
* A fill after a cancel request returns the order to `PartiallyFilled`, and a second cancel
  request collides with the first one's identity.
* After `dead_letter` a later cycle claims the run again, with more attempts than the maximum.
  `docs/PAPER_OPERATIONS_RUNBOOK.md:61-62` has "bounded retries and dead-letter state", and 107-108 say "Dead-letter
  jobs require an explicit investigation and a new version or recovery decision".
* A completed freshness check is not repeated when the session is resumed at a later `as_of`.
* A job that a crash leaves running is skipped until its grace is over. After two crashes, in
  `decision_snapshot` and in `risk_evaluation`, the later jobs complete first; then the target is
  decided, orders are queued, and `paper_order_submission` is completed already. The session is
  finished with orders that only another session's submission delivers.
* With two processes, safe mode entered by one does not stop the other, whose startup is past.

### 5.2 Desk

* After a crash between submission and reconciliation, or a failing projection, the next session sizes with
  the old portfolio: it can buy twice, and once a purchase exceeds cash every later projection fails.
* An order filled at another day's price can cost more than was reserved for it.
* An order left `RiskApproved` by a crash counts as open for ever; a ghost sale makes the desk overbuy.
* No command of the CLI makes an acknowledged order terminal: `paper-cancel-all` only requests,
  `apply_cancel_result` has no caller in the source, `paper-recover` needs `Unknown`. An order that is not
  completely filled therefore stops the service at its next startup. `OperatorCancels` makes
  the service calls that the tests make.
* The outbox row of a cancelled or filled order that is redelivered raises.

### 5.3 Ledger, backtest and replay

* At a close without any quote the engine ages positions and the replay does not, so a correct
  run is refused. The same goes for a run with a partially filled order that is not cancelled (`cancel_unfilled` off),
  whose remainder stays reserved. `ReplayVerdict` states exactly these two exceptions.
* Orders sized on the eve are executed after the morning's split with their old quantity.
* A dividend that is paid on its ex-date is paid a day later.
* A sale whose costs exceed its proceeds is a negative receivable, and reconciliation aborts the run. Until
  then it takes cash that purchases approved before it count on.
* `lag_sessions` may be zero (`backtest/policies.py:108`). Trades of the last session then settle on that session, whose
  settlement is already over: a run completes with payables that stay open.
* A universe instrument without a quote on a rebalance day, a mark that is too old, and a chronology
  that the journal refuses abort a run.

### 5.4 Offline broker

* `open` and reconnecting lift the kill switch without reconciliation, where `docs/BROKER_INTEGRATION_RUNBOOK.md:45-46`
  asks of an adapter "Re-establish subscriptions and a full reconciliation baseline before resuming".
* A fill after a cancel revives the order. A fill id under a new event identity makes the next event a gap.
* `cancel` and `replace` use up a sequence number, so the venue's next event looks like a
  duplicate or leaves a gap.
* A retry after a replace is an idempotency conflict; one while the switch is on is answered
  `REJECTED` although the order lives.

### 5.5 Research

* A run resumed after the cache was refreshed publishes artifacts whose lineage names the old data, and records the
  coverage of the new.
* Bars read before and hashed after a refresh wedge the pipeline for good, as do a checkpoint of empty predictions and a
  damaged checkpointed artifact. A configuration with one instrument never completes.
* A partial parquet file at a final path wedges that version. A bad payload that a checkpoint remembers makes the
  job's failure permanent. A checkpoint can be overwritten by an overlapping run, and one of two overlapping jobs can
  lose its update, as no caller passes the compare-and-swap argument.
* A run that dies after it has stored a raw answer and before its checkpoint downloads again, but `put_raw`
  (`storage/local.py:85`) keeps the first manifest. Its frames carry the later `fetched_at`; repeating the complete job reads
  the earlier one from the manifest, replaces the rows and publishes new versions, although `data/ingestion.py:1`
  calls the service idempotent and `tests/test_phase1_data_foundation.py:51-62` tests that of a job that was not killed.
* After a crash the view can be ahead of the pointer. Three writers at once can leave a current
  version unreadable; the instance has two.
* A listing date can stay too late when a resumed older job brings earlier prices.
* The labels of the last validation days end after the first test decision; the documents promise a purge for training only.
  Predictions exist only where the later label is valid. Universe eligibility does not look at
  `available_at`. A window without a valid sample ends the experiment with "ledger cannot be empty".

### 5.6 Gates

* A comparison of drafts reports no regression when an approved decision loses its evidence, or when a provider answer
  becomes `UNKNOWN`; with one new piece of evidence elsewhere `admission_may_improve` is then true. ADR 0020, lines 25-26,
  says "Removing evidence or weakening a critical decision cannot improve admission"; `NothingLostInSteps` follows the
  code's own regressions and does not see it.
* Three of the code's regressions never fire on their own: the rollback license is always unknown, loading requires all
  broker blockers, and the security regression repeats the operator's decisions.
* Restore drills need only be named, and a broker blocker may name, besides an official document, others that are not
  there: run `admission`, against `docs/READINESS_DECISION_PACK_SCHEMA.md:25-26`.
* A provider without datasets passes its gate. Of two items for one broker blocker the last counts. The date of admission is the pack's own, not the clock's.
* An approval whose promoter died before the target remains; a retry of the same request completes it. The reader
  looks at neither approval nor candidate. Two requests for one candidate give two targets.

## 6. Not modelled

* **Content rather than state.** Feature values, fitted models, scores, statistics, report layout: floating point and
  third-party fitting. The models keep which samples exist and what they were made from.
* **Readers and views.** The dashboard, health, the daily report's content, `pipeline/adapters.py`; they change nothing.
* **Abstracted parts of modelled components.** The misfire branch of the scheduler (it needs `catch_up` off and a clock ahead of
  `scheduled_at`; the service passes one frozen `as_of` for both). `shutdown`, which the service does not call. Count and hash findings of
  `reconcile_oms`. Alerts, metrics and heartbeats. The figures that risk limits compare. The
  soak runner's final checks, and its restart, which projects earlier cycles again. The retries and rate
  limit of the data provider, provenance capture. Six of the ten pipeline stages in the instance (the module takes any).
  `assess_stream` of `data/production.py`, corporate-action adjustment, schema checks and provider cross validation. Conversion of events to payloads and back.
* **The step from a draft to a pack**, which people do by hand.
* **Records only**: `security/readiness.py`, `domain/*`, configuration, logging, argument parsing.
* **The legacy web backtester** (`twbacktest/`, `static/`), a separate single-user demonstration.

## 7. Plan

Written so far, in this order: the OMS, its lifecycle and their proofs; the service and its proofs; ledger, backtest and replay;
the offline broker and its proofs; the desk; store, pipeline, ingestion; learning; promotion, intake and
admission with their proofs.

Next, by importance:

1. The soak runner's restart and final checks on top of `PaperDesk`; alerts with cooldown and escalation.
2. The comparison of intake drafts with two pieces of evidence, and the pipeline with all ten stages, as larger instances.
3. Provider retries and stream assessment on the ingestion side.
