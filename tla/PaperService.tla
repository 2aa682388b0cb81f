---------------------------- MODULE PaperService ----------------------------
(***************************************************************************)
(* The paper service: PaperRuntime.run_once under its supervisor, with the *)
(* scheduler's run table and leader lease, the startup checks and the      *)
(* persisted safe mode (src/island_quant/operations/{runtime,scheduler,    *)
(* lifecycle,monitoring}.py).                                              *)
(*                                                                         *)
(* A process runs one cycle at a time for a session and an as_of that its  *)
(* caller chooses; as_of is the frozen clock of the whole cycle, and one   *)
(* unit of time stands for the backoff of a first attempt.  Each database  *)
(* transaction is one step: a process may be interleaved with others, or   *)
(* die, between two of them.                                               *)
(*                                                                         *)
(* The OMS is seen through its summary per session (orders): PaperOMS has  *)
(* the detail.  Metrics, alerts, heartbeats, the portfolio projection and  *)
(* the dashboard's current target are written and never decide anything    *)
(* here, so the model leaves them out; so is what only other callers than  *)
(* run_once use (shutdown, and the misfire branch, which needs catch_up to *)
(* be off and a clock ahead of scheduled_at).                              *)
(***************************************************************************)
EXTENDS Integers, Sequences, FiniteSets

CONSTANTS
  Processes,      \* processes that call run_once
  Owner,          \* [Processes -> names] the owner each passes to PaperScheduler
  Sessions,       \* trading sessions of the pinned calendar
  Strategy,       \* the sessions run with a target artifact
  Jobs,           \* the sequence STANDARD_JOBS
  Times,          \* the instants that as_of may be
  Forward,        \* BOOLEAN: as_of never goes back from one call to the next
  MaxAttempts, Backoff, Grace,  \* JobDefinition
  Lease,                        \* ttl of the leader lock
  Window, MaxStarts,            \* crash loop protection
  MaxCrashes, LastCrash,        \* bounds: how many crashes, and up to which as_of
  MaxResumes                    \* bound: how many manual resumes

JobNames == { Jobs[j] : j \in DOMAIN Jobs }

ASSUME ServiceAssumption ==
  /\ Strategy \subseteq Sessions
  /\ Jobs \in Seq({ "data_freshness_check", "decision_snapshot", "feature_inference",
                    "target_generation", "risk_evaluation", "paper_order_submission",
                    "reconciliation", "mark_to_market", "daily_report",
                    "health_heartbeat" })
  /\ Len(Jobs) > 0
  /\ \A i, j \in DOMAIN Jobs : Jobs[i] = Jobs[j] => i = j
  /\ Times \subseteq Nat
  /\ Forward \in BOOLEAN
  /\ MaxAttempts \in Nat \ {0} /\ Backoff \in Nat /\ Grace \in Nat
  /\ Lease \in Nat /\ Window \in Nat /\ MaxStarts \in Nat
  /\ MaxCrashes \in Nat /\ LastCrash \in Int /\ MaxResumes \in Nat

VARIABLES
  scheduler_runs,   \* [Sessions -> [JobNames -> row]]
  scheduler_lock,   \* the leader row: owner and expires_at
  service_state,    \* "not_started" (a safe mode), "resumed" or "safe_mode"
  service_starts,   \* the instants of the recorded starts
  orders,           \* per session, the orders its target asks for
  reports,          \* the daily reports written
  process,          \* per process, where it is in run_once and its locals
  brokers,          \* per process, the sessions whose orders its broker knows
  latest,           \* the latest as_of so far
  crashes, resumes

store == <<scheduler_runs, scheduler_lock, service_state, service_starts, orders, reports>>
bounds == <<latest, crashes, resumes>>
vars == <<scheduler_runs, scheduler_lock, service_state, service_starts, orders, reports,
          process, brokers, latest, crashes, resumes>>

NoTime == -1
NoRow == [state |-> "none", attempts |-> 0, next_attempt_at |-> NoTime, started_at |-> NoTime]
NoOwner == "nobody"

NoSession == "none"

\* A process outside run_once.  target says that its target_snapshot is set.
IdleProcess == [pc |-> "idle", session |-> NoSession, as_of |-> NoTime,
                job |-> 1, attempts |-> 0, target |-> FALSE]

---------------------------------------------------------------------------
(* run_once: startup.                                                     *)

At(p, pc) == process[p].pc = pc
Goes(p, pc) == process' = [process EXCEPT ![p].pc = pc]
Returns(p) == process' = [process EXCEPT ![p] = IdleProcess]

Start(p, s, t) ==
  /\ At(p, "idle")
  /\ Forward => latest <= t
  /\ process' = [process EXCEPT ![p] =
       [pc |-> "starting", session |-> s, as_of |-> t,
        job |-> 1, attempts |-> 0, target |-> FALSE]]
  /\ latest' = IF latest < t THEN t ELSE latest
  /\ UNCHANGED <<store, brokers, crashes, resumes>>

\* record_start: forget the starts before the window, add this one, count.
RecordStart(p) ==
  LET t == process[p].as_of
      recent == { u \in service_starts : u >= t - Window } \cup {t}
  IN
  /\ At(p, "starting")
  /\ service_starts' = recent
  /\ Goes(p, IF Cardinality(recent) <= MaxStarts THEN "reconciling" ELSE "stopping")
  /\ UNCHANGED <<scheduler_runs, scheduler_lock, service_state, orders, reports,
                 brokers, bounds>>

\* reconcile_oms: a submitted order that this process's broker does not know.
MissingBrokerOrder(p) == \E s \in Sessions : orders[s] = "open" /\ s \notin brokers[p]

\* The database may also turn out to be unreadable (OMSPersistenceError).
Reconcile(p) ==
  /\ At(p, "reconciling")
  /\ \/ ~MissingBrokerOrder(p) /\ Goes(p, "checking")
     \/ Goes(p, "stopping")
  /\ UNCHANGED <<store, brokers, bounds>>

\* Mutant: startup takes itself to be ready whatever the persisted state says.
CheckStateAlwaysReady(p) ==
  /\ At(p, "checking")
  /\ IF service_state = "not_started" THEN Goes(p, "resuming") ELSE Goes(p, "leading")
  /\ UNCHANGED <<store, brokers, bounds>>

\* The persisted safe mode decides, except for the one a new database starts in.
CheckState(p) ==
  /\ At(p, "checking")
  /\ CASE service_state = "not_started" -> Goes(p, "resuming")
       [] service_state = "resumed" -> Goes(p, "leading")
       [] OTHER -> Returns(p)
  /\ UNCHANGED <<store, brokers, bounds>>

\* resume("startup checks passed"), after which the state is read again.
AutoResume(p) ==
  /\ At(p, "resuming")
  /\ service_state' = "resumed"
  /\ Goes(p, "checking")
  /\ UNCHANGED <<scheduler_runs, scheduler_lock, service_starts, orders, reports,
                 brokers, bounds>>

\* Mutant: an expired lease and a live one are taken alike.
LeaseFreeAlways(p) == TRUE

LeaseFree(p) ==
  \/ scheduler_lock.expires_at <= process[p].as_of
  \/ scheduler_lock.owner = Owner[p]

acquire_leader(p) ==
  /\ At(p, "leading")
  /\ IF LeaseFree(p)
     THEN /\ scheduler_lock' = [owner |-> Owner[p], expires_at |-> process[p].as_of + Lease]
          /\ Goes(p, "scheduling")
     ELSE Goes(p, "stopping") /\ UNCHANGED scheduler_lock
  /\ UNCHANGED <<scheduler_runs, service_state, service_starts, orders, reports,
                 brokers, bounds>>

\* enter_safe_mode, and run_once returns.
enter_safe_mode(p) ==
  /\ At(p, "stopping")
  /\ service_state' = "safe_mode"
  /\ Returns(p)
  /\ UNCHANGED <<scheduler_runs, scheduler_lock, service_starts, orders, reports,
                 brokers, bounds>>

---------------------------------------------------------------------------
(* run_once: PaperScheduler.run for each job in turn.                     *)

Job(p) == Jobs[process[p].job]
Row(p) == scheduler_runs[process[p].session][Job(p)]

\* The loop goes on with the next job, or run_once returns after the last one.
NextJob(p) ==
  process' = [process EXCEPT ![p] =
    IF process[p].job < Len(Jobs)
    THEN [process[p] EXCEPT !.pc = "scheduling", !.job = @ + 1]
    ELSE IdleProcess]

\* Mutant: a row left running is never taken over.
StillRunningForever(p) == Row(p).state = "running"

\* A run that has been claimed and may still be alive.
StillRunning(p) ==
  /\ Row(p).state = "running"
  /\ process[p].as_of - Row(p).started_at <= Grace

\* Mutant: a completed run is claimed again.
RunSkippedNever(p) == StillRunning(p)

\* run returns COMPLETED or RUNNING: nothing to do, and the loop goes on.
RunSkipped(p) == Row(p).state = "completed" \/ StillRunning(p)

\* run returns RETRY: it is too early for the next attempt.
RunPostponed(p) == process[p].as_of < Row(p).next_attempt_at

\* The run table is read; what follows is decided on the row as it was read.
ReadRun(p) ==
  /\ At(p, "scheduling")
  /\ CASE RunSkipped(p) -> NextJob(p)
       [] ~RunSkipped(p) /\ RunPostponed(p) -> Goes(p, "stopping")
       [] OTHER -> process' = [process EXCEPT ![p] =
                     [process[p] EXCEPT !.pc = "claiming", !.attempts = Row(p).attempts + 1]]
  /\ UNCHANGED <<store, brokers, bounds>>

\* p writes its job's row.
Writes(p, row) ==
  scheduler_runs' = [scheduler_runs EXCEPT ![process[p].session][Job(p)] = row]

\* The upsert to running, which leaves next_attempt_at of an existing row alone.
ClaimRun(p) ==
  /\ At(p, "claiming")
  /\ Writes(p, [Row(p) EXCEPT !.state = "running", !.attempts = process[p].attempts,
                              !.started_at = process[p].as_of])
  /\ Goes(p, "handling")
  /\ UNCHANGED <<scheduler_lock, service_state, service_starts, orders, reports,
                 brokers, bounds>>

\* The handler has returned.
CompleteRun(p) ==
  /\ At(p, "completing")
  /\ Writes(p, [Row(p) EXCEPT !.state = "completed"])
  /\ NextJob(p)
  /\ UNCHANGED <<scheduler_lock, service_state, service_starts, orders, reports,
                 brokers, bounds>>

\* Mutant: run_once goes on with the next job after a failed one.
FailRunGoesOn(p) ==
  /\ At(p, "failing")
  /\ Writes(p, [Row(p) EXCEPT
       !.state = IF process[p].attempts >= MaxAttempts THEN "dead_letter" ELSE "retry",
       !.next_attempt_at = process[p].as_of + Backoff * process[p].attempts])
  /\ NextJob(p)
  /\ UNCHANGED <<scheduler_lock, service_state, service_starts, orders, reports,
                 brokers, bounds>>

\* The handler has raised; run_once stops at a failed job.
FailRun(p) ==
  /\ At(p, "failing")
  /\ Writes(p, [Row(p) EXCEPT
       !.state = IF process[p].attempts >= MaxAttempts THEN "dead_letter" ELSE "retry",
       !.next_attempt_at = process[p].as_of + Backoff * process[p].attempts])
  /\ Goes(p, "stopping")
  /\ UNCHANGED <<scheduler_lock, service_state, service_starts, orders, reports,
                 brokers, bounds>>

---------------------------------------------------------------------------
(* run_once: the handlers.                                                *)

Handles(p, name) == At(p, "handling") /\ Job(p) = name

DecisionSnapshot(p) ==
  /\ Handles(p, "decision_snapshot")
  /\ process' = [process EXCEPT ![p] =
       [process[p] EXCEPT !.pc = "completing", !.target = process[p].session \in Strategy]]
  /\ UNCHANGED <<store, brokers, bounds>>

\* The jobs that enforce limits or reconcile enter safe mode before they raise.
GuardedJobs == { "data_freshness_check", "risk_evaluation", "reconciliation" }

\* A handler raises before it has had an effect.
HandlerRaises(p) ==
  /\ At(p, "handling")
  /\ Goes(p, "failing")
  /\ \/ UNCHANGED service_state
     \/ Job(p) \in GuardedJobs /\ service_state' = "safe_mode"
  /\ UNCHANGED <<scheduler_runs, scheduler_lock, service_starts, orders, reports,
                 brokers, bounds>>

\* Mutant: execute takes the target published last, of whatever session, instead of
\* the one this cycle has decided on.
RiskEvaluationAnyTarget(p) ==
  /\ Handles(p, "risk_evaluation")
  /\ \/ UNCHANGED orders
     \/ \E s \in Strategy :
          /\ scheduler_runs[s]["decision_snapshot"].state = "completed"
          /\ orders[s] \in {"none", "closed"}
          /\ orders' = [orders EXCEPT ![s] = "pending"]
  /\ \/ Goes(p, "completing") /\ UNCHANGED service_state
     \/ Goes(p, "failing") /\ service_state' \in {service_state, "safe_mode"}
  /\ UNCHANGED <<scheduler_runs, scheduler_lock, service_starts, reports, brokers, bounds>>

\* execute queues the orders the target asks for: none that would repeat a
\* pending or open one, possibly new ones once those are closed.
RiskEvaluation(p) ==
  LET s == process[p].session IN
  /\ Handles(p, "risk_evaluation")
  /\ IF process[p].target /\ orders[s] \in {"none", "closed"}
     THEN \E asked \in {"pending", "closed"} : orders' = [orders EXCEPT ![s] = asked]
     ELSE UNCHANGED orders
  /\ \/ Goes(p, "completing") /\ UNCHANGED service_state
     \/ Goes(p, "failing") /\ service_state' \in {service_state, "safe_mode"}
  /\ UNCHANGED <<scheduler_runs, scheduler_lock, service_starts, reports, brokers, bounds>>

\* process_outbox delivers what is pending, of any session, or raises on the way.
OrderSubmission(p) ==
  LET pending == { s \in Sessions : orders[s] = "pending" } IN
  /\ Handles(p, "paper_order_submission")
  /\ \E delivered \in SUBSET pending : \E closed \in SUBSET delivered :
       /\ orders' = [s \in Sessions |->
            IF s \in closed THEN "closed"
            ELSE IF s \in delivered THEN "open" ELSE orders[s]]
       /\ brokers' = [brokers EXCEPT ![p] = @ \cup delivered]
       /\ \/ delivered = pending /\ Goes(p, "completing")
          \/ Goes(p, "failing")
  /\ UNCHANGED <<scheduler_runs, scheduler_lock, service_state, service_starts, reports,
                 bounds>>

\* The report's lineage is that of target_snapshot, if there is one.
DailyReport(p) ==
  /\ Handles(p, "daily_report")
  /\ reports' = reports \cup {[session |-> process[p].session, lineage |-> process[p].target]}
  /\ Goes(p, "completing")
  /\ UNCHANGED <<scheduler_runs, scheduler_lock, service_state, service_starts, orders,
                 brokers, bounds>>

\* The other jobs read, project and publish metrics.
OtherJob(p) ==
  /\ At(p, "handling")
  /\ Job(p) \notin {"decision_snapshot", "risk_evaluation", "paper_order_submission",
                    "daily_report"}
  /\ Goes(p, "completing")
  /\ UNCHANGED <<store, brokers, bounds>>

---------------------------------------------------------------------------
(* The environment.                                                       *)

\* A process ends between cycles, and its broker's memory with it.
Exit(p) ==
  /\ At(p, "idle")
  /\ brokers[p] # {}
  /\ brokers' = [brokers EXCEPT ![p] = {}]
  /\ UNCHANGED <<store, process, bounds>>

\* A process dies inside run_once.
Crash(p) ==
  /\ ~At(p, "idle")
  /\ crashes < MaxCrashes /\ process[p].as_of <= LastCrash
  /\ crashes' = crashes + 1
  /\ Returns(p)
  /\ brokers' = [brokers EXCEPT ![p] = {}]
  /\ UNCHANGED <<store, latest, resumes>>

\* Manual resume, with a reason.
resume ==
  /\ service_state = "safe_mode"
  /\ resumes < MaxResumes
  /\ service_state' = "resumed"
  /\ resumes' = resumes + 1
  /\ UNCHANGED <<scheduler_runs, scheduler_lock, service_starts, orders, reports,
                 process, brokers, latest, crashes>>

---------------------------------------------------------------------------
Init ==
  /\ scheduler_runs = [s \in Sessions |-> [j \in JobNames |-> NoRow]]
  /\ scheduler_lock = [owner |-> NoOwner, expires_at |-> NoTime]
  /\ service_state = "not_started"
  /\ service_starts = {}
  /\ orders = [s \in Sessions |-> "none"]
  /\ reports = {}
  /\ process = [p \in Processes |-> IdleProcess]
  /\ brokers = [p \in Processes |-> {}]
  /\ latest = 0
  /\ crashes = 0
  /\ resumes = 0

Handler(p) ==
  \/ DecisionSnapshot(p) \/ RiskEvaluation(p) \/ OrderSubmission(p)
  \/ DailyReport(p) \/ OtherJob(p) \/ HandlerRaises(p)

Startup(p) ==
  \/ RecordStart(p) \/ Reconcile(p) \/ CheckState(p) \/ AutoResume(p)
  \/ acquire_leader(p)

ProcessStep(p) ==
  \/ Startup(p)
  \/ ReadRun(p) \/ ClaimRun(p) \/ Handler(p) \/ CompleteRun(p) \/ FailRun(p)
  \/ enter_safe_mode(p)

Next ==
  \/ \E p \in Processes :
       \/ \E s \in Sessions, t \in Times : Start(p, s, t)
       \/ ProcessStep(p) \/ Exit(p) \/ Crash(p)
  \/ resume

Spec == Init /\ [][Next]_vars

\* A process that is not killed goes on, and the supervisor keeps calling run_once
\* for every session of the calendar, in the end at the last instant.
FairSpec ==
  /\ Spec
  /\ \A p \in Processes :
       /\ WF_vars(ProcessStep(p))
       /\ \A s \in Sessions :
            SF_vars(\E t \in Times : (\A u \in Times : u <= t) /\ Start(p, s, t))

---------------------------------------------------------------------------
(* Properties.                                                            *)

RunState == {"none", "running", "completed", "retry", "dead_letter"}
RunRow == [state : RunState, attempts : Nat, next_attempt_at : Int, started_at : Int]
ProcessPc == {"idle", "starting", "reconciling", "checking", "resuming", "leading",
              "scheduling", "claiming", "handling", "completing", "failing", "stopping"}

\* Every table and every process has its type, and a process inside run_once has a
\* session, an instant and one of the jobs.
TypeOK ==
  /\ scheduler_runs \in [Sessions -> [JobNames -> RunRow]]
  /\ scheduler_lock \in [owner : {NoOwner} \cup {Owner[p] : p \in Processes},
                         expires_at : Int]
  /\ service_state \in {"not_started", "resumed", "safe_mode"}
  /\ service_starts \subseteq Times
  /\ orders \in [Sessions -> {"none", "pending", "open", "closed"}]
  /\ reports \subseteq [session : Sessions, lineage : BOOLEAN]
  /\ process \in [Processes ->
       [pc : ProcessPc, session : Sessions \cup {NoSession}, as_of : Int,
        job : DOMAIN Jobs, attempts : Nat, target : BOOLEAN]]
  /\ \A p \in Processes :
       ~At(p, "idle") => process[p].session \in Sessions /\ process[p].as_of \in Times
  /\ brokers \in [Processes -> SUBSET Sessions]
  /\ latest \in Nat /\ crashes \in 0..MaxCrashes /\ resumes \in 0..MaxResumes

\* The process has passed acquire_leader and is inside the loop over the jobs.
Leading(p) == process[p].pc \in {"scheduling", "claiming", "handling", "completing", "failing"}

\* Processes that pass different owners never lead at instants closer than a lease:
\* the second one to enter the loop finds the first one's lease expired, even
\* though nobody gives a lease back and each cycle's clock stands still.
LeaseExclusive ==
  \A p, q \in Processes :
    Leading(p) /\ Leading(q) /\ Owner[p] # Owner[q] =>
      \/ process[p].as_of + Lease <= process[q].as_of
      \/ process[q].as_of + Lease <= process[p].as_of

\* Fail closed: no job is claimed, run or completed while safe mode is on, whether
\* it was on at startup, came from a limit checked inside a handler, or follows a
\* failed job.
NoJobInSafeMode ==
  \A p \in Processes :
    process[p].pc \in {"scheduling", "claiming", "handling", "completing"} =>
      service_state = "resumed"

\* A completed run stays as it is: no crash, retry, resume or repeated cycle claims
\* it again or overwrites its outcome (PAPER_OPERATIONS_RUNBOOK.md, line 62).
CompletedStays ==
  [][\A s \in Sessions, j \in JobNames :
       scheduler_runs[s][j].state = "completed" =>
         scheduler_runs'[s][j] = scheduler_runs[s][j]]_vars

Finished(s) == \A j \in JobNames : scheduler_runs[s][j].state = "completed"

\* A session that has finished, which CompletedStays keeps so, is left alone: neither
\* repeating it nor a cycle of another session writes a report of it or asks for
\* orders of it (ADR 0016: the soak runner repeats every session and requires an
\* unchanged state).
ReplayChangesNothing ==
  [][\A s \in Sessions : Finished(s) =>
       /\ {r \in reports' : r.session = s} = {r \in reports : r.session = s}
       /\ orders'[s] = "pending" => orders[s] = "pending"]_vars

\* A job is claimed only when every earlier job of its session has completed or is
\* taken to be still running, never past one that waits for a retry or is dead.
ClaimsInOrder ==
  [][\A s \in Sessions, j \in DOMAIN Jobs :
       scheduler_runs[s][Jobs[j]].attempts # scheduler_runs'[s][Jobs[j]].attempts =>
         \A i \in 1..(j - 1) :
           scheduler_runs[s][Jobs[i]].state \in {"completed", "running"}]_vars

\* Under a supervisor that keeps calling, every session finishes in the end, crashes
\* in the middle of a job included, unless the service ends up in safe mode.
SessionsFinish ==
  \A s \in Sessions : <>Finished(s) \/ <>[](service_state = "safe_mode")

\* Research lineage is stored with each order and in the daily report
\* (PAPER_OPERATIONS_RUNBOOK.md, lines 37-38): a session that has asked for orders
\* is not reported as one without a strategy.
ReportCarriesLineage == \A r \in reports : orders[r.session] # "none" => r.lineage
=============================================================================
