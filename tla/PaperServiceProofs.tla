------------------------- MODULE PaperServiceProofs -------------------------
(***************************************************************************)
(* Proofs about the paper service: types, the exclusion that the leader    *)
(* lease gives to processes with owners of their own and clocks that move  *)
(* forward, and, for one process at a time, that safe mode stops every job *)
(* and that a completed run is never claimed again.                        *)
(***************************************************************************)
EXTENDS PaperService, TLAPS

---------------------------------------------------------------------------
(* Types.                                                                 *)

ProcessRow ==
  [pc : ProcessPc, session : Sessions \cup {NoSession}, as_of : Int,
   job : DOMAIN Jobs, attempts : Nat, target : BOOLEAN]

\* The row of a process, as TypeOK has it.
LEMMA ProcessTyped ==
  ASSUME TypeOK, NEW p \in Processes
  PROVE  /\ process[p] \in ProcessRow
         /\ process[p].job \in DOMAIN Jobs
         /\ process[p].attempts \in Nat
         /\ process[p].as_of \in Int
         /\ Job(p) \in JobNames
BY DEF TypeOK, ProcessRow, Job, JobNames

\* Jobs is a finite sequence with at least one element.
LEMMA JobsFinite == /\ Len(Jobs) \in Nat
                    /\ DOMAIN Jobs = 1..Len(Jobs)
                    /\ 1 \in DOMAIN Jobs
BY ServiceAssumption

\* The instant of a retry is an integer.
LEMMA DelayTyped ==
  ASSUME NEW t \in Int, NEW b \in Int, NEW n \in Int
  PROVE  t + b * n \in Int
OBVIOUS

\* An idle process is typed.
LEMMA IdleTyped == IdleProcess \in ProcessRow
BY JobsFinite DEF IdleProcess, ProcessRow, ProcessPc, NoTime

\* The row a process reads is a row.
LEMMA RowTyped ==
  ASSUME TypeOK, NEW p \in Processes, ~At(p, "idle")
  PROVE  /\ process[p].session \in Sessions
         /\ process[p].as_of \in Times
         /\ process[p].as_of \in Nat
         /\ Row(p) \in RunRow
BY ProcessTyped, ServiceAssumption DEF TypeOK, Row, RunRow

ProcessesTyped ==
  /\ process \in [Processes -> ProcessRow]
  /\ \A p \in Processes :
       ~At(p, "idle") => process[p].session \in Sessions /\ process[p].as_of \in Times

\* Only p's row moves, to a typed row that is idle or keeps its session and instant.
LEMMA OneProcessTyped ==
  ASSUME ProcessesTyped, NEW p \in Processes, NEW row \in ProcessRow,
         row.pc # "idle" => row.session \in Sessions /\ row.as_of \in Times,
         process' = [process EXCEPT ![p] = row]
  PROVE  ProcessesTyped'
BY DEF ProcessesTyped, At

\* A process that only moves on.
LEMMA GoesTyped ==
  ASSUME TypeOK, NEW p \in Processes, ~At(p, "idle"), NEW pc \in ProcessPc, Goes(p, pc)
  PROVE  ProcessesTyped'
<1> DEFINE row == [process[p] EXCEPT !.pc = pc]
<1>1. ProcessesTyped
  BY DEF TypeOK, ProcessesTyped, ProcessRow
<1>2. row \in ProcessRow
  BY ProcessTyped DEF ProcessRow
<1>3. row.session = process[p].session /\ row.as_of = process[p].as_of
  BY ProcessTyped DEF ProcessRow
<1>4. process' = [process EXCEPT ![p] = row]
  BY DEF Goes
<1> QED
  BY <1>1, <1>2, <1>3, <1>4, RowTyped, OneProcessTyped

LEMMA ReturnsTyped ==
  ASSUME TypeOK, NEW p \in Processes, Returns(p)
  PROVE  ProcessesTyped'
<1>1. ProcessesTyped
  BY DEF TypeOK, ProcessesTyped, ProcessRow
<1> QED
  BY <1>1, IdleTyped, OneProcessTyped DEF Returns, IdleProcess

LEMMA NextJobTyped ==
  ASSUME TypeOK, NEW p \in Processes, ~At(p, "idle"), NextJob(p)
  PROVE  ProcessesTyped'
<1> DEFINE row == [process[p] EXCEPT !.pc = "scheduling", !.job = @ + 1]
<1>1. ProcessesTyped
  BY DEF TypeOK, ProcessesTyped, ProcessRow
<1>2. CASE process[p].job < Len(Jobs)
  <2>1. process[p].job + 1 \in DOMAIN Jobs
    BY <1>2, JobsFinite, ProcessTyped
  <2>2. row \in ProcessRow
    BY <2>1, ProcessTyped DEF ProcessRow, ProcessPc
  <2>3. row.session = process[p].session /\ row.as_of = process[p].as_of
    BY ProcessTyped DEF ProcessRow
  <2>4. process' = [process EXCEPT ![p] = row]
    BY <1>2 DEF NextJob
  <2> QED
    BY <1>1, <2>2, <2>3, <2>4, RowTyped, OneProcessTyped
<1>3. CASE ~(process[p].job < Len(Jobs))
  <2>1. Returns(p)
    BY <1>3 DEF NextJob, Returns
  <2> QED
    BY <2>1, ReturnsTyped
<1> QED
  BY <1>2, <1>3

StoreTyped ==
  /\ scheduler_runs \in [Sessions -> [JobNames -> RunRow]]
  /\ scheduler_lock \in [owner : {NoOwner} \cup {Owner[p] : p \in Processes},
                         expires_at : Int]
  /\ service_state \in {"not_started", "resumed", "safe_mode"}
  /\ service_starts \subseteq Times
  /\ orders \in [Sessions -> {"none", "pending", "open", "closed"}]
  /\ reports \subseteq [session : Sessions, lineage : BOOLEAN]

RestTyped ==
  /\ brokers \in [Processes -> SUBSET Sessions]
  /\ latest \in Nat /\ crashes \in 0..MaxCrashes /\ resumes \in 0..MaxResumes

\* TypeOK in three parts that different steps disturb.
LEMMA TypeParts == TypeOK <=> ProcessesTyped /\ StoreTyped /\ RestTyped
BY DEF TypeOK, ProcessesTyped, ProcessRow, StoreTyped, RestTyped

LEMMA TypePartsNext == ProcessesTyped' /\ StoreTyped' /\ RestTyped' => TypeOK'
BY DEF TypeOK, ProcessesTyped, ProcessRow, StoreTyped, RestTyped

\* A write of a typed row.
LEMMA WritesTyped ==
  ASSUME TypeOK, NEW p \in Processes, ~At(p, "idle"), NEW row \in RunRow, Writes(p, row)
  PROVE  scheduler_runs' \in [Sessions -> [JobNames -> RunRow]]
BY RowTyped, ProcessTyped DEF TypeOK, Writes

\* Init
LEMMA InitTyped == Init => TypeOK
<1> SUFFICES ASSUME Init PROVE ProcessesTyped /\ StoreTyped /\ RestTyped
  BY TypeParts
<1>1. ProcessesTyped
  BY IdleTyped DEF Init, ProcessesTyped, At, IdleProcess
<1>2. StoreTyped
  BY DEF Init, StoreTyped, NoRow, RunRow, RunState, NoTime
<1>3. RestTyped
  BY ServiceAssumption DEF Init, RestTyped
<1> QED
  BY <1>1, <1>2, <1>3

\* The steps of startup keep every type.
LEMMA StartupTyped ==
  ASSUME TypeOK, NEW p \in Processes, Startup(p)
  PROVE  TypeOK'
<1> USE DEF At
<1>0. StoreTyped /\ RestTyped
  BY TypeParts
<1>1. CASE RecordStart(p)
  <2>1. ProcessesTyped'
    BY <1>1, GoesTyped DEF RecordStart, ProcessPc
  <2>2. process[p].as_of \in Times
    BY <1>1, RowTyped DEF RecordStart
  <2>4. UNCHANGED <<scheduler_runs, scheduler_lock, service_state, orders, reports,
                    brokers, bounds>>
    BY <1>1 DEF RecordStart
  <2>3. service_starts' \subseteq Times
    BY <1>0, <1>1, <2>2 DEF RecordStart, StoreTyped
  <2> QED
    BY <1>0, <2>1, <2>3, <2>4, TypePartsNext DEF StoreTyped, RestTyped, bounds
<1>2. CASE Reconcile(p)
  <2>1. ProcessesTyped'
    BY <1>2, GoesTyped DEF Reconcile, ProcessPc
  <2> QED
    BY <1>0, <1>2, <2>1, TypePartsNext DEF Reconcile, StoreTyped, RestTyped, store, bounds
<1>3. CASE CheckState(p)
  <2>2. ProcessesTyped'
    BY <1>3, GoesTyped, ReturnsTyped DEF CheckState, ProcessPc
  <2> QED
    BY <1>0, <1>3, <2>2, TypePartsNext DEF CheckState, StoreTyped, RestTyped, store, bounds
<1>4. CASE AutoResume(p)
  <2>1. ProcessesTyped'
    BY <1>4, GoesTyped DEF AutoResume, ProcessPc
  <2> QED
    BY <1>0, <1>4, <2>1, TypePartsNext DEF AutoResume, StoreTyped, RestTyped, bounds
<1>5. CASE acquire_leader(p)
  <2>1. ProcessesTyped'
    BY <1>5, GoesTyped DEF acquire_leader, ProcessPc
  <2>2. process[p].as_of + Lease \in Int
    BY <1>5, RowTyped, ServiceAssumption DEF acquire_leader
  <2>3. StoreTyped'
    BY <1>0, <1>5, <2>2 DEF acquire_leader, StoreTyped
  <2> QED
    BY <1>0, <1>5, <2>1, <2>3, TypePartsNext DEF acquire_leader, RestTyped, bounds
<1> QED
  BY <1>1, <1>2, <1>3, <1>4, <1>5 DEF Startup

\* The steps of the job loop keep every type.
LEMMA LoopTyped ==
  ASSUME TypeOK, NEW p \in Processes,
         ReadRun(p) \/ ClaimRun(p) \/ CompleteRun(p) \/ FailRun(p) \/ enter_safe_mode(p)
  PROVE  TypeOK'
<1> USE DEF At
<1>0. StoreTyped /\ RestTyped
  BY TypeParts
<1>1. CASE ReadRun(p)
  <2>1. CASE NextJob(p)
    <3>1. ProcessesTyped'
      BY <1>1, <2>1, NextJobTyped DEF ReadRun
    <3> QED
      BY <1>0, <1>1, <3>1, TypePartsNext DEF ReadRun, StoreTyped, RestTyped, store, bounds
  <2>2. CASE Goes(p, "stopping")
    <3>1. ProcessesTyped'
      BY <1>1, <2>2, GoesTyped DEF ReadRun, ProcessPc
    <3> QED
      BY <1>0, <1>1, <3>1, TypePartsNext DEF ReadRun, StoreTyped, RestTyped, store, bounds
  <2>3. CASE process' = [process EXCEPT ![p] =
                [process[p] EXCEPT !.pc = "claiming", !.attempts = Row(p).attempts + 1]]
    <3> DEFINE row == [process[p] EXCEPT !.pc = "claiming", !.attempts = Row(p).attempts + 1]
    <3>1. Row(p).attempts + 1 \in Nat
      BY <1>1, RowTyped DEF ReadRun, RunRow
    <3>2. row \in ProcessRow
      BY <3>1, ProcessTyped DEF ProcessRow, ProcessPc
    <3>3. row.session = process[p].session /\ row.as_of = process[p].as_of
      BY ProcessTyped DEF ProcessRow
    <3>4. ProcessesTyped
      BY TypeParts
    <3>5. ProcessesTyped'
      BY <1>1, <2>3, <3>2, <3>3, <3>4, RowTyped, OneProcessTyped DEF ReadRun
    <3> QED
      BY <1>0, <1>1, <3>5, TypePartsNext DEF ReadRun, StoreTyped, RestTyped, store, bounds
  <2> QED
    BY <1>1, <2>1, <2>2, <2>3 DEF ReadRun
<1>2. CASE ClaimRun(p)
  <2>1. ProcessesTyped'
    BY <1>2, GoesTyped DEF ClaimRun, ProcessPc
  <2> DEFINE row == [Row(p) EXCEPT !.state = "running", !.attempts = process[p].attempts,
                                   !.started_at = process[p].as_of]
  <2>2. row \in RunRow
    BY <1>2, RowTyped, ProcessTyped DEF ClaimRun, RunRow, RunState
  <2>3. scheduler_runs' \in [Sessions -> [JobNames -> RunRow]]
    BY <1>2, <2>2, WritesTyped DEF ClaimRun
  <2> QED
    BY <1>0, <1>2, <2>1, <2>3, TypePartsNext DEF ClaimRun, StoreTyped, RestTyped, bounds
<1>3. CASE CompleteRun(p)
  <2>1. ProcessesTyped'
    BY <1>3, NextJobTyped DEF CompleteRun
  <2>2. [Row(p) EXCEPT !.state = "completed"] \in RunRow
    BY <1>3, RowTyped DEF CompleteRun, RunRow, RunState
  <2>3. scheduler_runs' \in [Sessions -> [JobNames -> RunRow]]
    BY <1>3, <2>2, WritesTyped DEF CompleteRun
  <2> QED
    BY <1>0, <1>3, <2>1, <2>3, TypePartsNext DEF CompleteRun, StoreTyped, RestTyped, bounds
<1>4. CASE FailRun(p)
  <2>1. ProcessesTyped'
    BY <1>4, GoesTyped DEF FailRun, ProcessPc
  <2> DEFINE state == IF process[p].attempts >= MaxAttempts THEN "dead_letter" ELSE "retry"
             next == process[p].as_of + Backoff * process[p].attempts
  <2>2. next \in Int
    <3>1. process[p].as_of \in Int /\ process[p].attempts \in Int
      BY ProcessTyped
    <3>2. Backoff \in Int
      BY ServiceAssumption
    <3> QED
      BY <3>1, <3>2, DelayTyped
  <2>3. [Row(p) EXCEPT !.state = state, !.next_attempt_at = next] \in RunRow
    BY <1>4, <2>2, RowTyped DEF FailRun, RunRow, RunState
  <2>4. scheduler_runs' \in [Sessions -> [JobNames -> RunRow]]
    BY <1>4, <2>3, WritesTyped DEF FailRun
  <2> QED
    BY <1>0, <1>4, <2>1, <2>4, TypePartsNext DEF FailRun, StoreTyped, RestTyped, bounds
<1>5. CASE enter_safe_mode(p)
  <2>1. ProcessesTyped'
    BY <1>5, ReturnsTyped DEF enter_safe_mode
  <2> QED
    BY <1>0, <1>5, <2>1, TypePartsNext DEF enter_safe_mode, StoreTyped, RestTyped, bounds
<1> QED
  BY <1>1, <1>2, <1>3, <1>4, <1>5

\* The handlers keep every type.
LEMMA HandlerTyped ==
  ASSUME TypeOK, NEW p \in Processes, Handler(p)
  PROVE  TypeOK'
<1> USE DEF At
<1>0. ProcessesTyped /\ StoreTyped /\ RestTyped
  BY TypeParts
<1>1. CASE DecisionSnapshot(p)
  <2> DEFINE row == [process[p] EXCEPT !.pc = "completing",
                                       !.target = process[p].session \in Strategy]
  <2>1. (process[p].session \in Strategy) \in BOOLEAN
    OBVIOUS
  <2>2. row \in ProcessRow
    BY <2>1, ProcessTyped DEF ProcessRow, ProcessPc
  <2>3. row.session = process[p].session /\ row.as_of = process[p].as_of
    BY ProcessTyped DEF ProcessRow
  <2>4. ~At(p, "idle") /\ process' = [process EXCEPT ![p] = row]
    BY <1>1 DEF DecisionSnapshot, Handles
  <2>5. ProcessesTyped'
    BY <1>0, <2>2, <2>3, <2>4, RowTyped, OneProcessTyped
  <2> QED
    BY <1>0, <1>1, <2>5, TypePartsNext DEF DecisionSnapshot, StoreTyped, RestTyped, store, bounds
<1>2. CASE RiskEvaluation(p)
  <2>1. ProcessesTyped'
    BY <1>2, GoesTyped DEF RiskEvaluation, Handles, ProcessPc
  <2>2. orders' \in [Sessions -> {"none", "pending", "open", "closed"}]
    BY <1>0, <1>2 DEF RiskEvaluation, StoreTyped
  <2>3. service_state' \in {"not_started", "resumed", "safe_mode"}
    BY <1>0, <1>2 DEF RiskEvaluation, StoreTyped
  <2> QED
    BY <1>0, <1>2, <2>1, <2>2, <2>3, TypePartsNext
    DEF RiskEvaluation, StoreTyped, RestTyped, bounds
<1>3. CASE OrderSubmission(p)
  <2>1. ProcessesTyped'
    BY <1>3, GoesTyped DEF OrderSubmission, Handles, ProcessPc
  <2>2. orders' \in [Sessions -> {"none", "pending", "open", "closed"}]
    BY <1>0, <1>3 DEF OrderSubmission, StoreTyped
  <2>3. brokers' \in [Processes -> SUBSET Sessions]
    <3>1. PICK delivered \in SUBSET {s \in Sessions : orders[s] = "pending"} :
            brokers' = [brokers EXCEPT ![p] = @ \cup delivered]
      BY <1>3 DEF OrderSubmission
    <3>2. brokers[p] \cup delivered \in SUBSET Sessions
      BY <1>0 DEF RestTyped
    <3> QED
      BY <1>0, <3>1, <3>2 DEF RestTyped
  <2>4. UNCHANGED <<scheduler_runs, scheduler_lock, service_state, service_starts, reports,
                    bounds>>
    BY <1>3 DEF OrderSubmission
  <2> QED
    BY <1>0, <2>1, <2>2, <2>3, <2>4, TypePartsNext DEF StoreTyped, RestTyped, bounds
<1>4. CASE DailyReport(p)
  <2>1. ProcessesTyped'
    BY <1>4, GoesTyped DEF DailyReport, Handles, ProcessPc
  <2>2. process[p].target \in BOOLEAN
    BY ProcessTyped DEF ProcessRow
  <2>3. process[p].session \in Sessions
    BY <1>4, RowTyped DEF DailyReport, Handles
  <2>4. [session |-> process[p].session, lineage |-> process[p].target]
          \in [session : Sessions, lineage : BOOLEAN]
    BY <2>2, <2>3
  <2>5. reports' \subseteq [session : Sessions, lineage : BOOLEAN]
    BY <1>0, <1>4, <2>4 DEF DailyReport, StoreTyped
  <2> QED
    BY <1>0, <1>4, <2>1, <2>5, TypePartsNext DEF DailyReport, StoreTyped, RestTyped, bounds
<1>5. CASE OtherJob(p)
  <2>1. ProcessesTyped'
    BY <1>5, GoesTyped DEF OtherJob, ProcessPc
  <2> QED
    BY <1>0, <1>5, <2>1, TypePartsNext DEF OtherJob, StoreTyped, RestTyped, store, bounds
<1>6. CASE HandlerRaises(p)
  <2>1. ProcessesTyped'
    BY <1>6, GoesTyped DEF HandlerRaises, ProcessPc
  <2> QED
    BY <1>0, <1>6, <2>1, TypePartsNext DEF HandlerRaises, StoreTyped, RestTyped, bounds
<1> QED
  BY <1>1, <1>2, <1>3, <1>4, <1>5, <1>6 DEF Handler

\* The environment keeps every type.
LEMMA EnvironmentTyped ==
  ASSUME TypeOK, NEW p \in Processes,
         Exit(p) \/ Crash(p) \/ resume \/ \E s \in Sessions, t \in Times : Start(p, s, t)
  PROVE  TypeOK'
<1>0. ProcessesTyped /\ StoreTyped /\ RestTyped
  BY TypeParts
<1>1. CASE Exit(p)
  <2>1. ProcessesTyped'
    BY <1>0, <1>1 DEF Exit, ProcessesTyped, At
  <2> QED
    BY <1>0, <1>1, <2>1, TypePartsNext DEF Exit, StoreTyped, RestTyped, store, bounds
<1>2. CASE Crash(p)
  <2>1. ProcessesTyped'
    BY <1>2, ReturnsTyped DEF Crash
  <2>2. crashes' \in 0..MaxCrashes
    BY <1>0, <1>2, ServiceAssumption DEF Crash, RestTyped
  <2> QED
    BY <1>0, <1>2, <2>1, <2>2, TypePartsNext DEF Crash, StoreTyped, RestTyped, store
<1>3. CASE resume
  <2>1. ProcessesTyped'
    BY <1>0, <1>3 DEF resume, ProcessesTyped, At
  <2>2. resumes' \in 0..MaxResumes
    BY <1>0, <1>3, ServiceAssumption DEF resume, RestTyped
  <2> QED
    BY <1>0, <1>3, <2>1, <2>2, TypePartsNext DEF resume, StoreTyped, RestTyped
<1>4. ASSUME NEW s \in Sessions, NEW t \in Times, Start(p, s, t)
      PROVE  TypeOK'
  <2> DEFINE row == [pc |-> "starting", session |-> s, as_of |-> t,
                     job |-> 1, attempts |-> 0, target |-> FALSE]
  <2>1. t \in Int /\ t \in Nat
    BY ServiceAssumption
  <2>2. row \in ProcessRow
    BY <2>1, JobsFinite DEF ProcessRow, ProcessPc
  <2>3. process' = [process EXCEPT ![p] = row]
    BY <1>4 DEF Start
  <2>4. ProcessesTyped'
    BY <1>0, <2>2, <2>3, OneProcessTyped
  <2>5. latest' \in Nat
    BY <1>0, <1>4, <2>1 DEF Start, RestTyped
  <2>6. UNCHANGED <<store, brokers, crashes, resumes>>
    BY <1>4 DEF Start
  <2> QED
    BY <1>0, <2>4, <2>5, <2>6, TypePartsNext DEF StoreTyped, RestTyped, store
<1> QED
  BY <1>1, <1>2, <1>3, <1>4

LEMMA NextTyped == TypeOK /\ [Next]_vars => TypeOK'
<1> SUFFICES ASSUME TypeOK, [Next]_vars PROVE TypeOK'
  OBVIOUS
<1>1. CASE UNCHANGED vars
  BY <1>1 DEF vars, TypeOK, At
<1>2. CASE resume
  <2>1. CASE Processes = {}
    <3>1. ProcessesTyped' /\ StoreTyped' /\ RestTyped'
      BY <1>2, <2>1, TypeParts, ServiceAssumption
      DEF resume, ProcessesTyped, StoreTyped, RestTyped
    <3> QED
      BY <3>1, TypePartsNext
  <2>2. CASE \E p \in Processes : TRUE
    BY <1>2, <2>2, EnvironmentTyped
  <2> QED
    BY <2>1, <2>2
<1>3. ASSUME NEW p \in Processes, ProcessStep(p)
      PROVE  TypeOK'
  BY <1>3, StartupTyped, LoopTyped, HandlerTyped DEF ProcessStep
<1>4. ASSUME NEW p \in Processes,
             Exit(p) \/ Crash(p) \/ \E s \in Sessions, t \in Times : Start(p, s, t)
      PROVE  TypeOK'
  BY <1>4, EnvironmentTyped
<1> QED
  BY <1>1, <1>2, <1>3, <1>4 DEF Next

\* The run table, the lock, the persisted state and every process keep their types
\* in every reachable state.
THEOREM ServiceTypes == Spec => []TypeOK
BY InitTyped, NextTyped, PTL DEF Spec

---------------------------------------------------------------------------
(* The leader lease.                                                      *)

\* Every process passes a name of its own.
OwnersDistinct == \A p, q \in Processes : Owner[p] = Owner[q] => p = q

\* Nothing is leased beyond the latest clock.
LockBound == scheduler_lock.expires_at <= latest + Lease

\* A process's clock is one that has been, and a lease it holds from an earlier
\* cycle ends no later than the one it would take now.
ClockBound(p) ==
  ~At(p, "idle") =>
    /\ process[p].as_of <= latest
    /\ scheduler_lock.owner = Owner[p] => scheduler_lock.expires_at <= process[p].as_of + Lease

\* The lock remembers every process in the loop: it covers the cycle of one, and by
\* a whole lease more if somebody else has taken it since.
Covered(p) ==
  Leading(p) =>
    /\ process[p].as_of + Lease <= scheduler_lock.expires_at
    /\ scheduler_lock.owner # Owner[p] =>
         process[p].as_of + Lease <= scheduler_lock.expires_at - Lease

LeaseInvariant ==
  /\ LockBound
  /\ \A p \in Processes : ClockBound(p)
  /\ \A p \in Processes : Covered(p)
  /\ LeaseExclusive

\* Every number in the invariant is an integer.
LEMMA LeaseNumbers ==
  ASSUME TypeOK
  PROVE  /\ scheduler_lock.expires_at \in Int /\ latest \in Int /\ Lease \in Nat
         /\ \A p \in Processes : process[p].as_of \in Int
BY ServiceAssumption DEF TypeOK

\* q is idle, or goes on in the same cycle and does not enter the loop.
Steady(q) ==
  \/ process'[q].pc = "idle"
  \/ /\ process[q].pc # "idle"
     /\ process'[q].as_of = process[q].as_of
     /\ Leading(q)' => Leading(q)

\* With every process steady and the lock alone, nothing can be lost.
LEMMA SteadyKeeps ==
  ASSUME LeaseInvariant, UNCHANGED <<scheduler_lock, latest>>,
         \A q \in Processes : Steady(q)
  PROVE  LeaseInvariant'
<1>1. LockBound'
  BY DEF LeaseInvariant, LockBound
<1>2. ASSUME NEW q \in Processes PROVE ClockBound(q)'
  BY DEF LeaseInvariant, ClockBound, Steady, At
<1>3. \A q \in Processes : Leading(q)' => Leading(q) /\ process'[q].as_of = process[q].as_of
  BY DEF Steady, Leading
<1>4. ASSUME NEW q \in Processes PROVE Covered(q)'
  BY <1>3 DEF LeaseInvariant, Covered
<1>5. LeaseExclusive'
  BY <1>3 DEF LeaseInvariant, LeaseExclusive
<1> QED
  BY <1>1, <1>2, <1>4, <1>5 DEF LeaseInvariant

\* A step that replaces one process's row, or none.
LEMMA OneSteady ==
  ASSUME TypeOK, NEW p \in Processes, NEW row, process' = [process EXCEPT ![p] = row],
         \/ row.pc = "idle"
         \/ /\ ~At(p, "idle")
            /\ row.as_of = process[p].as_of
            /\ row.pc \in {"scheduling", "claiming", "handling", "completing", "failing"} =>
                 Leading(p)
  PROVE  \A q \in Processes : Steady(q)
<1>1. process \in [Processes -> ProcessRow]
  BY DEF TypeOK, ProcessRow
<1>2. process'[p] = row
  BY <1>1
<1>3. Steady(p)
  BY <1>2 DEF Steady, Leading, At
<1>4. ASSUME NEW q \in Processes, q # p PROVE Steady(q)
  <2>1. process'[q] = process[q]
    BY <1>1, <1>4
  <2> QED
    BY <2>1 DEF Steady, Leading
<1> QED
  BY <1>3, <1>4

LEMMA GoesSteady ==
  ASSUME TypeOK, NEW p \in Processes, ~At(p, "idle"), NEW pc, Goes(p, pc),
         pc \in {"scheduling", "claiming", "handling", "completing", "failing"} => Leading(p)
  PROVE  \A q \in Processes : Steady(q)
<1> DEFINE row == [process[p] EXCEPT !.pc = pc]
<1>1. row.pc = pc /\ row.as_of = process[p].as_of
  BY ProcessTyped DEF ProcessRow
<1>2. process' = [process EXCEPT ![p] = row]
  BY DEF Goes
<1> HIDE DEF row
<1> QED
  BY <1>1, <1>2, OneSteady

LEMMA ReturnsSteady ==
  ASSUME TypeOK, NEW p \in Processes, Returns(p)
  PROVE  \A q \in Processes : Steady(q)
BY OneSteady DEF Returns, IdleProcess

LEMMA NextJobSteady ==
  ASSUME TypeOK, NEW p \in Processes, Leading(p), NextJob(p)
  PROVE  \A q \in Processes : Steady(q)
<1> DEFINE row == IF process[p].job < Len(Jobs)
                  THEN [process[p] EXCEPT !.pc = "scheduling", !.job = @ + 1]
                  ELSE IdleProcess
<1>1. row.pc = "idle" \/ row.as_of = process[p].as_of
  BY ProcessTyped DEF ProcessRow, IdleProcess
<1>2. process' = [process EXCEPT ![p] = row]
  BY DEF NextJob
<1>3. ~At(p, "idle")
  BY DEF Leading, At
<1> HIDE DEF row
<1> QED
  BY <1>1, <1>2, <1>3, OneSteady

\* Every step but the start of a cycle and the taking of the lease is steady.
LEMMA StepsSteady ==
  ASSUME TypeOK, NEW p \in Processes,
         \/ RecordStart(p) \/ Reconcile(p) \/ CheckState(p) \/ AutoResume(p)
         \/ ReadRun(p) \/ ClaimRun(p) \/ Handler(p) \/ CompleteRun(p) \/ FailRun(p)
         \/ enter_safe_mode(p) \/ Exit(p) \/ Crash(p)
  PROVE  /\ \A q \in Processes : Steady(q)
         /\ UNCHANGED <<scheduler_lock, latest>>
<1>1. CASE RecordStart(p) \/ Reconcile(p) \/ AutoResume(p)
  BY <1>1, GoesSteady DEF RecordStart, Reconcile, AutoResume, At, store, bounds
<1>2. CASE CheckState(p)
  BY <1>2, GoesSteady, ReturnsSteady DEF CheckState, At, store, bounds
<1>3. CASE ReadRun(p)
  <2> DEFINE row == [process[p] EXCEPT !.pc = "claiming", !.attempts = Row(p).attempts + 1]
  <2>1. Leading(p) /\ ~At(p, "idle")
    BY <1>3 DEF ReadRun, At, Leading
  <2>2. row.as_of = process[p].as_of
    BY ProcessTyped DEF ProcessRow
  <2>3. CASE process' = [process EXCEPT ![p] = row]
    <3> HIDE DEF row
    <3> QED
      BY <1>3, <2>1, <2>2, <2>3, OneSteady DEF ReadRun, store, bounds
  <2>4. CASE NextJob(p)
    BY <1>3, <2>1, <2>4, NextJobSteady DEF ReadRun, store, bounds
  <2>5. CASE Goes(p, "stopping")
    BY <1>3, <2>1, <2>5, GoesSteady DEF ReadRun, store, bounds
  <2> QED
    BY <1>3, <2>3, <2>4, <2>5 DEF ReadRun
<1>4. CASE ClaimRun(p)
  BY <1>4, GoesSteady DEF ClaimRun, At, Leading, bounds
<1>5. CASE Handler(p)
  <2>1. CASE DecisionSnapshot(p)
    <3> DEFINE row == [process[p] EXCEPT !.pc = "completing",
                                         !.target = process[p].session \in Strategy]
    <3>1. Leading(p) /\ ~At(p, "idle")
      BY <2>1 DEF DecisionSnapshot, Handles, At, Leading
    <3>2. row.as_of = process[p].as_of
      BY ProcessTyped DEF ProcessRow
    <3>3. process' = [process EXCEPT ![p] = row]
      BY <2>1 DEF DecisionSnapshot
    <3> HIDE DEF row
    <3> QED
      BY <2>1, <3>1, <3>2, <3>3, OneSteady DEF DecisionSnapshot, store, bounds
  <2>2. CASE RiskEvaluation(p)
    BY <2>2, GoesSteady DEF RiskEvaluation, Handles, At, Leading, bounds
  <2>3. CASE OrderSubmission(p)
    <3>1. Goes(p, "completing") \/ Goes(p, "failing")
      BY <2>3 DEF OrderSubmission
    <3> QED
      BY <2>3, <3>1, GoesSteady DEF OrderSubmission, Handles, At, Leading, bounds
  <2>4. CASE DailyReport(p) \/ OtherJob(p) \/ HandlerRaises(p)
    BY <2>4, GoesSteady
    DEF DailyReport, OtherJob, HandlerRaises, Handles, At, Leading, store, bounds
  <2> QED
    BY <1>5, <2>1, <2>2, <2>3, <2>4 DEF Handler
<1>6. CASE CompleteRun(p)
  BY <1>6, NextJobSteady DEF CompleteRun, At, Leading, bounds
<1>7. CASE FailRun(p)
  BY <1>7, GoesSteady DEF FailRun, At, Leading, bounds
<1>8. CASE enter_safe_mode(p) \/ Crash(p)
  BY <1>8, ReturnsSteady DEF enter_safe_mode, Crash, store, bounds
<1>9. CASE Exit(p)
  BY <1>9 DEF Exit, Steady, Leading, store, bounds
<1> QED
  BY <1>1, <1>2, <1>3, <1>4, <1>5, <1>6, <1>7, <1>8, <1>9

\* A cycle starts outside the loop, at a clock no earlier than any before it.
LEMMA StartKeepsLease ==
  ASSUME TypeOK, LeaseInvariant, Forward,
         NEW p \in Processes, NEW s \in Sessions, NEW t \in Times, Start(p, s, t)
  PROVE  LeaseInvariant'
<1> USE DEF LeaseInvariant
<1>0. t \in Int
  BY ServiceAssumption
<1>1. latest <= t /\ latest' = t
  BY <1>0, LeaseNumbers DEF Start
<1>2. UNCHANGED scheduler_lock
  BY DEF Start, store
<1>3. process'[p].pc = "starting" /\ process'[p].as_of = t
  BY DEF Start, TypeOK
<1>4. \A q \in Processes : q # p => process'[q] = process[q]
  BY DEF Start, TypeOK
<1>5. LockBound'
  BY <1>0, <1>1, <1>2, LeaseNumbers DEF LockBound
<1>6. ASSUME NEW q \in Processes PROVE ClockBound(q)'
  <2>1. CASE q = p
    BY <1>0, <1>1, <1>2, <1>3, <2>1, LeaseNumbers DEF LockBound, ClockBound, At
  <2>2. CASE q # p
    BY <1>0, <1>1, <1>2, <1>4, <2>2, LeaseNumbers DEF ClockBound, At
  <2> QED
    BY <2>1, <2>2
<1>7. \A q \in Processes : Leading(q)' => Leading(q) /\ process'[q] = process[q]
  BY <1>3, <1>4 DEF Leading
<1>8. ASSUME NEW q \in Processes PROVE Covered(q)'
  BY <1>2, <1>7 DEF Covered
<1>9. LeaseExclusive'
  BY <1>7 DEF LeaseExclusive
<1> QED
  BY <1>5, <1>6, <1>8, <1>9

\* The lease is taken when it is free, and then every process in the loop under
\* another name has a clock at least a lease behind.
LEMMA AcquireKeepsLease ==
  ASSUME TypeOK, LeaseInvariant, OwnersDistinct, NEW p \in Processes, acquire_leader(p)
  PROVE  LeaseInvariant'
<1> USE DEF LeaseInvariant
<1>0. ~At(p, "idle")
  BY DEF acquire_leader, At
<1>1. CASE ~LeaseFree(p)
  <2>1. UNCHANGED <<scheduler_lock, latest>>
    BY <1>1 DEF acquire_leader, bounds
  <2>2. \A q \in Processes : Steady(q)
    BY <1>0, <1>1, GoesSteady DEF acquire_leader
  <2> QED
    BY <2>1, <2>2, SteadyKeeps
<1>2. CASE LeaseFree(p)
  <2>1. /\ scheduler_lock'.owner = Owner[p]
        /\ scheduler_lock'.expires_at = process[p].as_of + Lease
        /\ latest' = latest
        /\ process' = [process EXCEPT ![p].pc = "scheduling"]
    BY <1>2 DEF acquire_leader, Goes, bounds
  <2>2. \A q \in Processes : process'[q].as_of = process[q].as_of
    BY <2>1 DEF TypeOK
  <2>3. \A q \in Processes : q # p => process'[q] = process[q]
    BY <2>1 DEF TypeOK
  <2>4. process'[p].pc = "scheduling"
    BY <2>1 DEF TypeOK
  <2>5. \A q \in Processes : Leading(q)' => q = p \/ Leading(q)
    BY <2>3 DEF Leading
  <2>6. ASSUME NEW q \in Processes, q # p, Leading(q)
        PROVE  process[q].as_of + Lease <= process[p].as_of
    <3>1. Owner[q] # Owner[p]
      BY <2>6 DEF OwnersDistinct
    <3>2. CASE scheduler_lock.expires_at <= process[p].as_of
      BY <2>6, <3>2, LeaseNumbers DEF Covered
    <3>3. CASE scheduler_lock.owner = Owner[p]
      <4>1. scheduler_lock.expires_at <= process[p].as_of + Lease
        BY <1>0, <3>3 DEF ClockBound
      <4>2. process[q].as_of + Lease <= scheduler_lock.expires_at - Lease
        BY <2>6, <3>1, <3>3 DEF Covered
      <4> QED
        BY <4>1, <4>2, LeaseNumbers
    <3> QED
      BY <1>2, <3>2, <3>3 DEF LeaseFree
  <2>7. LockBound'
    BY <1>0, <2>1, LeaseNumbers DEF LockBound, ClockBound
  <2>8. ASSUME NEW q \in Processes PROVE ClockBound(q)'
    <3>1. CASE q = p
      BY <1>0, <2>1, <2>2, <3>1, LeaseNumbers DEF ClockBound
    <3>2. CASE q # p
      BY <2>1, <2>3, <3>2 DEF ClockBound, OwnersDistinct, At
    <3> QED
      BY <3>1, <3>2
  <2>9. ASSUME NEW q \in Processes PROVE Covered(q)'
    <3>1. CASE q = p
      BY <2>1, <2>2, <3>1, LeaseNumbers DEF Covered
    <3>2. CASE q # p
      <4>1. SUFFICES ASSUME Leading(q)' PROVE Covered(q)'
        BY DEF Covered
      <4>2. process[q].as_of + Lease <= process[p].as_of
        BY <2>5, <2>6, <3>2, <4>1
      <4> QED
        BY <2>1, <2>2, <4>2, LeaseNumbers DEF Covered
    <3> QED
      BY <3>1, <3>2
  <2>10. LeaseExclusive'
    <3> SUFFICES ASSUME NEW a \in Processes, NEW b \in Processes,
                        Leading(a)', Leading(b)', Owner[a] # Owner[b]
                 PROVE  \/ process[a].as_of + Lease <= process[b].as_of
                        \/ process[b].as_of + Lease <= process[a].as_of
      BY <2>2 DEF LeaseExclusive
    <3>1. CASE a = p
      BY <2>5, <2>6, <3>1
    <3>2. CASE b = p
      BY <2>5, <2>6, <3>2
    <3>3. CASE a # p /\ b # p
      BY <2>5, <3>3 DEF LeaseExclusive
    <3> QED
      BY <3>1, <3>2, <3>3
  <2> QED
    BY <2>7, <2>8, <2>9, <2>10
<1> QED
  BY <1>1, <1>2

LEMMA LeaseStep ==
  ASSUME Forward, OwnersDistinct
  PROVE  TypeOK /\ LeaseInvariant /\ [Next]_vars => LeaseInvariant'
<1> SUFFICES ASSUME TypeOK, LeaseInvariant, [Next]_vars PROVE LeaseInvariant'
  OBVIOUS
<1>1. CASE UNCHANGED vars
  BY <1>1 DEF vars, LeaseInvariant, LockBound, ClockBound, Covered, LeaseExclusive, Leading, At
<1>2. CASE resume
  BY <1>2 DEF resume, LeaseInvariant, LockBound, ClockBound, Covered, LeaseExclusive, Leading, At
<1>3. ASSUME NEW p \in Processes, NEW s \in Sessions, NEW t \in Times, Start(p, s, t)
      PROVE  LeaseInvariant'
  BY <1>3, StartKeepsLease
<1>4. ASSUME NEW p \in Processes, ProcessStep(p) \/ Exit(p) \/ Crash(p)
      PROVE  LeaseInvariant'
  <2>1. CASE acquire_leader(p)
    BY <2>1, AcquireKeepsLease
  <2>2. CASE ~acquire_leader(p)
    <3>1. /\ \A q \in Processes : Steady(q)
          /\ UNCHANGED <<scheduler_lock, latest>>
      BY <1>4, <2>2, StepsSteady DEF ProcessStep, Startup
    <3> QED
      BY <3>1, SteadyKeeps
  <2> QED
    BY <2>1, <2>2
<1> QED
  BY <1>1, <1>2, <1>3, <1>4 DEF Next

\* Under one clock that never goes back and owners that differ, the lease keeps the
\* cycles of different processes a lease apart, however many processes, sessions and
\* crashes there are: both conditions are needed, and operations/cli.py gives every
\* process the same owner.
THEOREM LeaseTheorem ==
  ASSUME Forward, OwnersDistinct
  PROVE  Spec => []LeaseExclusive
<1>1. Init => LeaseInvariant
  BY ServiceAssumption
  DEF Init, LeaseInvariant, LockBound, ClockBound, Covered, LeaseExclusive, Leading, At,
      IdleProcess, NoTime
<1>2. LeaseInvariant => LeaseExclusive
  BY DEF LeaseInvariant
<1> QED
  BY <1>1, <1>2, LeaseStep, InitTyped, NextTyped, PTL DEF Spec

---------------------------------------------------------------------------
(* One process at a time.                                                 *)

Alone == \A p, q \in Processes : p = q

\* A process that startup has let through finds safe mode off until it leaves the loop.
Passed(p) == process[p].pc \in {"leading", "scheduling", "claiming", "handling", "completing"}
PassedResumed == \A p \in Processes : Passed(p) => service_state = "resumed"

\* Where a step can lead.
LEMMA StepPc ==
  ASSUME TypeOK, NEW p \in Processes
  PROVE  /\ \A pc : Goes(p, pc) => process'[p].pc = pc
         /\ Returns(p) => process'[p].pc = "idle"
         /\ NextJob(p) => process'[p].pc \in {"scheduling", "idle"}
<1>1. process \in [Processes -> ProcessRow]
  BY DEF TypeOK, ProcessRow
<1>2. \A row : process' = [process EXCEPT ![p] = row] => process'[p] = row
  BY <1>1
<1>3. ASSUME NEW pc, Goes(p, pc) PROVE process'[p].pc = pc
  BY <1>1, <1>3, ProcessTyped DEF Goes, ProcessRow
<1>4. ASSUME Returns(p) PROVE process'[p].pc = "idle"
  BY <1>2, <1>4 DEF Returns, IdleProcess
<1>5. ASSUME NextJob(p) PROVE process'[p].pc \in {"scheduling", "idle"}
  <2>1. CASE process[p].job < Len(Jobs)
    <3>1. process'[p] = [process[p] EXCEPT !.pc = "scheduling", !.job = @ + 1]
      BY <1>2, <1>5, <2>1 DEF NextJob
    <3> QED
      BY <3>1, ProcessTyped DEF ProcessRow
  <2>2. CASE ~(process[p].job < Len(Jobs))
    BY <1>2, <1>5, <2>2 DEF NextJob, IdleProcess
  <2> QED
    BY <2>1, <2>2
<1> QED
  BY <1>3, <1>4, <1>5

LEMMA PassedStep ==
  ASSUME TypeOK, PassedResumed, Alone, NEW p \in Processes,
         ProcessStep(p) \/ Exit(p) \/ Crash(p)
  PROVE  PassedResumed'
<1> SUFFICES ASSUME Passed(p)' PROVE service_state' = "resumed"
  BY DEF PassedResumed, Alone
<1> USE DEF PassedResumed
<1>1. CASE Startup(p)
  BY <1>1, StepPc
  DEF Startup, RecordStart, Reconcile, CheckState, AutoResume, acquire_leader, At, Passed, store
<1>2. CASE ReadRun(p)
  <2>1. Passed(p) /\ UNCHANGED service_state
    BY <1>2 DEF ReadRun, At, Passed, store
  <2> QED
    BY <2>1
<1>3. CASE ClaimRun(p) \/ CompleteRun(p)
  BY <1>3 DEF ClaimRun, CompleteRun, At, Passed
<1>4. CASE FailRun(p) \/ enter_safe_mode(p)
  BY <1>4, StepPc DEF FailRun, enter_safe_mode, Passed
<1>5. CASE Handler(p)
  <2>1. Passed(p)
    BY <1>5 DEF Handler, DecisionSnapshot, RiskEvaluation, OrderSubmission, DailyReport, OtherJob,
        HandlerRaises, Handles, At, Passed
  <2>2. CASE HandlerRaises(p)
    BY <2>2, StepPc DEF HandlerRaises, Passed
  <2>3. CASE RiskEvaluation(p)
    BY <2>1, <2>3, StepPc DEF RiskEvaluation, Passed
  <2>4. CASE DecisionSnapshot(p) \/ OrderSubmission(p) \/ DailyReport(p) \/ OtherJob(p)
    BY <2>1, <2>4 DEF DecisionSnapshot, OrderSubmission, DailyReport, OtherJob, store
  <2> QED
    BY <1>5, <2>2, <2>3, <2>4 DEF Handler
<1>6. CASE Exit(p)
  BY <1>6 DEF Exit, Passed, store
<1>7. CASE Crash(p)
  BY <1>7, StepPc DEF Crash, Passed
<1> QED
  BY <1>1, <1>2, <1>3, <1>4, <1>5, <1>6, <1>7 DEF ProcessStep

LEMMA PassedNext ==
  ASSUME Alone
  PROVE  TypeOK /\ PassedResumed /\ [Next]_vars => PassedResumed'
<1> SUFFICES ASSUME TypeOK, PassedResumed, [Next]_vars PROVE PassedResumed'
  OBVIOUS
<1>1. CASE UNCHANGED vars
  BY <1>1 DEF vars, PassedResumed, Passed
<1>2. CASE resume
  BY <1>2 DEF resume, PassedResumed, Passed
<1>3. ASSUME NEW p \in Processes, NEW s \in Sessions, NEW t \in Times, Start(p, s, t)
      PROVE  PassedResumed'
  <2>1. process'[p].pc = "starting"
    BY <1>3 DEF Start, TypeOK
  <2> QED
    BY <2>1 DEF PassedResumed, Passed, Alone
<1>4. ASSUME NEW p \in Processes, ProcessStep(p) \/ Exit(p) \/ Crash(p)
      PROVE  PassedResumed'
  BY <1>4, PassedStep
<1> QED
  BY <1>1, <1>2, <1>3, <1>4 DEF Next

\* With one process at a time, no job is claimed, run or completed in safe mode, for
\* every sequence of sessions, clocks, crashes and manual resumes.
THEOREM SafeModeTheorem ==
  ASSUME Alone
  PROVE  Spec => []NoJobInSafeMode
<1>1. Init => PassedResumed
  BY DEF Init, PassedResumed, Passed, IdleProcess
<1>2. PassedResumed => NoJobInSafeMode
  BY DEF PassedResumed, Passed, NoJobInSafeMode
<1> QED
  BY <1>1, <1>2, PassedNext, InitTyped, NextTyped, PTL DEF Spec

---------------------------------------------------------------------------
(* A completed run is never claimed again.                                *)

\* What the process has read is still so: the run it works on is not completed.
Working(p) == process[p].pc \in {"claiming", "handling", "completing", "failing"}
WorksOnOpenRun == \A p \in Processes : Working(p) => Row(p).state # "completed"

CompletedKept ==
  \A s \in Sessions, j \in JobNames :
    scheduler_runs[s][j].state = "completed" => scheduler_runs'[s][j] = scheduler_runs[s][j]

\* A write to an open run leaves every completed one alone.
LEMMA WriteKeeps ==
  ASSUME TypeOK, NEW p \in Processes, ~At(p, "idle"), Row(p).state # "completed", NEW row,
         Writes(p, row)
  PROVE  /\ CompletedKept
         /\ scheduler_runs'[process[p].session][Job(p)] = row
<1>1. process[p].session \in Sessions /\ Job(p) \in JobNames
  BY RowTyped, ProcessTyped
<1> QED
  BY <1>1 DEF TypeOK, Writes, Row, CompletedKept

\* The work of a process goes on with the same run.
LEMMA GoesRow ==
  ASSUME TypeOK, NEW p \in Processes, NEW pc, Goes(p, pc)
  PROVE  process'[p].session = process[p].session /\ Job(p)' = Job(p)
BY ProcessTyped DEF TypeOK, Goes, Job, ProcessRow

LEMMA OpenRunStep ==
  ASSUME TypeOK, WorksOnOpenRun, Alone, NEW p \in Processes,
         ProcessStep(p) \/ Exit(p) \/ Crash(p)
  PROVE  WorksOnOpenRun' /\ CompletedKept
<1> USE DEF WorksOnOpenRun
<1>0. Alone => ((Working(p)' => Row(p)'.state # "completed") => WorksOnOpenRun')
  BY DEF Alone
<1>1. CASE Startup(p) \/ Exit(p) \/ Crash(p) \/ enter_safe_mode(p)
  <2>1. ~Working(p)' \/ UNCHANGED process
    BY <1>1, StepPc
    DEF Startup, RecordStart, Reconcile, CheckState, AutoResume, acquire_leader, Exit, Crash,
        enter_safe_mode, Working, At
  <2>2. UNCHANGED scheduler_runs
    BY <1>1
    DEF Startup, RecordStart, Reconcile, CheckState, AutoResume, acquire_leader, Exit, Crash,
        enter_safe_mode, store
  <2>3. ~Working(p)'
    BY <1>1, <2>1, StepPc
    DEF Startup, RecordStart, Reconcile, CheckState, AutoResume, acquire_leader, Exit, Crash,
        enter_safe_mode, Working, At
  <2> QED
    BY <1>0, <2>2, <2>3 DEF CompletedKept
<1>2. CASE ReadRun(p)
  <2>1. UNCHANGED scheduler_runs /\ At(p, "scheduling")
    BY <1>2 DEF ReadRun, store
  <2>2. CASE RunSkipped(p) \/ RunPostponed(p)
    <3>1. NextJob(p) \/ Goes(p, "stopping")
      BY <1>2, <2>2 DEF ReadRun
    <3>2. ~Working(p)'
      BY <3>1, StepPc DEF Working
    <3> QED
      BY <1>0, <2>1, <3>2 DEF CompletedKept
  <2>3. CASE ~RunSkipped(p) /\ ~RunPostponed(p)
    <3>1. process' = [process EXCEPT ![p] =
            [process[p] EXCEPT !.pc = "claiming", !.attempts = Row(p).attempts + 1]]
      BY <1>2, <2>3 DEF ReadRun
    <3>2. process'[p].session = process[p].session /\ process'[p].job = process[p].job
      BY <3>1, ProcessTyped DEF TypeOK, ProcessRow
    <3>3. Row(p)' = Row(p)
      BY <2>1, <3>2 DEF Row, Job
    <3>4. Row(p).state # "completed"
      BY <2>3 DEF RunSkipped
    <3> QED
      BY <1>0, <2>1, <3>3, <3>4 DEF CompletedKept
  <2> QED
    BY <2>2, <2>3
<1>3. CASE ClaimRun(p)
  <2> DEFINE row == [Row(p) EXCEPT !.state = "running", !.attempts = process[p].attempts,
                                   !.started_at = process[p].as_of]
  <2>1. ~At(p, "idle") /\ Row(p).state # "completed"
    BY <1>3 DEF ClaimRun, At, Working
  <2>2. row.state = "running"
    BY <2>1, RowTyped DEF RunRow
  <2>3. Writes(p, row) /\ Goes(p, "handling")
    BY <1>3 DEF ClaimRun
  <2> HIDE DEF row
  <2>4. CompletedKept /\ scheduler_runs'[process[p].session][Job(p)] = row
    BY <2>1, <2>3, WriteKeeps
  <2>5. Row(p)' = row
    BY <2>3, <2>4, GoesRow DEF Row
  <2> QED
    BY <1>0, <2>2, <2>4, <2>5
<1>4. CASE CompleteRun(p)
  <2> DEFINE row == [Row(p) EXCEPT !.state = "completed"]
  <2>1. ~At(p, "idle") /\ Row(p).state # "completed"
    BY <1>4 DEF CompleteRun, At, Working
  <2>2. Writes(p, row) /\ NextJob(p)
    BY <1>4 DEF CompleteRun
  <2> HIDE DEF row
  <2>3. CompletedKept
    BY <2>1, <2>2, WriteKeeps
  <2>4. ~Working(p)'
    BY <2>2, StepPc DEF Working
  <2> QED
    BY <1>0, <2>3, <2>4
<1>5. CASE FailRun(p)
  <2> DEFINE row == [Row(p) EXCEPT
               !.state = IF process[p].attempts >= MaxAttempts THEN "dead_letter" ELSE "retry",
               !.next_attempt_at = process[p].as_of + Backoff * process[p].attempts]
  <2>1. ~At(p, "idle") /\ Row(p).state # "completed"
    BY <1>5 DEF FailRun, At, Working
  <2>2. Writes(p, row) /\ Goes(p, "stopping")
    BY <1>5 DEF FailRun
  <2> HIDE DEF row
  <2>3. CompletedKept
    BY <2>1, <2>2, WriteKeeps
  <2>4. ~Working(p)'
    BY <2>2, StepPc DEF Working
  <2> QED
    BY <1>0, <2>3, <2>4
<1>6. CASE Handler(p)
  <2>1. Working(p) /\ UNCHANGED scheduler_runs
    BY <1>6 DEF Handler, DecisionSnapshot, RiskEvaluation, OrderSubmission, DailyReport, OtherJob,
        HandlerRaises, Handles, At, Working, store
  <2>2. CASE DecisionSnapshot(p)
    <3>1. process' = [process EXCEPT ![p] = [process[p] EXCEPT !.pc = "completing",
                                               !.target = process[p].session \in Strategy]]
      BY <2>2 DEF DecisionSnapshot
    <3>2. process'[p].session = process[p].session /\ process'[p].job = process[p].job
      BY <3>1, ProcessTyped DEF TypeOK, ProcessRow
    <3> QED
      BY <1>0, <2>1, <3>2 DEF Row, Job, CompletedKept
  <2>3. CASE ~DecisionSnapshot(p)
    <3>1. Goes(p, "completing") \/ Goes(p, "failing")
      BY <1>6, <2>3 DEF Handler, RiskEvaluation, OrderSubmission, DailyReport, OtherJob,
         HandlerRaises
    <3>2. Row(p)' = Row(p)
      BY <2>1, <3>1, GoesRow DEF Row
    <3> QED
      BY <1>0, <2>1, <3>2 DEF CompletedKept
  <2> QED
    BY <2>2, <2>3
<1> QED
  BY <1>1, <1>2, <1>3, <1>4, <1>5, <1>6 DEF ProcessStep

LEMMA OpenRunNext ==
  ASSUME Alone
  PROVE  TypeOK /\ WorksOnOpenRun /\ [Next]_vars => WorksOnOpenRun' /\ [CompletedKept]_vars
<1> SUFFICES ASSUME TypeOK, WorksOnOpenRun, [Next]_vars
             PROVE  WorksOnOpenRun' /\ [CompletedKept]_vars
  OBVIOUS
<1>1. CASE UNCHANGED vars
  BY <1>1 DEF vars, WorksOnOpenRun, Working, Row, Job
<1>2. CASE resume
  BY <1>2 DEF resume, WorksOnOpenRun, Working, Row, Job, CompletedKept
<1>3. ASSUME NEW p \in Processes, NEW s \in Sessions, NEW t \in Times, Start(p, s, t)
      PROVE  WorksOnOpenRun' /\ CompletedKept
  <2>1. process'[p].pc = "starting" /\ UNCHANGED scheduler_runs
    BY <1>3 DEF Start, TypeOK, store
  <2> QED
    BY <2>1 DEF WorksOnOpenRun, Working, Alone, CompletedKept
<1>4. ASSUME NEW p \in Processes, ProcessStep(p) \/ Exit(p) \/ Crash(p)
      PROVE  WorksOnOpenRun' /\ CompletedKept
  BY <1>4, OpenRunStep
<1> QED
  BY <1>1, <1>2, <1>3, <1>4 DEF Next

\* With one process at a time a completed run is never claimed, failed or overwritten,
\* for any number of crashes, retries and repeated cycles, clocks that go back included.
THEOREM CompletedTheorem ==
  ASSUME Alone
  PROVE  Spec => CompletedStays
<1>1. Init => WorksOnOpenRun
  BY DEF Init, WorksOnOpenRun, Working, IdleProcess
<1>2. TypeOK /\ WorksOnOpenRun /\ [Next]_vars =>
        [\A s \in Sessions, j \in JobNames :
           scheduler_runs[s][j].state = "completed" =>
             scheduler_runs'[s][j] = scheduler_runs[s][j]]_vars
  BY OpenRunNext DEF CompletedKept
<1> QED
  BY <1>1, <1>2, OpenRunNext, InitTyped, NextTyped, PTL DEF Spec, CompletedStays
---------------------------------------------------------------------------
(* What a finished session and the order of the jobs rest on.             *)

\* Nothing is written of a finished session.
FinishedKept ==
  \A s \in Sessions : Finished(s) =>
    /\ {r \in reports' : r.session = s} = {r \in reports : r.session = s}
    /\ orders'[s] = "pending" => orders[s] = "pending"

LEMMA FinishedStep ==
  ASSUME TypeOK, WorksOnOpenRun, NEW p \in Processes,
         ProcessStep(p) \/ Exit(p) \/ Crash(p)
  PROVE  FinishedKept
<1>1. CASE UNCHANGED <<orders, reports>>
  BY <1>1 DEF FinishedKept
<1>2. ASSUME At(p, "handling") PROVE ~Finished(process[p].session)
  <2>1. Row(p).state # "completed"
    BY <1>2 DEF At, WorksOnOpenRun, Working
  <2>2. Job(p) \in JobNames
    BY RowTyped, <1>2, ProcessTyped DEF At
  <2> QED
    BY <2>1, <2>2 DEF Finished, Row
<1>3. CASE RiskEvaluation(p)
  <2>1. At(p, "handling") /\ UNCHANGED reports
    BY <1>3 DEF RiskEvaluation, Handles
  <2>2. ASSUME NEW s \in Sessions, s # process[p].session PROVE orders'[s] = orders[s]
    BY <1>3, <2>2 DEF RiskEvaluation, TypeOK
  <2> QED
    BY <1>2, <2>1, <2>2 DEF FinishedKept
<1>4. CASE OrderSubmission(p)
  <2>1. ASSUME NEW s \in Sessions, orders'[s] = "pending" PROVE orders[s] = "pending"
    <3>1. PICK delivered, closed :
            orders' = [z \in Sessions |-> IF z \in closed THEN "closed"
                         ELSE IF z \in delivered THEN "open" ELSE orders[z]]
      BY <1>4 DEF OrderSubmission
    <3> QED
      BY <2>1, <3>1
  <2> QED
    BY <1>4, <2>1 DEF OrderSubmission, FinishedKept
<1>5. CASE DailyReport(p)
  <2>1. /\ At(p, "handling") /\ UNCHANGED orders
        /\ reports' = reports \cup
             {[session |-> process[p].session, lineage |-> process[p].target]}
    BY <1>5 DEF DailyReport, Handles
  <2> QED
    BY <1>2, <2>1 DEF FinishedKept
<1>6. ASSUME ~RiskEvaluation(p), ~OrderSubmission(p), ~DailyReport(p)
      PROVE  UNCHANGED <<orders, reports>>
  <2>1. CASE Startup(p) \/ enter_safe_mode(p) \/ Exit(p) \/ Crash(p)
    BY <2>1 DEF Startup, RecordStart, Reconcile, CheckState, AutoResume, acquire_leader,
       enter_safe_mode, Exit, Crash, store
  <2>2. CASE ReadRun(p) \/ ClaimRun(p) \/ CompleteRun(p) \/ FailRun(p)
    BY <2>2 DEF ReadRun, ClaimRun, CompleteRun, FailRun, store
  <2>3. CASE DecisionSnapshot(p) \/ OtherJob(p) \/ HandlerRaises(p)
    BY <2>3 DEF DecisionSnapshot, OtherJob, HandlerRaises, store
  <2> QED
    BY <1>6, <2>1, <2>2, <2>3 DEF ProcessStep, Handler
<1> QED
  BY <1>1, <1>3, <1>4, <1>5, <1>6

\* With one process at a time a finished session is left alone: no cycle of it or of
\* another session, after whatever crashes, writes a report of it or asks for orders.
THEOREM ReplayTheorem ==
  ASSUME Alone
  PROVE  Spec => ReplayChangesNothing
<1>1. Init => WorksOnOpenRun
  BY DEF Init, WorksOnOpenRun, Working, IdleProcess
<1>2. TypeOK /\ WorksOnOpenRun /\ [Next]_vars =>
        [\A s \in Sessions : Finished(s) =>
           /\ {r \in reports' : r.session = s} = {r \in reports : r.session = s}
           /\ orders'[s] = "pending" => orders[s] = "pending"]_vars
  <2> SUFFICES ASSUME TypeOK, WorksOnOpenRun, Next PROVE FinishedKept
    BY DEF FinishedKept
  <2>1. CASE resume
    BY <2>1 DEF resume, FinishedKept
  <2>2. ASSUME NEW p \in Processes, NEW s \in Sessions, NEW t \in Times, Start(p, s, t)
        PROVE  FinishedKept
    BY <2>2 DEF Start, store, FinishedKept
  <2>3. ASSUME NEW p \in Processes, ProcessStep(p) \/ Exit(p) \/ Crash(p) PROVE FinishedKept
    BY <2>3, FinishedStep
  <2> QED
    BY <2>1, <2>2, <2>3 DEF Next
<1> QED
  BY <1>1, <1>2, OpenRunNext, InitTyped, NextTyped, PTL DEF Spec, ReplayChangesNothing

\* A process starts with the first job, and all the jobs before the one it is at have
\* completed or are taken to be still running.
Entering(p) == process[p].pc \in {"starting", "reconciling", "checking", "resuming", "leading"}
Behind(p) ==
  \A i \in 1..(process[p].job - 1) :
    scheduler_runs[process[p].session][Jobs[i]].state \in {"completed", "running"}
Orderly == \A p \in Processes : (Entering(p) => process[p].job = 1) /\ (Leading(p) => Behind(p))

ClaimedInOrder ==
  \A s \in Sessions, j \in DOMAIN Jobs :
    scheduler_runs[s][Jobs[j]].attempts # scheduler_runs'[s][Jobs[j]].attempts =>
      \A i \in 1..(j - 1) : scheduler_runs[s][Jobs[i]].state \in {"completed", "running"}

\* The jobs are different, so that a row belongs to one of them.
LEMMA WriteElsewhere ==
  ASSUME TypeOK, NEW p \in Processes, ~At(p, "idle"), NEW row, Writes(p, row),
         NEW s \in Sessions, NEW j \in DOMAIN Jobs,
         s # process[p].session \/ j # process[p].job
  PROVE  scheduler_runs'[s][Jobs[j]] = scheduler_runs[s][Jobs[j]]
<1>1. /\ process[p].session \in Sessions /\ process[p].job \in DOMAIN Jobs
      /\ Jobs[j] \in JobNames
  BY RowTyped, ProcessTyped DEF JobNames
<1>2. s # process[p].session \/ Jobs[j] # Job(p)
  BY <1>1, ServiceAssumption DEF Job
<1> QED
  BY <1>1, <1>2 DEF TypeOK, Writes

\* Goes(p, pc) leaves the rest of the process alone, and NextJob takes the next one up.
LEMMA LoopMoves ==
  ASSUME TypeOK, NEW p \in Processes
  PROVE  /\ \A pc : Goes(p, pc) =>
              process'[p].session = process[p].session /\ process'[p].job = process[p].job
         /\ NextJob(p) /\ process'[p].pc # "idle" =>
              /\ process'[p].session = process[p].session
              /\ process'[p].job = process[p].job + 1
<1>1. process \in [Processes -> ProcessRow]
  BY DEF TypeOK, ProcessRow
<1>2. ASSUME NEW pc, Goes(p, pc)
      PROVE  process'[p].session = process[p].session /\ process'[p].job = process[p].job
  BY <1>1, <1>2 DEF Goes, ProcessRow
<1>3. ASSUME NextJob(p), process'[p].pc # "idle"
      PROVE  /\ process'[p].session = process[p].session
             /\ process'[p].job = process[p].job + 1
  <2>1. process[p].job < Len(Jobs)
    BY <1>1, <1>3 DEF NextJob, IdleProcess
  <2>2. process'[p] = [process[p] EXCEPT !.pc = "scheduling", !.job = @ + 1]
    BY <1>1, <1>3, <2>1 DEF NextJob
  <2> QED
    BY <2>2, ProcessTyped DEF ProcessRow
<1> QED
  BY <1>2, <1>3

\* A write that leaves its job's row completed or running leaves the jobs behind p so.
LEMMA BehindKept ==
  ASSUME TypeOK, NEW p \in Processes, ~At(p, "idle"), Behind(p), NEW row, Writes(p, row)
  PROVE  \A i \in 1..(process[p].job - 1) :
           scheduler_runs'[process[p].session][Jobs[i]].state \in {"completed", "running"}
<1> TAKE i \in 1..(process[p].job - 1)
<1>1. i \in DOMAIN Jobs /\ i # process[p].job /\ process[p].session \in Sessions
  BY RowTyped, ProcessTyped, ServiceAssumption
<1>2. scheduler_runs'[process[p].session][Jobs[i]] = scheduler_runs[process[p].session][Jobs[i]]
  BY <1>1, WriteElsewhere
<1> QED
  BY <1>2 DEF Behind

LEMMA AdvanceOrderly ==
  ASSUME TypeOK, NEW p \in Processes, Alone, ~At(p, "idle"), NextJob(p),
         \A i \in 1..(process[p].job - 1) :
           scheduler_runs'[process[p].session][Jobs[i]].state \in {"completed", "running"},
         scheduler_runs'[process[p].session][Job(p)].state \in {"completed", "running"}
  PROVE  Orderly'
<1>1. process'[p].pc \in {"scheduling", "idle"}
  BY StepPc
<1>2. CASE process'[p].pc = "idle"
  BY <1>2 DEF Orderly, Entering, Leading, Alone
<1>3. CASE process'[p].pc # "idle"
  <2>1. process'[p].session = process[p].session /\ process'[p].job = process[p].job + 1
    BY <1>3, LoopMoves
  <2>2. process[p].job \in Int
    BY ProcessTyped, ServiceAssumption
  <2>3. \A i \in 1..(process'[p].job - 1) : i \in 1..(process[p].job - 1) \/ i = process[p].job
    BY <2>1, <2>2
  <2>4. Behind(p)'
    BY <2>1, <2>3 DEF Behind, Job
  <2> QED
    BY <1>1, <1>3, <2>4 DEF Orderly, Entering, Alone
<1> QED
  BY <1>2, <1>3

LEMMA OrderlyStep ==
  ASSUME TypeOK, Orderly, Alone, NEW p \in Processes,
         ProcessStep(p) \/ Exit(p) \/ Crash(p)
  PROVE  Orderly' /\ ClaimedInOrder
<1>1. CASE Startup(p)
  <2>1. Entering(p) /\ UNCHANGED scheduler_runs
    BY <1>1 DEF Startup, RecordStart, Reconcile, CheckState, AutoResume, acquire_leader, At,
       Entering, store
  <2>2. (\E pc : Goes(p, pc)) \/ Returns(p)
    BY <1>1 DEF Startup, RecordStart, Reconcile, CheckState, AutoResume, acquire_leader
  <2>3. CASE \E pc : Goes(p, pc)
    <3>1. process'[p].job = 1
      BY <2>1, <2>3, LoopMoves DEF Orderly
    <3>2. Behind(p)'
      BY <3>1 DEF Behind
    <3> QED
      BY <2>1, <3>1, <3>2 DEF Orderly, Alone, ClaimedInOrder
  <2>4. CASE Returns(p)
    BY <2>1, <2>4, StepPc DEF Orderly, Entering, Leading, Alone, ClaimedInOrder
  <2> QED
    BY <2>2, <2>3, <2>4
<1>2. CASE enter_safe_mode(p) \/ Crash(p)
  <2>1. process'[p].pc = "idle" /\ UNCHANGED scheduler_runs
    BY <1>2, StepPc DEF enter_safe_mode, Crash, store
  <2> QED
    BY <2>1 DEF Orderly, Entering, Leading, Alone, ClaimedInOrder
<1>3. CASE Exit(p)
  BY <1>3 DEF Exit, store, Orderly, Entering, Leading, Behind, ClaimedInOrder
<1>4. CASE ReadRun(p)
  <2>1. UNCHANGED scheduler_runs /\ Leading(p) /\ ~At(p, "idle")
    BY <1>4 DEF ReadRun, At, Leading, store
  <2>2. Behind(p) /\ ClaimedInOrder
    BY <2>1 DEF Orderly, ClaimedInOrder
  <2>3. CASE RunSkipped(p)
    <3>1. Row(p).state \in {"completed", "running"}
      BY <2>3 DEF RunSkipped, StillRunning
    <3>2. NextJob(p)
      BY <1>4, <2>3 DEF ReadRun
    <3> QED
      BY <2>1, <2>2, <3>1, <3>2, AdvanceOrderly DEF Behind, Row
  <2>4. CASE ~RunSkipped(p) /\ RunPostponed(p)
    <3>1. process'[p].pc = "stopping"
      BY <1>4, <2>4, StepPc DEF ReadRun
    <3> QED
      BY <2>2, <3>1 DEF Orderly, Entering, Leading, Alone
  <2>5. CASE ~RunSkipped(p) /\ ~RunPostponed(p)
    <3>1. process' = [process EXCEPT ![p] =
            [process[p] EXCEPT !.pc = "claiming", !.attempts = Row(p).attempts + 1]]
      BY <1>4, <2>5 DEF ReadRun
    <3>2. /\ process'[p].session = process[p].session /\ process'[p].job = process[p].job
          /\ process'[p].pc = "claiming"
      BY <3>1, ProcessTyped DEF TypeOK, ProcessRow
    <3>3. Behind(p)'
      BY <2>1, <2>2, <3>2 DEF Behind
    <3> QED
      BY <2>2, <3>2, <3>3 DEF Orderly, Entering, Alone
  <2> QED
    BY <2>3, <2>4, <2>5
<1>5. CASE ClaimRun(p)
  <2> DEFINE row == [Row(p) EXCEPT !.state = "running", !.attempts = process[p].attempts,
                                   !.started_at = process[p].as_of]
  <2>1. Leading(p) /\ ~At(p, "idle") /\ Writes(p, row) /\ Goes(p, "handling")
    BY <1>5 DEF ClaimRun, At, Leading
  <2> HIDE DEF row
  <2>2. Behind(p)
    BY <2>1 DEF Orderly
  <2>3. process'[p].pc = "handling" /\ Behind(p)'
    BY <2>1, <2>2, StepPc, LoopMoves, BehindKept DEF Behind
  <2>4. ClaimedInOrder
    BY <2>1, <2>2, WriteElsewhere DEF ClaimedInOrder, Behind
  <2> QED
    BY <2>3, <2>4 DEF Orderly, Entering, Alone
<1>6. CASE CompleteRun(p)
  <2> DEFINE row == [Row(p) EXCEPT !.state = "completed"]
  <2>1. Leading(p) /\ ~At(p, "idle") /\ Writes(p, row) /\ NextJob(p)
    BY <1>6 DEF CompleteRun, At, Leading
  <2>2. row.state = "completed" /\ row.attempts = Row(p).attempts
    BY <2>1, RowTyped DEF RunRow
  <2> HIDE DEF row
  <2>3. Behind(p)
    BY <2>1 DEF Orderly
  <2>4. scheduler_runs'[process[p].session][Job(p)] = row
    BY <2>1, RowTyped, ProcessTyped DEF TypeOK, Writes
  <2>5. Orderly'
    BY <2>1, <2>2, <2>3, <2>4, BehindKept, AdvanceOrderly
  <2>6. ClaimedInOrder
    BY <2>1, <2>2, <2>3, <2>4, WriteElsewhere DEF ClaimedInOrder, Row, Job
  <2> QED
    BY <2>5, <2>6
<1>7. CASE FailRun(p)
  <2> DEFINE row == [Row(p) EXCEPT
               !.state = IF process[p].attempts >= MaxAttempts THEN "dead_letter" ELSE "retry",
               !.next_attempt_at = process[p].as_of + Backoff * process[p].attempts]
  <2>1. ~At(p, "idle") /\ Writes(p, row) /\ Goes(p, "stopping")
    BY <1>7 DEF FailRun, At
  <2>2. row.attempts = Row(p).attempts
    BY <2>1, RowTyped DEF RunRow
  <2> HIDE DEF row
  <2>3. scheduler_runs'[process[p].session][Job(p)] = row
    BY <2>1, RowTyped, ProcessTyped DEF TypeOK, Writes
  <2>4. ClaimedInOrder
    BY <2>1, <2>2, <2>3, WriteElsewhere DEF ClaimedInOrder, Row, Job
  <2>5. process'[p].pc = "stopping"
    BY <2>1, StepPc
  <2> QED
    BY <2>4, <2>5 DEF Orderly, Entering, Leading, Alone
<1>8. CASE Handler(p)
  <2>1. Leading(p) /\ UNCHANGED scheduler_runs
    BY <1>8 DEF Handler, DecisionSnapshot, RiskEvaluation, OrderSubmission, DailyReport, OtherJob,
        HandlerRaises, Handles, At, Leading, store
  <2>2. /\ process'[p].session = process[p].session /\ process'[p].job = process[p].job
        /\ process'[p].pc \in {"completing", "failing"}
    <3>1. CASE DecisionSnapshot(p)
      BY <3>1, ProcessTyped DEF DecisionSnapshot, TypeOK, ProcessRow
    <3>2. CASE ~DecisionSnapshot(p)
      <4>1. Goes(p, "completing") \/ Goes(p, "failing")
        BY <1>8, <3>2 DEF Handler, RiskEvaluation, OrderSubmission, DailyReport, OtherJob,
           HandlerRaises
      <4> QED
        BY <4>1, StepPc, LoopMoves
    <3> QED
      BY <3>1, <3>2
  <2>3. Behind(p)'
    BY <2>1, <2>2 DEF Orderly, Behind
  <2> QED
    BY <2>1, <2>2, <2>3 DEF Orderly, Entering, Alone, ClaimedInOrder
<1> QED
  BY <1>1, <1>2, <1>3, <1>4, <1>5, <1>6, <1>7, <1>8 DEF ProcessStep

LEMMA OrderlyNext ==
  ASSUME Alone
  PROVE  TypeOK /\ Orderly /\ [Next]_vars => Orderly' /\ [ClaimedInOrder]_vars
<1> SUFFICES ASSUME TypeOK, Orderly, [Next]_vars PROVE Orderly' /\ [ClaimedInOrder]_vars
  OBVIOUS
<1>1. CASE UNCHANGED vars
  BY <1>1 DEF vars, Orderly, Entering, Leading, Behind
<1>2. CASE resume
  BY <1>2 DEF resume, Orderly, Entering, Leading, Behind, ClaimedInOrder
<1>3. ASSUME NEW p \in Processes, NEW s \in Sessions, NEW t \in Times, Start(p, s, t)
      PROVE  Orderly' /\ ClaimedInOrder
  <2>1. process'[p].pc = "starting" /\ process'[p].job = 1 /\ UNCHANGED scheduler_runs
    BY <1>3 DEF Start, TypeOK, store
  <2> QED
    BY <2>1 DEF Orderly, Leading, Alone, ClaimedInOrder
<1>4. ASSUME NEW p \in Processes, ProcessStep(p) \/ Exit(p) \/ Crash(p)
      PROVE  Orderly' /\ ClaimedInOrder
  BY <1>4, OrderlyStep
<1> QED
  BY <1>1, <1>2, <1>3, <1>4 DEF Next

\* With one process at a time a job is claimed only behind jobs that have completed or
\* are taken to be still running: a failed job stops every later one of its session,
\* whatever crashes, resumes and clocks come in between.
THEOREM OrderTheorem ==
  ASSUME Alone
  PROVE  Spec => ClaimsInOrder
<1>1. Init => Orderly
  BY DEF Init, Orderly, Entering, Leading, IdleProcess
<1>2. TypeOK /\ Orderly /\ [Next]_vars =>
        [\A s \in Sessions, j \in DOMAIN Jobs :
           scheduler_runs[s][Jobs[j]].attempts # scheduler_runs'[s][Jobs[j]].attempts =>
             \A i \in 1..(j - 1) :
               scheduler_runs[s][Jobs[i]].state \in {"completed", "running"}]_vars
  BY OrderlyNext DEF ClaimedInOrder
<1> QED
  BY <1>1, <1>2, OrderlyNext, InitTyped, NextTyped, PTL DEF Spec, ClaimsInOrder
=============================================================================
