------------------------------- MODULE PaperDesk -------------------------------
(***************************************************************************)
(* The money of the paper desk: PaperRuntime.run_once as PaperService runs  *)
(* it, here with what its jobs do to orders, reservations, fills and the    *)
(* published portfolio.  A day's cycle takes targets, sizes orders against  *)
(* the last published portfolio and the open orders, reserves, delivers to  *)
(* the day's broker and replays all fills into a new ledger.  A cycle may   *)
(* die anywhere, be repeated, or be left behind by the next day.            *)
(***************************************************************************)
EXTENDS PortfolioLedger

CONSTANTS
    DeskDays,           \* sessions the desk trades
    DeskHorizon,        \* last day of the pinned calendar
    DeskCash,           \* initial_cash of the projection and of the executor
    Markets,            \* what a day's market can be: [Instruments -> [price, volume, halted]]
    TargetSets,         \* target weights over RateUnit, by the instruments they name
    RiskPolicy,         \* [gross, single, buffer, turnover, participation: over RateUnit,
                        \*  orders, positions]
    BrokerCap,          \* participation cap of the broker, over RateUnit
    MaxInterrupts       \* bound: crashes and failing risk checks

(* PaperSoakPlan.validate: a day's market covers every instrument of the plan. *)
ValidMarket(m) ==
    /\ DOMAIN m = Instruments
    /\ \A i \in Instruments : m[i].price \in Nat \ {0} /\ m[i].volume \in Nat

(* validate_paper_target_records: long-only weights of some instruments, which their
   capital covers. *)
ValidTargets(t) ==
    /\ DOMAIN t \subseteq Instruments /\ DOMAIN t # {}
    /\ \A i \in DOMAIN t : t[i] \in 0..RateUnit
    /\ SumFunction(t) <= RateUnit

ASSUME DeskAssumption ==
    /\ DeskDays \in Nat \ {0} /\ DeskHorizon \in Nat /\ DeskDays <= DeskHorizon
    /\ DeskCash \in Nat \ {0} /\ BrokerCap \in Nat /\ MaxInterrupts \in Nat
    /\ \A m \in Markets : ValidMarket(m)
    /\ \A t \in TargetSets : ValidTargets(t)

VARIABLES
    markets,    \* the markets of the days so far: today is Len(markets)
    wanted,     \* the target artifact of today
    rows,       \* scheduler rows of today: none, running, completed or retry
    cycle,      \* the running process: job, whether it holds the row, target, commands to queue
    safe,       \* safe mode
    interrupts, \* crashes and failing risk checks so far
    orders,     \* the OMS orders, in the order of their creation
    fills,      \* the fills, in the order of their delivery
    portfolio,  \* the published portfolio
    limit,      \* auxiliary: what the last execution allows of an instrument
    blind,      \* auxiliary: an execution has not seen every fill
    repriced    \* auxiliary: an order was filled above the price it was approved at

deskVars == <<markets, wanted, rows, cycle, safe, interrupts, orders, fills, portfolio,
              limit, blind, repriced>>

Jobs == <<"decision", "risk", "submit", "reconcile", "mark">>

NoTarget == <<>>

Idle == [job |-> 0, holds |-> FALSE, target |-> NoTarget, todo |-> {}]

Today == Len(markets)

Busy(job) == cycle.job # 0 /\ cycle.holds /\ Jobs[cycle.job] = job

-----------------------------------------------------------------------------
(* PaperAccountingProjector.project: replay of the fills up to today.  Every day looks at
   every fill and passes over those of other days. *)
ReplayDeskFill(l, k, d) == IF fills[k].day = d THEN ApplyFill(l, fills[k], d, DeskHorizon) ELSE l

(* A replay that has raised ends.  The calendar is pinned with a market for every instrument
   on every day, so every position is marked. *)
ReplayDay(l, d) ==
    LET after[k \in 0..Len(fills)] ==
            IF k = 0 THEN ProcessSettlements(l, d, 10 * d) ELSE ReplayDeskFill(after[k - 1], k, d)
        price == [i \in Instruments |-> markets[d][i].price]
    IN  IF ~Good(l) THEN l ELSE AgeUnmarked(MarkAll(after[Len(fills)], price), Instruments)

Replayed ==
    LET after[d \in 0..Today] ==
            IF d = 0 THEN OpenLedger(DeskCash, 0) ELSE ReplayDay(after[d - 1], d)
    IN  after[Today]

Projection == Checked(Replayed)

Held(l) == [i \in Instruments |-> l.positions[i].quantity]

NothingPublished ==
    [nav |-> DeskCash, available |-> DeskCash, held |-> [i \in Instruments |-> 0], covers |-> 0]

Document(l) ==
    [nav |-> NetAssetValue(l), available |-> Available(l), held |-> Held(l), covers |-> Len(fills)]

Publish(l) == portfolio' = Document(l)

(* The holdings that the fills of the OMS amount to. *)
SumOver(s, Value(_)) == SumFunction([k \in DOMAIN s |-> Value(s[k])])

Change(side, quantity) == IF side = "buy" THEN quantity ELSE -quantity

TrueHolding(i) ==
    SumOver(fills, LAMBDA f : IF f.instrument = i THEN Change(f.side, f.quantity) ELSE 0)

-----------------------------------------------------------------------------
(* Orders.  An order that died between approval and its outbox stays risk_approved;
   one that died before its approval stays created and counts for nobody. *)
Remaining(o) == o.quantity - o.filled

(* _OPEN_ORDER_STATES of the executor, as far as they occur here. *)
OpenStates == {"risk_approved", "submit_pending", "acknowledged", "partially_filled"}

OpenQuantity(side, i) ==
    SumOver(orders, LAMBDA o : IF o.state \in OpenStates /\ o.instrument = i /\ o.side = side
                               THEN Remaining(o) ELSE 0)

(* What can still be filled. *)
LiveStates == OpenStates \ {"risk_approved"}

LiveQuantity(side, i) ==
    SumOver(orders, LAMBDA o : IF o.state \in LiveStates /\ o.instrument = i /\ o.side = side
                               THEN Remaining(o) ELSE 0)

DeskReservedCash == SumOver(orders, LAMBDA o : o.cash)

ReservedShares(i) ==
    SumOver(orders, LAMBDA o : IF o.instrument = i /\ o.side = "sell" THEN o.shares ELSE 0)

\* Mutant: open orders are not counted.
ProjectedSettled(i) == portfolio.held[i]

(* Positions as they will be when the open orders have filled. *)
Projected(i) == portfolio.held[i] + OpenQuantity("buy", i) - OpenQuantity("sell", i)

Desired(t, i) == (portfolio.nav * t[i]) \div (RateUnit * markets[Today][i].price)

Delta(t, i) == Desired(t, i) - Projected(i)

Magnitude(n) == IF n < 0 THEN -n ELSE n

(* The reasons for which execute raises before it has queued anything. *)
ExecuteRaises(t) ==
    LET named == DOMAIN t
        price(i) == markets[Today][i].price
        changed == {i \in named : Delta(t, i) # 0}
    IN  \/ SumFunction(t) > RiskPolicy.gross
        \/ SumFunction(t) > RateUnit - RiskPolicy.buffer
        \/ \E i \in named : t[i] > RiskPolicy.single
        \/ \E i \in Instruments \ named : portfolio.held[i] # 0
        \/ \E k \in DOMAIN orders : orders[k].state \in OpenStates
                                      /\ orders[k].instrument \notin named
        \/ \E i \in changed :
                Magnitude(Delta(t, i)) * RateUnit > RiskPolicy.participation * markets[Today][i].volume
        \/ MapThenSumSet(LAMBDA i : Desired(t, i) * price(i), named) * RateUnit
               > RiskPolicy.gross * portfolio.nav
        \/ \E i \in named : Desired(t, i) * price(i) * RateUnit > RiskPolicy.single * portfolio.nav
        \/ Cardinality({i \in named : Desired(t, i) > 0}) > RiskPolicy.positions
        \/ MapThenSumSet(LAMBDA i : Magnitude(Delta(t, i)) * price(i), named) * RateUnit
               > RiskPolicy.turnover * portfolio.nav
        \/ Cardinality({k \in DOMAIN orders : orders[k].day = Today}) + Cardinality(changed)
               > RiskPolicy.orders

Commands(t) ==
    {[instrument |-> i, side |-> IF Delta(t, i) > 0 THEN "buy" ELSE "sell",
      quantity |-> Magnitude(Delta(t, i))] : i \in {j \in DOMAIN t : Delta(t, j) # 0}}

(* The estimate of a buy allows for slippage, as the broker's price does. *)
EstimatedCost(c) ==
    LET price == markets[Today][c.instrument].price
    IN  IF c.side = "buy" THEN price + (price * SlippageRate) \div RateUnit ELSE price

\* Mutant: costs are not reserved.
RequiredGross(c) == EstimatedCost(c) * c.quantity

Required(c) == LET gross == EstimatedCost(c) * c.quantity
               IN  gross + Fee(gross) + Tax(c.side, gross)

(* The check of queue against what earlier orders have reserved. *)
Affordable(c) ==
    IF c.side = "buy" THEN Required(c) <= portfolio.available - DeskReservedCash
    ELSE c.quantity <= portfolio.held[c.instrument] - ReservedShares(c.instrument)

NewOrder(c, state) ==
    [instrument |-> c.instrument, side |-> c.side, quantity |-> c.quantity, filled |-> 0,
     day |-> Today, price |-> EstimatedCost(c), state |-> state,
     cash |-> IF state = "submit_pending" /\ c.side = "buy" THEN Required(c) ELSE 0,
     shares |-> IF state = "submit_pending" THEN c.quantity ELSE 0,
     outbox |-> state = "submit_pending"]

-----------------------------------------------------------------------------
DeskInit ==
    /\ markets = <<>> /\ wanted = NoTarget
    /\ rows = [j \in DOMAIN Jobs |-> "completed"]
    /\ cycle = Idle /\ safe = FALSE /\ interrupts = 0
    /\ orders = <<>> /\ fills = <<>> /\ portfolio = NothingPublished
    /\ limit = [i \in Instruments |-> 0] /\ blind = FALSE /\ repriced = FALSE

oms == <<orders, fills>>
audit == <<limit, blind, repriced>>

(* The next session comes whether or not the last one was finished. *)
StartDay ==
    /\ cycle = Idle /\ Today < DeskDays
    /\ \E m \in Markets : markets' = Append(markets, m)
    /\ wanted' \in TargetSets
    /\ rows' = [j \in DOMAIN Jobs |-> "none"]
    /\ UNCHANGED <<cycle, safe, interrupts, oms, portfolio, audit>>

(* startup of a new process, whose broker knows no order: an order that was delivered and
   is not terminal sends it into safe mode. *)
MissingAtBroker ==
    \E k \in DOMAIN orders : orders[k].state \in {"acknowledged", "partially_filled"}

StartCycle ==
    /\ cycle = Idle /\ markets # <<>> /\ ~safe
    /\ IF MissingAtBroker THEN safe' = TRUE /\ cycle' = cycle
       ELSE safe' = safe /\ cycle' = [Idle EXCEPT !.job = 1]
    /\ UNCHANGED <<markets, wanted, rows, interrupts, oms, portfolio, audit>>

NextDeskJob == IF cycle.job = Len(Jobs) THEN Idle
               ELSE [cycle EXCEPT !.job = @ + 1, !.holds = FALSE]

(* A completed row is not run again; one left running is passed over or, after its grace,
   taken over. *)
SkipJob ==
    /\ cycle.job # 0 /\ ~cycle.holds
    /\ rows[cycle.job] \in {"completed", "running"}
    /\ cycle' = NextDeskJob
    /\ UNCHANGED <<markets, wanted, rows, safe, interrupts, oms, portfolio, audit>>

ClaimJob ==
    /\ cycle.job # 0 /\ ~cycle.holds
    /\ rows[cycle.job] # "completed"
    /\ rows' = [rows EXCEPT ![cycle.job] = "running"]
    /\ cycle' = [cycle EXCEPT !.holds = TRUE]
    /\ UNCHANGED <<markets, wanted, safe, interrupts, oms, portfolio, audit>>

CompleteJob(c) ==
    /\ rows' = [rows EXCEPT ![cycle.job] = "completed"]
    /\ cycle' = c
    /\ UNCHANGED safe

FailJob ==
    /\ rows' = [rows EXCEPT ![cycle.job] = "retry"]
    /\ cycle' = Idle /\ safe' = TRUE

(* decision_snapshot: the target lives in the memory of this cycle. *)
ReadTarget ==
    /\ Busy("decision")
    /\ CompleteJob([NextDeskJob EXCEPT !.target = wanted])
    /\ UNCHANGED <<markets, wanted, interrupts, oms, portfolio, audit>>

(* risk_evaluation: execute sizes every command before it queues the first. *)
Size ==
    /\ Busy("risk") /\ cycle.target # NoTarget
    /\ IF ExecuteRaises(cycle.target)
         THEN FailJob /\ UNCHANGED audit
         ELSE /\ cycle' = [cycle EXCEPT !.target = NoTarget, !.todo = Commands(cycle.target)]
              /\ limit' = [i \in Instruments |->
                    Max({TrueHolding(i) + LiveQuantity("buy", i)}
                          \cup (IF i \in DOMAIN cycle.target
                                THEN {Desired(cycle.target, i) + OpenQuantity("sell", i)}
                                ELSE {}))]
              /\ blind' = (blind \/ portfolio.covers # Len(fills))
              /\ UNCHANGED <<rows, safe, repriced>>
    /\ UNCHANGED <<markets, wanted, interrupts, oms, portfolio>>

(* Sells are queued first. *)
NextCommand(c) == c \in cycle.todo /\ (c.side = "buy" => \A d \in cycle.todo : d.side = "buy")

QueueOrder(c) ==
    /\ NextCommand(c)
    /\ orders' = Append(orders, NewOrder(c, IF Affordable(c) THEN "submit_pending"
                                            ELSE "risk_rejected"))
    /\ cycle' = [cycle EXCEPT !.todo = @ \ {c}]
    /\ UNCHANGED <<markets, wanted, rows, safe, interrupts, fills, portfolio, audit>>

EvaluateRisk ==
    /\ Busy("risk") /\ cycle.target = NoTarget /\ cycle.todo = {}
    /\ CompleteJob(NextDeskJob)
    /\ UNCHANGED <<markets, wanted, interrupts, oms, portfolio, audit>>

(* A risk limit of the runtime is exceeded before the target is executed or after. *)
RiskLimitFails ==
    /\ Busy("risk") /\ cycle.todo = {}
    /\ interrupts < MaxInterrupts /\ interrupts' = interrupts + 1
    /\ FailJob
    /\ UNCHANGED <<markets, wanted, oms, portfolio, audit>>

-----------------------------------------------------------------------------
(* paper_order_submission: the answer of the broker to an order today. *)
BrokerPrice(o) ==
    LET price == markets[Today][o.instrument].price
        slip == (price * SlippageRate) \div RateUnit
    IN  IF o.side = "buy" THEN price + slip ELSE price - slip

Fills(o) == ~markets[Today][o.instrument].halted /\ markets[Today][o.instrument].volume > 0

FillQuantity(o) ==
    Min({o.quantity, (markets[Today][o.instrument].volume * BrokerCap) \div RateUnit})

(* A fill is known by its price and quantity; an order has at most one. *)
SameFill(k) ==
    \E n \in DOMAIN fills : /\ fills[n].order = k
                            /\ fills[n].quantity = FillQuantity(orders[k])
                            /\ fills[n].price = BrokerPrice(orders[k])

FillOf(k) ==
    LET o == orders[k]
        gross == BrokerPrice(o) * FillQuantity(o)
    IN  [order |-> k, id |-> k, instrument |-> o.instrument, side |-> o.side, day |-> Today,
         quantity |-> FillQuantity(o), price |-> BrokerPrice(o),
         fee |-> Fee(gross), tax |-> Tax(o.side, gross), at |-> 10 * Today + 1]

Acknowledged(o) == IF o.state = "submit_pending" THEN [o EXCEPT !.state = "acknowledged"] ELSE o

AfterDeskFill(o, quantity) ==
    LET rest == o.quantity - quantity
    IN  [o EXCEPT !.filled = quantity, !.shares = rest,
                  !.cash = (o.cash * rest) \div o.quantity,
                  !.state = IF rest = 0 THEN "filled" ELSE "partially_filled"]

Delivered(o) == [o EXCEPT !.outbox = FALSE]

(* Rows are delivered day by day, in an arbitrary order within a day. *)
NextRow(k) ==
    /\ orders[k].outbox
    /\ \A n \in DOMAIN orders : orders[n].outbox => orders[k].day <= orders[n].day

DeliverUnfilled(k) ==
    /\ Busy("submit") /\ NextRow(k)
    /\ ~Fills(orders[k]) \/ SameFill(k)
    /\ orders' = [orders EXCEPT ![k] = Delivered(Acknowledged(@))]
    /\ UNCHANGED <<markets, wanted, rows, cycle, safe, interrupts, fills, portfolio, audit>>

Fillable(k) ==
    /\ Fills(orders[k]) /\ ~SameFill(k)
    /\ orders[k].state = "submit_pending"
    /\ FillQuantity(orders[k]) > 0

AboveApproval(o) == o.side = "buy" /\ BrokerPrice(o) > o.price

DeliverFilled(k) ==
    /\ Busy("submit") /\ NextRow(k) /\ Fillable(k)
    /\ \E crash \in {FALSE} \cup {interrupts < MaxInterrupts} :
        LET filled == AfterDeskFill(orders[k], FillQuantity(orders[k])) IN
        /\ orders' = [orders EXCEPT ![k] = IF crash THEN filled ELSE Delivered(filled)]
        /\ cycle' = IF crash THEN Idle ELSE cycle
        /\ interrupts' = IF crash THEN interrupts + 1 ELSE interrupts
    /\ fills' = Append(fills, FillOf(k))
    /\ repriced' = (repriced \/ AboveApproval(orders[k]))
    /\ UNCHANGED <<markets, wanted, rows, safe, portfolio, limit, blind>>

(* A fill of nothing, or of an order that is no longer open, raises and ends the job. *)
DeliverRaises(k) ==
    /\ Busy("submit") /\ NextRow(k)
    /\ Fills(orders[k]) /\ ~SameFill(k) /\ ~Fillable(k)
    /\ orders' = [orders EXCEPT ![k] = Acknowledged(@)]
    /\ FailJob
    /\ UNCHANGED <<markets, wanted, interrupts, fills, portfolio, audit>>

OutboxEmpty ==
    /\ Busy("submit") /\ \A k \in DOMAIN orders : ~orders[k].outbox
    /\ CompleteJob(NextDeskJob)
    /\ UNCHANGED <<markets, wanted, interrupts, oms, portfolio, audit>>

(* reconciliation and mark_to_market both project; a replay that raises publishes nothing. *)
Project ==
    /\ Busy("reconcile") \/ Busy("mark")
    /\ IF Good(Projection)
         THEN CompleteJob(NextDeskJob) /\ Publish(Projection)
         ELSE FailJob /\ UNCHANGED portfolio
    /\ UNCHANGED <<markets, wanted, interrupts, oms, audit>>

-----------------------------------------------------------------------------
CrashDesk ==
    /\ cycle.holds /\ interrupts < MaxInterrupts
    /\ interrupts' = interrupts + 1
    /\ cycle' = Idle
    /\ UNCHANGED <<markets, wanted, rows, safe, oms, portfolio, audit>>

(* A crash inside queue leaves the order created, or approved without its outbox row. *)
CrashInQueue(c) ==
    /\ NextCommand(c) /\ Affordable(c)
    /\ interrupts < MaxInterrupts
    /\ interrupts' = interrupts + 1
    /\ orders' = Append(orders, NewOrder(c, "risk_approved"))
    /\ cycle' = Idle
    /\ UNCHANGED <<markets, wanted, rows, safe, fills, portfolio, audit>>

(* The operator cancels what the new broker does not know, and resumes.  *)
OperatorCancels(k) ==
    /\ cycle = Idle /\ safe
    /\ orders[k].state \in {"acknowledged", "partially_filled"}
    /\ orders' = [orders EXCEPT ![k].state = "cancelled", ![k].cash = 0, ![k].shares = 0]
    /\ UNCHANGED <<markets, wanted, rows, cycle, safe, interrupts, fills, portfolio, audit>>

OperatorResumes ==
    /\ cycle = Idle /\ safe
    /\ safe' = FALSE
    /\ UNCHANGED <<markets, wanted, rows, cycle, interrupts, oms, portfolio, audit>>

DeskNext ==
    \/ StartDay \/ StartCycle \/ SkipJob \/ ClaimJob
    \/ ReadTarget \/ Size \/ EvaluateRisk \/ RiskLimitFails
    \/ \E c \in cycle.todo : QueueOrder(c) \/ CrashInQueue(c)
    \/ \E k \in DOMAIN orders : \/ DeliverUnfilled(k) \/ DeliverFilled(k) \/ DeliverRaises(k)
                                \/ OperatorCancels(k)
    \/ OutboxEmpty \/ Project \/ CrashDesk \/ OperatorResumes

DeskSpec == DeskInit /\ [][DeskNext]_deskVars

-----------------------------------------------------------------------------
(* As long as every execution has seen every fill, what the desk holds and may still buy
   stays within what its last execution decided on, and what it may still sell is there:
   orders left over by crashes, refusals and unfinished days are neither bought twice nor
   sold twice (operations/strategy.py, execute over projected positions). *)
NeverBeyondTarget ==
    ~blind => \A i \in Instruments :
        /\ TrueHolding(i) + LiveQuantity("buy", i) <= limit[i]
        /\ LiveQuantity("sell", i) <= TrueHolding(i)

(* Whenever the desk projects, and as long as every execution has seen every fill and none
   cost more than was approved, the replay of all fills into a new ledger goes through and
   holds what was filled: no purchase exceeds the cash that is neither owed nor unsettled,
   and no sale is short (oms/service.py queue against operations/accounting.py project). *)
FillsStayAffordable ==
    (Busy("reconcile") \/ Busy("mark")) /\ ~blind /\ ~repriced =>
        Good(Projection) /\ \A i \in Instruments : Held(Projection)[i] = TrueHolding(i)
=============================================================================
