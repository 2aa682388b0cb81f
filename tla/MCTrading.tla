------------------------------ MODULE MCTrading ------------------------------
(* The trading side, one part at a time, over the same fees, calendar length and
   instruments: a behaviour is a backtest, a paper desk, or a session of the offline broker.
   The three share no state; the desk and the backtest share the portfolio ledger. *)
EXTENDS BacktestReplay, PaperDesk, OfflineBroker

VARIABLE part

(* What the parts without a backtest keep in its variables. *)
NoBacktest ==
    /\ config = <<>> /\ day = 1 /\ phase = "none" /\ session = <<>> /\ intents = {} /\ pendingActions = {}
    /\ openNav = 0 /\ ledger = OpenLedger(InitialCash, 0) /\ book = NoOrders
    /\ journal = <<>> /\ tally = <<>> /\ failure = "none"

TradingInit ==
    /\ part \in {"backtest", "desk", "broker"}
    /\ IF part = "backtest" THEN Init ELSE NoBacktest
    /\ DeskInit /\ BrokerInit
    /\ part # "broker" => faults = {} /\ "cancel" \in supported

TradingNext ==
    \/ part = "backtest" /\ Next /\ UNCHANGED <<part, deskVars, brokerVars>>
    \/ part = "desk" /\ DeskNext /\ UNCHANGED <<part, vars, brokerVars>>
    \/ part = "broker" /\ BrokerNext /\ UNCHANGED <<part, vars, deskVars>>

TradingSpec == TradingInit /\ [][TradingNext]_<<part, vars, deskVars, brokerVars>>

(* Backtest: two instruments, four calendar days, settlement after one session. *)
Bands == <<[upper |-> 10, tick |-> 1], [upper |-> 0, tick |-> 2]>>

Order == <<"A", "B">>

Dividend ==
    [id |-> 1, kind |-> "dividend", instrument |-> "A", effective |-> 2, pay |-> 3,
     perShare |-> 1, num |-> 1, den |-> 1]

Split ==
    [id |-> 2, kind |-> "split", instrument |-> "A", effective |-> 2, pay |-> 0,
     perShare |-> 0, num |-> 1, den |-> 2]

TopOne ==
    [kind |-> "top_k", topK |-> 1, quantile |-> 100, threshold |-> 0, cashBuffer |-> 10,
     maximumWeight |-> 80, insufficient |-> "use_available"]

Daily ==
    [frequency |-> "daily", interval |-> 1, missing |-> "hold_previous_target",
     minimumCoverage |-> 50, onCoverage |-> "skip_rebalance"]

Weekly ==
    [frequency |-> "weekly", interval |-> 1, missing |-> "skip_rebalance",
     minimumCoverage |-> 100, onCoverage |-> "fail_closed"]

EverySecond ==
    [frequency |-> "n_sessions", interval |-> 2, missing |-> "liquidate_to_cash",
     minimumCoverage |-> 50, onCoverage |-> "fail_closed"]

Setup(policy, rebalance, cancel, actions) ==
    [policy |-> policy, rebalance |-> rebalance, cancel |-> cancel, actions |-> actions]

SetupSet ==
    {Setup(TopOne, Daily, TRUE, {Dividend, Split}),
     Setup([TopOne EXCEPT !.topK = 2, !.insufficient = "hold_cash"], Daily, FALSE, {Dividend}),
     Setup([TopOne EXCEPT !.kind = "quantile"], Weekly, TRUE, {Split}),
     Setup([TopOne EXCEPT !.kind = "threshold", !.threshold = 1], EverySecond, FALSE, {})}

Quote(open, close, volume, halted) ==
    [open |-> open, close |-> close, ref |-> open, volume |-> volume, halted |-> halted]

QuoteSet ==
    [i \in {"A", "B"} |->
        IF i = "A" THEN {Quote(8, 10, 40, FALSE), Quote(12, 12, 4, FALSE)}
                   ELSE {Quote(4, 4, 40, FALSE), Quote(4, 3, 40, TRUE)}]

RowSet == {<<>>, "A" :> 2, "A" :> 1 @@ "B" :> 2}

-----------------------------------------------------------------------------
(* Desk: an ordinary day, a day on which A doubles and is thin, and one on which A is
   halted and B so thin that the participation cap leaves nothing to fill. *)
Day(priceA, volumeA, haltedA, volumeB) ==
    "A" :> [price |-> priceA, volume |-> volumeA, halted |-> haltedA]
      @@ "B" :> [price |-> 100, volume |-> volumeB, halted |-> FALSE]

MarketSet == {Day(100, 40, FALSE, 40), Day(200, 12, FALSE, 40), Day(100, 40, TRUE, 3)}

Wanted == {"A" :> 49 @@ "B" :> 49, "B" :> 50}

DeskPolicy ==
    [gross |-> 100, single |-> 98, buffer |-> 2, turnover |-> 100, participation |-> 50,
     orders |-> 20, positions |-> 2]

-----------------------------------------------------------------------------
(* Broker: one order that may be resubmitted with another quantity, one odd lot; fills
   that come twice under one fill id, too large or early, and order updates among them. *)
Capabilities == {"submit", "cancel", "replace"}

FixtureSet ==
    {[faults |-> {}, supported |-> Capabilities],
     [faults |-> {"session_expired"}, supported |-> Capabilities],
     [faults |-> {"odd_lot_rejected"}, supported |-> Capabilities],
     [faults |-> {"rate_limited"}, supported |-> {"submit"}]}

Request(client, quantity, lot) ==
    [client |-> client, key |-> <<"key", client>>, quantity |-> quantity, lot |-> lot]

RequestSet == {Request("c1", 2, "common"), Request("c1", 3, "common"), Request("c2", 1, "odd")}

FillEvent(id, client, sequence, fill, quantity) ==
    [identity |-> id, kind |-> "fill", client |-> client, sequence |-> sequence,
     fill |-> fill, quantity |-> quantity]

OrderEvent(id, client, sequence, state) ==
    [identity |-> id, kind |-> "order", client |-> client, sequence |-> sequence,
     state |-> state, quantity |-> 1]

CallbackSet ==
    {FillEvent(1, "c1", 2, "f1", 1), FillEvent(2, "c1", 3, "f1", 1),
     FillEvent(3, "c1", 3, "f2", 1), FillEvent(4, "c1", 4, "f2", 2),
     OrderEvent(5, "c1", 3, "cancelled"), OrderEvent(6, "c1", 4, "replaced"),
     FillEvent(7, "c2", 2, "f3", 1), OrderEvent(8, "c2", 1, "acknowledged")}
=============================================================================
