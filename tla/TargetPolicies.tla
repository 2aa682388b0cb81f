---------------------------- MODULE TargetPolicies ----------------------------
(***************************************************************************)
(* Targets from pinned predictions: PredictionTargetBuilder and the        *)
(* rebalance policies of backtest/targets.py, and the conversion of a      *)
(* target into an order by execution/simulation.py.                        *)
(* The rows of a decision map the predicted instruments to a rank score;   *)
(* 0 is a row whose prediction is missing.  Weights are [num, den].        *)
(***************************************************************************)
EXTENDS PendingOrders

CONSTANTS InstrumentOrder,  \* the instruments in the order of their keys
          WeekLength        \* calendar days of one ISO week

ASSUME OrderAssumption ==
    /\ InstrumentOrder \in Seq(Instruments) /\ Range(InstrumentOrder) = Instruments
    /\ WeekLength \in Nat \ {0}

Key(i) == CHOOSE k \in DOMAIN InstrumentOrder : InstrumentOrder[k] = i

(* The place of i among the members of S. *)
Place(S, i) == Cardinality({j \in S : Key(j) <= Key(i)})

(* The members of S in key order. *)
InKeyOrder(S) == [k \in 1 .. Cardinality(S) |-> CHOOSE i \in S : Place(S, i) = k]

Predicted(rows) == {i \in DOMAIN rows : rows[i] # 0}

(* Position in the sort by (-prediction, instrument). *)
Rank(rows, i) ==
    1 + Cardinality({j \in Predicted(rows) : \/ rows[j] > rows[i]
                                             \/ rows[j] = rows[i] /\ Key(j) < Key(i)})

(* _selected_count, with the hold-cash rule of a short top-k list. *)
SelectedCount(policy, rows) ==
    LET n == Cardinality(Predicted(rows))
    IN CASE policy.kind = "top_k" ->
                IF n < policy.topK /\ policy.insufficient = "hold_cash" THEN 0
                ELSE Min({policy.topK, n})
         [] policy.kind = "quantile" -> Min({n, CeilDiv(n * policy.quantile, RateUnit)})
         [] policy.kind = "threshold" ->
                Cardinality({i \in Predicted(rows) : rows[i] > policy.threshold})

(* Equal weights of what is not kept as a cash buffer, capped. *)
Weight(policy, count) ==
    IF RateUnit - policy.cashBuffer <= policy.maximumWeight * count
    THEN [num |-> RateUnit - policy.cashBuffer, den |-> RateUnit * count]
    ELSE [num |-> policy.maximumWeight, den |-> RateUnit]

NoWeight == [num |-> 0, den |-> 1]

(* build: every predicted row gets a target, those not selected a zero. *)
BuildTargets(policy, rows) ==
    LET count == SelectedCount(policy, rows)
    IN [i \in DOMAIN rows |->
          IF rows[i] # 0 /\ Rank(rows, i) <= count THEN Weight(policy, count) ELSE NoWeight]

-----------------------------------------------------------------------------
(* scheduled_sessions over the session days of the pinned calendar. *)
Scheduled(rebalance, days) ==
    LET Position(d) == Cardinality({e \in days : e < d})
        Week(d) == (d - 1) \div WeekLength
    IN CASE rebalance.frequency = "daily" -> days
         [] rebalance.frequency = "n_sessions" ->
                {d \in days : Position(d) % rebalance.interval = 0}
         [] rebalance.frequency = "weekly" ->
                {d \in days : \A e \in days : e < d => Week(e) # Week(d)}

(* PinnedTargetStrategy.targets on a scheduled session.  A decision with no
   artifact has no rows.  Coverage below the minimum skips or raises. *)
Covered(rebalance, rows) ==
    /\ Cardinality(Predicted(rows)) * RateUnit
            >= rebalance.minimumCoverage * Cardinality(Instruments)
    /\ DOMAIN rows # {}

StrategyTargets(policy, rebalance, rows) ==
    LET absent == Instruments \ DOMAIN rows
        pinned == BuildTargets(policy, rows)
    IN IF absent # {} /\ rebalance.missing = "skip_rebalance" THEN <<>>
       ELSE IF rebalance.missing = "liquidate_to_cash" 
            THEN [i \in DOMAIN pinned \cup absent |-> IF i \in absent THEN NoWeight ELSE pinned[i]]
       ELSE pinned

-----------------------------------------------------------------------------
(* TargetOrderConverter: the largest affordable quantity that the weight of the
   net asset value buys at the price known when the decision was made. *)
TargetQuantity(weight, nav, price, held) ==
    LET most == (nav * weight.num) \div (weight.den * price)
        Affordable(q) == (price * q + Fee(price * (q - held))) * weight.den <= nav * weight.num
    IN IF most <= held THEN most
       ELSE Max({held} \cup {q \in held + 1 .. most : Affordable(q)})

(* convert: the order for a quantity that is not held already. *)
Intent(id, i, wanted, held) ==
    [id |-> id, instrument |-> i,
     side |-> IF wanted > held THEN "buy" ELSE "sell",
     quantity |-> IF wanted > held THEN wanted - held ELSE held - wanted]
=============================================================================
