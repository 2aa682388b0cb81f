---------------------------- MODULE TradingPolicies ----------------------------
(***************************************************************************)
(* The versioned trading policies: costs of backtest/policies.py and the   *)
(* adverse, tick-rounded price and volume limit of execution/simulation.py.*)
(* Money and prices are integers.  Rates are fractions of RateUnit.        *)
(***************************************************************************)
EXTENDS Integers, Sequences, FiniteSetsExt

CONSTANTS
    RateUnit,           \* the denominator of every rate
    MinimumCommission,  \* charged once in the life of an order
    CommissionRate,
    TaxRate,            \* transaction tax on sales
    SlippageRate,
    ParticipationRate,  \* share of a session's volume an order may take
    AllowPartialFills,
    TickBands,          \* sequence of [upper, tick]; upper = 0 is unbounded
    SettlementLag       \* sessions from trade to settlement

ASSUME PolicyAssumption ==
    /\ RateUnit \in Nat \ {0}
    /\ {MinimumCommission, CommissionRate, TaxRate, SlippageRate, SettlementLag} \subseteq Nat
    /\ ParticipationRate \in 1 .. RateUnit
    /\ SlippageRate < RateUnit
    /\ AllowPartialFills \in BOOLEAN

(* Positive ticks, and a final band without an upper bound, as tick() asserts. *)
ASSUME BandsAssumption ==
    /\ DOMAIN TickBands = 1 .. Len(TickBands) /\ Len(TickBands) \in Nat \ {0}
    /\ \A i \in DOMAIN TickBands : TickBands[i].upper \in Nat /\ TickBands[i].tick \in Nat \ {0}
    /\ TickBands[Len(TickBands)].upper = 0

Sides == {"buy", "sell"}

CeilDiv(a, b) == (a + b - 1) \div b

(* Rounding half to even, as the cost of a partial sale is allocated. *)
RoundHalfEven(n, d) ==
    LET q == n \div d
        r == n % d
    IN IF 2 * r < d \/ (2 * r = d /\ q % 2 = 0) THEN q ELSE q + 1

Fee(gross) == Max({MinimumCommission, CeilDiv(gross * CommissionRate, RateUnit)})

Tax(side, gross) == IF side = "sell" THEN (gross * TaxRate) \div RateUnit ELSE 0

(* incremental_costs: the fee of the whole order so far, less what was charged. *)
IncrementalFee(grossBefore, gross, charged) == Fee(grossBefore + gross) - charged

-----------------------------------------------------------------------------
(* Tick of a price scaled by RateUnit. *)
Tick(scaled) ==
    LET fits == {i \in DOMAIN TickBands :
                    TickBands[i].upper = 0 \/ scaled < TickBands[i].upper * RateUnit}
    IN TickBands[Min(fits)].tick

(* estimated_price: round against the trader, then look the tick up again,
   at most three times, until the rounded price keeps its tick.  0 is a raise. *)
EstimatedPrice(side, open) ==
    LET raw == open * (IF side = "buy" THEN RateUnit + SlippageRate ELSE RateUnit - SlippageRate)
        Rounded(tick) == tick * (IF side = "buy" THEN CeilDiv(raw, tick * RateUnit)
                                                 ELSE raw \div (tick * RateUnit))
        Again(tick) == Tick(Rounded(tick) * RateUnit)
        tried == <<Tick(raw), Again(Tick(raw)), Again(Again(Tick(raw)))>>
        stable == {i \in 1 .. 3 : Rounded(tried[i]) > 0 /\ Again(tried[i]) = tried[i]}
    IN IF stable = {} THEN 0 ELSE Rounded(tried[Min(stable)])

(* What ConservativeFillSimulator.simulate fills of an order; 0 is an unfilled outcome. *)
FilledQuantity(quantity, quote) ==
    LET capacity == (quote.volume * ParticipationRate) \div RateUnit
        filled == Min({quantity, capacity})
    IN IF quote.halted \/ (filled < quantity /\ ~AllowPartialFills) THEN 0 ELSE filled

(* SettlementPolicy.due_date on a calendar of days 1 .. horizon; 0 is a raise. *)
DueDate(day, horizon) == IF day + SettlementLag > horizon THEN 0 ELSE day + SettlementLag
=============================================================================
