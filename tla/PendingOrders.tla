----------------------------- MODULE PendingOrders -----------------------------
(***************************************************************************)
(* The reservations of risk/reservations.py and the pre-trade gate of      *)
(* risk/pretrade.py, which decides with a ledger and a book of orders.     *)
(* A book maps the identity of an intent to its reservation.               *)
(***************************************************************************)
EXTENDS PortfolioLedger

CONSTANTS MaximumOrderNotional, MaximumPositionWeight   \* the weight is over RateUnit


NoOrders == <<>>

Costs(side, gross) == Fee(gross) + Tax(side, gross)

Active(book) == {o \in DOMAIN book : book[o].status = "active"}

ReservedCash(book) == SumFunctionOnSet([o \in DOMAIN book |-> book[o].cash], Active(book))

Signed(side, quantity) == IF side = "buy" THEN quantity ELSE -quantity

(* projected_delta *)
PendingDelta(book, i) ==
    SumFunctionOnSet([o \in DOMAIN book |-> Signed(book[o].side, book[o].remaining)],
                     {o \in Active(book) : book[o].instrument = i})

ReservedSales(book, i) ==
    SumFunctionOnSet([o \in DOMAIN book |-> book[o].remaining],
                     {o \in Active(book) : book[o].instrument = i /\ book[o].side = "sell"})

(* reserve: a second call for the same order changes nothing. *)
Reserve(book, intent, price) ==
    LET gross == price * intent.quantity
        new == [instrument |-> intent.instrument, side |-> intent.side,
                remaining |-> intent.quantity, price |-> price,
                cash |-> IF intent.side = "buy" THEN gross + Costs("buy", gross) ELSE 0,
                gross |-> 0, commission |-> 0, status |-> "active"]
    IN IF intent.id \in DOMAIN book THEN book
       ELSE [o \in DOMAIN book \cup {intent.id} |-> IF o = intent.id THEN new ELSE book[o]]

(* apply_fill of the book; what is left of a sale is given cash as a purchase is. *)
FillAccepted(book, o, fill) ==
    /\ o \in Active(book)
    /\ fill.instrument = book[o].instrument
    /\ fill.side = book[o].side
    /\ fill.quantity <= book[o].remaining

FillReservation(item, fill) ==
    LET remaining == item.remaining - fill.quantity
        gross == item.gross + fill.price * fill.quantity
        commission == item.commission + fill.fee
        restGross == item.price * remaining
        restFee == Max({0, Fee(gross + restGross) - commission})
    IN [item EXCEPT !.remaining = remaining, !.gross = gross, !.commission = commission,
                    !.cash = IF remaining = 0 THEN 0 ELSE restGross + restFee,
                    !.status = IF remaining = 0 THEN "filled" ELSE "active"]

Release(item, status) == [item EXCEPT !.cash = 0, !.status = status]

-----------------------------------------------------------------------------
\* Mutant: proceeds that have not settled are spent.
SpendableUnsettled(l, book) == Available(l) + Receivables(l) - ReservedCash(book)

\* Mutant: what is reserved for other orders is spent again.
SpendableUnreserved(l, book) == Available(l)

(* What a purchase may spend: settled cash that is neither owed nor reserved. *)
Spendable(l, book) == Available(l) - ReservedCash(book)

(* The reasons for which PreTradeRiskEngine.evaluate rejects an intent at a price. *)
Reasons(intent, price, l, nav, book) ==
    LET i == intent.instrument
        held == l.positions[i].quantity
        notional == price * intent.quantity
        projected == Max({0, held + PendingDelta(book, i) + Signed(intent.side, intent.quantity)})
        others == MarketValue(l, Instruments \ {i})
                    + SumFunctionOnSet(
                        [o \in DOMAIN book |->
                            book[o].price * Signed(book[o].side, book[o].remaining)],
                        {o \in Active(book) : book[o].instrument # i})
        required == notional + Costs(intent.side, notional)
        Holds(reason) ==
            CASE reason = "invalid_valuation" -> price <= 0 \/ nav <= 0
              [] reason = "short" ->
                    intent.side = "sell" /\ intent.quantity > held - ReservedSales(book, i)
              [] reason = "order_notional" -> notional > MaximumOrderNotional
              [] reason = "position_weight" ->
                    nav > 0 /\ price * projected * RateUnit > MaximumPositionWeight * nav
              [] reason = "gross_exposure" -> nav > 0 /\ others + price * projected > nav
              [] reason = "cash" ->
                    intent.side = "buy" /\ required > Spendable(l, book)
    IN {reason \in {"invalid_valuation", "short", "order_notional", "position_weight",
                    "gross_exposure", "cash"} : Holds(reason)}
=============================================================================
