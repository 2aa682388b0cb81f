---------------------------- MODULE PortfolioLedger ----------------------------
(***************************************************************************)
(* The double-entry cash-account ledger of portfolio/accounting.py.  A     *)
(* ledger is a record, an operation takes a ledger to a ledger, and an     *)
(* operation that raises sets `error': its callers drop a ledger that      *)
(* raised, so the half-done updates before a raise are not kept.           *)
(* The journal is folded into one balance per account, with the sums that  *)
(* reconcile derives from the metadata of fills kept beside it.            *)
(***************************************************************************)
EXTENDS TradingPolicies, Functions, TLC

CONSTANTS Instruments, MaximumStaleSessions

Accounts == {"cash", "contributed_capital", "settlement_payable", "settlement_receivable",
             "dividend_receivable", "dividend_income", "cost_of_sales", "sale_proceeds",
             "commission_expense", "transaction_tax_expense"}

(* An instrument stands for its inventory account, inventory:<key> in the journal. *)
ASSUME LedgerAssumption ==
    /\ MaximumStaleSessions \in Nat /\ IsFiniteSet(Instruments)
    /\ Instruments \cap Accounts = {}

NoPosition == [known |-> FALSE, quantity |-> 0, book |-> 0, price |-> 0, stale |-> 0]

Good(l) == l.error = "none"

Fail(l, reason) == [l EXCEPT !.error = reason]

(* _record: a transaction that does not balance is refused. *)
Post(l, at, postings) ==
    IF SumFunction(postings) # 0 THEN Fail(l, "unbalanced")
    ELSE [l EXCEPT
            !.balance = [a \in DOMAIN l.balance |->
                            l.balance[a] + (IF a \in DOMAIN postings THEN postings[a] ELSE 0)],
            !.ordered = l.ordered /\ l.lastAt <= at,
            !.lastAt  = at]

(* Postings to an inventory account and to others. *)
WithInventory(i, amount, entries) ==
    [a \in {i} \cup DOMAIN entries |-> IF a = i THEN amount ELSE entries[a]]

OpenLedger(cash, at) ==
    Post([settled |-> cash, capital |-> cash, pending |-> <<>>, receivables |-> {},
          positions |-> [i \in Instruments |-> NoPosition], applied |-> {},
          realized |-> 0, fees |-> 0, taxes |-> 0, dividends |-> 0,
          filledFees |-> 0, filledGain |-> 0,
          balance |-> [a \in Accounts \cup Instruments |-> 0],
          ordered |-> TRUE, lastAt |-> at, error |-> "none"],
         at, [cash |-> cash, contributed_capital |-> -cash])

-----------------------------------------------------------------------------
Outstanding(l, side) ==
    SumFunctionOnSet([i \in DOMAIN l.pending |-> l.pending[i].amount],
                     {i \in DOMAIN l.pending : ~l.pending[i].done /\ l.pending[i].side = side})

Payables(l) == Outstanding(l, "buy")

Receivables(l) == Outstanding(l, "sell")

DividendReceivables(l) == SumFunction([d \in l.receivables |-> d.amount])

Available(l) == l.settled - Payables(l)

MarketValue(l, held) ==
    SumFunction([i \in held |-> l.positions[i].price * l.positions[i].quantity])

NetAssetValue(l) ==
    l.settled + Receivables(l) - Payables(l) + DividendReceivables(l)
        + MarketValue(l, Instruments)

(* The balances reconcile expects the journal to have. *)
Expected(l) ==
    LET others == [cash |-> l.settled, settlement_payable |-> -Payables(l),
                   settlement_receivable |-> Receivables(l),
                   dividend_receivable |-> DividendReceivables(l),
                   contributed_capital |-> -l.capital, dividend_income |-> -l.dividends,
                   transaction_tax_expense |-> l.taxes]
    IN [a \in Instruments \cup DOMAIN others |->
            IF a \in Instruments THEN l.positions[a].book ELSE others[a]]

(* reconcile: re-derives every account from the journal and raises on a difference. *)
Reconcile(l) ==
    IF ~Good(l) THEN l
    ELSE IF ~l.ordered THEN Fail(l, "not_chronological")
    ELSE IF Available(l) < 0 THEN Fail(l, "available_cash_negative")
    ELSE IF \/ \E a \in DOMAIN Expected(l) : l.balance[a] # Expected(l)[a]
            \/ l.filledFees # l.fees
            \/ l.filledGain # l.realized
            \/ \E i \in Instruments : l.positions[i].quantity < 0
         THEN Fail(l, "does_not_reconcile")
    ELSE l

-----------------------------------------------------------------------------
(* The position after a fill is marked at the fill's price. *)
Traded(p, quantity, book, price) ==
    [p EXCEPT !.known = TRUE, !.quantity = quantity, !.book = book, !.price = price, !.stale = 0]

Owed(l, fill, due, amount) ==
    Append(l.pending, [id |-> fill.id, due |-> due, side |-> fill.side,
                       amount |-> amount, done |-> FALSE])

Bought(l, fill, due) ==
    LET i == fill.instrument
        p == l.positions[i]
        total == fill.price * fill.quantity + fill.fee
    IN Post([l EXCEPT
               !.positions[i] = Traded(p, p.quantity + fill.quantity, p.book + total, fill.price),
               !.fees = @ + fill.fee, !.filledFees = @ + fill.fee,
               !.taxes = @ + fill.tax,
               !.pending = Owed(l, fill, due, total)],
            fill.at, WithInventory(i, total, [settlement_payable |-> -total]))

\* Mutant: the cost of the shares is not taken off the gain.
GainGross(net, cost) == net

(* The realized result of a sale. *)
Gain(net, cost) == net - cost

Sold(l, fill, due) ==
    LET i == fill.instrument
        p == l.positions[i]
        gross == fill.price * fill.quantity
        net == gross - fill.fee - fill.tax
        cost == IF fill.quantity = p.quantity THEN p.book
                ELSE RoundHalfEven(p.book * fill.quantity, p.quantity)
    IN Post([l EXCEPT
               !.positions[i] = Traded(p, p.quantity - fill.quantity, p.book - cost, fill.price),
               !.realized = @ + Gain(net, cost), !.filledGain = @ + Gain(net, cost),
               !.fees = @ + fill.fee, !.filledFees = @ + fill.fee,
               !.taxes = @ + fill.tax,
               !.pending = Owed(l, fill, due, net)],
            fill.at,
            WithInventory(i, -cost,
                [cost_of_sales |-> cost, settlement_receivable |-> net, sale_proceeds |-> -gross,
                 commission_expense |-> fill.fee, transaction_tax_expense |-> fill.tax]))

(* apply_fill on trade day `day' of a calendar with `horizon' days. *)
ApplyFill(l, fill, day, horizon) ==
    LET p == l.positions[fill.instrument]
        due == DueDate(day, horizon)
        total == fill.price * fill.quantity + fill.fee
    IN IF ~Good(l) THEN l
       ELSE IF fill.side = "buy" /\ total > Available(l) THEN Fail(l, "buy_exceeds_cash")
       ELSE IF fill.side = "sell" /\ (~p.known \/ fill.quantity > p.quantity) THEN Fail(l, "short")
       ELSE IF due = 0 THEN Fail(l, "calendar_too_short")
       ELSE Reconcile(IF fill.side = "buy" THEN Bought(l, fill, due) ELSE Sold(l, fill, due))

-----------------------------------------------------------------------------
IsDue(item, day) == ~item.done /\ item.due <= day

(* One pass of the loop of process_settlements over the obligation at index k. *)
SettleOne(l, k, day, at) ==
    LET item == l.pending[k]
    IN IF ~Good(l) \/ ~IsDue(item, day) THEN l
       ELSE IF item.side = "buy" /\ item.amount > l.settled THEN Fail(l, "payable_exceeds_cash")
       ELSE IF item.side = "buy"
            THEN Post([l EXCEPT !.settled = @ - item.amount, !.pending[k].done = TRUE],
                      at, [settlement_payable |-> item.amount, cash |-> -item.amount])
            ELSE Post([l EXCEPT !.settled = @ + item.amount, !.pending[k].done = TRUE],
                      at, [cash |-> item.amount, settlement_receivable |-> -item.amount])

SettleTrades(l, day, at) ==
    LET after[k \in 0 .. Len(l.pending)] ==
            IF k = 0 THEN l ELSE SettleOne(after[k - 1], k, day, at)
    IN after[Len(l.pending)]

(* _pay_dividends: what is due today or before is paid and forgotten. *)
PayDividends(l, day, at) ==
    LET due == {d \in l.receivables : d.pay <= day}
        amount == SumFunction([d \in due |-> d.amount])
    IN IF ~Good(l) \/ due = {} THEN l
       ELSE Post([l EXCEPT !.settled = @ + amount, !.receivables = @ \ due],
                 at, [cash |-> amount, dividend_receivable |-> -amount])

(* process_settlements, and the identifiers it returns. *)
ProcessSettlements(l, day, at) == Reconcile(PayDividends(SettleTrades(l, day, at), day, at))

Processed(l, day) ==
    {l.pending[k].id : k \in {j \in DOMAIN l.pending : IsDue(l.pending[j], day)}}
        \cup {<<d.action>> : d \in {r \in l.receivables : r.pay <= day}}

-----------------------------------------------------------------------------
AccrueDividend(l, action, at) ==
    LET amount == action.perShare * l.positions[action.instrument].quantity
    IN IF ~Good(l) THEN l
       ELSE IF action.id \in l.applied THEN Fail(l, "action_repeated")
       ELSE Reconcile(Post(
                [l EXCEPT !.receivables = @ \cup {[action |-> action.id, pay |-> action.pay,
                                                  amount |-> amount]},
                          !.applied = @ \cup {action.id},
                          !.dividends = @ + amount],
                at, [dividend_receivable |-> amount, dividend_income |-> -amount]))

(* A split by num / den keeps the book cost and refuses fractional shares. *)
ApplySplit(l, action, at) ==
    LET i == action.instrument
        p == l.positions[i]
        applied == [l EXCEPT !.applied = @ \cup {action.id}]
    IN IF ~Good(l) THEN l
       ELSE IF action.id \in l.applied THEN Fail(l, "action_repeated")
       ELSE IF p.quantity = 0 THEN Reconcile(Post(applied, at, <<>>))
       ELSE IF (p.quantity * action.num) % action.den # 0 THEN Fail(l, "fractional_shares")
       ELSE Reconcile(Post(
                [applied EXCEPT !.positions[i].quantity = (@ * action.num) \div action.den,
                                !.positions[i].price = (@ * action.den) \div action.num],
                at, <<>>))

Mark(l, i, price) ==
    IF Good(l) /\ l.positions[i].known
    THEN [l EXCEPT !.positions[i].price = price, !.positions[i].stale = 0]
    ELSE l

(* The marks of all instruments that have a price. *)
MarkAll(l, price) ==
    [l EXCEPT !.positions = [i \in Instruments |->
        IF i \in DOMAIN price THEN Mark(l, i, price[i]).positions[i] ELSE @[i]]]

AgeUnmarked(l, marked) ==
    IF ~Good(l) THEN l
    ELSE LET Aged(p) == [p EXCEPT !.stale = @ + 1]
         IN [l EXCEPT !.positions = [i \in Instruments |->
                IF l.positions[i].quantity # 0 /\ i \notin marked
                THEN Aged(l.positions[i]) ELSE l.positions[i]]]

(* snapshot reconciles first and refuses a mark older than the policy allows. *)
Checked(l) ==
    LET r == Reconcile(l)
    IN IF /\ Good(r)
          /\ \E i \in Instruments : /\ l.positions[i].quantity # 0
                                    /\ l.positions[i].stale > MaximumStaleSessions
       THEN Fail(l, "stale_mark") ELSE r

Snapshot(l) ==
    [settled |-> l.settled, available |-> Available(l), receivables |-> Receivables(l),
     payables |-> Payables(l), dividendsDue |-> DividendReceivables(l),
     nav |-> NetAssetValue(l), realized |-> l.realized, fees |-> l.fees, taxes |-> l.taxes,
     dividends |-> l.dividends,
     marks |-> [i \in {j \in Instruments : l.positions[j].quantity # 0} |->
                  <<l.positions[i].quantity, l.positions[i].price, l.positions[i].stale>>]]
=============================================================================
