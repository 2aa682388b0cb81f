---------------------------- MODULE BacktestReplay ----------------------------
(***************************************************************************)
(* replay_events of backtest/replay.py: rebuilds the accounting of a run   *)
(* from its event journal and refuses the journal at the first difference. *)
(* `ok' becomes FALSE where the program raises ReplayMismatchError, and a  *)
(* ledger that raises carries its `error'.                                 *)
(***************************************************************************)
EXTENDS BacktestEngine

Fresh(events) ==
    [ledger |-> OpenLedger(InitialCash, events[1].at), intents |-> {}, outcome |-> <<>>,
     orders |-> <<>>, fills |-> {}, actions |-> {}, aged |-> {},
     tally |-> [approved |-> 0, rejected |-> 0, fills |-> 0], ok |-> TRUE]

Unless(r, mismatch) == [r EXCEPT !.ok = r.ok /\ ~mismatch]

(* f with v for k. *)
Noted(f, k, v) == [x \in DOMAIN f \cup {k} |-> IF x = k THEN v ELSE f[x]]

Outcome(r, o) == IF o \in DOMAIN r.outcome THEN r.outcome[o] ELSE "none"

OrderIn(r, o) ==
    IF o \in DOMAIN r.orders THEN r.orders[o] ELSE [remaining |-> 0, status |-> "missing"]

SetOrder(r, o, remaining, status) ==
    [r EXCEPT !.orders = Noted(@, o, [remaining |-> remaining, status |-> status])]

ReplayIntent(r, e) ==
    Unless([r EXCEPT !.intents = @ \cup {e.order}], e.order \in r.intents)

ReplaySettlement(r, e) ==
    Unless([r EXCEPT !.ledger = ProcessSettlements(r.ledger, e.day, e.at)],
           Processed(r.ledger, e.day) # e.processed)

ReplayAction(r, e) ==
    LET after == ApplyAction(r.ledger, e.action, e.at)
        i == e.action.instrument
    IN Unless([r EXCEPT !.ledger = after, !.actions = @ \cup {e.action.id}],
              \/ e.action.id \in r.actions
              \/ r.ledger.positions[i].quantity # e.old
              \/ after.positions[i].quantity # e.new)

(* Positions age once per closing time, by the instruments closed at that time. *)
ReplayMark(r, e, events) ==
    LET closed == {f.instrument : f \in {g \in ToSet(events) : g.kind = "closed" /\ g.at = e.at}}
        ages == e.kind = "closed" /\ e.at \notin r.aged
    IN [r EXCEPT !.ledger = Mark(IF ages THEN AgeUnmarked(r.ledger, closed) ELSE r.ledger,
                                 e.instrument, e.price),
                 !.aged = IF ages THEN @ \cup {e.at} ELSE @]

ReplayRisk(r, e) ==
    LET approved == e.outcome = "approve"
    IN Unless([r EXCEPT !.outcome = Noted(@, e.order, e.outcome),
                        !.tally.approved = IF approved THEN @ + 1 ELSE @,
                        !.tally.rejected = IF approved THEN @ ELSE @ + 1],
              e.order \notin r.intents \/ e.order \in DOMAIN r.outcome)

ReplayReserved(r, e) ==
    Unless(SetOrder(r, e.order, e.remaining, e.status),
           Outcome(r, e.order) # "approve" \/ e.order \in DOMAIN r.orders)

ReplayFill(r, e) ==
    LET order == OrderIn(r, e.order)
        awaited == SetOrder(r, e.order, order.remaining - e.fill.quantity, "awaiting_update")
    IN Unless([awaited EXCEPT !.ledger = ApplyFill(r.ledger, e.fill, e.fill.at \div 10, Horizon),
                              !.fills = @ \cup {e.fill.id}, !.tally.fills = @ + 1],
              \/ Outcome(r, e.order) # "approve" \/ e.fill.id \in r.fills
              \/ order.status # "active" \/ e.fill.quantity > order.remaining
              \/ e.fill.at \div 10 + SettlementLag # e.due)

ReplayUpdate(r, e) ==
    LET order == OrderIn(r, e.order)
        expected == IF order.remaining = 0 THEN "filled" ELSE "active"
    IN Unless(SetOrder(r, e.order, order.remaining, expected),
              \/ order.status # "awaiting_update" \/ e.remaining # order.remaining
              \/ e.status # expected)

\* Mutant: only cancellations release a reservation.
ReplayReleaseCancelled(r, e) ==
    LET order == OrderIn(r, e.order)
    IN Unless(SetOrder(r, e.order, order.remaining, e.status),
              order.status # "active" \/ e.status # "cancelled")

ReplayRelease(r, e) ==
    LET order == OrderIn(r, e.order)
    IN Unless(SetOrder(r, e.order, order.remaining, e.status),
              order.status # "active" \/ e.status \notin {"cancelled", "expired", "rejected"})

ReplaySnapshot(r, e) ==
    Unless([r EXCEPT !.ledger = Checked(r.ledger)], Snapshot(r.ledger) # e.snapshot)

ReplayCompletion(r, e) ==
    Unless([r EXCEPT !.ledger = Checked(r.ledger)],
           \/ \E o \in DOMAIN r.orders : r.orders[o].status \in {"active", "awaiting_update"}
           \/ Snapshot(r.ledger) # e.snapshot
           \/ r.tally # e.tally)

ReplayStep(r, e, events) ==
    CASE e.kind = "intent"     -> ReplayIntent(r, e)
      [] e.kind = "settled"    -> ReplaySettlement(r, e)
      [] e.kind = "action"     -> ReplayAction(r, e)
      [] e.kind \in {"opened", "closed"} -> ReplayMark(r, e, events)
      [] e.kind = "risk"       -> ReplayRisk(r, e)
      [] e.kind = "reserved"   -> ReplayReserved(r, e)
      [] e.kind = "filled"     -> ReplayFill(r, e)
      [] e.kind = "unfilled"   -> Unless(r, Outcome(r, e.order) # "approve")
      [] e.kind = "updated"    -> ReplayUpdate(r, e)
      [] e.kind = "released"   -> ReplayRelease(r, e)
      [] e.kind \in {"snapshotted", "reconciled"} -> ReplaySnapshot(r, e)
      [] e.kind = "completed"  -> ReplayCompletion(r, e)
      [] OTHER                 -> r

(* What is rebuilt after each event; a difference ends the replay. *)
Rebuilt(events) ==
    LET after[k \in 1 .. Len(events)] ==
            IF k = 1 THEN Fresh(events)
            ELSE LET r == after[k - 1]
                 IN IF r.ok /\ Good(r.ledger) THEN ReplayStep(r, events[k], events) ELSE r
    IN after

(* The verdict: accepted when nothing differs, no ledger operation raises, the
   journal is chronological and it ends with the completion of the run. *)
Accepts(events) ==
    LET last == Rebuilt(events)[Len(events)]
    IN /\ events[Len(events)].kind = "completed"
       /\ \A k \in 2 .. Len(events) : events[k - 1].at <= events[k].at
       /\ last.ok /\ Good(last.ledger)

-----------------------------------------------------------------------------
(* Properties *)

(* A completed run is accepted by replay_events exactly when no order was left
   reserved and no close without quotes aged a position: the journal has no event
   from which the replay could age positions at such a close. *)
SilentClose ==
    \E k \in DOMAIN journal :
        /\ journal[k].kind = "snapshotted"
        /\ DOMAIN journal[k].snapshot.marks # {}
        /\ ~\E j \in DOMAIN journal : journal[j].kind = "closed" /\ journal[j].at = journal[k].at

ReplayVerdict ==
    phase = "done" => (Accepts(journal) <=> Active(book) = {} /\ ~SilentClose)

(* What risk approved, the ledger executes: a run never fails because a fill exceeds
   the cash or the shares there are, or because an account does not reconcile. *)
ApprovedOrdersExecute ==
    failure \notin {"buy_exceeds_cash", "short", "calendar_too_short", "reservation",
                    "payable_exceeds_cash", "unbalanced", "not_chronological",
                    "does_not_reconcile", "action_repeated"}

(* At the end of a run every trade is settled: no payable and no receivable is left,
   and cash is what was contributed plus what the accounts of the journal earned. *)
SettledAtTheEnd ==
    phase = "done" =>
        /\ Payables(ledger) = 0 /\ Receivables(ledger) = 0
        /\ \A d \in ledger.receivables : d.pay >= FinalDue

(* Where the money went: what the account is worth apart from its shares is what was
   paid in, plus what sales and dividends earned, less what its shares cost; whatever
   settlements, splits, partial sales and rounding happen in between. *)
MoneyConserved ==
    ledger.settled + Receivables(ledger) - Payables(ledger) + DividendReceivables(ledger)
        = InitialCash + ledger.realized + ledger.dividends
            - SumFunction([i \in Instruments |-> ledger.positions[i].book])

(* No sale costs more in fees and taxes than it brings in. *)
SalesPay == \A k \in DOMAIN ledger.pending : ledger.pending[k].amount >= 0

(* What is still reserved for purchases stays covered: no later fill, settlement or
   dividend takes the cash that an order waiting for its rest counts on.  Only a sale
   whose costs exceed its proceeds, which settles at a loss, can take it. *)
PurchasesStayCovered ==
    LET buys == {o \in Active(book) : book[o].side = "buy"}
    IN /\ Available(ledger) >= 0
       /\ SalesPay => SumFunction([o \in buys |-> book[o].cash]) <= Available(ledger)
=============================================================================
