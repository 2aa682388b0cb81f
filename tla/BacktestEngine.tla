---------------------------- MODULE BacktestEngine ----------------------------
(***************************************************************************)
(* The daily loop of backtest/engine.py over a calendar of days 1..Horizon.*)
(* One day is: decide (with the prices and the holdings of the evening     *)
(* before), account at 08:30 (settlements, dividends, splits), mark at the *)
(* open, execute the intents one by one, mark at the close and snapshot.   *)
(* A call that raises ends the run: `failure' names the reason.            *)
(***************************************************************************)
EXTENDS TargetPolicies, SequencesExt

CONSTANTS
    Horizon,            \* last day of the pinned calendar
    InitialCash,
    Setups,             \* [policy, rebalance, cancel, actions]: target policy, rebalance
                        \* policy, cancel_unfilled_after_session and corporate actions
                        \* [id, kind, instrument, effective, pay, perShare, num, den]
    Quotes,             \* per instrument, the quotes [open, close, ref, volume, halted]
    Rows                \* the prediction rows a decision may find

(* What the constructors of policies, actions and quotes accept. *)
ValidPolicy(p) ==
    /\ p.kind \in {"top_k", "quantile", "threshold"} /\ p.topK \in Nat \ {0}
    /\ p.quantile \in 1 .. RateUnit /\ p.threshold \in Int
    /\ p.cashBuffer \in 0 .. RateUnit - 1 /\ p.maximumWeight \in 1 .. RateUnit

ValidAction(a) ==
    /\ {a.id, a.effective, a.pay, a.perShare} \subseteq Nat /\ {a.num, a.den} \subseteq Nat \ {0}
    /\ a.kind \in {"dividend", "split"} /\ a.instrument \in Instruments
    /\ a.kind = "dividend" => a.effective <= a.pay

ValidQuote(q) ==
    {q.open, q.close, q.ref} \subseteq Nat \ {0} /\ q.volume \in Nat /\ q.halted \in BOOLEAN

ASSUME EngineAssumption ==
    /\ Horizon \in Nat /\ InitialCash \in Nat \ {0}
    /\ \A s \in Setups : ValidPolicy(s.policy) /\ \A a \in s.actions : ValidAction(a)
    /\ \A i \in Instruments : \A q \in Quotes[i] : ValidQuote(q)
    /\ \A rows \in Rows : DOMAIN rows \subseteq Instruments /\ \A i \in DOMAIN rows : rows[i] \in Nat

VARIABLES
    config,     \* what run was called with
    day, phase,
    session,    \* the session of the day: quotes, decision time; <<>> on other days
    intents,    \* still to execute
    pendingActions, \* corporate actions of the day, still to apply
    openNav,    \* net asset value of the snapshot at the open
    ledger, book,
    journal,    \* the event journal
    tally,      \* approved, rejected and filled orders
    failure

vars == <<config, day, phase, session, intents, pendingActions, openNav, ledger, book, journal,
          tally, failure>>

(* Slots of a day.  A decision is made after a close, on an earlier day. *)
At(d, slot) == 10 * d + slot
Decision(d) == At(d, 7)
Accounting(d) == At(d, 1)
Execution(d) == At(d, 2)
Close(d) == At(d, 5)
FinalTime(d) == At(d, 6)

LastSession == Max(config.sessions)

\* Mutant: the run ends with the last session.
FinalDueWithSession == LastSession

(* The run goes on until the trades of the last session are settled. *)
FinalDue == DueDate(LastSession, Horizon)

(* The inputs _validate_inputs accepts. *)
ValidConfig(c) ==
    /\ c.sessions # {}
    /\ Max(c.sessions) + SettlementLag <= Horizon
    /\ \A a \in c.setup.actions : /\ a.effective >= Min(c.sessions)
                                  /\ a.effective <= DueDate(Max(c.sessions), Horizon)
    /\ \A a, b \in c.setup.actions : a.id = b.id => a = b

Configs ==
    [sessions : SUBSET (1 .. Horizon), setup : Setups,
     decides : {"on_eve", "after_session"}]

(* The evening on which session d is decided: the eve of d, or that of the session
   before it when days without a session intervene. *)
Evening(d) ==
    IF config.decides = "on_eve" THEN d - 1 ELSE Max({0} \cup {e \in config.sessions : e < d})

LastEventAt == journal[Len(journal)].at

(* The journal refuses an event that is older than its last one. *)
InOrder(events) == \A k \in DOMAIN events : events[k].at >= LastEventAt

Init ==
    /\ config \in {c \in Configs : ValidConfig(c)}
    /\ LET start == Decision(Evening(Min(config.sessions))) - 1
       IN /\ ledger = OpenLedger(InitialCash, start)
          /\ journal = <<[kind |-> "started", at |-> start]>>
    /\ day = 1 /\ phase = "decide"
    /\ session = <<>> /\ intents = {} /\ pendingActions = {} /\ openNav = 0
    /\ book = NoOrders
    /\ tally = [approved |-> 0, rejected |-> 0, fills |-> 0]
    /\ failure = "none"

(* A raise anywhere in run ends it; what was computed is lost. *)
Raise(reason) ==
    /\ failure' = reason /\ phase' = "failed"
    /\ UNCHANGED <<config, day, session, intents, pendingActions, openNav, ledger, book, journal, tally>>

Append2Journal(events) == journal' = journal \o events

-----------------------------------------------------------------------------
NoSession ==
    /\ phase = "decide" /\ day <= FinalDue /\ day \notin config.sessions
    /\ phase' = "account" /\ session' = <<>>
    /\ UNCHANGED <<config, day, intents, pendingActions, openNav, ledger, book, journal, tally, failure>>

(* run, from the snapshot before the decision to the list of intents. *)
Decide(quotes, rows) ==
    LET before == Checked(ledger)
        nav == NetAssetValue(ledger)
        at == Decision(Evening(day))
        rebalances == day \in Scheduled(config.setup.rebalance, config.sessions)
        covered == Covered(config.setup.rebalance, rows)
        targets == IF rebalances /\ covered
                   THEN StrategyTargets(config.setup.policy, config.setup.rebalance, rows) ELSE <<>>
        Held(i) == ledger.positions[i].quantity
        Wanted(i) == TargetQuantity(targets[i], nav, quotes[i].ref, Held(i))
        changed == {i \in DOMAIN targets : Wanted(i) # Held(i)}
        events == [k \in DOMAIN InKeyOrder(DOMAIN targets) |-> [kind |-> "target", at |-> at]]
                    \o [k \in DOMAIN InKeyOrder(changed) |->
                            [kind |-> "intent", at |-> at, order |-> <<day, InKeyOrder(changed)[k]>>]]
    IN IF ~Good(before) THEN Raise(before.error)
       ELSE IF rebalances /\ ~covered /\ config.setup.rebalance.onCoverage = "fail_closed"
            THEN Raise("coverage")
       ELSE IF ~(DOMAIN targets \subseteq DOMAIN quotes) THEN Raise("contract")
       ELSE IF DOMAIN targets # {} /\ at < LastEventAt THEN Raise("event_order")
       ELSE IF DOMAIN targets # {} /\ nav <= 0 THEN Raise("conversion")
       ELSE   /\ session' = [quotes |-> quotes]
              /\ intents' = {Intent(<<day, i>>, i, Wanted(i), Held(i)) : i \in changed}
              /\ Append2Journal(events)
              /\ phase' = "account"
              /\ UNCHANGED <<config, day, pendingActions, openNav, ledger, book, tally, failure>>

DecideSession ==
    /\ phase = "decide" /\ day \in config.sessions
    /\ \E quoted \in SUBSET Instruments :
         \E quotes \in {q \in [quoted -> UNION {Quotes[i] : i \in quoted}] :
                            \A i \in quoted : q[i] \in Quotes[i]},
            rows \in Rows : Decide(quotes, rows)

-----------------------------------------------------------------------------
ApplyAction(l, a, at) ==
    IF a.kind = "dividend" THEN AccrueDividend(l, a, at) ELSE ApplySplit(l, a, at)

ActionEvent(a, before, after, at) ==
    [kind |-> "action", at |-> at, action |-> a,
     old |-> before.positions[a.instrument].quantity,
     new |-> after.positions[a.instrument].quantity]

(* After the actions of the day comes the session, if there is one. *)
GoOn(rest) ==
    /\ pendingActions' = rest
    /\ IF rest # {} THEN phase' = "actions" /\ day' = day
       ELSE IF session = <<>> THEN phase' = "decide" /\ day' = day + 1
       ELSE phase' = "open" /\ day' = day

(* Settlements at 08:30 of every calendar day. *)
Account ==
    LET at == Accounting(day)
        settled == ProcessSettlements(ledger, day, at)
        events == <<[kind |-> "settled", at |-> at, day |-> day,
                     processed |-> Processed(ledger, day)]>>
    IN /\ phase = "account"
       /\ IF ~Good(settled) THEN Raise(settled.error)
          ELSE IF ~InOrder(events) THEN Raise("event_order")
          ELSE /\ ledger' = settled
               /\ Append2Journal(events)
               /\ GoOn({a \in config.setup.actions : a.effective = day})
               /\ UNCHANGED <<config, session, intents, openNav, book, tally, failure>>

(* The corporate actions of the day in order of their identifiers. *)
Act ==
    /\ phase = "actions"
    /\ \E a \in pendingActions :
        LET at == Accounting(day)
            after == ApplyAction(ledger, a, at)
        IN /\ \A b \in pendingActions : a.id <= b.id
           /\ IF ~Good(after) THEN Raise(after.error)
              ELSE /\ ledger' = after
                   /\ Append2Journal(<<ActionEvent(a, ledger, after, at)>>)
                   /\ GoOn(pendingActions \ {a})
                   /\ UNCHANGED <<config, session, intents, openNav, book, tally, failure>>

-----------------------------------------------------------------------------
MarkEvents(kind, price, at) ==
    LET marked == InKeyOrder(DOMAIN price)
    IN [k \in DOMAIN marked |->
            [kind |-> kind, at |-> at, instrument |-> marked[k], price |-> price[marked[k]]]]

(* Sells first, then key order. *)
Before(a, b) == \/ a.side = "sell" /\ b.side = "buy"
                \/ a.side = b.side /\ Key(a.instrument) < Key(b.instrument)

Open ==
    LET at == Execution(day)
        price == [i \in DOMAIN session.quotes |-> session.quotes[i].open]
        marked == Checked(MarkAll(ledger, price))
    IN /\ phase = "open"
       /\ IF ~Good(marked) THEN Raise(marked.error)
          ELSE /\ ledger' = marked
               /\ openNav' = NetAssetValue(marked)
               /\ Append2Journal(MarkEvents("opened", price, at))
               /\ phase' = "execute"
               /\ UNCHANGED <<config, day, session, intents, pendingActions, book, tally, failure>>

-----------------------------------------------------------------------------
DecisionEvent(o, outcome, at) ==
    [kind |-> "risk", at |-> at, order |-> o, outcome |-> outcome]

ReservationEvent(kind, o, item, at) ==
    [kind |-> kind, at |-> at, order |-> o,
     remaining |-> item.remaining, status |-> item.status]

Rejected(intent) ==
    /\ Append2Journal(<<DecisionEvent(intent.id, "reject", Execution(day))>>)
    /\ tally' = [tally EXCEPT !.rejected = @ + 1]
    /\ intents' = intents \ {intent}
    /\ UNCHANGED <<config, day, phase, session, pendingActions, openNav, ledger, book, failure>>

Unfilled(intent, reserved) ==
    LET at == Execution(day)
        released == Release(reserved[intent.id], "expired")
    IN /\ Append2Journal(<<DecisionEvent(intent.id, "approve", at),
                           ReservationEvent("reserved", intent.id, reserved[intent.id], at),
                           [kind |-> "unfilled", at |-> at, order |-> intent.id],
                           ReservationEvent("released", intent.id, released, at)>>)
       /\ book' = [reserved EXCEPT ![intent.id] = released]
       /\ tally' = [tally EXCEPT !.approved = @ + 1]
       /\ intents' = intents \ {intent}
       /\ UNCHANGED <<config, day, phase, session, pendingActions, openNav, ledger, failure>>

(* The fill of an order, in the book and then in the ledger.  The rest of the order
   is cancelled when the policy says so, and otherwise stays reserved. *)
Filled(intent, reserved, price, quantity) ==
    LET at == Execution(day)
        o == intent.id
        gross == price * quantity
        fill == [id |-> o, instrument |-> intent.instrument, side |-> intent.side,
                 quantity |-> quantity, price |-> price,
                 fee |-> IncrementalFee(0, gross, 0), tax |-> Tax(intent.side, gross), at |-> at]
        updated == FillReservation(reserved[o], fill)
        applied == ApplyFill(ledger, fill, day, Horizon)
        cancelled == updated.remaining # 0 /\ config.setup.cancel
        released == Release(updated, "cancelled")
    IN IF ~FillAccepted(reserved, o, fill) THEN Raise("reservation")
       ELSE IF ~Good(applied) THEN Raise(applied.error)
       ELSE /\ Append2Journal(
                 <<DecisionEvent(o, "approve", at),
                   ReservationEvent("reserved", o, reserved[o], at),
                   [kind |-> "filled", at |-> at, order |-> o, fill |-> fill,
                    due |-> DueDate(day, Horizon)],
                   ReservationEvent("updated", o, updated, at)>>
                 \o (IF cancelled THEN <<ReservationEvent("released", o, released, at)>>
                                  ELSE <<>>))
            /\ book' = [reserved EXCEPT ![o] = IF cancelled THEN released ELSE updated]
            /\ ledger' = applied
            /\ tally' = [tally EXCEPT !.approved = @ + 1, !.fills = @ + 1]
            /\ intents' = intents \ {intent}
            /\ UNCHANGED <<config, day, phase, session, pendingActions, openNav, failure>>

(* One pass of the loop over the intents: estimate, risk, reserve, simulate, apply. *)
Execute ==
    /\ phase = "execute"
    /\ \E intent \in intents :
       LET quote == session.quotes[intent.instrument]
           price == EstimatedPrice(intent.side, quote.open)
           reasons == Reasons(intent, price, ledger, openNav, book)
           reserved == Reserve(book, intent, price)
           quantity == FilledQuantity(intent.quantity, quote)
       IN /\ \A other \in intents \ {intent} : Before(intent, other)
          /\ IF price = 0 THEN Raise("execution_price")
             ELSE IF reasons # {} THEN Rejected(intent)
             ELSE IF quantity = 0 THEN Unfilled(intent, reserved)
             ELSE Filled(intent, reserved, price, quantity)

-----------------------------------------------------------------------------
CloseSession ==
    LET at == Close(day)
        price == [i \in DOMAIN session.quotes |-> session.quotes[i].close]
        marked == Checked(MarkAll(AgeUnmarked(ledger, DOMAIN price), price))
    IN /\ phase = "execute" /\ intents = {}
       /\ IF ~Good(marked) THEN Raise(marked.error)
          ELSE /\ ledger' = marked
               /\ Append2Journal(MarkEvents("closed", price, at)
                    \o <<[kind |-> "snapshotted", at |-> at, snapshot |-> Snapshot(marked)],
                         [kind |-> "reconciled", at |-> at, snapshot |-> Snapshot(marked)]>>)
               /\ day' = day + 1 /\ phase' = "decide" /\ session' = <<>>
               /\ UNCHANGED <<config, intents, pendingActions, openNav, book, tally, failure>>

Complete ==
    LET final == Checked(ledger)
        at == FinalTime(FinalDue)
    IN /\ phase = "decide" /\ day > FinalDue
       /\ IF ~Good(final) THEN Raise(final.error)
          ELSE /\ Append2Journal(<<[kind |-> "completed", at |-> at,
                                    snapshot |-> Snapshot(final), tally |-> tally]>>)
               /\ phase' = "done"
               /\ UNCHANGED <<config, day, session, intents, pendingActions, openNav, ledger, book, tally,
                              failure>>

Ended == phase \in {"done", "failed"} /\ UNCHANGED vars

Next ==
    \/ NoSession \/ DecideSession \/ Account \/ Act \/ Open
    \/ Execute \/ CloseSession \/ Complete
    \/ Ended

Spec == Init /\ [][Next]_vars
=============================================================================
