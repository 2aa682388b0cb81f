------------------------------ MODULE PaperOMS ------------------------------
(***************************************************************************)
(* The persistent paper OMS (src/island_quant/oms/{service,repository}.py) *)
(* with the in-memory paper broker it delivers to (brokers/paper.py).      *)
(*                                                                         *)
(* The tables orders, events, fills, outbox and reservations live in one   *)
(* SQLite file that several processes may open.  Every repository call is  *)
(* one BEGIN IMMEDIATE transaction, hence one atomic step here; a process  *)
(* may be interleaved with others, or die, between two of its calls.       *)
(*   - a Client runs PaperOMSService.queue (PaperTargetExecutor,           *)
(*     paper-run);                                                         *)
(*   - a Worker runs process_outbox against a broker object of its own     *)
(*     (the runtime's _submit, paper-run), whose memory dies with it;      *)
(*   - an operator cancels, replaces and manually recovers orders.         *)
(* A service call that reads an order and then performs one transaction    *)
(* guarded by that order's version is one step: versions only grow, so it  *)
(* can succeed only if nothing happened in between.  Failing calls raise   *)
(* and change no table.                                                    *)
(***************************************************************************)
EXTENDS Integers, FiniteSets, Functions, OMSStates

CONSTANTS
  Orders,             \* idempotency keys, numbered in (created_at, outbox_id) order
  Quantity,           \* [Orders -> Nat \ {0}]
  Side,               \* [Orders -> {"buy", "sell"}]
  Instrument,         \* [Orders -> instruments]
  Required,           \* [Orders -> Nat] gross + fees + taxes of the order at its estimate
  AvailableCash,      \* the cash every command quotes
  AvailablePosition,  \* [instruments -> Nat] the position every command quotes
  Clients, Workers,   \* processes that queue, processes that deliver
  Markets,            \* what a broker's market event may say of an instrument
  OperatorCalls,      \* the operator's service calls that are made at all
  Recoveries,         \* states paper-recover may be asked for
  MaxRestarts         \* bound: how often a worker process may be restarted

MarketKind == { "missing", "reject_all", "no_fill", "trade" }

ASSUME OrdersAssumption ==
  /\ Orders \subseteq Nat \ {0}
  /\ Quantity \in [Orders -> Nat \ {0}]
  /\ Side \in [Orders -> {"buy", "sell"}]
  /\ Required \in [Orders -> Nat]
  /\ AvailableCash \in Nat
  /\ \A o \in Orders : AvailablePosition[Instrument[o]] \in Nat
  /\ Markets \subseteq [kind : MarketKind, capacity : Nat, price : Nat]
  /\ OperatorCalls \subseteq
       {"request_cancel", "apply_cancel", "request_replace", "apply_replace", "recover"}
  /\ Recoveries \subseteq {"Submitted", "Acknowledged", "Cancelled", "Rejected"}
  /\ MaxRestarts \in Nat

VARIABLES
  orders,        \* table orders: state, filled_quantity, version, sequence
  events,        \* table events
  fills,         \* table fills; its business identity is order:quantity:price
  outbox,        \* table outbox: status per order ("none" = no row)
  reservations,  \* table reservations (status "none" = no row)
  client,        \* per client, where it is in queue and its local variables
  worker,        \* per worker, where it is in process_outbox and its locals
  responses,     \* per worker, the broker's _responses and requests
  restarts

tables == <<orders, events, fills, outbox, reservations>>
vars == <<orders, events, fills, outbox, reservations,
          client, worker, responses, restarts>>

Absent == [state |-> "Absent", filled |-> 0, version |-> 0, sequence |-> 0]
NoReservation == [status |-> "none", cash |-> 0, quantity |-> 0]
Released == [status |-> "released", cash |-> 0, quantity |-> 0]
NoResponse == [status |-> "none", fills |-> {}]
NoOrder == 0
IdleClient == [pc |-> "idle", order |-> NoOrder, snap |-> Absent,
               verdict |-> "RiskRejected"]
IdleWorker == [pc |-> "idle", batch |-> {}, item |-> NoOrder, snap |-> Absent]

---------------------------------------------------------------------------
(* Repository: the tables' checks and updates.                            *)

\* Mutant: the version stays, so that a stale row passes for a fresh one.
UpdatedSameVersion(o, state, filled) ==
  [state |-> state, filled |-> filled,
   version |-> orders[o].version, sequence |-> orders[o].sequence + 1]

\* The order row a transition writes.
Updated(o, state, filled) ==
  [state |-> state, filled |-> filled,
   version |-> orders[o].version + 1, sequence |-> orders[o].sequence + 1]

\* The event a service call builds from the order row it has read: business is
\* what the identity appends to the order id, as a kind and what follows it, and makes
\* events unique.
Event(o, snap, state, business) ==
  [order |-> o, state |-> state, sequence |-> snap.sequence + 1, business |-> business]

\* Mutant: validate_transition is forgotten.
AcceptableAnyTransition(ev, snap) ==
  LET current == orders[ev.order] IN
  /\ current.state # "Absent"
  /\ current.version = snap.version
  /\ snap.state = current.state
  /\ ev.sequence = current.sequence + 1
  /\ \A e \in events : e.order = ev.order =>
        e.business # ev.business /\ e.sequence # ev.sequence

\* transition and transition_fill, in the order of their checks, and the UNIQUE
\* constraints of table events.
Acceptable(ev, snap) ==
  LET current == orders[ev.order] IN
  /\ current.state # "Absent"
  /\ current.version = snap.version
  /\ snap.state = current.state
  /\ ev.sequence = current.sequence + 1
  /\ validate_transition(current.state, ev.state)
  /\ \A e \in events : e.order = ev.order =>
        e.business # ev.business /\ e.sequence # ev.sequence

\* A transition that commits, together with what it does to the reservation.
Transition(ev, snap, release) ==
  /\ ev \notin events
  /\ Acceptable(ev, snap)
  /\ orders' = [orders EXCEPT ![ev.order] = Updated(ev.order, ev.state, @.filled)]
  /\ events' = events \cup {ev}
  /\ reservations' =
       IF release /\ reservations[ev.order].status = "active"
       THEN [reservations EXCEPT ![ev.order] = Released]
       ELSE reservations
  /\ UNCHANGED <<fills, outbox>>

\* The event is already stored: the call returns the order as it is now.
Redelivered(ev) == ev \in events /\ UNCHANGED tables

\* Any check fails: the call raises and rolls back.
Refused(ev, snap) ==
  /\ ev \notin events
  /\ ~Acceptable(ev, snap)
  /\ UNCHANGED tables

\* The transition that also inserts the outbox row and the reservation, both
\* unique per order.
QueueAcceptable(ev, snap) ==
  /\ Acceptable(ev, snap)
  /\ outbox[ev.order] = "none"
  /\ reservations[ev.order].status = "none"

\* Mutant: the reservation row is left to a later transaction.
QueueTransitionNoReservation(ev, snap) ==
  /\ ev \notin events
  /\ QueueAcceptable(ev, snap)
  /\ orders' = [orders EXCEPT ![ev.order] = Updated(ev.order, ev.state, @.filled)]
  /\ events' = events \cup {ev}
  /\ outbox' = [outbox EXCEPT ![ev.order] = "pending"]
  /\ UNCHANGED <<fills, reservations>>

QueueTransition(ev, snap) ==
  /\ ev \notin events
  /\ QueueAcceptable(ev, snap)
  /\ orders' = [orders EXCEPT ![ev.order] = Updated(ev.order, ev.state, @.filled)]
  /\ events' = events \cup {ev}
  /\ outbox' = [outbox EXCEPT ![ev.order] = "pending"]
  /\ reservations' = [reservations EXCEPT ![ev.order] =
       [status |-> "active",
        cash |-> IF Side[ev.order] = "buy" THEN Required[ev.order] ELSE 0,
        quantity |-> Quantity[ev.order]]]
  /\ UNCHANGED fills

\* Mutant: a fill never releases the reservation.
ReducedNeverReleased(o, filled) ==
  LET remaining == Quantity[o] - filled IN
  [status |-> "active",
   cash |-> (reservations[o].cash * remaining) \div Quantity[o],
   quantity |-> remaining]

\* What is left of a reservation once `filled` of the order is filled.  The cash
\* already held is scaled, by remaining over original quantity.
Reduced(o, filled) ==
  LET remaining == Quantity[o] - filled
      held == reservations[o]
  IN [status |-> IF remaining = 0 THEN "released" ELSE "active",
      cash |-> (held.cash * remaining) \div Quantity[o],
      quantity |-> IF held.quantity < remaining THEN held.quantity ELSE remaining]

FillRow(o, f) == [order |-> o, quantity |-> f.quantity, price |-> f.price]

\* Mutant: the upper bound on the filled quantity is dropped.
FillAcceptableUnbounded(ev, snap, f) ==
  /\ Acceptable(ev, snap)
  /\ 0 < orders[ev.order].filled + f.quantity

FillAcceptable(ev, snap, f) ==
  LET filled == orders[ev.order].filled + f.quantity IN
  /\ Acceptable(ev, snap)
  /\ 0 < filled
  /\ filled <= Quantity[ev.order]

\* transition_fill commits.
FillTransition(ev, snap, f) ==
  LET o == ev.order
      filled == orders[o].filled + f.quantity
  IN
  /\ FillRow(o, f) \notin fills
  /\ FillAcceptable(ev, snap, f)
  /\ fills' = fills \cup {FillRow(o, f)}
  /\ orders' = [orders EXCEPT ![o] = Updated(o, ev.state, filled)]
  /\ events' = events \cup {ev}
  /\ reservations' =
       IF reservations[o].status = "active"
       THEN [reservations EXCEPT ![o] = Reduced(o, filled)]
       ELSE reservations
  /\ UNCHANGED outbox

reserved_cash ==
  SumFunctionOnSet([o \in Orders |-> reservations[o].cash],
                   {o \in Orders : Side[o] = "buy" /\ reservations[o].status = "active"})

reserved_sell_quantity(instrument) ==
  SumFunctionOnSet([o \in Orders |-> reservations[o].quantity],
                   {o \in Orders : /\ Side[o] = "sell"
                                   /\ Instrument[o] = instrument
                                   /\ reservations[o].status = "active"})

pending_outbox == {o \in Orders : outbox[o] = "pending"}

---------------------------------------------------------------------------
(* The paper broker: deterministic in its market, idempotent in memory.   *)

BrokerResult(o, market) ==
  IF market.kind \in {"missing", "reject_all"}
  THEN [status |-> "rejected", fills |-> {}]
  ELSE [status |-> "acknowledged",
        fills |-> IF market.kind = "no_fill" THEN {}
                  ELSE {[quantity |-> IF market.capacity < Quantity[o]
                                      THEN market.capacity ELSE Quantity[o],
                         price |-> market.price]}]

\* submit: a key that has been answered keeps its answer.
BrokerSubmit(w, o) ==
  IF responses[w][o] # NoResponse
  THEN UNCHANGED responses
  ELSE \E market \in Markets :
         responses' = [responses EXCEPT ![w][o] = BrokerResult(o, market)]

\* cancel and replace only ask whether the request is known.
Knows(w, o) == responses[w][o] # NoResponse

---------------------------------------------------------------------------
(* queue: one client, one transaction at a time.                          *)

\* The client goes on at pc with the order row the call returned.
ClientProceeds(c, pc) ==
  client' = [client EXCEPT ![c] = [@ EXCEPT !.pc = pc, !.snap = orders'[client[c].order]]]

\* queue returns, raises, or its process dies: its locals are gone.
ClientLeaves(c) == client' = [client EXCEPT ![c] = IdleClient]

\* by_idempotency_key finds nothing.  (An existing order is returned as it is,
\* whatever its state: the call changes nothing.)
QueueLookup(c, o) ==
  /\ client[c].pc = "idle"
  /\ orders[o].state = "Absent"
  /\ client' = [client EXCEPT ![c] = [@ EXCEPT !.pc = "create", !.order = o]]
  /\ UNCHANGED <<tables, worker, responses, restarts>>

\* create: insert the order and its first event, or return the row another
\* client has inserted since the lookup.
QueueCreate(c) ==
  LET o == client[c].order
      created == [state |-> "Created", filled |-> 0, version |-> 1, sequence |-> 1]
  IN
  /\ client[c].pc = "create"
  /\ \/ /\ orders[o].state = "Absent"
        /\ orders' = [orders EXCEPT ![o] = created]
        /\ events' = events \cup {Event(o, Absent, "Created", <<"step", "created">>)}
        /\ UNCHANGED <<fills, outbox, reservations>>
     \/ /\ orders[o].state # "Absent"
        /\ UNCHANGED tables
  /\ ClientProceeds(c, "evaluate")
  /\ UNCHANGED <<worker, responses, restarts>>

\* A transition in the middle of queue: on success, or when the event is already
\* stored, the client goes on with the row the call returns; otherwise it raises.
ClientTransition(c, state, Returns) ==
  LET snap == client[c].snap
      ev == Event(client[c].order, snap, state, <<"state", state>>)
  IN
  /\ \/ (Transition(ev, snap, FALSE) \/ Redelivered(ev)) /\ Returns
     \/ Refused(ev, snap) /\ ClientLeaves(c)
  /\ UNCHANGED <<worker, responses, restarts>>

QueueEvaluate(c) ==
  /\ client[c].pc = "evaluate"
  /\ ClientTransition(c, "RiskPending", ClientProceeds(c, "reserve"))

\* Mutant: open reservations are not deducted from the quoted amounts.
RiskVerdictQuoteOnly(o) ==
  IF Side[o] = "buy"
  THEN IF Required[o] > AvailableCash THEN "RiskRejected" ELSE "RiskApproved"
  ELSE IF Quantity[o] > AvailablePosition[Instrument[o]]
       THEN "RiskRejected" ELSE "RiskApproved"

\* The reservation totals are read outside the transactions around them.
RiskVerdict(o) ==
  LET unreserved == IF Side[o] = "buy"
                    THEN AvailableCash - reserved_cash
                    ELSE AvailablePosition[Instrument[o]]
                           - reserved_sell_quantity(Instrument[o])
      needed == IF Side[o] = "buy" THEN Required[o] ELSE Quantity[o]
  IN IF needed > unreserved THEN "RiskRejected" ELSE "RiskApproved"

QueueReadReserved(c) ==
  /\ client[c].pc = "reserve"
  /\ client' = [client EXCEPT ![c] =
       [@ EXCEPT !.pc = "decide", !.verdict = RiskVerdict(client[c].order)]]
  /\ UNCHANGED <<tables, worker, responses, restarts>>

QueueDecide(c) ==
  /\ client[c].pc = "decide"
  /\ ClientTransition(c, client[c].verdict,
        IF client[c].verdict = "RiskApproved"
        THEN ClientProceeds(c, "submit") ELSE ClientLeaves(c))

QueueSubmit(c) ==
  LET snap == client[c].snap
      ev == Event(client[c].order, snap, "SubmitPending", <<"step", "submit_pending">>)
  IN
  /\ client[c].pc = "submit"
  /\ \/ QueueTransition(ev, snap)
     \/ Redelivered(ev)
     \/ /\ ev \notin events
        /\ ~QueueAcceptable(ev, snap)
        /\ UNCHANGED tables
  /\ ClientLeaves(c)
  /\ UNCHANGED <<worker, responses, restarts>>

\* The process dies between two transactions of queue.
ClientCrash(c) ==
  /\ client[c].pc # "idle"
  /\ ClientLeaves(c)
  /\ UNCHANGED <<tables, worker, responses, restarts>>

---------------------------------------------------------------------------
(* process_outbox: one worker, one transaction at a time.                 *)

\* The worker goes on at pc with the order row the call returned.
WorkerProceeds(w, pc) ==
  worker' = [worker EXCEPT ![w] = [@ EXCEPT !.pc = pc, !.snap = orders'[worker[w].item]]]

\* The branch does nothing for this order: the worker keeps the row it has read.
WorkerSkips(w, pc) ==
  /\ worker' = [worker EXCEPT ![w].pc = pc]
  /\ UNCHANGED tables

\* process_outbox raises: the rest of the batch is abandoned.
WorkerLeaves(w) == worker' = [worker EXCEPT ![w] = IdleWorker]

\* The list of pending rows is read once, before the loop.
WorkerScan(w) ==
  /\ worker[w].pc = "idle"
  /\ pending_outbox # {}
  /\ worker' = [worker EXCEPT ![w] = [@ EXCEPT !.pc = "send", !.batch = pending_outbox]]
  /\ UNCHANGED <<tables, client, responses, restarts>>

\* broker.submit and the read of the order.  (attempts is counted here and in
\* mark_outbox_delivered; nothing reads it, and the model leaves it out.)
WorkerSend(w) ==
  /\ worker[w].pc = "send"
  /\ \E o \in worker[w].batch :
       /\ \A p \in worker[w].batch : o <= p
       /\ BrokerSubmit(w, o)
       /\ worker' = [worker EXCEPT ![w] =
            [@ EXCEPT !.pc = "submitted", !.item = o, !.snap = orders[o]]]
  /\ UNCHANGED <<tables, client, restarts>>

WorkerTransition(w, state, release, pc) ==
  LET snap == worker[w].snap
      ev == Event(worker[w].item, snap, state, <<"state", state>>)
  IN
  \/ /\ Transition(ev, snap, release) \/ Redelivered(ev)
     /\ WorkerProceeds(w, pc)
  \/ Refused(ev, snap) /\ WorkerLeaves(w)

\* Mutant: a retry expects the order to be still SubmitPending.
WorkerSubmittedFirstTry(w) ==
  /\ worker[w].pc = "submitted"
  /\ WorkerTransition(w, "Submitted", FALSE, "answer")
  /\ UNCHANGED <<client, responses, restarts>>

WorkerSubmitted(w) ==
  /\ worker[w].pc = "submitted"
  /\ IF worker[w].snap.state = "SubmitPending"
     THEN WorkerTransition(w, "Submitted", FALSE, "answer")
     ELSE WorkerSkips(w, "answer")
  /\ UNCHANGED <<client, responses, restarts>>

WorkerReject(w) ==
  /\ worker[w].pc = "answer"
  /\ responses[w][worker[w].item].status = "rejected"
  /\ IF worker[w].snap.state \in {"Submitted", "SubmitPending"}
     THEN WorkerTransition(w, "Rejected", TRUE, "mark")
     ELSE WorkerSkips(w, "mark")
  /\ UNCHANGED <<client, responses, restarts>>

\* Mutant: an order that is past Submitted is taken to have its fills already.
WorkerAcknowledgeDone(w) ==
  /\ worker[w].pc = "answer"
  /\ responses[w][worker[w].item].status = "acknowledged"
  /\ IF worker[w].snap.state = "Submitted"
     THEN WorkerTransition(w, "Acknowledged", FALSE, "fill")
     ELSE WorkerSkips(w, "mark")
  /\ UNCHANGED <<client, responses, restarts>>

WorkerAcknowledge(w) ==
  /\ worker[w].pc = "answer"
  /\ responses[w][worker[w].item].status = "acknowledged"
  /\ IF worker[w].snap.state = "Submitted"
     THEN WorkerTransition(w, "Acknowledged", FALSE, "fill")
     ELSE WorkerSkips(w, "fill")
  /\ UNCHANGED <<client, responses, restarts>>

\* The state a fill leads to, decided on the row the worker has read.
Following(o, snap, f) ==
  IF snap.filled + f.quantity = Quantity[o] THEN "Filled" ELSE "PartiallyFilled"

\* The broker answers with at most one fill.  A fill already stored is skipped.
WorkerFill(w) ==
  LET o == worker[w].item
      snap == worker[w].snap
      FillEvent(f) == Event(o, snap, Following(o, snap, f), <<"fill", f>>)
  IN
  /\ worker[w].pc = "fill"
  /\ \/ responses[w][o].fills = {} /\ WorkerSkips(w, "mark")
     \/ \E f \in responses[w][o].fills :
          \/ /\ FillTransition(FillEvent(f), snap, f)
             /\ WorkerProceeds(w, "mark")
          \/ /\ FillRow(o, f) \in fills
             /\ UNCHANGED tables
             /\ WorkerProceeds(w, "mark")
          \/ /\ FillRow(o, f) \notin fills
             /\ ~FillAcceptable(FillEvent(f), snap, f)
             /\ UNCHANGED tables
             /\ WorkerLeaves(w)
  /\ UNCHANGED <<client, responses, restarts>>

WorkerMark(w) ==
  LET rest == worker[w].batch \ {worker[w].item} IN
  /\ worker[w].pc = "mark"
  /\ outbox' = [outbox EXCEPT ![worker[w].item] = "delivered"]
  /\ worker' = [worker EXCEPT ![w] =
       IF rest = {} THEN IdleWorker
       ELSE [IdleWorker EXCEPT !.pc = "send", !.batch = rest]]
  /\ UNCHANGED <<orders, events, fills, reservations, client, responses, restarts>>

\* The process dies, anywhere, and with it the broker object; a new one starts.
WorkerRestart(w) ==
  /\ restarts[w] < MaxRestarts
  /\ restarts' = [restarts EXCEPT ![w] = @ + 1]
  /\ responses' = [responses EXCEPT ![w] = [o \in Orders |-> NoResponse]]
  /\ WorkerLeaves(w)
  /\ UNCHANGED <<tables, client>>

---------------------------------------------------------------------------
(* The operator's service calls.                                          *)

OperatorTransition(o, state, business, release) ==
  /\ Transition(Event(o, orders[o], state, business), orders[o], release)
  /\ UNCHANGED <<client, worker, responses, restarts>>

Requested(o, business) ==
  \E e \in events : e.order = o /\ e.business = business

request_cancel(o) == OperatorTransition(o, "CancelPending", <<"request", "cancel">>, FALSE)

request_replace(o) == OperatorTransition(o, "ReplacePending", <<"request", "replace">>, FALSE)

\* The status is what some broker answers to the cancel that was requested; only
\* "cancelled" confirms it and releases the reservation.
apply_cancel_result(o) ==
  /\ Requested(o, <<"request", "cancel">>)
  /\ \E w \in Workers :
       IF Knows(w, o)
       THEN OperatorTransition(o, "Cancelled", <<"cancel_result", "cancelled">>, TRUE)
       ELSE OperatorTransition(o, "Unknown", <<"cancel_result", "unknown_order">>, FALSE)

apply_replace_result(o) ==
  /\ Requested(o, <<"request", "replace">>)
  /\ \E w \in Workers :
       IF Knows(w, o)
       THEN OperatorTransition(o, "Replaced", <<"replace_result", "replaced">>, FALSE)
       ELSE OperatorTransition(o, "Unknown", <<"replace_result", "unknown_order">>, FALSE)

\* Manual recovery from Unknown; the reservation is left as it is.
recover_unknown(o, state) ==
  /\ orders[o].state = "Unknown"
  /\ OperatorTransition(o, state, <<"manual_recovery", orders[o].sequence + 1>>, FALSE)

---------------------------------------------------------------------------
Init ==
  /\ orders = [o \in Orders |-> Absent]
  /\ events = {}
  /\ fills = {}
  /\ outbox = [o \in Orders |-> "none"]
  /\ reservations = [o \in Orders |-> NoReservation]
  /\ client = [c \in Clients |-> IdleClient]
  /\ worker = [w \in Workers |-> IdleWorker]
  /\ responses = [w \in Workers |-> [o \in Orders |-> NoResponse]]
  /\ restarts = [w \in Workers |-> 0]

ClientStep(c) ==
  \/ \E o \in Orders : QueueLookup(c, o)
  \/ QueueCreate(c) \/ QueueEvaluate(c) \/ QueueReadReserved(c)
  \/ QueueDecide(c) \/ QueueSubmit(c)

WorkerStep(w) ==
  \/ WorkerScan(w) \/ WorkerSend(w) \/ WorkerSubmitted(w) \/ WorkerReject(w)
  \/ WorkerAcknowledge(w) \/ WorkerFill(w) \/ WorkerMark(w)

OperatorStep(o) ==
  \/ "request_cancel" \in OperatorCalls /\ request_cancel(o)
  \/ "apply_cancel" \in OperatorCalls /\ apply_cancel_result(o)
  \/ "request_replace" \in OperatorCalls /\ request_replace(o)
  \/ "apply_replace" \in OperatorCalls /\ apply_replace_result(o)
  \/ "recover" \in OperatorCalls /\ \E state \in Recoveries : recover_unknown(o, state)

Next ==
  \/ \E c \in Clients : ClientStep(c) \/ ClientCrash(c)
  \/ \E w \in Workers : WorkerStep(w) \/ WorkerRestart(w)
  \/ \E o \in Orders : OperatorStep(o)

Spec == Init /\ [][Next]_vars

\* A delivering process that stays up runs its loop to the end (the scheduler
\* calls _submit again and again, paper-run calls process_outbox); clients,
\* operators and crashes owe nothing.
FairSpec == Spec /\ \A w \in Workers : WF_vars(WorkerStep(w))

---------------------------------------------------------------------------
(* Properties.                                                            *)

OrderRow == [state : OMSState \cup {"Absent"}, filled : Nat, version : Nat, sequence : Nat]
OutboxStatus == {"none", "pending", "delivered"}

ClientPc == {"idle", "create", "evaluate", "reserve", "decide", "submit"}
WorkerPc == {"idle", "send", "submitted", "answer", "fill", "mark"}

TablesTyped ==
  /\ orders \in [Orders -> OrderRow]
  /\ \A e \in events : e.order \in Orders /\ e.state \in OMSState /\ e.sequence \in Nat
  /\ fills \subseteq [order : Orders, quantity : Nat, price : Nat]
  /\ outbox \in [Orders -> OutboxStatus]
  /\ reservations \in [Orders -> [status : {"none", "active", "released"},
                                  cash : Nat, quantity : Nat]]

ClientsTyped ==
  /\ client \in [Clients ->
       [pc : ClientPc, order : Orders \cup {NoOrder}, snap : OrderRow,
        verdict : {"RiskApproved", "RiskRejected"}]]
  /\ \A c \in Clients : client[c].pc # "idle" => client[c].order \in Orders

WorkersTyped ==
  /\ worker \in [Workers ->
       [pc : WorkerPc, batch : SUBSET Orders, item : Orders \cup {NoOrder},
        snap : OrderRow]]
  /\ \A w \in Workers :
       worker[w].pc \notin {"idle", "send"} => worker[w].item \in Orders

BrokersTyped ==
  /\ responses \in [Workers -> [Orders ->
       [status : {"none", "rejected", "acknowledged"},
        fills : SUBSET [quantity : Nat, price : Nat]]]]
  /\ restarts \in [Workers -> 0..MaxRestarts]

\* Every table, every process and every broker memory has its type.
TypeOK == TablesTyped /\ ClientsTyped /\ WorkersTyped /\ BrokersTyped

\* A row a process has read is the order's row for as long as the version has not
\* moved.
ReadFaithfully(snap, o) ==
  /\ snap.version <= orders[o].version
  /\ snap.version = orders[o].version => snap = orders[o]

\* Every process holds such rows, so that the version check of transition and
\* transition_fill is enough to decide the next state (Filled or PartiallyFilled)
\* on the row that was read, before the transaction.
SnapshotsFaithful ==
  /\ \A c \in Clients :
       client[c].pc \in {"evaluate", "reserve", "decide", "submit"} =>
         ReadFaithfully(client[c].snap, client[c].order)
  /\ \A w \in Workers :
       worker[w].pc \notin {"idle", "send"} => ReadFaithfully(worker[w].snap, worker[w].item)

\* The order row is the fold of its journal: the events of an order are numbered
\* 1..sequence without gap or repetition, each follows from the one before by an
\* allowed transition, and the last one carries the order's state - whatever
\* several processes with stale rows try to append.
JournalMatchesOrder ==
  \A o \in Orders :
    LET mine == {e \in events : e.order = o} IN
    /\ orders[o].version = orders[o].sequence
    /\ {e.sequence : e \in mine} = 1..orders[o].sequence
    /\ \A e \in mine : e.sequence = orders[o].sequence => e.state = orders[o].state
    /\ \A e, f \in mine :
         /\ e.sequence = f.sequence => e = f
         /\ f.sequence = e.sequence + 1 => validate_transition(e.state, f.state)

\* filled_quantity is the sum of the stored fills and never exceeds the order,
\* and an order is Filled exactly when nothing remains: no fill is lost between
\* the two tables or counted twice by a second delivery.
FillsAccountForOrder ==
  \A o \in Orders :
    /\ orders[o].filled =
         SumFunctionOnSet([f \in fills |-> f.quantity], {f \in fills : f.order = o})
    /\ orders[o].filled <= Quantity[o]
    /\ (orders[o].state = "Filled") <=> (orders[o].filled = Quantity[o])

\* Outbox row, reservation row and SubmitPending event appear together, once, and
\* no broker hears of an order that has no outbox row.
QueuedTogether ==
  \A o \in Orders :
    LET queued == Requested(o, <<"step", "submit_pending">>) IN
    /\ queued <=> outbox[o] # "none"
    /\ queued <=> reservations[o].status # "none"
    /\ \A w \in Workers : Knows(w, o) => queued

ClosedByRecovery(o) ==
  \E e \in events : /\ e.order = o
                    /\ e.sequence = orders[o].sequence
                    /\ e.business = <<"manual_recovery", e.sequence>>

\* A queued order holds its reservation for exactly as long as it is open, and
\* the reservation covers exactly the quantity that remains.  Orders closed by
\* manual recovery are left out: see TerminalReleasesReservation.
ReservationFollowsOrder ==
  \A o \in Orders : outbox[o] # "none" /\ ~ClosedByRecovery(o) =>
    /\ (reservations[o].status = "active") <=> (orders[o].state \notin TERMINAL_STATES)
    /\ reservations[o].quantity =
         IF reservations[o].status = "active" THEN Quantity[o] - orders[o].filled ELSE 0

\* An outbox row is marked delivered only after the broker's answer has taken
\* effect: the worker that marks it has seen its fills stored, and the order has
\* left SubmitPending.
DeliveredMeansApplied ==
  /\ \A w \in Workers : worker[w].pc = "mark" =>
       \A f \in responses[w][worker[w].item].fills : FillRow(worker[w].item, f) \in fills
  /\ \A o \in Orders : outbox[o] = "delivered" => orders[o].state # "SubmitPending"

\* The reservations never promise more cash, or more of a position, than the
\* commands quote.
NoOverReservation ==
  /\ reserved_cash <= AvailableCash
  /\ \A o \in Orders :
       reserved_sell_quantity(Instrument[o]) <= AvailablePosition[Instrument[o]]

\* A terminal order holds no reservation (ADR 0013, lines 11-12).
TerminalReleasesReservation ==
  \A o \in Orders :
    orders[o].state \in TERMINAL_STATES => reservations[o].status # "active"

\* Every queued order is eventually delivered.
EveryQueuedOrderDelivered ==
  \A o \in Orders : outbox[o] = "pending" ~> outbox[o] = "delivered"

\* What the outside sees of an order's state.
PhaseOf(state) ==
  CASE state = "Absent" -> "absent"
    [] state \in {"Created", "RiskPending", "RiskApproved"} -> "vetting"
    [] state = "SubmitPending" -> "queued"
    [] state \in TERMINAL_STATES -> "closed"
    [] OTHER -> "working"

Lifecycle == INSTANCE OrderLifecycle WITH
  phase <- [o \in Orders |-> PhaseOf(orders[o].state)],
  executed <- [o \in Orders |-> orders[o].filled]

\* Every step of the OMS is a step of an order's promised lifecycle, or none:
\* whatever clients, workers and operators interleave, an order is delivered
\* once, executed only while it works and never beyond its quantity, and closed
\* for good.
ImplementsLifecycle == Lifecycle!LifecycleSpec
=============================================================================
