---------------------------- MODULE PaperOMSProofs ----------------------------
(***************************************************************************)
(* Theorems about the paper OMS, for any set of orders, clients, workers   *)
(* and markets: its types and journal, the lifecycle it implements, and    *)
(* what its tables add up to: the fills account for the order, the         *)
(* reservation follows it, a delivered row has been applied, and with one  *)
(* client the reservations stay within the account.                        *)
(***************************************************************************)
EXTENDS PaperOMS, SumTheorems

---------------------------------------------------------------------------
(* Type correctness: first what each kind of table update preserves.       *)

LEMMA DivNat ==
  ASSUME NEW a \in Nat, NEW b \in Nat \ {0}
  PROVE  a \div b \in Nat
  OBVIOUS

LEMMA RowsTyped ==
  /\ Absent \in OrderRow
  /\ Released \in [status : {"none", "active", "released"}, cash : Nat, quantity : Nat]
  /\ NoReservation \in [status : {"none", "active", "released"}, cash : Nat, quantity : Nat]
  BY DEF Absent, OrderRow, Released, NoReservation

\* A row written by Updated has the type of a row.
LEMMA UpdatedTyped ==
  ASSUME TablesTyped, NEW o \in Orders, NEW s \in OMSState, NEW filled \in Nat
  PROVE  Updated(o, s, filled) \in OrderRow
  BY DEF TablesTyped, Updated, OrderRow

\* A committed transition keeps the tables typed.
LEMMA TransitionTyped ==
  ASSUME TablesTyped, NEW ev, NEW snap, NEW release,
         ev.order \in Orders, ev.state \in OMSState, ev.sequence \in Nat,
         Transition(ev, snap, release)
  PROVE  TablesTyped'
<1>1. orders' \in [Orders -> OrderRow]
  <2>1. orders[ev.order].filled \in Nat
    BY DEF TablesTyped, OrderRow
  <2>2. Updated(ev.order, ev.state, orders[ev.order].filled) \in OrderRow
    BY <2>1, UpdatedTyped
  <2>. QED BY <2>2 DEF TablesTyped, Transition
<1>2. \A e \in events' : e.order \in Orders /\ e.state \in OMSState /\ e.sequence \in Nat
  BY DEF TablesTyped, Transition
<1>3. reservations' \in [Orders -> [status : {"none", "active", "released"},
                                    cash : Nat, quantity : Nat]]
  BY RowsTyped DEF TablesTyped, Transition
<1>. QED BY <1>1, <1>2, <1>3 DEF TablesTyped, Transition

\* So does the one that queues the order.
LEMMA QueueTransitionTyped ==
  ASSUME TablesTyped, NEW ev, NEW snap,
         ev.order \in Orders, ev.state \in OMSState, ev.sequence \in Nat,
         QueueTransition(ev, snap)
  PROVE  TablesTyped'
<1>1. orders' \in [Orders -> OrderRow]
  <2>1. orders[ev.order].filled \in Nat
    BY DEF TablesTyped, OrderRow
  <2>2. Updated(ev.order, ev.state, orders[ev.order].filled) \in OrderRow
    BY <2>1, UpdatedTyped
  <2>. QED BY <2>2 DEF TablesTyped, QueueTransition
<1>2. \A e \in events' : e.order \in Orders /\ e.state \in OMSState /\ e.sequence \in Nat
  BY DEF TablesTyped, QueueTransition
<1>3. outbox' \in [Orders -> OutboxStatus]
  BY DEF TablesTyped, QueueTransition, OutboxStatus
<1>4. reservations' \in [Orders -> [status : {"none", "active", "released"},
                                    cash : Nat, quantity : Nat]]
  BY OrdersAssumption DEF TablesTyped, QueueTransition
<1>. QED BY <1>1, <1>2, <1>3, <1>4 DEF TablesTyped, QueueTransition

\* What remains reserved after a fill within the order's quantity is a reservation.
LEMMA ReducedTyped ==
  ASSUME TablesTyped, NEW o \in Orders, NEW filled \in Nat, filled <= Quantity[o]
  PROVE  Reduced(o, filled) \in [status : {"none", "active", "released"},
                                 cash : Nat, quantity : Nat]
<1>1. Quantity[o] \in Nat \ {0}
  BY OrdersAssumption
<1>2. Quantity[o] - filled \in Nat
  BY <1>1
<1>3. reservations[o].cash \in Nat /\ reservations[o].quantity \in Nat
  BY DEF TablesTyped
<1>4. reservations[o].cash * (Quantity[o] - filled) \in Nat
  BY <1>2, <1>3
<1>5. (reservations[o].cash * (Quantity[o] - filled)) \div Quantity[o] \in Nat
  BY <1>1, <1>4, DivNat
<1>. QED BY <1>2, <1>3, <1>5 DEF Reduced

\* And a stored fill keeps the tables typed.
LEMMA FillTransitionTyped ==
  ASSUME TablesTyped, NEW ev, NEW snap, NEW f \in [quantity : Nat, price : Nat],
         ev.order \in Orders, ev.state \in OMSState, ev.sequence \in Nat,
         FillTransition(ev, snap, f)
  PROVE  TablesTyped'
<1> DEFINE filled == orders[ev.order].filled + f.quantity
<1>1. filled \in Nat /\ filled <= Quantity[ev.order]
  BY DEF TablesTyped, OrderRow, FillTransition, FillAcceptable
<1>2. Updated(ev.order, ev.state, filled) \in OrderRow
  BY <1>1, UpdatedTyped
<1>3. Reduced(ev.order, filled) \in [status : {"none", "active", "released"},
                                     cash : Nat, quantity : Nat]
  BY <1>1, ReducedTyped
<1>4. orders' \in [Orders -> OrderRow]
  BY <1>2 DEF TablesTyped, FillTransition
<1>5. \A e \in events' : e.order \in Orders /\ e.state \in OMSState /\ e.sequence \in Nat
  BY DEF TablesTyped, FillTransition
<1>6. fills' \subseteq [order : Orders, quantity : Nat, price : Nat]
  BY DEF TablesTyped, FillTransition, FillRow
<1>7. reservations' \in [Orders -> [status : {"none", "active", "released"},
                                    cash : Nat, quantity : Nat]]
  BY <1>3 DEF TablesTyped, FillTransition
<1>. QED BY <1>4, <1>5, <1>6, <1>7 DEF TablesTyped, FillTransition

---------------------------------------------------------------------------
(* Type correctness: one lemma per process.                               *)

Reservation == [status : {"none", "active", "released"}, cash : Nat, quantity : Nat]
BrokerAnswer == [status : {"none", "rejected", "acknowledged"},
                 fills : SUBSET [quantity : Nat, price : Nat]]
ClientRow == [pc : ClientPc, order : Orders \cup {NoOrder}, snap : OrderRow,
              verdict : {"RiskApproved", "RiskRejected"}]
WorkerRow == [pc : WorkerPc, batch : SUBSET Orders, item : Orders \cup {NoOrder},
              snap : OrderRow]

LEMMA StatesTyped ==
  {"Created", "RiskPending", "RiskApproved", "RiskRejected", "SubmitPending", "Submitted",
   "Acknowledged", "PartiallyFilled", "Filled", "CancelPending", "Cancelled",
   "ReplacePending", "Replaced", "Rejected", "Unknown"} \subseteq OMSState
  BY DEF OMSState

\* The event of a read row has the type of an event.
LEMMA EventTyped ==
  ASSUME NEW o \in Orders, NEW snap \in OrderRow, NEW s \in OMSState, NEW b
  PROVE  /\ Event(o, snap, s, b).order = o
         /\ Event(o, snap, s, b).state = s
         /\ Event(o, snap, s, b).sequence \in Nat
  BY DEF Event, OrderRow

LEMMA TablesUnchanged ==
  ASSUME TablesTyped, UNCHANGED tables
  PROVE  TablesTyped'
  BY DEF TablesTyped, tables

\* A client that proceeds keeps its type, and one that leaves too.
LEMMA ClientProceedsTyped ==
  ASSUME ClientsTyped, TablesTyped', NEW c \in Clients, NEW pc \in ClientPc,
         client[c].order \in Orders, ClientProceeds(c, pc)
  PROVE  ClientsTyped'
<1>1. orders'[client[c].order] \in OrderRow
  BY DEF TablesTyped
<1>. QED BY <1>1 DEF ClientsTyped, ClientProceeds

LEMMA ClientLeavesTyped ==
  ASSUME ClientsTyped, NEW c \in Clients, ClientLeaves(c)
  PROVE  ClientsTyped'
<1>1. IdleClient \in ClientRow /\ IdleClient.pc = "idle"
  BY RowsTyped DEF IdleClient, ClientRow, ClientPc
<1>. QED BY <1>1 DEF ClientsTyped, ClientLeaves, ClientRow

LEMMA WorkerProceedsTyped ==
  ASSUME WorkersTyped, TablesTyped', NEW w \in Workers, NEW pc \in WorkerPc,
         worker[w].item \in Orders, WorkerProceeds(w, pc)
  PROVE  WorkersTyped'
<1>1. orders'[worker[w].item] \in OrderRow
  BY DEF TablesTyped
<1>. QED BY <1>1 DEF WorkersTyped, WorkerProceeds

LEMMA WorkerSkipsTyped ==
  ASSUME WorkersTyped, TablesTyped, NEW w \in Workers, NEW pc \in WorkerPc,
         worker[w].item \in Orders, WorkerSkips(w, pc)
  PROVE  WorkersTyped' /\ TablesTyped'
  BY TablesUnchanged DEF WorkersTyped, WorkerSkips

LEMMA WorkerLeavesTyped ==
  ASSUME WorkersTyped, NEW w \in Workers, WorkerLeaves(w)
  PROVE  WorkersTyped'
<1>1. IdleWorker \in WorkerRow /\ IdleWorker.pc = "idle"
  BY RowsTyped DEF IdleWorker, WorkerRow, WorkerPc
<1>. QED BY <1>1 DEF WorkersTyped, WorkerLeaves, WorkerRow

\* A step in the middle of queue keeps every type.
LEMMA ClientTransitionTyped ==
  ASSUME TypeOK, NEW c \in Clients, client[c].order \in Orders,
         NEW state \in OMSState, NEW pc \in ClientPc,
         ClientTransition(c, state, ClientProceeds(c, pc))
  PROVE  TypeOK'
<1> DEFINE ev == Event(client[c].order, client[c].snap, state, <<"state", state>>)
<1>1. ev.order \in Orders /\ ev.state \in OMSState /\ ev.sequence \in Nat
  BY EventTyped DEF TypeOK, ClientsTyped
<1>2. TablesTyped'
  <2>1. CASE Transition(ev, client[c].snap, FALSE)
    BY <1>1, <2>1, TransitionTyped DEF TypeOK
  <2>2. CASE UNCHANGED tables
    BY <2>2, TablesUnchanged DEF TypeOK
  <2>. QED BY <2>1, <2>2 DEF ClientTransition, Redelivered, Refused
<1>3. ClientsTyped'
  <2>1. CASE ClientProceeds(c, pc)
    BY <1>2, <2>1, ClientProceedsTyped DEF TypeOK
  <2>2. CASE ClientLeaves(c)
    BY <2>2, ClientLeavesTyped DEF TypeOK
  <2>. QED BY <2>1, <2>2 DEF ClientTransition
<1>4. WorkersTyped' /\ BrokersTyped'
  BY DEF TypeOK, WorkersTyped, BrokersTyped, ClientTransition
<1>. QED BY <1>2, <1>3, <1>4 DEF TypeOK

\* So does the step that decides and may leave.
LEMMA ClientDecisionTyped ==
  ASSUME TypeOK, NEW c \in Clients, client[c].order \in Orders,
         NEW state \in OMSState,
         ClientTransition(c, state, ClientLeaves(c))
  PROVE  TypeOK'
<1> DEFINE ev == Event(client[c].order, client[c].snap, state, <<"state", state>>)
<1>1. ev.order \in Orders /\ ev.state \in OMSState /\ ev.sequence \in Nat
  BY EventTyped DEF TypeOK, ClientsTyped
<1>2. TablesTyped'
  <2>1. CASE Transition(ev, client[c].snap, FALSE)
    BY <1>1, <2>1, TransitionTyped DEF TypeOK
  <2>2. CASE UNCHANGED tables
    BY <2>2, TablesUnchanged DEF TypeOK
  <2>. QED BY <2>1, <2>2 DEF ClientTransition, Redelivered, Refused
<1>3. ClientsTyped'
  BY ClientLeavesTyped DEF TypeOK, ClientTransition
<1>4. WorkersTyped' /\ BrokersTyped'
  BY DEF TypeOK, WorkersTyped, BrokersTyped, ClientTransition
<1>. QED BY <1>2, <1>3, <1>4 DEF TypeOK

LEMMA ClientStepTyped ==
  ASSUME TypeOK, NEW c \in Clients, ClientStep(c) \/ ClientCrash(c)
  PROVE  TypeOK'
<1>1. ASSUME NEW o \in Orders, QueueLookup(c, o) PROVE TypeOK'
  <2>1. ClientsTyped'
    BY <1>1 DEF TypeOK, ClientsTyped, ClientPc, QueueLookup
  <2>2. TablesTyped'
    BY <1>1, TablesUnchanged DEF TypeOK, QueueLookup
  <2>3. WorkersTyped' /\ BrokersTyped'
    BY <1>1 DEF TypeOK, WorkersTyped, BrokersTyped, QueueLookup
  <2>. QED BY <2>1, <2>2, <2>3 DEF TypeOK
<1>2. CASE QueueCreate(c)
  <2> DEFINE created == [state |-> "Created", filled |-> 0, version |-> 1, sequence |-> 1]
             ev == Event(client[c].order, Absent, "Created", <<"step", "created">>)
  <2>1. client[c].order \in Orders
    BY <1>2 DEF TypeOK, ClientsTyped, QueueCreate
  <2>2. created \in OrderRow
    BY StatesTyped DEF OrderRow
  <2>3. ev.order \in Orders /\ ev.state \in OMSState /\ ev.sequence \in Nat
    BY <2>1, RowsTyped, StatesTyped, EventTyped
  <2>4. TablesTyped'
    <3>1. CASE /\ orders' = [orders EXCEPT ![client[c].order] = created]
               /\ events' = events \cup {ev}
               /\ UNCHANGED <<fills, outbox, reservations>>
      BY <2>2, <2>3, <3>1 DEF TypeOK, TablesTyped
    <3>2. CASE UNCHANGED tables
      BY <3>2, TablesUnchanged DEF TypeOK
    <3>. QED BY <1>2, <3>1, <3>2 DEF QueueCreate
  <2>5. ClientsTyped'
    BY <1>2, <2>1, <2>4, ClientProceedsTyped DEF TypeOK, QueueCreate, ClientPc
  <2>6. WorkersTyped' /\ BrokersTyped'
    BY <1>2 DEF TypeOK, WorkersTyped, BrokersTyped, QueueCreate
  <2>. QED BY <2>4, <2>5, <2>6 DEF TypeOK
<1>3. CASE QueueEvaluate(c)
  <2>1. client[c].order \in Orders
    BY <1>3 DEF TypeOK, ClientsTyped, QueueEvaluate
  <2>. QED BY <1>3, <2>1, StatesTyped, ClientTransitionTyped DEF QueueEvaluate, ClientPc
<1>4. CASE QueueReadReserved(c)
  <2>1. RiskVerdict(client[c].order) \in {"RiskApproved", "RiskRejected"}
    BY DEF RiskVerdict
  <2>2. ClientsTyped'
    BY <1>4, <2>1 DEF TypeOK, ClientsTyped, ClientPc, QueueReadReserved
  <2>3. TablesTyped'
    BY <1>4, TablesUnchanged DEF TypeOK, QueueReadReserved
  <2>4. WorkersTyped' /\ BrokersTyped'
    BY <1>4 DEF TypeOK, WorkersTyped, BrokersTyped, QueueReadReserved
  <2>. QED BY <2>2, <2>3, <2>4 DEF TypeOK
<1>5. CASE QueueDecide(c)
  <2>1. client[c].order \in Orders /\ client[c].verdict \in OMSState
    BY <1>5, StatesTyped DEF TypeOK, ClientsTyped, QueueDecide
  <2>2. CASE client[c].verdict = "RiskApproved"
    <3>1. ClientTransition(c, client[c].verdict, ClientProceeds(c, "submit"))
      BY <1>5, <2>2 DEF QueueDecide, ClientTransition
    <3>. QED BY <2>1, <3>1, ClientTransitionTyped DEF ClientPc
  <2>3. CASE client[c].verdict # "RiskApproved"
    <3>1. ClientTransition(c, client[c].verdict, ClientLeaves(c))
      BY <1>5, <2>3 DEF QueueDecide, ClientTransition
    <3>. QED BY <2>1, <3>1, ClientDecisionTyped
  <2>. QED BY <2>2, <2>3
<1>6. CASE QueueSubmit(c)
  <2> DEFINE snap == client[c].snap
             ev == Event(client[c].order, snap, "SubmitPending", <<"step", "submit_pending">>)
  <2>1. client[c].order \in Orders
    BY <1>6 DEF TypeOK, ClientsTyped, QueueSubmit
  <2>2. ev.order \in Orders /\ ev.state \in OMSState /\ ev.sequence \in Nat
    BY <2>1, StatesTyped, EventTyped DEF TypeOK, ClientsTyped
  <2>3. TablesTyped'
    <3>1. CASE QueueTransition(ev, snap)
      BY <2>2, <3>1, QueueTransitionTyped DEF TypeOK
    <3>2. CASE UNCHANGED tables
      BY <3>2, TablesUnchanged DEF TypeOK
    <3>. QED BY <1>6, <3>1, <3>2 DEF QueueSubmit, Redelivered
  <2>4. ClientsTyped'
    BY <1>6, ClientLeavesTyped DEF TypeOK, QueueSubmit
  <2>5. WorkersTyped' /\ BrokersTyped'
    BY <1>6 DEF TypeOK, WorkersTyped, BrokersTyped, QueueSubmit
  <2>. QED BY <2>3, <2>4, <2>5 DEF TypeOK
<1>7. CASE ClientCrash(c)
  <2>1. ClientsTyped'
    BY <1>7, ClientLeavesTyped DEF TypeOK, ClientCrash
  <2>2. TablesTyped'
    BY <1>7, TablesUnchanged DEF TypeOK, ClientCrash
  <2>3. WorkersTyped' /\ BrokersTyped'
    BY <1>7 DEF TypeOK, WorkersTyped, BrokersTyped, ClientCrash
  <2>. QED BY <2>1, <2>2, <2>3 DEF TypeOK
<1>. QED BY <1>1, <1>2, <1>3, <1>4, <1>5, <1>6, <1>7 DEF ClientStep

\* A broker's answer to any market has the type of an answer.
LEMMA BrokerSubmitTyped ==
  ASSUME BrokersTyped, NEW w \in Workers, NEW o \in Orders, BrokerSubmit(w, o),
         UNCHANGED restarts
  PROVE  BrokersTyped'
<1>1. ASSUME NEW market \in Markets PROVE BrokerResult(o, market) \in BrokerAnswer
  <2>1. market.capacity \in Nat /\ market.price \in Nat /\ Quantity[o] \in Nat
    BY OrdersAssumption
  <2>. QED BY <2>1 DEF BrokerResult, BrokerAnswer
<1>2. CASE UNCHANGED responses
  BY <1>2 DEF BrokersTyped
<1>3. ASSUME NEW market \in Markets,
             responses' = [responses EXCEPT ![w][o] = BrokerResult(o, market)]
      PROVE  BrokersTyped'
  BY <1>1, <1>3 DEF BrokersTyped, BrokerAnswer
<1>. QED BY <1>2, <1>3 DEF BrokerSubmit

\* A transition of process_outbox keeps every type.
LEMMA WorkerTransitionTyped ==
  ASSUME TypeOK, NEW w \in Workers, worker[w].item \in Orders,
         NEW state \in OMSState, NEW release, NEW pc \in WorkerPc,
         WorkerTransition(w, state, release, pc)
  PROVE  TablesTyped' /\ WorkersTyped'
<1> DEFINE ev == Event(worker[w].item, worker[w].snap, state, <<"state", state>>)
<1>1. ev.order \in Orders /\ ev.state \in OMSState /\ ev.sequence \in Nat
  BY EventTyped DEF TypeOK, WorkersTyped
<1>2. CASE Transition(ev, worker[w].snap, release) /\ WorkerProceeds(w, pc)
  BY <1>1, <1>2, TransitionTyped, WorkerProceedsTyped DEF TypeOK
<1>3. CASE UNCHANGED tables /\ WorkerProceeds(w, pc)
  BY <1>3, TablesUnchanged, WorkerProceedsTyped DEF TypeOK
<1>4. CASE UNCHANGED tables /\ WorkerLeaves(w)
  BY <1>4, TablesUnchanged, WorkerLeavesTyped DEF TypeOK
<1>. QED BY <1>2, <1>3, <1>4 DEF WorkerTransition, Redelivered, Refused

\* So does storing the broker's fill.
LEMMA WorkerFillTyped ==
  ASSUME TypeOK, NEW w \in Workers, WorkerFill(w)
  PROVE  TablesTyped' /\ WorkersTyped'
<1> DEFINE o == worker[w].item
           snap == worker[w].snap
           ev(f) == Event(o, snap, Following(o, snap, f), <<"fill", f>>)
<1>1. o \in Orders /\ snap \in OrderRow /\ "mark" \in WorkerPc
  BY DEF TypeOK, WorkersTyped, WorkerPc, WorkerFill
<1>2. \A f \in responses[w][o].fills : f \in [quantity : Nat, price : Nat]
  BY <1>1 DEF TypeOK, BrokersTyped
<1>3. CASE WorkerSkips(w, "mark")
  BY <1>1, <1>3, WorkerSkipsTyped DEF TypeOK
<1>4. ASSUME NEW f \in responses[w][o].fills,
             FillTransition(ev(f), snap, f), WorkerProceeds(w, "mark")
      PROVE  TablesTyped' /\ WorkersTyped'
  <2>1. Following(o, snap, f) \in OMSState
    BY StatesTyped DEF Following
  <2>2. ev(f).order \in Orders /\ ev(f).state \in OMSState /\ ev(f).sequence \in Nat
    BY <1>1, <2>1, EventTyped
  <2>3. TablesTyped'
    BY <1>2, <1>4, <2>2, FillTransitionTyped DEF TypeOK
  <2>. QED BY <1>1, <1>4, <2>3, WorkerProceedsTyped DEF TypeOK
<1>5. CASE UNCHANGED tables /\ WorkerProceeds(w, "mark")
  BY <1>1, <1>5, TablesUnchanged, WorkerProceedsTyped DEF TypeOK
<1>6. CASE UNCHANGED tables /\ WorkerLeaves(w)
  BY <1>6, TablesUnchanged, WorkerLeavesTyped DEF TypeOK
<1>. QED BY <1>3, <1>4, <1>5, <1>6 DEF WorkerFill

LEMMA WorkerStepTyped ==
  ASSUME TypeOK, NEW w \in Workers, WorkerStep(w) \/ WorkerRestart(w)
  PROVE  TypeOK'
<1>a. ASSUME TablesTyped', WorkersTyped', UNCHANGED <<client, responses, restarts>>
      PROVE  TypeOK'
  BY <1>a DEF TypeOK, ClientsTyped, BrokersTyped
<1>1. CASE WorkerScan(w)
  <2>1. pending_outbox \subseteq Orders
    BY DEF pending_outbox
  <2>2. WorkersTyped'
    BY <1>1, <2>1 DEF TypeOK, WorkersTyped, WorkerPc, WorkerScan
  <2>3. TablesTyped'
    BY <1>1, TablesUnchanged DEF TypeOK, WorkerScan
  <2>. QED BY <1>1, <1>a, <2>2, <2>3 DEF WorkerScan
<1>2. CASE WorkerSend(w)
  <2>1. PICK o \in worker[w].batch :
          /\ BrokerSubmit(w, o)
          /\ worker' = [worker EXCEPT ![w] =
               [@ EXCEPT !.pc = "submitted", !.item = o, !.snap = orders[o]]]
    BY <1>2 DEF WorkerSend
  <2>2. o \in Orders /\ orders[o] \in OrderRow
    BY <2>1 DEF TypeOK, WorkersTyped, TablesTyped
  <2>3. WorkersTyped'
    BY <2>1, <2>2 DEF TypeOK, WorkersTyped, WorkerPc
  <2>4. BrokersTyped'
    BY <1>2, <2>1, <2>2, BrokerSubmitTyped DEF TypeOK, WorkerSend
  <2>5. TablesTyped' /\ ClientsTyped'
    BY <1>2, TablesUnchanged DEF TypeOK, ClientsTyped, WorkerSend
  <2>. QED BY <2>3, <2>4, <2>5 DEF TypeOK
<1>3. CASE WorkerSubmitted(w)
  <2>1. worker[w].item \in Orders /\ "answer" \in WorkerPc
    BY <1>3 DEF TypeOK, WorkersTyped, WorkerPc, WorkerSubmitted
  <2>2. TablesTyped' /\ WorkersTyped'
    <3>1. CASE WorkerTransition(w, "Submitted", FALSE, "answer")
      BY <2>1, <3>1, StatesTyped, WorkerTransitionTyped
    <3>2. CASE WorkerSkips(w, "answer")
      BY <2>1, <3>2, WorkerSkipsTyped DEF TypeOK
    <3>. QED BY <1>3, <3>1, <3>2 DEF WorkerSubmitted
  <2>. QED BY <1>3, <1>a, <2>2 DEF WorkerSubmitted
<1>4. CASE WorkerReject(w)
  <2>1. worker[w].item \in Orders /\ "mark" \in WorkerPc
    BY <1>4 DEF TypeOK, WorkersTyped, WorkerPc, WorkerReject
  <2>2. TablesTyped' /\ WorkersTyped'
    <3>1. CASE WorkerTransition(w, "Rejected", TRUE, "mark")
      BY <2>1, <3>1, StatesTyped, WorkerTransitionTyped
    <3>2. CASE WorkerSkips(w, "mark")
      BY <2>1, <3>2, WorkerSkipsTyped DEF TypeOK
    <3>. QED BY <1>4, <3>1, <3>2 DEF WorkerReject
  <2>. QED BY <1>4, <1>a, <2>2 DEF WorkerReject
<1>5. CASE WorkerAcknowledge(w)
  <2>1. worker[w].item \in Orders /\ "fill" \in WorkerPc
    BY <1>5 DEF TypeOK, WorkersTyped, WorkerPc, WorkerAcknowledge
  <2>2. TablesTyped' /\ WorkersTyped'
    <3>1. CASE WorkerTransition(w, "Acknowledged", FALSE, "fill")
      BY <2>1, <3>1, StatesTyped, WorkerTransitionTyped
    <3>2. CASE WorkerSkips(w, "fill")
      BY <2>1, <3>2, WorkerSkipsTyped DEF TypeOK
    <3>. QED BY <1>5, <3>1, <3>2 DEF WorkerAcknowledge
  <2>. QED BY <1>5, <1>a, <2>2 DEF WorkerAcknowledge
<1>6. CASE WorkerFill(w)
  BY <1>6, <1>a, WorkerFillTyped DEF WorkerFill
<1>7. CASE WorkerMark(w)
  <2>1. worker[w].item \in Orders
    BY <1>7 DEF TypeOK, WorkersTyped, WorkerPc, WorkerMark
  <2>2. TablesTyped'
    BY <1>7, <2>1 DEF TypeOK, TablesTyped, OutboxStatus, WorkerMark
  <2>3. IdleWorker \in WorkerRow /\ IdleWorker.pc = "idle"
    BY RowsTyped DEF IdleWorker, WorkerRow, WorkerPc
  <2>4. worker[w].batch \ {worker[w].item} \in SUBSET Orders
    BY DEF TypeOK, WorkersTyped
  <2>5. WorkersTyped'
    BY <1>7, <2>3, <2>4 DEF TypeOK, WorkersTyped, WorkerRow, WorkerPc, WorkerMark
  <2>. QED BY <1>7, <1>a, <2>2, <2>5 DEF WorkerMark
<1>8. CASE WorkerRestart(w)
  <2>1. WorkersTyped'
    BY <1>8, WorkerLeavesTyped DEF TypeOK, WorkerRestart
  <2>2. TablesTyped' /\ ClientsTyped'
    BY <1>8, TablesUnchanged DEF TypeOK, ClientsTyped, WorkerRestart
  <2>3. BrokersTyped'
    <3>1. [o \in Orders |-> NoResponse] \in [Orders -> BrokerAnswer]
      BY DEF NoResponse, BrokerAnswer
    <3>2. restarts[w] + 1 \in 0..MaxRestarts
      BY <1>8, OrdersAssumption DEF TypeOK, BrokersTyped, WorkerRestart
    <3>. QED BY <1>8, <3>1, <3>2 DEF TypeOK, BrokersTyped, BrokerAnswer, WorkerRestart
  <2>. QED BY <2>1, <2>2, <2>3 DEF TypeOK
<1>. QED BY <1>1, <1>2, <1>3, <1>4, <1>5, <1>6, <1>7, <1>8 DEF WorkerStep

LEMMA OperatorTransitionTyped ==
  ASSUME TypeOK, NEW o \in Orders, NEW state \in OMSState, NEW business, NEW release,
         OperatorTransition(o, state, business, release)
  PROVE  TypeOK'
<1> DEFINE ev == Event(o, orders[o], state, business)
<1>1. ev.order \in Orders /\ ev.state \in OMSState /\ ev.sequence \in Nat
  BY EventTyped DEF TypeOK, TablesTyped
<1>2. TablesTyped'
  BY <1>1, TransitionTyped DEF TypeOK, OperatorTransition
<1>. QED BY <1>2 DEF TypeOK, ClientsTyped, WorkersTyped, BrokersTyped, OperatorTransition

LEMMA OperatorStepTyped ==
  ASSUME TypeOK, NEW o \in Orders, OperatorStep(o)
  PROVE  TypeOK'
<1>1. CASE request_cancel(o)
  BY <1>1, StatesTyped, OperatorTransitionTyped DEF request_cancel
<1>2. CASE request_replace(o)
  BY <1>2, StatesTyped, OperatorTransitionTyped DEF request_replace
<1>3. CASE apply_cancel_result(o)
  <2>1. OperatorTransition(o, "Cancelled", <<"cancel_result", "cancelled">>, TRUE)
        \/ OperatorTransition(o, "Unknown", <<"cancel_result", "unknown_order">>, FALSE)
    BY <1>3 DEF apply_cancel_result
  <2>. QED BY <2>1, StatesTyped, OperatorTransitionTyped
<1>4. CASE apply_replace_result(o)
  <2>1. OperatorTransition(o, "Replaced", <<"replace_result", "replaced">>, FALSE)
        \/ OperatorTransition(o, "Unknown", <<"replace_result", "unknown_order">>, FALSE)
    BY <1>4 DEF apply_replace_result
  <2>. QED BY <2>1, StatesTyped, OperatorTransitionTyped
<1>5. ASSUME NEW state \in Recoveries, recover_unknown(o, state) PROVE TypeOK'
  <2>1. state \in OMSState
    BY OrdersAssumption DEF OMSState
  <2>. QED BY <1>5, <2>1, OperatorTransitionTyped DEF recover_unknown
<1>. QED BY <1>1, <1>2, <1>3, <1>4, <1>5 DEF OperatorStep

---------------------------------------------------------------------------
(* What a step may write.  Every action appends to the journal in one of   *)
(* five ways, or leaves the tables alone; the invariants below only look   *)
(* at these.                                                               *)

\* Only a transition that closes the order releases its reservation; one that closes
\* it and does not is the verdict of risk or a manual recovery.
Releases(state, business, sequence, release) ==
  /\ release \in BOOLEAN
  /\ release => state \in TERMINAL_STATES
  /\ state \in TERMINAL_STATES /\ ~release =>
       state = "RiskRejected" \/ business = <<"manual_recovery", sequence>>

\* An ordinary transition: it neither queues the order nor fills it.
Ordinary(ev, snap, release) ==
  /\ ev.business # <<"step", "submit_pending">>
  /\ Releases(ev.state, ev.business, ev.sequence, release)
  /\ ev.state \in OMSState \ {"Created", "SubmitPending", "Filled"}
  /\ Transition(ev, snap, release)

Created(o) ==
  /\ orders[o].state = "Absent"
  /\ orders' = [orders EXCEPT ![o] =
       [state |-> "Created", filled |-> 0, version |-> 1, sequence |-> 1]]
  /\ events' = events \cup {Event(o, Absent, "Created", <<"step", "created">>)}
  /\ UNCHANGED <<fills, outbox, reservations>>

Delivered(o) ==
  /\ outbox[o] # "none"
  /\ outbox' = [outbox EXCEPT ![o] = "delivered"]
  /\ UNCHANGED <<orders, events, fills, reservations>>

Appends(o) ==
  \/ Created(o)
  \/ \E ev, snap, release : ev.order = o /\ Ordinary(ev, snap, release)
  \/ \E snap \in OrderRow :
       QueueTransition(Event(o, snap, "SubmitPending", <<"step", "submit_pending">>), snap)
  \/ \E snap \in OrderRow, f \in [quantity : Nat, price : Nat] :
       /\ snap.version = orders[o].version => snap = orders[o]
       /\ FillTransition(Event(o, snap, Following(o, snap, f), <<"fill", f>>), snap, f)
  \/ Delivered(o)

TablesStep == UNCHANGED tables \/ \E o \in Orders : Appends(o)

\* Workers only handle orders that have an outbox row.
WorkersHandleQueued ==
  \A w \in Workers :
    /\ \A o \in worker[w].batch : outbox[o] # "none"
    /\ worker[w].pc \notin {"idle", "send"} => outbox[worker[w].item] # "none"

\* An order has its outbox row exactly from SubmitPending on.
QueuedStates ==
  \A o \in Orders :
    outbox[o] = "none" <=>
      orders[o].state \in {"Absent", "Created", "RiskPending", "RiskApproved", "RiskRejected"}

\* An order is Filled exactly when nothing of it remains, and an absent one has
\* no fills.
FilledWithinQuantity ==
  \A o \in Orders :
    /\ orders[o].state = "Absent" => orders[o].filled = 0
    /\ orders[o].filled <= Quantity[o]
    /\ (orders[o].state = "Filled") <=> (orders[o].filled = Quantity[o])

Inductive ==
  /\ TypeOK
  /\ JournalMatchesOrder
  /\ QueuedTogether
  /\ WorkersHandleQueued
  /\ QueuedStates
  /\ SnapshotsFaithful
  /\ FilledWithinQuantity

---------------------------------------------------------------------------
(* Every step of the OMS is a TablesStep.                                 *)

LEMMA TransitionAppends ==
  ASSUME NEW o \in Orders, NEW snap, NEW state, NEW business, NEW release,
         business # <<"step", "submit_pending">>,
         state \in OMSState \ {"Created", "SubmitPending", "Filled"},
         Releases(state, business, snap.sequence + 1, release),
         Transition(Event(o, snap, state, business), snap, release)
  PROVE  Appends(o)
<1>1. Ordinary(Event(o, snap, state, business), snap, release)
  BY DEF Ordinary, Event
<1>2. Event(o, snap, state, business).order = o
  BY DEF Event
<1>. QED BY <1>1, <1>2 DEF Appends

LEMMA ClientStepAppends ==
  ASSUME TypeOK, NEW c \in Clients, ClientStep(c) \/ ClientCrash(c)
  PROVE  TablesStep
<1>1. CASE \E o \in Orders : QueueLookup(c, o)
  BY <1>1 DEF QueueLookup, TablesStep
<1>2. CASE QueueCreate(c)
  <2>1. client[c].order \in Orders
    BY <1>2 DEF TypeOK, ClientsTyped, QueueCreate
  <2>2. Created(client[c].order) \/ UNCHANGED tables
    BY <1>2 DEF QueueCreate, Created
  <2>. QED BY <2>1, <2>2 DEF TablesStep, Appends
<1>3. ASSUME NEW state \in {"RiskPending", "RiskApproved", "RiskRejected"},
             NEW Returns \in BOOLEAN,
             client[c].order \in Orders,
             ClientTransition(c, state, Returns)
      PROVE  TablesStep
  <2>1. state \in OMSState \ {"Created", "SubmitPending", "Filled"}
    BY DEF OMSState
  <2>2. <<"state", state>> # <<"step", "submit_pending">>
    OBVIOUS
  <2>3. Releases(state, <<"state", state>>, client[c].snap.sequence + 1, FALSE)
    BY DEF Releases, TERMINAL_STATES
  <2>. QED BY <1>3, <2>1, <2>2, <2>3, TransitionAppends
       DEF ClientTransition, Redelivered, Refused, TablesStep
<1>4. CASE QueueEvaluate(c)
  <2>1. client[c].order \in Orders
    BY <1>4 DEF TypeOK, ClientsTyped, QueueEvaluate
  <2>2. ClientTransition(c, "RiskPending", TRUE)
    BY <1>4 DEF QueueEvaluate, ClientTransition
  <2>. QED BY <1>3, <2>1, <2>2
<1>5. CASE QueueReadReserved(c)
  BY <1>5 DEF QueueReadReserved, TablesStep
<1>6. CASE QueueDecide(c)
  <2>1. client[c].order \in Orders /\ client[c].verdict \in {"RiskApproved", "RiskRejected"}
    BY <1>6 DEF TypeOK, ClientsTyped, QueueDecide
  <2>2. ClientTransition(c, client[c].verdict, TRUE)
    BY <1>6 DEF QueueDecide, ClientTransition
  <2>. QED BY <1>3, <2>1, <2>2
<1>7. CASE QueueSubmit(c)
  <2> DEFINE snap == client[c].snap
             ev == Event(client[c].order, snap, "SubmitPending", <<"step", "submit_pending">>)
  <2>1. client[c].order \in Orders /\ snap \in OrderRow
    BY <1>7 DEF TypeOK, ClientsTyped, QueueSubmit
  <2>2. QueueTransition(ev, snap) \/ UNCHANGED tables
    BY <1>7 DEF QueueSubmit, Redelivered
  <2>. QED BY <2>1, <2>2 DEF TablesStep, Appends
<1>8. CASE ClientCrash(c)
  BY <1>8 DEF ClientCrash, TablesStep
<1>. QED BY <1>1, <1>2, <1>4, <1>5, <1>6, <1>7, <1>8 DEF ClientStep

LEMMA WorkerStepAppends ==
  ASSUME TypeOK, SnapshotsFaithful, WorkersHandleQueued,
         NEW w \in Workers, WorkerStep(w) \/ WorkerRestart(w)
  PROVE  TablesStep
<1>1. CASE WorkerScan(w) \/ WorkerSend(w) \/ WorkerRestart(w)
  BY <1>1 DEF WorkerScan, WorkerSend, WorkerRestart, TablesStep
<1>2. ASSUME NEW state \in {"Submitted", "Rejected", "Acknowledged"},
             NEW release, NEW pc,
             worker[w].item \in Orders,
             release \in BOOLEAN, release <=> state = "Rejected",
             WorkerTransition(w, state, release, pc) \/ WorkerSkips(w, pc)
      PROVE  TablesStep
  <2>1. state \in OMSState \ {"Created", "SubmitPending", "Filled"}
    BY DEF OMSState
  <2>2. <<"state", state>> # <<"step", "submit_pending">>
    OBVIOUS
  <2>3. Releases(state, <<"state", state>>, worker[w].snap.sequence + 1, release)
    BY <1>2 DEF Releases, TERMINAL_STATES
  <2>. QED BY <1>2, <2>1, <2>2, <2>3, TransitionAppends
       DEF WorkerTransition, WorkerSkips, Redelivered, Refused, TablesStep
<1>3. CASE WorkerSubmitted(w)
  BY <1>2, <1>3 DEF TypeOK, WorkersTyped, WorkerSubmitted
<1>4. CASE WorkerReject(w)
  BY <1>2, <1>4 DEF TypeOK, WorkersTyped, WorkerReject
<1>5. CASE WorkerAcknowledge(w)
  BY <1>2, <1>5 DEF TypeOK, WorkersTyped, WorkerAcknowledge
<1>6. CASE WorkerFill(w)
  <2> DEFINE o == worker[w].item
             snap == worker[w].snap
  <2>1. o \in Orders /\ snap \in OrderRow
    BY <1>6 DEF TypeOK, WorkersTyped, WorkerFill
  <2>2. \A f \in responses[w][o].fills : f \in [quantity : Nat, price : Nat]
    BY <2>1 DEF TypeOK, BrokersTyped
  <2>3. snap.version = orders[o].version => snap = orders[o]
    BY <1>6 DEF SnapshotsFaithful, ReadFaithfully, WorkerFill
  <2>4. CASE UNCHANGED tables
    BY <2>4 DEF TablesStep
  <2>5. CASE \E f \in responses[w][o].fills :
               FillTransition(Event(o, snap, Following(o, snap, f), <<"fill", f>>), snap, f)
    <3>1. PICK f \in [quantity : Nat, price : Nat] :
               FillTransition(Event(o, snap, Following(o, snap, f), <<"fill", f>>), snap, f)
      BY <2>2, <2>5
    <3>2. Appends(o)
      BY <2>1, <2>3, <3>1 DEF Appends
    <3>. QED BY <2>1, <3>2 DEF TablesStep
  <2>. QED BY <1>6, <2>4, <2>5 DEF WorkerFill, WorkerSkips
<1>7. CASE WorkerMark(w)
  <2>1. worker[w].item \in Orders
    BY <1>7 DEF TypeOK, WorkersTyped, WorkerMark
  <2>2. Delivered(worker[w].item)
    BY <1>7 DEF WorkersHandleQueued, WorkerMark, Delivered
  <2>. QED BY <2>1, <2>2 DEF TablesStep, Appends
<1>. QED BY <1>1, <1>3, <1>4, <1>5, <1>6, <1>7 DEF WorkerStep

LEMMA OperatorStepAppends ==
  ASSUME TypeOK, NEW o \in Orders, OperatorStep(o)
  PROVE  TablesStep
<1>1. ASSUME NEW state \in OMSState \ {"Created", "SubmitPending", "Filled"}, NEW business, NEW release,
             business # <<"step", "submit_pending">>,
             Releases(state, business, orders[o].sequence + 1, release),
             OperatorTransition(o, state, business, release)
      PROVE  TablesStep
  BY <1>1, TransitionAppends DEF OperatorTransition, TablesStep
<1>2. CASE request_cancel(o)
  BY <1>1, <1>2 DEF request_cancel, OMSState, Releases, TERMINAL_STATES
<1>3. CASE request_replace(o)
  BY <1>1, <1>3 DEF request_replace, OMSState, Releases, TERMINAL_STATES
<1>4. CASE apply_cancel_result(o)
  <2>1. OperatorTransition(o, "Cancelled", <<"cancel_result", "cancelled">>, TRUE)
        \/ OperatorTransition(o, "Unknown", <<"cancel_result", "unknown_order">>, FALSE)
    BY <1>4 DEF apply_cancel_result
  <2>. QED BY <1>1, <2>1 DEF OMSState, Releases, TERMINAL_STATES
<1>5. CASE apply_replace_result(o)
  <2>1. OperatorTransition(o, "Replaced", <<"replace_result", "replaced">>, FALSE)
        \/ OperatorTransition(o, "Unknown", <<"replace_result", "unknown_order">>, FALSE)
    BY <1>5 DEF apply_replace_result
  <2>. QED BY <1>1, <2>1 DEF OMSState, Releases, TERMINAL_STATES
<1>6. ASSUME NEW state \in Recoveries, recover_unknown(o, state) PROVE TablesStep
  <2>1. state \in OMSState \ {"Created", "SubmitPending", "Filled"}
    BY OrdersAssumption DEF OMSState
  <2>2. <<"manual_recovery", orders[o].sequence + 1>> # <<"step", "submit_pending">>
    OBVIOUS
  <2>3. Releases(state, <<"manual_recovery", orders[o].sequence + 1>>,
                 orders[o].sequence + 1, FALSE)
    BY DEF Releases
  <2>. QED BY <1>1, <1>6, <2>1, <2>2, <2>3 DEF recover_unknown
<1>. QED BY <1>2, <1>3, <1>4, <1>5, <1>6 DEF OperatorStep

LEMMA NextAppends ==
  ASSUME Inductive, [Next]_vars
  PROVE  TablesStep
<1>1. CASE UNCHANGED vars
  BY <1>1 DEF vars, tables, TablesStep
<1>2. CASE Next
  BY <1>2, ClientStepAppends, WorkerStepAppends, OperatorStepAppends DEF Next, Inductive
<1>. QED BY <1>1, <1>2

---------------------------------------------------------------------------
(* The journal.                                                           *)

\* An order without events is absent, and every other row has a sequence.
LEMMA AbsentHasNoEvents ==
  ASSUME TablesTyped, JournalMatchesOrder, NEW o \in Orders
  PROVE  /\ orders[o].sequence \in Nat /\ orders[o].version = orders[o].sequence
         /\ orders[o].state = "Absent" => orders[o].sequence = 0
         /\ \A e \in events : e.order = o => e.sequence \in 1..orders[o].sequence
<1>1. orders[o].sequence \in Nat /\ orders[o].version = orders[o].sequence
  BY DEF TablesTyped, OrderRow, JournalMatchesOrder
<1>2. {e.sequence : e \in {e \in events : e.order = o}} = 1..orders[o].sequence
  BY DEF JournalMatchesOrder
<1>3. ASSUME orders[o].state = "Absent", orders[o].sequence # 0 PROVE FALSE
  <2>1. orders[o].sequence \in 1..orders[o].sequence
    BY <1>1, <1>3
  <2>2. PICK e \in events : e.order = o /\ e.sequence = orders[o].sequence
    BY <1>2, <2>1
  <2>3. e.state = "Absent" /\ e.state \in OMSState
    BY <1>3, <2>2 DEF JournalMatchesOrder, TablesTyped
  <2>. QED BY <2>3 DEF OMSState
<1>. QED BY <1>1, <1>2, <1>3

\* Appending the next event of an order, allowed after its state, keeps the
\* journal equal to the row.
LEMMA JournalGrows ==
  ASSUME TablesTyped, JournalMatchesOrder, NEW o \in Orders, NEW ev, NEW filled,
         ev.order = o, ev.sequence = orders[o].sequence + 1,
         orders[o].sequence # 0 => validate_transition(orders[o].state, ev.state),
         events' = events \cup {ev},
         orders' = [orders EXCEPT ![o] = Updated(o, ev.state, filled)]
  PROVE  JournalMatchesOrder'
<1> DEFINE n == orders[o].sequence
           old == {e \in events : e.order = o}
<1>1. n \in Nat /\ orders[o].version = n /\ \A e \in old : e.sequence \in 1..n
  BY AbsentHasNoEvents
<1>2. orders'[o].version = n + 1 /\ orders'[o].sequence = n + 1 /\ orders'[o].state = ev.state
  BY <1>1 DEF TablesTyped, Updated
<1>3. {e \in events' : e.order = o} = old \cup {ev}
  OBVIOUS
<1>4. {e.sequence : e \in old} = 1..n
  BY DEF JournalMatchesOrder
<1>5. {e.sequence : e \in {e \in events' : e.order = o}} = 1..orders'[o].sequence
  <2>1. {e.sequence : e \in old \cup {ev}} = (1..n) \cup {n + 1}
    BY <1>4
  <2>2. (1..n) \cup {n + 1} = 1..(n + 1)
    BY <1>1
  <2>. QED BY <1>2, <1>3, <2>1, <2>2
<1>6. \A e \in old \cup {ev} : e.sequence = n + 1 => e.state = ev.state
  BY <1>1
<1>7. ASSUME NEW e \in old \cup {ev}, NEW f \in old \cup {ev}
      PROVE  /\ e.sequence = f.sequence => e = f
             /\ f.sequence = e.sequence + 1 => validate_transition(e.state, f.state)
  <2>1. CASE e \in old /\ f \in old
    BY <2>1 DEF JournalMatchesOrder
  <2>2. CASE e = ev /\ f \in old
    BY <1>1, <2>2
  <2>3. CASE e \in old /\ f = ev
    <3>1. e.sequence # f.sequence
      BY <1>1, <2>3
    <3>2. ASSUME f.sequence = e.sequence + 1 PROVE validate_transition(e.state, f.state)
      <4>1. e.sequence = n /\ n # 0
        BY <1>1, <2>3, <3>2
      <4>2. e.state = orders[o].state
        BY <2>3, <4>1 DEF JournalMatchesOrder
      <4>. QED BY <2>3, <4>1, <4>2
    <3>. QED BY <3>1, <3>2
  <2>4. CASE e = ev /\ f = ev
    BY <1>1, <2>4
  <2>. QED BY <2>1, <2>2, <2>3, <2>4
<1>8. ASSUME NEW p \in Orders, p # o
      PROVE  /\ orders'[p] = orders[p]
             /\ {e \in events' : e.order = p} = {e \in events : e.order = p}
  BY <1>8 DEF TablesTyped
<1>. QED
  <2> SUFFICES ASSUME NEW p \in Orders
               PROVE  LET mine == {e \in events' : e.order = p} IN
                      /\ orders'[p].version = orders'[p].sequence
                      /\ {e.sequence : e \in mine} = 1..orders'[p].sequence
                      /\ \A e \in mine : e.sequence = orders'[p].sequence => e.state = orders'[p].state
                      /\ \A e, f \in mine :
                           /\ e.sequence = f.sequence => e = f
                           /\ f.sequence = e.sequence + 1 => validate_transition(e.state, f.state)
    BY DEF JournalMatchesOrder
  <2>1. CASE p = o
    BY <1>2, <1>3, <1>5, <1>6, <1>7, <2>1
  <2>2. CASE p # o
    BY <1>8, <2>2 DEF JournalMatchesOrder
  <2>. QED BY <2>1, <2>2

LEMMA JournalStep ==
  ASSUME TypeOK, JournalMatchesOrder, TablesStep
  PROVE  JournalMatchesOrder'
<1>t. TablesTyped
  BY DEF TypeOK
<1>1. CASE UNCHANGED <<orders, events>>
  BY <1>1 DEF JournalMatchesOrder
<1>2. ASSUME NEW o \in Orders, Created(o) PROVE JournalMatchesOrder'
  <2> DEFINE ev == Event(o, Absent, "Created", <<"step", "created">>)
  <2>1. orders[o].sequence = 0 /\ orders[o].version = 0
    BY <1>t, <1>2, AbsentHasNoEvents DEF Created
  <2>2. orders' = [orders EXCEPT ![o] = Updated(o, ev.state, 0)]
    BY <1>2, <2>1 DEF Created, Updated, Event
  <2>3. ev.order = o /\ ev.sequence = orders[o].sequence + 1
    BY <2>1 DEF Event, Absent
  <2>4. events' = events \cup {ev}
    BY <1>2 DEF Created
  <2>. QED BY <1>t, <2>1, <2>2, <2>3, <2>4, JournalGrows
<1>3. ASSUME NEW o \in Orders, NEW ev, NEW snap, NEW filled, ev.order = o,
             Acceptable(ev, snap),
             events' = events \cup {ev},
             orders' = [orders EXCEPT ![o] = Updated(o, ev.state, filled)]
      PROVE  JournalMatchesOrder'
  <2>1. ev.sequence = orders[o].sequence + 1 /\ validate_transition(orders[o].state, ev.state)
    BY <1>3 DEF Acceptable
  <2>. QED BY <1>t, <1>3, <2>1, JournalGrows
<1>4. ASSUME NEW o \in Orders, NEW ev, NEW snap, NEW release, ev.order = o,
             Ordinary(ev, snap, release)
      PROVE  JournalMatchesOrder'
  BY <1>3, <1>4 DEF Ordinary, Transition
<1>5. ASSUME NEW o \in Orders, NEW ev, NEW snap, ev.order = o, QueueTransition(ev, snap)
      PROVE  JournalMatchesOrder'
  BY <1>3, <1>5 DEF QueueTransition, QueueAcceptable
<1>6. ASSUME NEW o \in Orders, NEW ev, NEW snap, NEW f, ev.order = o, FillTransition(ev, snap, f)
      PROVE  JournalMatchesOrder'
  BY <1>3, <1>6 DEF FillTransition, FillAcceptable
<1>7. ASSUME NEW o \in Orders, Appends(o) PROVE JournalMatchesOrder'
  <2>1. \A snap, s, b : Event(o, snap, s, b).order = o
    BY DEF Event
  <2>. QED BY <1>1, <1>2, <1>4, <1>5, <1>6, <1>7, <2>1 DEF Appends, Delivered
<1>. QED BY <1>1, <1>7 DEF TablesStep, tables

---------------------------------------------------------------------------
(* Outbox row, reservation row and SubmitPending event.                   *)

Queued(o) == Requested(o, <<"step", "submit_pending">>)

\* What a transition that does not queue leaves as it is.
LEMMA OrdinaryKeepsQueued ==
  ASSUME TablesTyped, NEW ev, NEW snap, NEW release, Ordinary(ev, snap, release)
  PROVE  /\ \A o \in Orders : Queued(o)' <=> Queued(o)
         /\ \A o \in Orders : reservations'[o].status = "none" <=> reservations[o].status = "none"
         /\ outbox' = outbox
  BY DEF TablesTyped, Queued, Requested, Ordinary, Transition, Released

LEMMA FillKeepsQueued ==
  ASSUME TablesTyped, NEW ev, NEW snap, NEW f, ev.business # <<"step", "submit_pending">>,
         FillTransition(ev, snap, f)
  PROVE  /\ \A o \in Orders : Queued(o)' <=> Queued(o)
         /\ \A o \in Orders : reservations'[o].status = "none" <=> reservations[o].status = "none"
         /\ outbox' = outbox
<1>1. outbox' = outbox /\ \A o \in Orders : Queued(o)' <=> Queued(o)
  BY DEF Queued, Requested, FillTransition
<1>2. \A filled : Reduced(ev.order, filled).status # "none"
  BY DEF Reduced
<1>3. \A o \in Orders : reservations'[o].status = "none" <=> reservations[o].status = "none"
  BY <1>2 DEF TablesTyped, FillTransition
<1>. QED BY <1>1, <1>3

QueuedTables ==
  \A o \in Orders : /\ Queued(o) <=> outbox[o] # "none"
                    /\ Queued(o) <=> reservations[o].status # "none"

LEMMA QueuedStep ==
  ASSUME TypeOK, QueuedTables, TablesStep
  PROVE  QueuedTables' /\ \A o \in Orders : outbox[o] # "none" => outbox'[o] # "none"
<1>t. TablesTyped
  BY DEF TypeOK
<1>1. CASE UNCHANGED tables
  BY <1>1 DEF QueuedTables, Queued, Requested, tables
<1>2. ASSUME NEW o \in Orders, Created(o)
      PROVE  QueuedTables' /\ \A p \in Orders : outbox[p] # "none" => outbox'[p] # "none"
  <2>1. Event(o, Absent, "Created", <<"step", "created">>).business # <<"step", "submit_pending">>
    BY DEF Event
  <2>2. \A p \in Orders : Queued(p)' <=> Queued(p)
    BY <1>2, <2>1 DEF Created, Queued, Requested
  <2>. QED BY <1>2, <2>2 DEF Created, QueuedTables
<1>3. ASSUME NEW ev, NEW snap, NEW release, Ordinary(ev, snap, release)
      PROVE  QueuedTables' /\ \A p \in Orders : outbox[p] # "none" => outbox'[p] # "none"
  BY <1>t, <1>3, OrdinaryKeepsQueued DEF QueuedTables
<1>4. ASSUME NEW o \in Orders, NEW snap,
             QueueTransition(Event(o, snap, "SubmitPending", <<"step", "submit_pending">>), snap)
      PROVE  QueuedTables' /\ \A p \in Orders : outbox[p] # "none" => outbox'[p] # "none"
  <2> DEFINE ev == Event(o, snap, "SubmitPending", <<"step", "submit_pending">>)
  <2>1. ev.order = o /\ ev.business = <<"step", "submit_pending">>
    BY DEF Event
  <2>2. \A p \in Orders : Queued(p)' <=> (Queued(p) \/ p = o)
    BY <1>4, <2>1 DEF QueueTransition, Queued, Requested
  <2>3. \A p \in Orders : outbox'[p] = IF p = o THEN "pending" ELSE outbox[p]
    BY <1>t, <1>4, <2>1 DEF QueueTransition, TablesTyped
  <2>4. \A p \in Orders : reservations'[p].status =
                            IF p = o THEN "active" ELSE reservations[p].status
    BY <1>t, <1>4, <2>1 DEF QueueTransition, TablesTyped
  <2>. QED BY <2>2, <2>3, <2>4 DEF QueuedTables
<1>5. ASSUME NEW o \in Orders, NEW snap, NEW s, NEW f,
             FillTransition(Event(o, snap, s, <<"fill", f>>), snap, f)
      PROVE  QueuedTables' /\ \A p \in Orders : outbox[p] # "none" => outbox'[p] # "none"
  <2>1. Event(o, snap, s, <<"fill", f>>).business # <<"step", "submit_pending">>
    BY DEF Event
  <2>. QED BY <1>t, <1>5, <2>1, FillKeepsQueued DEF QueuedTables
<1>6. ASSUME NEW o \in Orders, Delivered(o)
      PROVE  QueuedTables' /\ \A p \in Orders : outbox[p] # "none" => outbox'[p] # "none"
  <2>1. \A p \in Orders : Queued(p)' <=> Queued(p)
    BY <1>6 DEF Delivered, Queued, Requested
  <2>. QED BY <1>t, <1>6, <2>1 DEF Delivered, QueuedTables, TablesTyped
<1>. QED BY <1>1, <1>2, <1>3, <1>4, <1>5, <1>6 DEF TablesStep, Appends

LEMMA QueuedTogetherParts ==
  ASSUME QueuedTogether
  PROVE  /\ QueuedTables
         /\ \A o \in Orders, w \in Workers : responses[w][o] # NoResponse => outbox[o] # "none"
<1>1. QueuedTables
  BY DEF QueuedTogether, QueuedTables, Queued, Requested
<1>2. ASSUME NEW o \in Orders, NEW w \in Workers, responses[w][o] # NoResponse
      PROVE  outbox[o] # "none"
  <2>1. Queued(o)
    BY <1>2 DEF QueuedTogether, Queued, Requested, Knows
  <2>. QED BY <1>1, <2>1 DEF QueuedTables, Queued, Requested
<1>. QED BY <1>1, <1>2

\* From the queueing transition on, and only then, an order is past vetting.
Vetting == {"Absent", "Created", "RiskPending", "RiskApproved", "RiskRejected"}

LEMMA VettingMoves ==
  ASSUME NEW s, NEW t \in OMSState \ {"SubmitPending"}, validate_transition(s, t)
  PROVE  s \in Vetting <=> t \in Vetting
  BY DEF validate_transition, ALLOWED_TRANSITIONS, Vetting

LEMMA QueuedStatesStep ==
  ASSUME TypeOK, QueuedStates, TablesStep
  PROVE  QueuedStates'
<1>t. TablesTyped
  BY DEF TypeOK
<1>1. CASE UNCHANGED tables
  BY <1>1 DEF QueuedStates, tables
<1>2. ASSUME NEW o \in Orders, Created(o) PROVE QueuedStates'
  BY <1>t, <1>2 DEF Created, QueuedStates, TablesTyped
<1>3. ASSUME NEW ev, NEW snap, NEW release, ev.order \in Orders, Ordinary(ev, snap, release)
      PROVE  QueuedStates'
  <2>1. orders[ev.order].state \in Vetting <=> ev.state \in Vetting
    BY <1>3, VettingMoves DEF Ordinary, Transition, Acceptable
  <2>2. \A p \in Orders : orders'[p].state = IF p = ev.order THEN ev.state ELSE orders[p].state
    BY <1>t, <1>3 DEF Ordinary, Transition, Updated, TablesTyped
  <2>. QED BY <1>3, <2>1, <2>2 DEF Ordinary, Transition, QueuedStates, Vetting
<1>4. ASSUME NEW o \in Orders, NEW snap,
             QueueTransition(Event(o, snap, "SubmitPending", <<"step", "submit_pending">>), snap)
      PROVE  QueuedStates'
  <2> DEFINE ev == Event(o, snap, "SubmitPending", <<"step", "submit_pending">>)
  <2>1. ev.order = o /\ ev.state = "SubmitPending"
    BY DEF Event
  <2>2. \A p \in Orders : outbox'[p] = IF p = o THEN "pending" ELSE outbox[p]
    BY <1>t, <1>4, <2>1 DEF QueueTransition, TablesTyped
  <2>3. orders' = [orders EXCEPT ![o] = Updated(o, "SubmitPending", orders[o].filled)]
    BY <1>4, <2>1 DEF QueueTransition
  <2>4. orders'[o].state = "SubmitPending" /\ outbox'[o] = "pending"
    BY <1>t, <2>2, <2>3 DEF Updated, TablesTyped
  <2>5. \A p \in Orders : p # o => orders'[p].state = orders[p].state /\ outbox'[p] = outbox[p]
    BY <1>t, <2>2, <2>3 DEF TablesTyped
  <2>6. ASSUME NEW p \in Orders
        PROVE  outbox'[p] = "none" <=>
                 orders'[p].state \in {"Absent", "Created", "RiskPending", "RiskApproved",
                                       "RiskRejected"}
    <3>1. CASE p = o
      BY <2>4, <3>1
    <3>2. CASE p # o
      BY <2>5, <3>2 DEF QueuedStates
    <3>. QED BY <3>1, <3>2
  <2>. QED BY <2>6 DEF QueuedStates
<1>5. ASSUME NEW ev, NEW snap, NEW f, ev.order \in Orders,
             ev.state \in {"Filled", "PartiallyFilled"}, FillTransition(ev, snap, f)
      PROVE  QueuedStates'
  <2>1. orders[ev.order].state \in Vetting <=> ev.state \in Vetting
    BY <1>5, VettingMoves DEF FillTransition, FillAcceptable, Acceptable, OMSState
  <2>2. \A p \in Orders : orders'[p].state = IF p = ev.order THEN ev.state ELSE orders[p].state
    BY <1>t, <1>5 DEF FillTransition, Updated, TablesTyped
  <2>. QED BY <1>5, <2>1, <2>2 DEF FillTransition, QueuedStates, Vetting
<1>6. ASSUME NEW o \in Orders, Delivered(o) PROVE QueuedStates'
  BY <1>t, <1>6 DEF Delivered, QueuedStates, TablesTyped
<1>7. \A o, snap, f : /\ Event(o, snap, Following(o, snap, f), <<"fill", f>>).order = o
                      /\ Event(o, snap, Following(o, snap, f), <<"fill", f>>).state
                           \in {"Filled", "PartiallyFilled"}
  BY DEF Event, Following
<1>8. ASSUME NEW o \in Orders, Appends(o) PROVE QueuedStates'
  <2>1. CASE \E ev, snap, release : ev.order = o /\ Ordinary(ev, snap, release)
    BY <1>3, <2>1
  <2>2. CASE \E snap \in OrderRow :
         QueueTransition(Event(o, snap, "SubmitPending", <<"step", "submit_pending">>), snap)
    BY <1>4, <2>2
  <2>3. CASE \E snap \in OrderRow, f \in [quantity : Nat, price : Nat] :
         FillTransition(Event(o, snap, Following(o, snap, f), <<"fill", f>>), snap, f)
    BY <1>5, <1>7, <2>3
  <2>. QED BY <1>2, <1>6, <1>8, <2>1, <2>2, <2>3 DEF Appends
<1>. QED BY <1>1, <1>8 DEF TablesStep

---------------------------------------------------------------------------
(* Order rows: their versions only grow, and what is filled fits.         *)

LEMMA RowsMove ==
  ASSUME TypeOK, JournalMatchesOrder, TablesStep, NEW p \in Orders
  PROVE  orders'[p] = orders[p] \/ orders'[p].version = orders[p].version + 1
<1>t. TablesTyped
  BY DEF TypeOK
<1>1. CASE UNCHANGED tables
  BY <1>1 DEF tables
<1>2. ASSUME NEW o \in Orders, NEW s, NEW filled,
             orders' = [orders EXCEPT ![o] = Updated(o, s, filled)]
      PROVE  orders'[p] = orders[p] \/ orders'[p].version = orders[p].version + 1
  BY <1>t, <1>2 DEF TablesTyped, Updated
<1>3. ASSUME NEW o \in Orders, Created(o)
      PROVE  orders'[p] = orders[p] \/ orders'[p].version = orders[p].version + 1
  <2>1. orders[o].version = 0
    BY <1>t, <1>3, AbsentHasNoEvents DEF Created
  <2>. QED BY <1>t, <1>3, <2>1 DEF Created, TablesTyped
<1>4. ASSUME NEW ev, NEW snap, NEW release, ev.order \in Orders, Ordinary(ev, snap, release)
      PROVE  orders'[p] = orders[p] \/ orders'[p].version = orders[p].version + 1
  BY <1>2, <1>4 DEF Ordinary, Transition
<1>5. ASSUME NEW o \in Orders, NEW snap, NEW s, NEW b,
             QueueTransition(Event(o, snap, s, b), snap)
      PROVE  orders'[p] = orders[p] \/ orders'[p].version = orders[p].version + 1
  BY <1>2, <1>5 DEF QueueTransition, Event
<1>6. ASSUME NEW o \in Orders, NEW snap, NEW s, NEW b, NEW f,
             FillTransition(Event(o, snap, s, b), snap, f)
      PROVE  orders'[p] = orders[p] \/ orders'[p].version = orders[p].version + 1
  BY <1>2, <1>6 DEF FillTransition, Event
<1>. QED BY <1>1, <1>3, <1>4, <1>5, <1>6 DEF TablesStep, Appends, Delivered

\* So a row that was read faithfully stays so.
LEMMA FaithfulStays ==
  ASSUME TypeOK, JournalMatchesOrder, TablesStep, NEW p \in Orders, NEW snap \in OrderRow,
         ReadFaithfully(snap, p)
  PROVE  /\ snap.version <= orders'[p].version
         /\ snap.version = orders'[p].version => snap = orders'[p]
<1>1. orders[p].version \in Nat /\ snap.version \in Nat
  BY DEF TypeOK, TablesTyped, OrderRow
<1>2. orders'[p] = orders[p] \/ orders'[p].version = orders[p].version + 1
  BY RowsMove
<1>. QED BY <1>1, <1>2 DEF ReadFaithfully

LEMMA FilledIsFinal ==
  ASSUME NEW t
  PROVE  ~validate_transition("Filled", t)
  BY DEF validate_transition, ALLOWED_TRANSITIONS

LEMMA FilledStep ==
  ASSUME TypeOK, JournalMatchesOrder, FilledWithinQuantity, TablesStep
  PROVE  FilledWithinQuantity'
<1>t. TablesTyped
  BY DEF TypeOK
<1>q. \A o \in Orders : Quantity[o] \in Nat /\ Quantity[o] > 0
  BY OrdersAssumption
<1>1. CASE UNCHANGED tables
  BY <1>1 DEF FilledWithinQuantity, tables
<1>2. ASSUME NEW o \in Orders, NEW s, NEW filled,
             orders' = [orders EXCEPT ![o] = Updated(o, s, filled)],
             s # "Absent", filled <= Quantity[o], s = "Filled" <=> filled = Quantity[o]
      PROVE  FilledWithinQuantity'
  <2>1. orders'[o].filled = filled /\ orders'[o].state = s
    BY <1>t, <1>2 DEF TablesTyped, Updated
  <2>2. \A p \in Orders : p # o => orders'[p] = orders[p]
    BY <1>t, <1>2 DEF TablesTyped
  <2>3. ASSUME NEW p \in Orders
        PROVE  /\ orders'[p].state = "Absent" => orders'[p].filled = 0
               /\ orders'[p].filled <= Quantity[p]
               /\ (orders'[p].state = "Filled") <=> (orders'[p].filled = Quantity[p])
    <3>1. CASE p = o
      BY <1>2, <2>1, <3>1
    <3>2. CASE p # o
      BY <2>2, <3>2 DEF FilledWithinQuantity
    <3>. QED BY <3>1, <3>2
  <2>. QED BY <2>3 DEF FilledWithinQuantity
<1>3. ASSUME NEW o \in Orders, Created(o) PROVE FilledWithinQuantity'
  <2>1. orders[o].version = 0 /\ orders[o].sequence = 0
    BY <1>t, <1>3, AbsentHasNoEvents DEF Created
  <2>2. orders' = [orders EXCEPT ![o] = Updated(o, "Created", 0)]
    BY <1>3, <2>1 DEF Created, Updated
  <2>3. 0 <= Quantity[o] /\ ("Created" = "Filled" <=> 0 = Quantity[o])
    BY <1>q
  <2>. QED BY <1>2, <2>2, <2>3
<1>4. ASSUME NEW o \in Orders, NEW ev, NEW snap, ev.order = o, Acceptable(ev, snap)
      PROVE  orders[o].filled < Quantity[o]
  <2>1. orders[o].state # "Filled"
    BY <1>4, FilledIsFinal DEF Acceptable
  <2>2. orders[o].filled \in Nat
    BY <1>t DEF TablesTyped, OrderRow
  <2>. QED BY <1>q, <2>1, <2>2 DEF FilledWithinQuantity
<1>5. ASSUME NEW ev, NEW snap, NEW release, ev.order \in Orders, Ordinary(ev, snap, release)
      PROVE  FilledWithinQuantity'
  <2>1. orders[ev.order].filled < Quantity[ev.order]
    BY <1>4, <1>5 DEF Ordinary, Transition
  <2>2. orders[ev.order].filled \in Nat
    BY <1>t, <1>5 DEF TablesTyped, OrderRow
  <2>3. ev.state # "Filled" /\ ev.state # "Absent"
    BY <1>5 DEF Ordinary, OMSState
  <2>4. /\ orders[ev.order].filled <= Quantity[ev.order]
        /\ ev.state = "Filled" <=> orders[ev.order].filled = Quantity[ev.order]
    BY <1>5, <1>q, <2>1, <2>2, <2>3
  <2>5. orders' = [orders EXCEPT ![ev.order] = Updated(ev.order, ev.state, orders[ev.order].filled)]
    BY <1>5 DEF Ordinary, Transition
  <2>. QED BY <1>2, <1>5, <2>3, <2>4, <2>5
<1>6. ASSUME NEW o \in Orders, NEW snap,
             QueueTransition(Event(o, snap, "SubmitPending", <<"step", "submit_pending">>), snap)
      PROVE  FilledWithinQuantity'
  <2> DEFINE ev == Event(o, snap, "SubmitPending", <<"step", "submit_pending">>)
  <2>1. ev.order = o /\ ev.state = "SubmitPending"
    BY DEF Event
  <2>2. orders[o].filled < Quantity[o] /\ orders[o].filled \in Nat
    BY <1>t, <1>4, <1>6, <2>1 DEF QueueTransition, QueueAcceptable, TablesTyped, OrderRow
  <2>3. orders' = [orders EXCEPT ![o] = Updated(o, "SubmitPending", orders[o].filled)]
    BY <1>6, <2>1 DEF QueueTransition
  <2>4. /\ orders[o].filled <= Quantity[o]
        /\ "SubmitPending" = "Filled" <=> orders[o].filled = Quantity[o]
    BY <1>q, <2>2
  <2>. QED BY <1>2, <2>3, <2>4
<1>7. ASSUME NEW o \in Orders, NEW snap \in OrderRow, NEW f \in [quantity : Nat, price : Nat],
             snap.version = orders[o].version => snap = orders[o],
             FillTransition(Event(o, snap, Following(o, snap, f), <<"fill", f>>), snap, f)
      PROVE  FilledWithinQuantity'
  <2> DEFINE ev == Event(o, snap, Following(o, snap, f), <<"fill", f>>)
             filled == orders[o].filled + f.quantity
  <2>1. ev.order = o /\ ev.state = Following(o, snap, f)
    BY DEF Event
  <2>2. snap = orders[o] /\ filled <= Quantity[o]
    BY <1>7, <2>1 DEF FillTransition, FillAcceptable, Acceptable
  <2>3. /\ Following(o, snap, f) = "Filled" <=> filled = Quantity[o]
        /\ Following(o, snap, f) # "Absent"
    BY <2>2 DEF Following
  <2>4. orders' = [orders EXCEPT ![o] = Updated(o, Following(o, snap, f), filled)]
    BY <1>7, <2>1 DEF FillTransition
  <2>. QED BY <1>2, <2>2, <2>3, <2>4
<1>8. ASSUME NEW o \in Orders, Delivered(o) PROVE FilledWithinQuantity'
  BY <1>8 DEF Delivered, FilledWithinQuantity
<1>9. ASSUME NEW o \in Orders, Appends(o) PROVE FilledWithinQuantity'
  <2>1. CASE \E ev, snap, release : ev.order = o /\ Ordinary(ev, snap, release)
    BY <1>5, <2>1
  <2>. QED BY <1>3, <1>6, <1>7, <1>8, <1>9, <2>1 DEF Appends
<1>. QED BY <1>1, <1>9 DEF TablesStep

---------------------------------------------------------------------------
(* Clients and workers: what they have read and what they handle.         *)

Reading == {"evaluate", "reserve", "decide", "submit"}

\* What the ways to go on do to the locals.
LEMMA ClientGoesOn ==
  ASSUME ClientsTyped, NEW c \in Clients
  PROVE  /\ \A pc : ClientProceeds(c, pc) =>
              /\ \A d \in Clients : d # c => client'[d] = client[d]
              /\ client'[c].pc = pc
              /\ client'[c].order = client[c].order
              /\ client'[c].snap = orders'[client'[c].order]
         /\ ClientLeaves(c) =>
              /\ \A d \in Clients : d # c => client'[d] = client[d]
              /\ client'[c].pc = "idle"
<1>1. client \in [Clients -> ClientRow]
  BY DEF ClientsTyped, ClientRow
<1>2. ASSUME NEW pc, ClientProceeds(c, pc)
      PROVE  /\ \A d \in Clients : d # c => client'[d] = client[d]
             /\ client'[c] = [[client[c] EXCEPT !.pc = pc]
                                EXCEPT !.snap = orders'[client[c].order]]
  BY <1>1, <1>2 DEF ClientProceeds
<1>3. ASSUME NEW r \in ClientRow, NEW pc, NEW snap
      PROVE  LET s == [[r EXCEPT !.pc = pc] EXCEPT !.snap = snap] IN
             s.pc = pc /\ s.order = r.order /\ s.snap = snap
  BY DEF ClientRow
<1>4. ClientLeaves(c) =>
              /\ \A d \in Clients : d # c => client'[d] = client[d]
              /\ client'[c].pc = "idle"
  BY <1>1 DEF ClientLeaves, IdleClient
<1>5. client[c] \in ClientRow
  BY <1>1
<1>6. ASSUME NEW pc, ClientProceeds(c, pc)
      PROVE  /\ \A d \in Clients : d # c => client'[d] = client[d]
             /\ client'[c].pc = pc
             /\ client'[c].order = client[c].order
             /\ client'[c].snap = orders'[client'[c].order]
  <2> DEFINE snap == orders'[client[c].order]
             s == [[client[c] EXCEPT !.pc = pc] EXCEPT !.snap = snap]
  <2>1. client'[c] = s
    BY <1>2, <1>6
  <2>2. s.pc = pc /\ s.order = client[c].order /\ s.snap = snap
    BY <1>3, <1>5
  <2>3. \A d \in Clients : d # c => client'[d] = client[d]
    BY <1>2, <1>6
  <2> HIDE DEF s
  <2>. QED BY <2>1, <2>2, <2>3
<1>. QED BY <1>4, <1>6

LEMMA WorkerGoesOn ==
  ASSUME WorkersTyped, NEW w \in Workers
  PROVE  /\ \A pc : WorkerProceeds(w, pc) =>
              /\ \A v \in Workers : v # w => worker'[v] = worker[v]
              /\ worker'[w].pc = pc
              /\ worker'[w].batch = worker[w].batch
              /\ worker'[w].item = worker[w].item
              /\ worker'[w].snap = orders'[worker'[w].item]
         /\ \A pc : WorkerSkips(w, pc) =>
              /\ \A v \in Workers : v # w => worker'[v] = worker[v]
              /\ worker'[w].batch = worker[w].batch
              /\ worker'[w].item = worker[w].item
              /\ worker'[w].snap = worker[w].snap
         /\ WorkerLeaves(w) =>
              /\ \A v \in Workers : v # w => worker'[v] = worker[v]
              /\ worker'[w].pc = "idle"
              /\ worker'[w].batch = {}
<1>1. worker \in [Workers -> WorkerRow]
  BY DEF WorkersTyped, WorkerRow
<1>2. ASSUME NEW pc, WorkerProceeds(w, pc)
      PROVE  /\ \A v \in Workers : v # w => worker'[v] = worker[v]
             /\ worker'[w] = [[worker[w] EXCEPT !.pc = pc]
                                EXCEPT !.snap = orders'[worker[w].item]]
  BY <1>1, <1>2 DEF WorkerProceeds
<1>3. ASSUME NEW r \in WorkerRow, NEW pc, NEW snap
      PROVE  LET s == [[r EXCEPT !.pc = pc] EXCEPT !.snap = snap] IN
             s.pc = pc /\ s.batch = r.batch /\ s.item = r.item /\ s.snap = snap
  BY DEF WorkerRow
<1>4. \A pc : WorkerSkips(w, pc) =>
              /\ \A v \in Workers : v # w => worker'[v] = worker[v]
              /\ worker'[w].batch = worker[w].batch
              /\ worker'[w].item = worker[w].item
              /\ worker'[w].snap = worker[w].snap
  BY <1>1 DEF WorkerSkips, WorkerRow
<1>5. WorkerLeaves(w) =>
              /\ \A v \in Workers : v # w => worker'[v] = worker[v]
              /\ worker'[w].pc = "idle"
              /\ worker'[w].batch = {}
  BY <1>1 DEF WorkerLeaves, IdleWorker
<1>6. worker[w] \in WorkerRow
  BY <1>1
<1>7. ASSUME NEW pc, WorkerProceeds(w, pc)
      PROVE  /\ \A v \in Workers : v # w => worker'[v] = worker[v]
             /\ worker'[w].pc = pc
             /\ worker'[w].batch = worker[w].batch
             /\ worker'[w].item = worker[w].item
             /\ worker'[w].snap = orders'[worker'[w].item]
  <2> DEFINE snap == orders'[worker[w].item]
             s == [[worker[w] EXCEPT !.pc = pc] EXCEPT !.snap = snap]
  <2>1. worker'[w] = s
    BY <1>2, <1>7
  <2>2. s.pc = pc /\ s.batch = worker[w].batch /\ s.item = worker[w].item /\ s.snap = snap
    BY <1>3, <1>6
  <2>3. \A v \in Workers : v # w => worker'[v] = worker[v]
    BY <1>2, <1>7
  <2> HIDE DEF s
  <2>. QED BY <2>1, <2>2, <2>3
<1>. QED BY <1>4, <1>5, <1>7

\* A step of a client leaves the others alone and gives it a fresh row, the row
\* it had, or none.
LEMMA ClientMoves ==
  ASSUME TypeOK, NEW c \in Clients, ClientStep(c) \/ ClientCrash(c)
  PROVE  /\ UNCHANGED worker
         /\ \A d \in Clients : d # c => client'[d] = client[d]
         /\ client'[c].pc \in Reading =>
              /\ client'[c].order = client[c].order
              /\ \/ client'[c].snap = orders'[client'[c].order]
                 \/ client[c].pc \in Reading /\ client'[c].snap = client[c].snap
<1>t. ClientsTyped /\ "idle" \notin Reading
  BY DEF TypeOK, Reading
<1>1. CASE \E o \in Orders : QueueLookup(c, o)
  BY <1>1 DEF TypeOK, ClientsTyped, QueueLookup, Reading
<1>2. CASE QueueCreate(c)
  BY <1>t, <1>2, ClientGoesOn DEF QueueCreate
<1>3. CASE QueueEvaluate(c)
  <2>1. UNCHANGED worker /\ (ClientProceeds(c, "reserve") \/ ClientLeaves(c))
    BY <1>3 DEF QueueEvaluate, ClientTransition
  <2>. QED BY <1>t, <2>1, ClientGoesOn
<1>4. CASE QueueReadReserved(c)
  BY <1>4 DEF TypeOK, ClientsTyped, QueueReadReserved, Reading
<1>5. CASE QueueDecide(c)
  <2>1. UNCHANGED worker /\ (ClientProceeds(c, "submit") \/ ClientLeaves(c))
    BY <1>5 DEF QueueDecide, ClientTransition
  <2>. QED BY <1>t, <2>1, ClientGoesOn
<1>6. CASE QueueSubmit(c)
  BY <1>t, <1>6, ClientGoesOn DEF QueueSubmit
<1>7. CASE ClientCrash(c)
  BY <1>t, <1>7, ClientGoesOn DEF ClientCrash
<1>. QED BY <1>1, <1>2, <1>3, <1>4, <1>5, <1>6, <1>7 DEF ClientStep

\* Likewise for a worker; a worker only takes up orders of its batch.
LEMMA WorkerMoves ==
  ASSUME TypeOK, NEW w \in Workers, WorkerStep(w) \/ WorkerRestart(w)
  PROVE  /\ UNCHANGED client
         /\ \A v \in Workers : v # w => worker'[v] = worker[v]
         /\ worker'[w].batch \subseteq worker[w].batch \cup pending_outbox
         /\ worker'[w].pc \notin {"idle", "send"} =>
              /\ \/ worker'[w].item \in worker[w].batch
                 \/ worker[w].pc \notin {"idle", "send"} /\ worker'[w].item = worker[w].item
              /\ \/ worker'[w].snap = orders'[worker'[w].item]
                 \/ /\ worker[w].pc \notin {"idle", "send"}
                    /\ worker'[w].item = worker[w].item
                    /\ worker'[w].snap = worker[w].snap
<1>t. WorkersTyped
  BY DEF TypeOK
<1>1. CASE WorkerScan(w)
  BY <1>1 DEF TypeOK, WorkersTyped, WorkerScan
<1>2. CASE WorkerSend(w)
  <2>1. PICK o \in worker[w].batch :
          worker' = [worker EXCEPT ![w] =
               [@ EXCEPT !.pc = "submitted", !.item = o, !.snap = orders[o]]]
    BY <1>2 DEF WorkerSend
  <2>2. UNCHANGED <<client, orders>>
    BY <1>2 DEF WorkerSend, tables
  <2>. QED BY <2>1, <2>2 DEF TypeOK, WorkersTyped
<1>3. ASSUME NEW state, NEW release, NEW pc, worker[w].pc \notin {"idle", "send"},
             UNCHANGED client,
             \/ WorkerTransition(w, state, release, pc)
             \/ WorkerSkips(w, pc)
      PROVE  /\ \A v \in Workers : v # w => worker'[v] = worker[v]
             /\ worker'[w].batch \subseteq worker[w].batch
             /\ worker'[w].pc \notin {"idle", "send"} =>
                  /\ worker'[w].item = worker[w].item
                  /\ \/ worker'[w].snap = orders'[worker'[w].item]
                     \/ worker'[w].snap = worker[w].snap
  <2>1. WorkerProceeds(w, pc) \/ WorkerSkips(w, pc) \/ WorkerLeaves(w)
    BY <1>3 DEF WorkerTransition
  <2>. QED BY <1>t, <2>1, WorkerGoesOn
<1>4. CASE WorkerSubmitted(w)
  BY <1>3, <1>4 DEF WorkerSubmitted
<1>5. CASE WorkerReject(w)
  BY <1>3, <1>5 DEF WorkerReject
<1>6. CASE WorkerAcknowledge(w)
  BY <1>3, <1>6 DEF WorkerAcknowledge
<1>7. CASE WorkerFill(w)
  <2>1. /\ worker[w].pc \notin {"idle", "send"} /\ UNCHANGED client
        /\ WorkerProceeds(w, "mark") \/ WorkerSkips(w, "mark") \/ WorkerLeaves(w)
    BY <1>7 DEF WorkerFill
  <2>. QED BY <1>t, <2>1, WorkerGoesOn
<1>8. CASE WorkerMark(w)
  BY <1>8 DEF TypeOK, WorkersTyped, WorkerMark, IdleWorker
<1>9. CASE WorkerRestart(w)
  BY <1>t, <1>9, WorkerGoesOn DEF WorkerRestart
<1>. QED BY <1>1, <1>2, <1>4, <1>5, <1>6, <1>7, <1>8, <1>9 DEF WorkerStep

\* What a client, or a worker, must satisfy after the step.
ClientFaithful(c) ==
  client[c].pc \in Reading => ReadFaithfully(client[c].snap, client[c].order)

WorkerFaithful(w) ==
  worker[w].pc \notin {"idle", "send"} => ReadFaithfully(worker[w].snap, worker[w].item)

LEMMA ClientFaithfulStep ==
  ASSUME TypeOK, TypeOK', JournalMatchesOrder, SnapshotsFaithful, TablesStep, NEW c \in Clients,
         client'[c].pc \in Reading =>
           /\ client'[c].order = client[c].order
           /\ \/ client'[c].snap = orders'[client'[c].order]
              \/ client[c].pc \in Reading /\ client'[c].snap = client[c].snap
  PROVE  ClientFaithful(c)'
<1> SUFFICES ASSUME client'[c].pc \in Reading
             PROVE  /\ client'[c].snap.version <= orders'[client'[c].order].version
                    /\ client'[c].snap.version = orders'[client'[c].order].version
                         => client'[c].snap = orders'[client'[c].order]
  BY DEF ClientFaithful, ReadFaithfully
<1>1. client'[c].order \in Orders /\ client'[c].snap \in OrderRow
  BY DEF TypeOK, ClientsTyped, Reading
<1>2. CASE client'[c].snap = orders'[client'[c].order]
  <2>1. orders'[client'[c].order].version \in Nat
    BY <1>1 DEF TypeOK, TablesTyped, OrderRow
  <2>. QED BY <1>2, <2>1
<1>3. CASE client[c].pc \in Reading /\ client'[c].snap = client[c].snap
  <2>1. ReadFaithfully(client[c].snap, client[c].order)
    BY <1>3 DEF SnapshotsFaithful, Reading
  <2>. QED BY <1>1, <1>3, <2>1, FaithfulStays
<1>. QED BY <1>2, <1>3

LEMMA WorkerFaithfulStep ==
  ASSUME TypeOK, TypeOK', JournalMatchesOrder, SnapshotsFaithful, TablesStep, NEW w \in Workers,
         worker'[w].pc \notin {"idle", "send"} =>
           \/ worker'[w].snap = orders'[worker'[w].item]
           \/ /\ worker[w].pc \notin {"idle", "send"}
              /\ worker'[w].item = worker[w].item
              /\ worker'[w].snap = worker[w].snap
  PROVE  WorkerFaithful(w)'
<1> SUFFICES ASSUME worker'[w].pc \notin {"idle", "send"}
             PROVE  /\ worker'[w].snap.version <= orders'[worker'[w].item].version
                    /\ worker'[w].snap.version = orders'[worker'[w].item].version
                         => worker'[w].snap = orders'[worker'[w].item]
  BY DEF WorkerFaithful, ReadFaithfully
<1>1. worker'[w].item \in Orders /\ worker'[w].snap \in OrderRow
  BY DEF TypeOK, WorkersTyped
<1>2. CASE worker'[w].snap = orders'[worker'[w].item]
  <2>1. orders'[worker'[w].item].version \in Nat
    BY <1>1 DEF TypeOK, TablesTyped, OrderRow
  <2>. QED BY <1>2, <2>1
<1>3. CASE /\ worker[w].pc \notin {"idle", "send"}
           /\ worker'[w].item = worker[w].item
           /\ worker'[w].snap = worker[w].snap
  <2>1. ReadFaithfully(worker[w].snap, worker[w].item)
    BY <1>3 DEF SnapshotsFaithful
  <2>. QED BY <1>1, <1>3, <2>1, FaithfulStays
<1>. QED BY <1>2, <1>3

LEMMA SnapshotsStep ==
  ASSUME Inductive, TypeOK', [Next]_vars
  PROVE  SnapshotsFaithful'
<1>1. TypeOK /\ JournalMatchesOrder /\ SnapshotsFaithful /\ TablesStep
  BY NextAppends DEF Inductive
<1>2. \A c \in Clients : ClientFaithful(c)'
  <2> SUFFICES ASSUME NEW c \in Clients PROVE ClientFaithful(c)'
    OBVIOUS
  <2>1. CASE UNCHANGED client
    BY <1>1, <2>1, ClientFaithfulStep
  <2>2. ASSUME NEW d \in Clients, ClientStep(d) \/ ClientCrash(d) PROVE ClientFaithful(c)'
    BY <1>1, <2>2, ClientMoves, ClientFaithfulStep
  <2>3. UNCHANGED client \/ \E d \in Clients : ClientStep(d) \/ ClientCrash(d)
    <3>1. \A w \in Workers : WorkerStep(w) \/ WorkerRestart(w) => UNCHANGED client
      BY <1>1, WorkerMoves
    <3>2. \A o \in Orders : OperatorStep(o) => UNCHANGED client
      BY DEF OperatorStep, request_cancel, request_replace, apply_cancel_result,
             apply_replace_result, recover_unknown, OperatorTransition
    <3>. QED BY <3>1, <3>2 DEF Next, vars
  <2>. QED BY <2>1, <2>2, <2>3
<1>3. \A w \in Workers : WorkerFaithful(w)'
  <2> SUFFICES ASSUME NEW w \in Workers PROVE WorkerFaithful(w)'
    OBVIOUS
  <2>1. CASE UNCHANGED worker
    BY <1>1, <2>1, WorkerFaithfulStep
  <2>2. ASSUME NEW v \in Workers, WorkerStep(v) \/ WorkerRestart(v) PROVE WorkerFaithful(w)'
    BY <1>1, <2>2, WorkerMoves, WorkerFaithfulStep
  <2>3. UNCHANGED worker \/ \E v \in Workers : WorkerStep(v) \/ WorkerRestart(v)
    <3>1. \A c \in Clients : ClientStep(c) \/ ClientCrash(c) => UNCHANGED worker
      BY <1>1, ClientMoves
    <3>2. \A o \in Orders : OperatorStep(o) => UNCHANGED worker
      BY DEF OperatorStep, request_cancel, request_replace, apply_cancel_result,
             apply_replace_result, recover_unknown, OperatorTransition
    <3>. QED BY <3>1, <3>2 DEF Next, vars
  <2>. QED BY <2>1, <2>2, <2>3
<1>. QED BY <1>2, <1>3 DEF SnapshotsFaithful, ClientFaithful, WorkerFaithful, Reading

\* No step takes an outbox row away, and workers only pick up pending rows.
LEMMA WorkersHandleQueuedStep ==
  ASSUME Inductive, [Next]_vars
  PROVE  WorkersHandleQueued'
<1>1. TypeOK /\ TablesStep /\ QueuedTables
  <2>1. TypeOK /\ TablesStep
    BY NextAppends DEF Inductive
  <2>2. QueuedTables
    BY QueuedTogetherParts DEF Inductive
  <2>. QED BY <2>1, <2>2
<1>2. \A o \in Orders : outbox[o] # "none" => outbox'[o] # "none"
  BY <1>1, QueuedStep
<1>3. WorkersHandleQueued /\ WorkersTyped
  BY DEF Inductive, TypeOK
<1>4. CASE UNCHANGED worker
  BY <1>2, <1>3, <1>4 DEF WorkersHandleQueued, WorkersTyped
<1>5. ASSUME NEW v \in Workers, WorkerStep(v) \/ WorkerRestart(v) PROVE WorkersHandleQueued'
  <2> SUFFICES ASSUME NEW w \in Workers
               PROVE  /\ \A o \in worker'[w].batch : outbox'[o] # "none"
                      /\ worker'[w].pc \notin {"idle", "send"} => outbox'[worker'[w].item] # "none"
    BY DEF WorkersHandleQueued
  <2>1. CASE w # v
    <3>1. worker'[w] = worker[w]
      BY <1>1, <1>5, <2>1, WorkerMoves
    <3>. QED BY <1>2, <1>3, <3>1 DEF WorkersHandleQueued, WorkersTyped
  <2>2. CASE w = v
    <3>1. \A o \in worker[w].batch \cup pending_outbox : o \in Orders /\ outbox[o] # "none"
      BY <1>3 DEF WorkersHandleQueued, WorkersTyped, pending_outbox
    <3>2. /\ worker'[w].batch \subseteq worker[w].batch \cup pending_outbox
          /\ worker'[w].pc \notin {"idle", "send"} =>
               \/ worker'[w].item \in worker[w].batch
               \/ worker[w].pc \notin {"idle", "send"} /\ worker'[w].item = worker[w].item
      BY <1>1, <1>5, <2>2, WorkerMoves
    <3>3. worker[w].pc \notin {"idle", "send"} =>
            worker[w].item \in Orders /\ outbox[worker[w].item] # "none"
      BY <1>3 DEF WorkersHandleQueued, WorkersTyped
    <3>. QED BY <1>2, <3>1, <3>2, <3>3
  <2>. QED BY <2>1, <2>2
<1>6. UNCHANGED worker \/ \E v \in Workers : WorkerStep(v) \/ WorkerRestart(v)
  <2>1. \A c \in Clients : ClientStep(c) \/ ClientCrash(c) => UNCHANGED worker
    BY <1>1, ClientMoves
  <2>2. \A o \in Orders : OperatorStep(o) => UNCHANGED worker
    BY DEF OperatorStep, request_cancel, request_replace, apply_cancel_result,
           apply_replace_result, recover_unknown, OperatorTransition
  <2>. QED BY <2>1, <2>2 DEF Next, vars
<1>. QED BY <1>4, <1>5, <1>6

\* Brokers only hear of orders that workers handle.
LEMMA ResponsesMove ==
  ASSUME TypeOK, [Next]_vars, NEW w \in Workers, NEW o \in Orders, responses'[w][o] # NoResponse
  PROVE  responses[w][o] # NoResponse \/ o \in worker[w].batch
<1>r. responses \in [Workers -> [Orders -> BrokerAnswer]]
  BY DEF TypeOK, BrokersTyped, BrokerAnswer
<1>1. CASE UNCHANGED responses
  BY <1>1
<1>2. ASSUME NEW v \in Workers, WorkerSend(v)
      PROVE  responses[w][o] # NoResponse \/ o \in worker[w].batch
  <2>1. PICK p \in worker[v].batch : BrokerSubmit(v, p)
    BY <1>2 DEF WorkerSend
  <2>2. CASE UNCHANGED responses
    BY <2>2
  <2>3. ASSUME NEW market \in Markets,
               responses' = [responses EXCEPT ![v][p] = BrokerResult(p, market)]
        PROVE  responses[w][o] # NoResponse \/ o \in worker[w].batch
    <3>1. CASE w = v /\ o = p
      BY <2>1, <3>1
    <3>2. CASE w # v \/ o # p
      BY <1>r, <2>3, <3>2
    <3>. QED BY <3>1, <3>2
  <2>. QED BY <2>1, <2>2, <2>3 DEF BrokerSubmit
<1>3. ASSUME NEW v \in Workers, WorkerRestart(v)
      PROVE  responses[w][o] # NoResponse
  BY <1>r, <1>3 DEF WorkerRestart
<1>4. CASE UNCHANGED vars
  BY <1>4 DEF vars
<1>5. ASSUME NEW c \in Clients, ClientStep(c) \/ ClientCrash(c) PROVE UNCHANGED responses
  BY <1>5 DEF ClientStep, ClientCrash, QueueLookup, QueueCreate, QueueEvaluate, QueueReadReserved,
              QueueDecide, QueueSubmit, ClientTransition
<1>6. ASSUME NEW p \in Orders, OperatorStep(p) PROVE UNCHANGED responses
  BY <1>6 DEF OperatorStep, request_cancel, request_replace, apply_cancel_result,
              apply_replace_result, recover_unknown, OperatorTransition
<1>7. ASSUME NEW v \in Workers, WorkerStep(v), ~WorkerSend(v) PROVE UNCHANGED responses
  BY <1>7 DEF WorkerStep, WorkerScan, WorkerSubmitted, WorkerReject, WorkerAcknowledge,
              WorkerFill, WorkerMark
<1>. QED BY <1>1, <1>2, <1>3, <1>4, <1>5, <1>6, <1>7 DEF Next

LEMMA QueuedTogetherStep ==
  ASSUME Inductive, [Next]_vars
  PROVE  QueuedTogether'
<1>1. TypeOK /\ TablesStep /\ QueuedTables /\ WorkersHandleQueued
  <2>1. TypeOK /\ TablesStep /\ WorkersHandleQueued
    BY NextAppends DEF Inductive
  <2>2. QueuedTables
    BY QueuedTogetherParts DEF Inductive
  <2>. QED BY <2>1, <2>2
<1>2. QueuedTables' /\ \A o \in Orders : outbox[o] # "none" => outbox'[o] # "none"
  BY <1>1, QueuedStep
<1>3. ASSUME NEW o \in Orders, NEW w \in Workers, responses'[w][o] # NoResponse
      PROVE  outbox'[o] # "none"
  <2>1. responses[w][o] # NoResponse \/ o \in worker[w].batch
    BY <1>1, <1>3, ResponsesMove
  <2>2. outbox[o] # "none"
    BY <1>1, <2>1, QueuedTogetherParts DEF Inductive, WorkersHandleQueued
  <2>. QED BY <1>2, <2>2
<1>4. ASSUME NEW o \in Orders
      PROVE  /\ Queued(o)' <=> outbox'[o] # "none"
             /\ Queued(o)' <=> reservations'[o].status # "none"
             /\ \A w \in Workers : responses'[w][o] # NoResponse => Queued(o)'
  BY <1>2, <1>3 DEF QueuedTables, Queued, Requested
<1>. QED BY <1>4 DEF QueuedTogether, Queued, Requested, Knows

---------------------------------------------------------------------------
(* The invariants.                                                        *)

LEMMA InductiveInit == Init => Inductive
<1> SUFFICES ASSUME Init PROVE Inductive
  OBVIOUS
<1>1. TypeOK
  <2>1. TablesTyped
    BY RowsTyped DEF Init, TablesTyped, OutboxStatus
  <2>2. ClientsTyped
    BY RowsTyped DEF Init, ClientsTyped, IdleClient, ClientPc
  <2>3. WorkersTyped
    BY RowsTyped DEF Init, WorkersTyped, IdleWorker, WorkerPc
  <2>4. BrokersTyped
    BY OrdersAssumption DEF Init, BrokersTyped, NoResponse
  <2>. QED BY <2>1, <2>2, <2>3, <2>4 DEF TypeOK
<1>2. JournalMatchesOrder
  <2>1. 1..0 = {}
    OBVIOUS
  <2>. QED BY <2>1 DEF Init, Absent, JournalMatchesOrder
<1>3. QueuedTogether
  BY DEF Init, QueuedTogether, Requested, Knows, NoReservation
<1>4. WorkersHandleQueued
  BY DEF Init, WorkersHandleQueued, IdleWorker
<1>5. QueuedStates
  BY DEF Init, QueuedStates, Absent
<1>6. SnapshotsFaithful
  BY DEF Init, SnapshotsFaithful, IdleClient, IdleWorker
<1>7. FilledWithinQuantity
  BY OrdersAssumption DEF Init, FilledWithinQuantity, Absent
<1>. QED BY <1>1, <1>2, <1>3, <1>4, <1>5, <1>6, <1>7 DEF Inductive

LEMMA TypeStep ==
  ASSUME TypeOK, [Next]_vars
  PROVE  TypeOK'
<1>1. CASE UNCHANGED vars
  BY <1>1 DEF TypeOK, TablesTyped, ClientsTyped, WorkersTyped, BrokersTyped, vars
<1>2. CASE Next
  BY <1>2, ClientStepTyped, WorkerStepTyped, OperatorStepTyped DEF Next
<1>. QED BY <1>1, <1>2

LEMMA InductiveStep ==
  ASSUME Inductive, [Next]_vars
  PROVE  Inductive'
<1>1. TypeOK /\ JournalMatchesOrder /\ QueuedStates /\ FilledWithinQuantity /\ TablesStep
  BY NextAppends DEF Inductive
<1>2. TypeOK'
  BY <1>1, TypeStep
<1>3. JournalMatchesOrder'
  BY <1>1, JournalStep
<1>4. QueuedTogether' /\ WorkersHandleQueued'
  BY QueuedTogetherStep, WorkersHandleQueuedStep
<1>5. QueuedStates' /\ FilledWithinQuantity'
  BY <1>1, QueuedStatesStep, FilledStep
<1>6. SnapshotsFaithful'
  BY <1>2, SnapshotsStep
<1>. QED BY <1>2, <1>3, <1>4, <1>5, <1>6 DEF Inductive

THEOREM InductiveInvariant == Spec => []Inductive
  BY InductiveInit, InductiveStep, PTL DEF Spec

\* Whatever clients, workers and operators interleave, and wherever a process
\* dies, every table row and every local variable keeps its type: in particular
\* no reservation becomes negative by the scaling of transition_fill.
THEOREM TypeCorrect == Spec => []TypeOK
<1>1. Inductive => TypeOK
  BY DEF Inductive
<1>. QED BY <1>1, InductiveInvariant, PTL

\* The order row is the fold of its journal, however many processes append with
\* stale rows: the sequence has no gap, every step is allowed, the last state counts.
THEOREM JournalTheorem == Spec => []JournalMatchesOrder
<1>1. Inductive => JournalMatchesOrder
  BY DEF Inductive
<1>. QED BY <1>1, InductiveInvariant, PTL

\* The outbox row, the reservation row and the SubmitPending event of an order
\* exist together or not at all, and no broker hears of an order without them.
THEOREM QueuedTogetherTheorem == Spec => []QueuedTogether
<1>1. Inductive => QueuedTogether
  BY DEF Inductive
<1>. QED BY <1>1, InductiveInvariant, PTL

\* The version check is sound: a process whose row still has the order's version
\* holds the order's row.
THEOREM SnapshotsTheorem == Spec => []SnapshotsFaithful
<1>1. Inductive => SnapshotsFaithful
  BY DEF Inductive
<1>. QED BY <1>1, InductiveInvariant, PTL

---------------------------------------------------------------------------
(* The paper OMS implements OrderLifecycle.  A step touches one row; the   *)
(* proof follows that row's phase through each way of appending to the     *)
(* journal.                                                                *)

phaseBar == [o \in Orders |-> PhaseOf(orders[o].state)]
executedBar == [o \in Orders |-> orders[o].filled]

\* The phases of the two ends of an allowed transition.
LEMMA PhaseMoves ==
  ASSUME NEW s, NEW t \in OMSState \ {"Created", "SubmitPending", "Filled"},
         validate_transition(s, t)
  PROVE  \/ PhaseOf(t) = PhaseOf(s)
         \/ PhaseOf(s) = "vetting" /\ PhaseOf(t) = "closed"
         \/ PhaseOf(s) = "queued" /\ PhaseOf(t) \in {"working", "closed"}
         \/ PhaseOf(s) = "working" /\ PhaseOf(t) = "closed"
<1>1. CASE s = "Created" /\ t = "RiskPending"
  BY <1>1 DEF PhaseOf, TERMINAL_STATES
<1>2. CASE s = "RiskPending" /\ t \in {"RiskApproved", "RiskRejected"}
  BY <1>2 DEF PhaseOf, TERMINAL_STATES
<1>3. CASE s = "SubmitPending" /\ t \in {"Submitted", "Rejected", "Unknown"}
  BY <1>3 DEF PhaseOf, TERMINAL_STATES
<1>4. CASE /\ s \in {"Submitted", "Acknowledged", "PartiallyFilled", "CancelPending",
                     "ReplacePending", "Replaced", "Unknown"}
           /\ t \in {"Submitted", "Acknowledged", "PartiallyFilled", "CancelPending",
                     "ReplacePending", "Replaced", "Unknown", "Cancelled", "Rejected", "Expired"}
  <2>1. PhaseOf(s) = "working"
    BY <1>4 DEF PhaseOf, TERMINAL_STATES
  <2>2. PhaseOf(t) \in {"working", "closed"}
    BY <1>4 DEF PhaseOf, TERMINAL_STATES
  <2>. QED BY <2>1, <2>2
<1>. QED BY <1>1, <1>2, <1>3, <1>4 DEF validate_transition, ALLOWED_TRANSITIONS

\* The step writes this state and this filled quantity into the order's row.
Writes(o, s, filled) == orders' = [orders EXCEPT ![o] = Updated(o, s, filled)]

\* One row moves: what the step looks like from outside.
LEMMA RowSeenOutside ==
  ASSUME TablesTyped, NEW o \in Orders, NEW s, NEW filled, Writes(o, s, filled)
  PROVE  /\ phaseBar' = [phaseBar EXCEPT ![o] = PhaseOf(s)]
         /\ executedBar' = [executedBar EXCEPT ![o] = filled]
         /\ phaseBar[o] = PhaseOf(orders[o].state)
         /\ executedBar[o] = orders[o].filled
<1>1. /\ orders'[o].state = s /\ orders'[o].filled = filled
      /\ \A p \in Orders : p # o => orders'[p] = orders[p]
  BY DEF TablesTyped, Updated, Writes
<1>2. phaseBar' = [p \in Orders |-> PhaseOf(orders'[p].state)]
  BY DEF phaseBar, PhaseOf
<1>3. executedBar' = [p \in Orders |-> orders'[p].filled]
  BY DEF executedBar
<1>4. \A p \in Orders : PhaseOf(orders'[p].state) =
                         IF p = o THEN PhaseOf(s) ELSE PhaseOf(orders[p].state)
  BY <1>1
<1>5. phaseBar' = [phaseBar EXCEPT ![o] = PhaseOf(s)]
  BY <1>2, <1>4 DEF phaseBar
<1>6. \A p \in Orders : orders'[p].filled = IF p = o THEN filled ELSE orders[p].filled
  BY <1>1
<1>7. executedBar' = [executedBar EXCEPT ![o] = filled]
  BY <1>3, <1>6 DEF executedBar
<1>. QED BY <1>5, <1>7 DEF phaseBar, executedBar

\* A row that keeps its phase and its fills is not seen to move at all.
LEMMA NotSeen ==
  ASSUME TablesTyped, NEW o \in Orders, NEW s, Writes(o, s, orders[o].filled),
         PhaseOf(s) = PhaseOf(orders[o].state)
  PROVE  UNCHANGED <<phaseBar, executedBar>>
<1>1. /\ phaseBar' = [phaseBar EXCEPT ![o] = PhaseOf(s)]
      /\ executedBar' = [executedBar EXCEPT ![o] = orders[o].filled]
      /\ phaseBar[o] = PhaseOf(s)
      /\ executedBar[o] = orders[o].filled
  BY RowSeenOutside
<1>. QED BY <1>1 DEF phaseBar, executedBar

\* The order is seen to move from a phase to another.
SeenMove(o, from, to) ==
  /\ <<from, to>> \in { <<"absent", "vetting">>, <<"vetting", "closed">>,
                        <<"vetting", "queued">>, <<"queued", "working">>,
                        <<"queued", "closed">>, <<"working", "closed">> }
  /\ to = "closed" => executedBar[o] < Quantity[o]
  /\ phaseBar[o] = from
  /\ phaseBar' = [phaseBar EXCEPT ![o] = to]
  /\ executedBar' = executedBar

SeenStep(o) ==
  \/ UNCHANGED <<phaseBar, executedBar>>
  \/ \E from, to : SeenMove(o, from, to)
  \/ /\ phaseBar[o] = "working"
     /\ \E q \in 1..(Quantity[o] - executedBar[o]) :
          /\ executedBar' = [executedBar EXCEPT ![o] = @ + q]
          /\ phaseBar' = [phaseBar EXCEPT ![o] =
               IF executedBar[o] + q = Quantity[o] THEN "closed" ELSE "working"]

\* Every way of appending is seen as one step of the lifecycle, or not at all.
LEMMA AppendsSeen ==
  ASSUME Inductive, NEW o \in Orders, Appends(o)
  PROVE  SeenStep(o)
<1>t. TablesTyped
  BY DEF Inductive, TypeOK
<1>q. /\ Quantity[o] \in Nat /\ Quantity[o] > 0
      /\ orders[o].filled \in Nat /\ orders[o].filled <= Quantity[o]
  BY <1>t, OrdersAssumption DEF Inductive, FilledWithinQuantity, TablesTyped, OrderRow
<1>a. ASSUME NEW ev, NEW snap, ev.order = o, Acceptable(ev, snap)
      PROVE  orders[o].filled < Quantity[o]
  <2>1. orders[o].state # "Filled"
    BY <1>a, FilledIsFinal DEF Acceptable
  <2>. QED BY <1>q, <2>1 DEF Inductive, FilledWithinQuantity
<1>1. CASE Created(o)
  <2>1. orders[o].sequence = 0 /\ orders[o].version = 0 /\ orders[o].state = "Absent"
    BY <1>t, <1>1, AbsentHasNoEvents DEF Inductive, Created
  <2>2. orders[o].filled = 0
    BY <2>1 DEF Inductive, FilledWithinQuantity
  <2>3. Writes(o, "Created", orders[o].filled)
    BY <1>1, <2>1, <2>2 DEF Created, Updated, Writes
  <2>4. PhaseOf("Absent") = "absent" /\ PhaseOf("Created") = "vetting"
    BY DEF PhaseOf, TERMINAL_STATES
  <2>5. /\ phaseBar[o] = "absent" /\ phaseBar' = [phaseBar EXCEPT ![o] = "vetting"]
        /\ executedBar' = [executedBar EXCEPT ![o] = executedBar[o]]
    BY <1>t, <2>1, <2>3, <2>4, RowSeenOutside
  <2>6. SeenMove(o, "absent", "vetting")
    BY <2>5 DEF SeenMove, executedBar
  <2>. QED BY <2>6 DEF SeenStep
<1>2. ASSUME NEW ev, NEW snap, NEW release, ev.order = o, Ordinary(ev, snap, release)
      PROVE  SeenStep(o)
  <2> DEFINE from == orders[o].state
             to == ev.state
  <2>1. /\ Writes(o, to, orders[o].filled)
        /\ to \in OMSState \ {"Created", "SubmitPending", "Filled"}
        /\ validate_transition(from, to)
        /\ Acceptable(ev, snap)
    BY <1>2 DEF Ordinary, Transition, Acceptable, Writes
  <2>2. orders[o].filled < Quantity[o]
    BY <1>2, <1>a, <2>1
  <2>3. CASE PhaseOf(to) = PhaseOf(from)
    BY <1>t, <2>1, <2>3, NotSeen DEF SeenStep
  <2>4. CASE \/ PhaseOf(from) = "vetting" /\ PhaseOf(to) = "closed"
             \/ PhaseOf(from) = "queued" /\ PhaseOf(to) \in {"working", "closed"}
             \/ PhaseOf(from) = "working" /\ PhaseOf(to) = "closed"
    <3>1. /\ phaseBar[o] = PhaseOf(from) /\ phaseBar' = [phaseBar EXCEPT ![o] = PhaseOf(to)]
          /\ executedBar[o] = orders[o].filled
          /\ executedBar' = [executedBar EXCEPT ![o] = orders[o].filled]
      BY <1>t, <2>1, RowSeenOutside
    <3>2. executedBar' = executedBar
      BY <3>1 DEF executedBar
    <3> HIDE DEF from, to
    <3>3. SeenMove(o, PhaseOf(from), PhaseOf(to))
      BY <2>2, <2>4, <3>1, <3>2 DEF SeenMove
    <3>. QED BY <3>3 DEF SeenStep
  <2>. QED BY <2>1, <2>3, <2>4, PhaseMoves
<1>3. ASSUME NEW snap,
             QueueTransition(Event(o, snap, "SubmitPending", <<"step", "submit_pending">>), snap)
      PROVE  SeenStep(o)
  <2> DEFINE ev == Event(o, snap, "SubmitPending", <<"step", "submit_pending">>)
  <2>1. ev.order = o /\ ev.state = "SubmitPending"
    BY DEF Event
  <2>2. /\ Writes(o, "SubmitPending", orders[o].filled)
        /\ validate_transition(orders[o].state, "SubmitPending") /\ outbox[o] = "none"
    BY <1>3, <2>1 DEF QueueTransition, QueueAcceptable, Acceptable, Writes
  <2>3. orders[o].state = "RiskApproved"
    BY <2>2 DEF Inductive, QueuedStates, validate_transition, ALLOWED_TRANSITIONS
  <2>4. PhaseOf("RiskApproved") = "vetting" /\ PhaseOf("SubmitPending") = "queued"
    BY DEF PhaseOf, TERMINAL_STATES
  <2>5. /\ phaseBar[o] = "vetting" /\ phaseBar' = [phaseBar EXCEPT ![o] = "queued"]
        /\ executedBar' = [executedBar EXCEPT ![o] = executedBar[o]]
    BY <1>t, <2>2, <2>3, <2>4, RowSeenOutside
  <2>6. SeenMove(o, "vetting", "queued")
    BY <2>5 DEF SeenMove, executedBar
  <2>. QED BY <2>6 DEF SeenStep
<1>4. ASSUME NEW snap \in OrderRow, NEW f \in [quantity : Nat, price : Nat],
             snap.version = orders[o].version => snap = orders[o],
             FillTransition(Event(o, snap, Following(o, snap, f), <<"fill", f>>), snap, f)
      PROVE  SeenStep(o)
  <2> DEFINE ev == Event(o, snap, Following(o, snap, f), <<"fill", f>>)
             filled == orders[o].filled + f.quantity
  <2>1. ev.order = o /\ ev.state = Following(o, snap, f)
    BY DEF Event
  <2>2. /\ snap = orders[o] /\ filled <= Quantity[o] /\ Acceptable(ev, snap)
        /\ Writes(o, Following(o, snap, f), filled)
        /\ validate_transition(orders[o].state, Following(o, snap, f))
    BY <1>4, <2>1 DEF FillTransition, FillAcceptable, Acceptable, Writes
  <2>3. Following(o, snap, f) = IF filled = Quantity[o] THEN "Filled" ELSE "PartiallyFilled"
    BY <2>2 DEF Following
  <2>4. /\ PhaseOf(Following(o, snap, f)) = IF filled = Quantity[o] THEN "closed" ELSE "working"
        /\ PhaseOf(orders[o].state) = "working"
    <3>1. PhaseOf("Filled") = "closed" /\ PhaseOf("PartiallyFilled") = "working"
      BY DEF PhaseOf, TERMINAL_STATES
    <3>2. orders[o].state \in {"Acknowledged", "PartiallyFilled", "CancelPending", "ReplacePending"}
      BY <2>2, <2>3 DEF validate_transition, ALLOWED_TRANSITIONS
    <3>. QED BY <2>3, <3>1, <3>2 DEF PhaseOf, TERMINAL_STATES
  <2>5. orders[o].filled < Quantity[o]
    BY <1>a, <2>1, <2>2
  <2>6. CASE f.quantity = 0
    <3>1. filled = orders[o].filled /\ filled # Quantity[o]
      BY <1>q, <2>5, <2>6
    <3>2. Writes(o, Following(o, snap, f), orders[o].filled)
      BY <2>2, <3>1
    <3>3. PhaseOf(Following(o, snap, f)) = PhaseOf(orders[o].state)
      BY <2>4, <3>1
    <3>. QED BY <1>t, <3>2, <3>3, NotSeen DEF SeenStep
  <2>7. CASE f.quantity # 0
    <3>1. /\ phaseBar' = [phaseBar EXCEPT ![o] = PhaseOf(Following(o, snap, f))]
          /\ executedBar' = [executedBar EXCEPT ![o] = filled]
          /\ phaseBar[o] = "working" /\ executedBar[o] = orders[o].filled
      BY <1>t, <2>2, <2>4, RowSeenOutside
    <3>2. f.quantity \in 1..(Quantity[o] - executedBar[o]) /\ filled = executedBar[o] + f.quantity
      BY <1>q, <2>2, <2>7, <3>1
    <3>. QED BY <2>4, <3>1, <3>2 DEF SeenStep
  <2>. QED BY <2>6, <2>7
<1>5. CASE Delivered(o)
  BY <1>5 DEF Delivered, SeenStep, phaseBar, executedBar
<1>. QED BY <1>1, <1>2, <1>3, <1>4, <1>5 DEF Appends

LEMMA SeenStepIsLifecycleStep ==
  ASSUME NEW o \in Orders, SeenStep(o)
  PROVE  [Lifecycle!LifecycleNext]_Lifecycle!lifecycleVars
<1>1. CASE UNCHANGED <<phaseBar, executedBar>>
  BY <1>1 DEF phaseBar, executedBar, Lifecycle!lifecycleVars
<1>2. ASSUME NEW from, NEW to, SeenMove(o, from, to)
      PROVE  Lifecycle!LifecycleNext
  <2>1. CASE from = "absent" /\ to = "vetting"
    <3>1. Lifecycle!Accept(o)
      BY <1>2, <2>1 DEF SeenMove, phaseBar, executedBar, Lifecycle!Accept, Lifecycle!Moves
    <3>. QED BY <3>1 DEF Lifecycle!LifecycleNext
  <2>2. CASE from = "vetting" /\ to = "closed"
    <3>1. Lifecycle!Refuse(o)
      BY <1>2, <2>2 DEF SeenMove, phaseBar, executedBar, Lifecycle!Refuse, Lifecycle!Moves
    <3>. QED BY <3>1 DEF Lifecycle!LifecycleNext
  <2>3. CASE from = "vetting" /\ to = "queued"
    <3>1. Lifecycle!Queue(o)
      BY <1>2, <2>3 DEF SeenMove, phaseBar, executedBar, Lifecycle!Queue, Lifecycle!Moves
    <3>. QED BY <3>1 DEF Lifecycle!LifecycleNext
  <2>4. CASE from = "queued" /\ to = "working"
    <3>1. Lifecycle!Deliver(o)
      BY <1>2, <2>4 DEF SeenMove, phaseBar, executedBar, Lifecycle!Deliver, Lifecycle!Moves
    <3>. QED BY <3>1 DEF Lifecycle!LifecycleNext
  <2>5. CASE from \in {"queued", "working"} /\ to = "closed"
    <3>1. Lifecycle!Close(o)
      BY <1>2, <2>5 DEF SeenMove, phaseBar, executedBar, Lifecycle!Close, Lifecycle!Moves
    <3>. QED BY <3>1 DEF Lifecycle!LifecycleNext
  <2>. QED BY <1>2, <2>1, <2>2, <2>3, <2>4, <2>5 DEF SeenMove
<1>3. ASSUME phaseBar[o] = "working",
             NEW q \in 1..(Quantity[o] - executedBar[o]),
             executedBar' = [executedBar EXCEPT ![o] = @ + q],
             phaseBar' = [phaseBar EXCEPT ![o] =
               IF executedBar[o] + q = Quantity[o] THEN "closed" ELSE "working"]
      PROVE  Lifecycle!LifecycleNext
  <2>1. executedBar'[o] = executedBar[o] + q
    BY <1>3 DEF executedBar
  <2>2. phaseBar' = [phaseBar EXCEPT ![o] =
          IF executedBar'[o] = Quantity[o] THEN "closed" ELSE "working"]
    BY <1>3, <2>1
  <2>3. Lifecycle!Execute(o)
    BY <1>3, <2>2 DEF phaseBar, executedBar, Lifecycle!Execute
  <2>. QED BY <2>3 DEF Lifecycle!LifecycleNext
<1>. QED BY <1>1, <1>2, <1>3 DEF SeenStep

\* Every behaviour of the OMS, seen through the phases of its orders and what is
\* executed of them, is a behaviour of OrderLifecycle.
THEOREM Refinement == Spec => ImplementsLifecycle
<1>1. Init => Lifecycle!LifecycleInit
  <2>1. PhaseOf("Absent") = "absent"
    BY DEF PhaseOf, TERMINAL_STATES
  <2>. QED BY <2>1 DEF Init, Absent, Lifecycle!LifecycleInit
<1>2. Inductive /\ [Next]_vars => [Lifecycle!LifecycleNext]_Lifecycle!lifecycleVars
  <2> SUFFICES ASSUME Inductive, [Next]_vars
               PROVE  [Lifecycle!LifecycleNext]_Lifecycle!lifecycleVars
    OBVIOUS
  <2>1. CASE UNCHANGED tables
    BY <2>1 DEF tables, PhaseOf, Lifecycle!lifecycleVars
  <2>2. ASSUME NEW o \in Orders, Appends(o)
        PROVE  [Lifecycle!LifecycleNext]_Lifecycle!lifecycleVars
    BY <2>2, AppendsSeen, SeenStepIsLifecycleStep
  <2>. QED BY <2>1, <2>2, NextAppends DEF TablesStep
<1>. QED BY <1>1, <1>2, InductiveInvariant, PTL DEF Spec, ImplementsLifecycle, Lifecycle!LifecycleSpec

---------------------------------------------------------------------------
(* Every fill is counted once.                                            *)

FilledBy(o, S) == SumFunctionOnSet([f \in S |-> f.quantity], {f \in S : f.order = o})

\* The rows of table fills are finitely many and add up to what is filled.
FillsStored ==
  /\ IsFiniteSet(fills)
  /\ \A o \in Orders : orders[o].filled = FilledBy(o, fills)

\* A new row counts for its own order and for no other.
LEMMA FillAdded ==
  ASSUME NEW S, IsFiniteSet(S), NEW f, f \notin S,
         \A g \in S \cup {f} : g.quantity \in Nat, NEW o
  PROVE  FilledBy(o, S \cup {f}) = FilledBy(o, S) + (IF f.order = o THEN f.quantity ELSE 0)
<1> DEFINE T == S \cup {f}
           e == [g \in S |-> g.quantity]
           d == [g \in T |-> g.quantity]
           mine == {g \in S : g.order = o}
<1>1. IsFiniteSet(mine) /\ f \notin mine
  BY FS_Subset
<1>2. SumFunctionOnSet(d, mine) = SumFunctionOnSet(e, mine)
  <2>1. \A g \in mine : d[g] = e[g]
    OBVIOUS
  <2> HIDE DEF d, e
  <2>. QED BY <1>1, <2>1, SumAgrees
<1>3. SumFunctionOnSet(e, mine) \in Int
  <2>1. \A g \in mine : e[g] \in Int
    OBVIOUS
  <2> HIDE DEF e, mine
  <2>. QED BY <1>1, <2>1, SumInt
<1>4. CASE f.order = o
  <2>1. {g \in T : g.order = o} = mine \cup {f}
    BY <1>4
  <2>2. d[f] = f.quantity /\ \A g \in mine \cup {f} : d[g] \in Int
    OBVIOUS
  <2> HIDE DEF d, mine
  <2>3. SumFunctionOnSet(d, mine \cup {f}) = SumFunctionOnSet(d, mine) + d[f]
    BY <1>1, <2>2, SumAdd
  <2> USE DEF d, mine
  <2>. QED BY <1>2, <1>4, <2>1, <2>2, <2>3 DEF FilledBy
<1>5. CASE f.order # o
  <2>1. {g \in T : g.order = o} = mine
    BY <1>5
  <2>2. FilledBy(o, T) = SumFunctionOnSet(d, mine) /\ FilledBy(o, S) = SumFunctionOnSet(e, mine)
    BY <2>1 DEF FilledBy
  <2>3. FilledBy(o, T) = FilledBy(o, S) /\ FilledBy(o, S) \in Int
    BY <1>2, <1>3, <2>2
  <2>. QED BY <1>5, <2>3
<1>. QED BY <1>4, <1>5

LEMMA FillsStoredStep ==
  ASSUME TypeOK, FilledWithinQuantity, FillsStored, TablesStep
  PROVE  FillsStored'
<1>t. TablesTyped
  BY DEF TypeOK
<1>1. ASSUME UNCHANGED fills, \A o \in Orders : orders'[o].filled = orders[o].filled
      PROVE  FillsStored'
  BY <1>1 DEF FillsStored
<1>2. CASE UNCHANGED tables
  BY <1>1, <1>2 DEF tables
<1>3. ASSUME NEW o \in Orders, Created(o) PROVE FillsStored'
  <2>1. orders[o].filled = 0
    BY <1>3 DEF Created, FilledWithinQuantity
  <2>. QED BY <1>t, <1>1, <1>3, <2>1 DEF Created, TablesTyped
<1>4. ASSUME NEW o \in Orders, NEW s, UNCHANGED fills,
             orders' = [orders EXCEPT ![o] = Updated(o, s, @.filled)]
      PROVE  FillsStored'
  BY <1>t, <1>1, <1>4 DEF TablesTyped, Updated
<1>5. ASSUME NEW ev, NEW snap, NEW release, ev.order \in Orders, Ordinary(ev, snap, release)
      PROVE  FillsStored'
  BY <1>4, <1>5 DEF Ordinary, Transition
<1>6. ASSUME NEW o \in Orders, NEW snap, NEW s, NEW b, QueueTransition(Event(o, snap, s, b), snap)
      PROVE  FillsStored'
  BY <1>4, <1>6 DEF QueueTransition, Event
<1>7. ASSUME NEW o \in Orders, NEW snap, NEW f \in [quantity : Nat, price : Nat], NEW ev,
             ev.order = o, FillTransition(ev, snap, f)
      PROVE  FillsStored'
  <2> DEFINE row == FillRow(o, f)
  <2>1. row \notin fills /\ fills' = fills \cup {row}
    BY <1>7 DEF FillTransition
  <2>2. row.order = o /\ row.quantity = f.quantity /\ f.quantity \in Nat
    BY DEF FillRow
  <2>3. IsFiniteSet(fills) /\ \A g \in fills \cup {row} : g.quantity \in Nat
    BY <1>t, <2>2 DEF FillsStored, TablesTyped
  <2>4. IsFiniteSet(fills')
    BY <2>1, <2>3, FS_AddElement
  <2>5. orders'[o].filled = orders[o].filled + f.quantity
    BY <1>t, <1>7 DEF FillTransition, Updated, TablesTyped
  <2>6. \A p \in Orders : p # o => orders'[p].filled = orders[p].filled
    BY <1>t, <1>7 DEF FillTransition, TablesTyped
  <2>7. ASSUME NEW p \in Orders PROVE orders'[p].filled = FilledBy(p, fills')
    <3>1. FilledBy(p, fills') = FilledBy(p, fills) + (IF o = p THEN f.quantity ELSE 0)
      <4> HIDE DEF row
      <4>. QED BY <2>1, <2>2, <2>3, FillAdded
    <3>2. orders[p].filled = FilledBy(p, fills) /\ orders[p].filled \in Nat
      BY <1>t DEF FillsStored, TablesTyped, OrderRow
    <3>. QED BY <2>5, <2>6, <3>1, <3>2
  <2>. QED BY <2>4, <2>7 DEF FillsStored
<1>8. ASSUME NEW o \in Orders, Delivered(o) PROVE FillsStored'
  BY <1>1, <1>8 DEF Delivered
<1>9. ASSUME NEW o \in Orders, Appends(o) PROVE FillsStored'
  <2>1. CASE \E ev, snap, release : ev.order = o /\ Ordinary(ev, snap, release)
    BY <1>5, <2>1
  <2>2. \A snap, f : Event(o, snap, Following(o, snap, f), <<"fill", f>>).order = o
    BY DEF Event
  <2>. QED BY <1>3, <1>6, <1>7, <1>8, <1>9, <2>1, <2>2 DEF Appends
<1>. QED BY <1>2, <1>9 DEF TablesStep

---------------------------------------------------------------------------
(* Reservations.                                                          *)

\* A recovery that closes an order leaves its reservation; nothing follows it.
RecoveredClosed(o) == ClosedByRecovery(o) /\ orders[o].state \in TERMINAL_STATES

Fits(o) ==
  /\ (reservations[o].status = "active") <=> (orders[o].state \notin TERMINAL_STATES)
  /\ reservations[o].quantity =
       IF reservations[o].status = "active" THEN Quantity[o] - orders[o].filled ELSE 0

\* As ReservationFollowsOrder, and also after a recovery that leaves the order open;
\* an order that was not queued has no fills.
ReservationsFit ==
  \A o \in Orders : /\ outbox[o] = "none" => orders[o].filled = 0
                    /\ outbox[o] # "none" /\ ~RecoveredClosed(o) => Fits(o)

LEMMA TerminalIsFinal ==
  ASSUME NEW s \in TERMINAL_STATES, NEW t
  PROVE  ~validate_transition(s, t)
BY DEF validate_transition, ALLOWED_TRANSITIONS, TERMINAL_STATES

\* Events of other orders do not matter to an order.
LEMMA OthersRecovered ==
  ASSUME NEW o, NEW ev, ev.order # o, events' = events \cup {ev}, orders'[o] = orders[o]
  PROVE  RecoveredClosed(o)' <=> RecoveredClosed(o)
BY DEF RecoveredClosed, ClosedByRecovery

\* A transition that appends ev as an order's last event.
LEMMA TransitionFits ==
  ASSUME TypeOK, QueuedStates, QueuedTables, FilledWithinQuantity, ReservationsFit,
         NEW ev, NEW snap, NEW release, ev.order \in Orders, Ordinary(ev, snap, release)
  PROVE  ReservationsFit'
<1> DEFINE o == ev.order
<1>t. TablesTyped
  BY DEF TypeOK
<1>1. /\ validate_transition(orders[o].state, ev.state)
      /\ ev.sequence = orders[o].sequence + 1
      /\ events' = events \cup {ev}
      /\ UNCHANGED <<fills, outbox>>
      /\ Releases(ev.state, ev.business, ev.sequence, release)
      /\ ev.state \in OMSState \ {"SubmitPending"}
  BY DEF Ordinary, Transition, Acceptable
<1>2. /\ orders'[o].state = ev.state
      /\ orders'[o].filled = orders[o].filled
      /\ orders'[o].sequence = ev.sequence
      /\ \A p \in Orders : p # o => orders'[p] = orders[p]
  BY <1>t, <1>1 DEF Ordinary, Transition, Updated, TablesTyped
<1>3. \A p \in Orders : reservations'[p] =
         IF p = o /\ release /\ reservations[o].status = "active" THEN Released
         ELSE reservations[p]
  BY <1>t DEF Ordinary, Transition, TablesTyped
<1>4. orders[o].state \notin TERMINAL_STATES
  BY <1>1, TerminalIsFinal
<1>5. outbox[o] # "none" => Fits(o)
  BY <1>4 DEF ReservationsFit, RecoveredClosed
<1>6. ASSUME outbox[o] # "none", ~RecoveredClosed(o)' PROVE Fits(o)'
  <2>1. ev.state # "RiskRejected"
    <3>1. orders[o].state \notin Vetting
      BY <1>6 DEF QueuedStates, Vetting
    <3>. QED BY <1>1, <3>1, VettingMoves DEF Vetting
  <2>2. ev.state \in TERMINAL_STATES => ev.business # <<"manual_recovery", ev.sequence>>
    <3> SUFFICES ASSUME ev.state \in TERMINAL_STATES,
                        ev.business = <<"manual_recovery", ev.sequence>>
                 PROVE  FALSE
      OBVIOUS
    <3>1. ev \in events' /\ ev.sequence = orders'[o].sequence
      BY <1>1, <1>2
    <3>. QED BY <1>2, <1>6, <3>1 DEF RecoveredClosed, ClosedByRecovery
  <2>3. release <=> ev.state \in TERMINAL_STATES
    BY <1>1, <2>1, <2>2 DEF Releases
  <2>4. reservations[o].status = "active" /\ reservations[o].quantity = Quantity[o] - orders[o].filled
    BY <1>4, <1>5, <1>6 DEF Fits
  <2>5. CASE release
    <3>1. reservations'[o] = Released
      BY <1>3, <2>4, <2>5
    <3>. QED BY <1>2, <2>3, <2>5, <3>1 DEF Fits, Released
  <2>6. CASE ~release
    <3>1. reservations'[o] = reservations[o]
      BY <1>3, <2>6
    <3>. QED BY <1>2, <2>3, <2>4, <2>6, <3>1 DEF Fits
  <2>. QED BY <1>1, <2>5, <2>6 DEF Releases
<1>7. ASSUME NEW p \in Orders
      PROVE  /\ outbox'[p] = "none" => orders'[p].filled = 0
             /\ outbox'[p] # "none" /\ ~RecoveredClosed(p)' => Fits(p)'
  <2>1. outbox'[p] = "none" => orders'[p].filled = 0
    BY <1>1, <1>2 DEF ReservationsFit
  <2>2. CASE p = o
    BY <1>1, <1>6, <2>1, <2>2
  <2>3. CASE p # o
    <3>1. RecoveredClosed(p)' <=> RecoveredClosed(p)
      BY <1>1, <1>2, <2>3, OthersRecovered
    <3>2. Fits(p)' <=> Fits(p)
      BY <1>2, <1>3, <2>3 DEF Fits
    <3>. QED BY <1>1, <2>1, <3>1, <3>2 DEF ReservationsFit
  <2>. QED BY <2>2, <2>3
<1>. QED BY <1>7 DEF ReservationsFit

\* So does the one that queues the order.
LEMMA QueueFits ==
  ASSUME TypeOK, QueuedStates, QueuedTables, ReservationsFit, NEW o \in Orders, NEW snap,
         QueueTransition(Event(o, snap, "SubmitPending", <<"step", "submit_pending">>), snap)
  PROVE  ReservationsFit'
<1> DEFINE ev == Event(o, snap, "SubmitPending", <<"step", "submit_pending">>)
<1>t. TablesTyped
  BY DEF TypeOK
<1>e. ev.order = o /\ ev.state = "SubmitPending"
  BY DEF Event
<1>1. outbox[o] = "none" /\ orders[o].filled = 0 /\ events' = events \cup {ev}
  BY <1>e DEF QueueTransition, QueueAcceptable, ReservationsFit
<1>2. orders' = [orders EXCEPT ![o] = Updated(o, "SubmitPending", @.filled)]
  BY <1>e DEF QueueTransition
<1>3. /\ orders'[o].state = "SubmitPending" /\ orders'[o].filled = 0
      /\ \A p \in Orders : p # o => orders'[p] = orders[p]
  BY <1>t, <1>1, <1>2 DEF Updated, TablesTyped
<1>4. /\ outbox'[o] = "pending"
      /\ \A p \in Orders : p # o => outbox'[p] = outbox[p]
  BY <1>t, <1>e DEF QueueTransition, TablesTyped
<1>5. /\ reservations'[o].status = "active" /\ reservations'[o].quantity = Quantity[o]
      /\ \A p \in Orders : p # o => reservations'[p] = reservations[p]
  BY <1>t, <1>e DEF QueueTransition, TablesTyped
<1>6. Fits(o)'
  <2>1. "SubmitPending" \notin TERMINAL_STATES /\ Quantity[o] \in Nat
    BY OrdersAssumption DEF TERMINAL_STATES
  <2>. QED BY <1>3, <1>5, <2>1 DEF Fits
<1>7. ASSUME NEW p \in Orders, p # o
      PROVE  (RecoveredClosed(p)' <=> RecoveredClosed(p)) /\ (Fits(p)' <=> Fits(p))
  <2>1. RecoveredClosed(p)' <=> RecoveredClosed(p)
    <3> HIDE DEF ev
    <3>. QED BY <1>e, <1>1, <1>3, <1>7, OthersRecovered
  <2>. QED BY <1>3, <1>5, <1>7, <2>1 DEF Fits
<1>8. ASSUME NEW p \in Orders
      PROVE  /\ outbox'[p] = "none" => orders'[p].filled = 0
             /\ outbox'[p] # "none" /\ ~RecoveredClosed(p)' => Fits(p)'
  <2>1. CASE p = o
    BY <1>3, <1>4, <1>6, <2>1
  <2>2. CASE p # o
    BY <1>3, <1>4, <1>7, <2>2 DEF ReservationsFit
  <2>. QED BY <2>1, <2>2
<1>. QED BY <1>8 DEF ReservationsFit

\* And so does a fill: it can only reach an open order.
LEMMA FillFits ==
  ASSUME TypeOK, QueuedStates, ReservationsFit, NEW o \in Orders, NEW snap,
         NEW f \in [quantity : Nat, price : Nat],
         snap.version = orders[o].version => snap = orders[o],
         FillTransition(Event(o, snap, Following(o, snap, f), <<"fill", f>>), snap, f)
  PROVE  ReservationsFit'
<1> DEFINE ev == Event(o, snap, Following(o, snap, f), <<"fill", f>>)
           filled == orders[o].filled + f.quantity
<1>t. TablesTyped
  BY DEF TypeOK
<1>e. ev.order = o /\ ev.state = Following(o, snap, f)
  BY DEF Event
<1>q. /\ Quantity[o] \in Nat \ {0} /\ orders[o].filled \in Nat /\ f.quantity \in Nat
      /\ filled <= Quantity[o]
  BY <1>t, <1>e, OrdersAssumption DEF TablesTyped, OrderRow, FillTransition, FillAcceptable
<1>1. /\ validate_transition(orders[o].state, ev.state)
      /\ snap = orders[o]
      /\ events' = events \cup {ev}
      /\ UNCHANGED outbox
  BY <1>e DEF FillTransition, FillAcceptable, Acceptable
<1>2. ev.state = IF filled = Quantity[o] THEN "Filled" ELSE "PartiallyFilled"
  BY <1>1, <1>e DEF Following
<1>3. orders[o].state \notin Vetting /\ orders[o].state \notin TERMINAL_STATES
  <2>1. ev.state \in OMSState \ {"SubmitPending"} /\ ev.state \notin Vetting
    BY <1>2 DEF OMSState, Vetting
  <2> HIDE DEF ev
  <2>. QED BY <1>1, <2>1, VettingMoves, TerminalIsFinal
<1>4. outbox[o] # "none"
  BY <1>3 DEF QueuedStates, Vetting
<1>5. reservations[o].status = "active" /\ reservations[o].quantity = Quantity[o] - orders[o].filled
  BY <1>3, <1>4 DEF ReservationsFit, RecoveredClosed, Fits
<1>6. orders' = [orders EXCEPT ![o] = Updated(o, ev.state, filled)]
  BY <1>e DEF FillTransition
<1>7. /\ orders'[o].state = ev.state /\ orders'[o].filled = filled
      /\ \A p \in Orders : p # o => orders'[p] = orders[p]
  BY <1>t, <1>6 DEF Updated, TablesTyped
<1>8. reservations' = [reservations EXCEPT ![o] = Reduced(o, filled)]
  BY <1>5, <1>e DEF FillTransition
<1>9. /\ reservations'[o] = Reduced(o, filled)
      /\ \A p \in Orders : p # o => reservations'[p] = reservations[p]
  BY <1>t, <1>8 DEF TablesTyped
<1>10. /\ Reduced(o, filled).status = IF Quantity[o] = filled THEN "released" ELSE "active"
       /\ Reduced(o, filled).quantity = Quantity[o] - filled
  BY <1>q, <1>5 DEF Reduced
<1>11. Fits(o)'
  <2>1. ev.state \in TERMINAL_STATES <=> filled = Quantity[o]
    BY <1>2 DEF TERMINAL_STATES
  <2> HIDE DEF ev, filled
  <2>2. filled \in Nat
    BY <1>q DEF filled
  <2>. QED BY <1>q, <1>7, <1>9, <1>10, <2>1, <2>2 DEF Fits
<1>12. ASSUME NEW p \in Orders, p # o
       PROVE  (RecoveredClosed(p)' <=> RecoveredClosed(p)) /\ (Fits(p)' <=> Fits(p))
  <2>1. RecoveredClosed(p)' <=> RecoveredClosed(p)
    <3> HIDE DEF ev
    <3>. QED BY <1>e, <1>1, <1>7, <1>12, OthersRecovered
  <2>. QED BY <1>7, <1>9, <1>12, <2>1 DEF Fits
<1>13. ASSUME NEW p \in Orders
       PROVE  /\ outbox'[p] = "none" => orders'[p].filled = 0
              /\ outbox'[p] # "none" /\ ~RecoveredClosed(p)' => Fits(p)'
  <2>1. CASE p = o
    BY <1>1, <1>4, <1>11, <2>1
  <2>2. CASE p # o
    BY <1>1, <1>7, <1>12, <2>2 DEF ReservationsFit
  <2>. QED BY <2>1, <2>2
<1>. QED BY <1>13 DEF ReservationsFit

LEMMA ReservationsFitStep ==
  ASSUME TypeOK, QueuedStates, QueuedTables, FilledWithinQuantity, ReservationsFit, TablesStep
  PROVE  ReservationsFit'
<1>t. TablesTyped
  BY DEF TypeOK
<1>1. CASE UNCHANGED tables
  BY <1>1 DEF tables, ReservationsFit, Fits, RecoveredClosed, ClosedByRecovery
<1>2. ASSUME NEW o \in Orders, Created(o) PROVE ReservationsFit'
  <2> DEFINE ev == Event(o, Absent, "Created", <<"step", "created">>)
  <2>1. /\ ev.order = o /\ events' = events \cup {ev}
        /\ UNCHANGED <<outbox, reservations>>
        /\ orders'[o].filled = 0
        /\ \A p \in Orders : p # o => orders'[p] = orders[p]
    BY <1>t, <1>2 DEF Created, Event, TablesTyped
  <2>2. outbox[o] = "none"
    BY <1>2 DEF Created, QueuedStates
  <2>3. \A p \in Orders : p # o => (RecoveredClosed(p)' <=> RecoveredClosed(p))
    <3> HIDE DEF ev
    <3>. QED BY <2>1, OthersRecovered
  <2>4. \A p \in Orders : p # o => (Fits(p)' <=> Fits(p))
    BY <2>1 DEF Fits
  <2>. QED BY <2>1, <2>2, <2>3, <2>4 DEF ReservationsFit
<1>3. ASSUME NEW o \in Orders, Delivered(o) PROVE ReservationsFit'
  BY <1>t, <1>3 DEF Delivered, ReservationsFit, Fits, RecoveredClosed, ClosedByRecovery, TablesTyped
<1>4. ASSUME NEW o \in Orders, Appends(o) PROVE ReservationsFit'
  <2>1. CASE \E ev, snap, release : ev.order = o /\ Ordinary(ev, snap, release)
    BY <2>1, TransitionFits
  <2>. QED BY <1>2, <1>3, <1>4, <2>1, QueueFits, FillFits DEF Appends
<1>. QED BY <1>1, <1>4 DEF TablesStep

---------------------------------------------------------------------------
(* Deliveries.                                                            *)

\* The states before delivery.  An order in one of them has never been past them:
\* Replaced leads back to SubmitPending in ALLOWED_TRANSITIONS, but that event is
\* written once per order.
Undelivered == {"Absent", "Created", "RiskPending", "RiskApproved", "SubmitPending"}

EventsUndelivered ==
  \A o \in Orders : orders[o].state \in Undelivered =>
    \A e \in events : e.order = o => e.state \in Undelivered

LEMMA UndeliveredMoves ==
  ASSUME NEW s, NEW t \in OMSState \ {"SubmitPending"}, validate_transition(s, t),
         t \in Undelivered
  PROVE  s \in Undelivered
BY DEF validate_transition, ALLOWED_TRANSITIONS, Undelivered

LEMMA QueueingLeavesRiskApproved ==
  ASSUME NEW s \in Vetting, validate_transition(s, "SubmitPending")
  PROVE  s = "RiskApproved"
BY DEF validate_transition, ALLOWED_TRANSITIONS, Vetting

LEMMA EventsUndeliveredStep ==
  ASSUME TypeOK, QueuedStates, EventsUndelivered, TablesStep
  PROVE  EventsUndelivered'
<1>t. TablesTyped
  BY DEF TypeOK
<1>1. CASE UNCHANGED tables
  BY <1>1 DEF tables, EventsUndelivered
<1>2. ASSUME NEW o \in Orders, NEW ev, ev.order = o, events' = events \cup {ev},
             orders'[o].state = ev.state, \A p \in Orders : p # o => orders'[p] = orders[p],
             ev.state \in Undelivered => orders[o].state \in Undelivered
      PROVE  EventsUndelivered'
  BY <1>2 DEF EventsUndelivered
<1>3. ASSUME NEW o \in Orders, Created(o) PROVE EventsUndelivered'
  <2> DEFINE ev == Event(o, Absent, "Created", <<"step", "created">>)
  <2>1. ev.order = o /\ ev.state = "Created" /\ events' = events \cup {ev}
    BY <1>3 DEF Event, Created
  <2>2. orders'[o].state = "Created" /\ \A p \in Orders : p # o => orders'[p] = orders[p]
    BY <1>t, <1>3 DEF Created, TablesTyped
  <2>3. orders[o].state \in Undelivered
    BY <1>3 DEF Created, Undelivered
  <2> HIDE DEF ev
  <2>. QED BY <1>2, <2>1, <2>2, <2>3
<1>4. ASSUME NEW ev, NEW snap, NEW release, ev.order \in Orders, Ordinary(ev, snap, release)
      PROVE  EventsUndelivered'
  <2>1. /\ validate_transition(orders[ev.order].state, ev.state)
        /\ events' = events \cup {ev}
        /\ ev.state \in OMSState \ {"SubmitPending"}
    BY <1>4 DEF Ordinary, Transition, Acceptable
  <2>2. /\ orders'[ev.order].state = ev.state
        /\ \A p \in Orders : p # ev.order => orders'[p] = orders[p]
    BY <1>t, <1>4 DEF Ordinary, Transition, Updated, TablesTyped
  <2>. QED BY <1>2, <1>4, <2>1, <2>2, UndeliveredMoves
<1>5. ASSUME NEW o \in Orders, NEW snap,
             QueueTransition(Event(o, snap, "SubmitPending", <<"step", "submit_pending">>), snap)
      PROVE  EventsUndelivered'
  <2> DEFINE ev == Event(o, snap, "SubmitPending", <<"step", "submit_pending">>)
  <2>1. ev.order = o /\ ev.state = "SubmitPending" /\ events' = events \cup {ev}
    BY <1>5 DEF Event, QueueTransition
  <2>2. /\ orders'[o].state = "SubmitPending"
        /\ \A p \in Orders : p # o => orders'[p] = orders[p]
    BY <1>t, <1>5, <2>1 DEF QueueTransition, Updated, TablesTyped
  <2>3. outbox[o] = "none" /\ validate_transition(orders[o].state, "SubmitPending")
    BY <1>5, <2>1 DEF QueueTransition, QueueAcceptable, Acceptable
  <2>4. orders[o].state \in Vetting
    BY <2>3 DEF QueuedStates, Vetting
  <2>5. orders[o].state \in Undelivered
    BY <2>3, <2>4, QueueingLeavesRiskApproved DEF Undelivered
  <2> HIDE DEF ev
  <2>. QED BY <1>2, <2>1, <2>2, <2>5
<1>6. ASSUME NEW o \in Orders, NEW snap, NEW f,
             FillTransition(Event(o, snap, Following(o, snap, f), <<"fill", f>>), snap, f)
      PROVE  EventsUndelivered'
  <2> DEFINE ev == Event(o, snap, Following(o, snap, f), <<"fill", f>>)
  <2>1. ev.order = o /\ ev.state \in {"Filled", "PartiallyFilled"} /\ events' = events \cup {ev}
    BY <1>6 DEF Event, Following, FillTransition
  <2>2. orders'[o].state = ev.state /\ \A p \in Orders : p # o => orders'[p] = orders[p]
    BY <1>t, <1>6, <2>1 DEF FillTransition, Updated, TablesTyped
  <2>3. ev.state \notin Undelivered
    BY <2>1 DEF Undelivered
  <2> HIDE DEF ev
  <2>. QED BY <1>2, <2>1, <2>2, <2>3
<1>7. ASSUME NEW o \in Orders, Delivered(o) PROVE EventsUndelivered'
  BY <1>7 DEF Delivered, EventsUndelivered
<1>8. ASSUME NEW o \in Orders, Appends(o) PROVE EventsUndelivered'
  <2>1. CASE \E ev, snap, release : ev.order = o /\ Ordinary(ev, snap, release)
    BY <1>4, <2>1
  <2>. QED BY <1>3, <1>5, <1>6, <1>7, <1>8, <2>1 DEF Appends
<1>. QED BY <1>1, <1>8 DEF TablesStep

\* Once queued and past SubmitPending, an order stays past it.
Past(o) == outbox[o] # "none" /\ orders[o].state # "SubmitPending"

LEMMA PastStays ==
  ASSUME TypeOK, QueuedTables, QueuedStates, TablesStep, NEW p \in Orders, Past(p)
  PROVE  Past(p)'
<1>t. TablesTyped /\ orders[p].state # "Absent"
  BY DEF TypeOK, Past, QueuedStates
<1>1. outbox'[p] # "none"
  BY QueuedStep DEF Past
<1>2. CASE UNCHANGED tables
  BY <1>2 DEF tables, Past
<1>3. ASSUME NEW o \in Orders, Appends(o) PROVE orders'[p].state # "SubmitPending"
  <2>1. CASE Created(o)
    BY <1>t, <2>1 DEF Created, Past, TablesTyped
  <2>2. ASSUME NEW ev, NEW snap, NEW release, ev.order = o, Ordinary(ev, snap, release)
        PROVE  orders'[p].state # "SubmitPending"
    BY <1>t, <1>3, <2>2 DEF Ordinary, Transition, Updated, Past, TablesTyped
  <2>3. ASSUME NEW snap,
               QueueTransition(Event(o, snap, "SubmitPending", <<"step", "submit_pending">>), snap)
        PROVE  orders'[p].state # "SubmitPending"
    BY <1>t, <2>3 DEF QueueTransition, QueueAcceptable, Event, Past, TablesTyped
  <2>4. ASSUME NEW snap, NEW f,
               FillTransition(Event(o, snap, Following(o, snap, f), <<"fill", f>>), snap, f)
        PROVE  orders'[p].state # "SubmitPending"
    BY <1>t, <2>4 DEF FillTransition, Following, Event, Updated, Past, TablesTyped
  <2>5. CASE Delivered(o)
    BY <2>5 DEF Delivered, Past
  <2>. QED BY <1>3, <2>1, <2>2, <2>3, <2>4, <2>5 DEF Appends
<1>. QED BY <1>1, <1>2, <1>3 DEF TablesStep, Past

LEMMA FillsGrow == ASSUME TablesStep PROVE fills \subseteq fills'
<1>1. CASE UNCHANGED tables
  BY <1>1 DEF tables
<1>2. ASSUME NEW o \in Orders, Appends(o) PROVE fills \subseteq fills'
  <2>1. ASSUME NEW ev, NEW snap, NEW release, Ordinary(ev, snap, release)
        PROVE  UNCHANGED fills
    BY <2>1 DEF Ordinary, Transition
  <2>2. ASSUME NEW ev, NEW snap, QueueTransition(ev, snap) PROVE UNCHANGED fills
    BY <2>2 DEF QueueTransition
  <2>3. ASSUME NEW ev, NEW snap, NEW f, FillTransition(ev, snap, f) PROVE fills \subseteq fills'
    BY <2>3 DEF FillTransition
  <2>. QED BY <1>2, <2>1, <2>2, <2>3 DEF Appends, Created, Delivered
<1>. QED BY <1>1, <1>2 DEF TablesStep

\* A broker answers with at most one fill, and only when it acknowledges.
AnswersSound ==
  \A w \in Workers, o \in Orders :
    /\ responses[w][o].status # "acknowledged" => responses[w][o].fills = {}
    /\ \A f, g \in responses[w][o].fills : f = g

\* The outbox loop of w has come past the answer of the order it handles.
Applied(w) ==
  LET o == worker[w].item IN
  /\ worker[w].pc \notin {"idle", "send"} =>
       worker[w].snap.state = "SubmitPending" \/ orders[o].state # "SubmitPending"
  /\ worker[w].pc \in {"answer", "fill", "mark"} => orders[o].state # "SubmitPending"
  /\ worker[w].pc = "mark" => \A f \in responses[w][o].fills : FillRow(o, f) \in fills

DeliveriesApplied ==
  /\ \A w \in Workers : Applied(w)
  /\ \A o \in Orders : outbox[o] = "delivered" => orders[o].state # "SubmitPending"

DeliveryInv == EventsUndelivered /\ AnswersSound /\ DeliveriesApplied

\* Only a worker's own steps change its broker.
LEMMA BrokersMove ==
  ASSUME [Next]_vars
  PROVE  \/ UNCHANGED responses
         \/ \E v \in Workers : WorkerSend(v) \/ WorkerRestart(v)
<1>1. ASSUME NEW c \in Clients, ClientStep(c) \/ ClientCrash(c) PROVE UNCHANGED responses
  BY <1>1 DEF ClientStep, ClientCrash, QueueLookup, QueueCreate, QueueEvaluate, QueueReadReserved,
              QueueDecide, QueueSubmit, ClientTransition
<1>2. ASSUME NEW p \in Orders, OperatorStep(p) PROVE UNCHANGED responses
  BY <1>2 DEF OperatorStep, request_cancel, request_replace, apply_cancel_result,
              apply_replace_result, recover_unknown, OperatorTransition
<1>3. ASSUME NEW v \in Workers, WorkerStep(v), ~WorkerSend(v) PROVE UNCHANGED responses
  BY <1>3 DEF WorkerStep, WorkerScan, WorkerSubmitted, WorkerReject, WorkerAcknowledge,
              WorkerFill, WorkerMark
<1>. QED BY <1>1, <1>2, <1>3 DEF Next, vars

LEMMA AnswersSoundStep ==
  ASSUME TypeOK, AnswersSound, [Next]_vars
  PROVE  AnswersSound'
<1>r. responses \in [Workers -> [Orders -> BrokerAnswer]] /\ WorkersTyped
  BY DEF TypeOK, BrokersTyped, BrokerAnswer
<1>1. CASE UNCHANGED responses
  BY <1>1 DEF AnswersSound
<1>2. ASSUME NEW v \in Workers, WorkerSend(v) PROVE AnswersSound'
  <2>1. PICK p \in worker[v].batch : BrokerSubmit(v, p)
    BY <1>2 DEF WorkerSend
  <2>2. ASSUME NEW market \in Markets,
               responses' = [responses EXCEPT ![v][p] = BrokerResult(p, market)]
        PROVE  AnswersSound'
    <3>1. /\ BrokerResult(p, market).status # "acknowledged" => BrokerResult(p, market).fills = {}
          /\ \A f, g \in BrokerResult(p, market).fills : f = g
      BY DEF BrokerResult
    <3>2. p \in Orders
      BY <1>r, <2>1 DEF WorkersTyped
    <3>3. \A w \in Workers, o \in Orders :
             responses'[w][o] = IF w = v /\ o = p THEN BrokerResult(p, market)
                                ELSE responses[w][o]
      BY <1>r, <2>2, <3>2
    <3>. QED BY <3>1, <3>3 DEF AnswersSound
  <2>. QED BY <1>1, <2>1, <2>2 DEF BrokerSubmit
<1>3. ASSUME NEW v \in Workers, WorkerRestart(v) PROVE AnswersSound'
  <2>1. \A w \in Workers, o \in Orders :
           responses'[w][o] = IF w = v THEN NoResponse ELSE responses[w][o]
    BY <1>r, <1>3 DEF WorkerRestart
  <2>. QED BY <2>1 DEF AnswersSound, NoResponse
<1>. QED BY <1>1, <1>2, <1>3, BrokersMove

\* Only queue inserts an outbox row, and only WorkerMark marks one.
LEMMA OutboxWriters ==
  ASSUME [Next]_vars
  PROVE  \/ UNCHANGED outbox
         \/ \E c \in Clients : QueueSubmit(c)
         \/ \E w \in Workers : WorkerMark(w)
<1>1. ASSUME NEW ev, NEW snap, NEW release, Transition(ev, snap, release) PROVE UNCHANGED outbox
  BY <1>1 DEF Transition
<1>2. ASSUME NEW c \in Clients, ClientStep(c) \/ ClientCrash(c), ~QueueSubmit(c)
      PROVE  UNCHANGED outbox
  BY <1>1, <1>2 DEF ClientStep, ClientCrash, QueueLookup, QueueCreate, QueueEvaluate,
           QueueReadReserved, QueueDecide, ClientTransition, Redelivered, Refused, tables
<1>3. ASSUME NEW p \in Orders, OperatorStep(p) PROVE UNCHANGED outbox
  BY <1>1, <1>3 DEF OperatorStep, request_cancel, request_replace, apply_cancel_result,
              apply_replace_result, recover_unknown, OperatorTransition
<1>4. ASSUME NEW w \in Workers, WorkerStep(w) \/ WorkerRestart(w), ~WorkerMark(w)
      PROVE  UNCHANGED outbox
  <2>1. CASE WorkerFill(w)
    BY <2>1 DEF WorkerFill, FillTransition, WorkerSkips, tables
  <2>2. CASE WorkerSubmitted(w) \/ WorkerReject(w) \/ WorkerAcknowledge(w)
    BY <1>1, <2>2 DEF WorkerSubmitted, WorkerReject, WorkerAcknowledge, WorkerTransition,
                      WorkerSkips, Redelivered, Refused, tables
  <2>. QED BY <1>4, <2>1, <2>2 DEF WorkerStep, WorkerScan, WorkerSend, WorkerRestart, tables
<1>. QED BY <1>2, <1>3, <1>4 DEF Next, vars

\* So a row is only marked as the row its worker handles.
LEMMA OutboxMoves ==
  ASSUME TypeOK, [Next]_vars, NEW o \in Orders, outbox'[o] = "delivered"
  PROVE  \/ outbox[o] = "delivered"
         \/ \E w \in Workers : worker[w].pc = "mark" /\ worker[w].item = o
<1>t. outbox \in [Orders -> OutboxStatus]
  BY DEF TypeOK, TablesTyped
<1>1. ASSUME NEW c \in Clients, QueueSubmit(c) PROVE outbox[o] = "delivered"
  <2>1. \A ev, snap : QueueTransition(ev, snap) => outbox[o] = "delivered"
    BY <1>t DEF QueueTransition
  <2>. QED BY <1>1, <2>1 DEF QueueSubmit, Redelivered, tables
<1>2. ASSUME NEW w \in Workers, WorkerMark(w)
      PROVE  outbox[o] = "delivered" \/ (worker[w].pc = "mark" /\ worker[w].item = o)
  BY <1>t, <1>2 DEF WorkerMark
<1>. QED BY <1>1, <1>2, OutboxWriters

\* The worker that steps.
LEMMA WorkerApplies ==
  ASSUME Inductive, DeliveryInv, TablesStep, QueuedTables,
         NEW w \in Workers, WorkerStep(w) \/ WorkerRestart(w)
  PROVE  Applied(w)'
<1>t. TypeOK /\ TablesTyped /\ WorkersTyped /\ QueuedStates /\ Applied(w) /\ WorkersHandleQueued
  BY DEF Inductive, TypeOK, DeliveryInv, DeliveriesApplied
<1>p. \A o \in Orders : Past(o) => Past(o)'
  BY <1>t, PastStays
<1>q. worker[w].pc \notin {"idle", "send"} =>
        worker[w].item \in Orders /\ outbox[worker[w].item] # "none"
  BY <1>t DEF WorkersTyped, WorkersHandleQueued
<1>1. CASE WorkerScan(w) \/ WorkerMark(w) \/ WorkerRestart(w)
  <2>1. worker \in [Workers -> WorkerRow]
    BY <1>t DEF WorkersTyped, WorkerRow
  <2>2. ASSUME WorkerScan(w) PROVE worker'[w].pc \in {"idle", "send"}
    BY <2>1, <2>2 DEF WorkerScan, WorkerRow
  <2>3. ASSUME WorkerMark(w) PROVE worker'[w].pc \in {"idle", "send"}
    BY <2>1, <2>3 DEF WorkerMark, IdleWorker
  <2>4. ASSUME WorkerRestart(w) PROVE worker'[w].pc \in {"idle", "send"}
    BY <2>1, <2>4 DEF WorkerRestart, WorkerLeaves, IdleWorker
  <2>5. worker'[w].pc \in {"idle", "send"}
    BY <1>1, <2>2, <2>3, <2>4
  <2>. QED BY <2>5 DEF Applied
<1>2. CASE WorkerSend(w)
  <2>1. worker'[w].pc = "submitted" /\ worker'[w].snap = orders'[worker'[w].item]
    BY <1>t, <1>2 DEF WorkerSend, WorkersTyped, tables
  <2>. QED BY <2>1 DEF Applied
<1>3. ASSUME NEW pc, worker[w].pc \notin {"idle", "send"}, UNCHANGED responses,
             orders'[worker[w].item].state # "SubmitPending",
             WorkerProceeds(w, pc) \/ WorkerSkips(w, pc) \/ WorkerLeaves(w),
             pc = "mark" => \/ WorkerLeaves(w)
                            \/ \A f \in responses[w][worker[w].item].fills :
                                  FillRow(worker[w].item, f) \in fills'
      PROVE  Applied(w)'
  <2>1. CASE WorkerLeaves(w)
    <3>1. worker'[w].pc = "idle"
      BY <1>t, <2>1 DEF WorkerLeaves, WorkersTyped, IdleWorker
    <3>. QED BY <3>1 DEF Applied
  <2>2. CASE ~WorkerLeaves(w)
    <3>1. worker'[w].pc = pc /\ worker'[w].item = worker[w].item
      BY <1>t, <1>3, <2>2 DEF WorkerProceeds, WorkerSkips, WorkersTyped
    <3>. QED BY <1>3, <2>2, <3>1 DEF Applied, FillRow
  <2>. QED BY <2>1, <2>2
<1>4. CASE WorkerSubmitted(w)
  <2> DEFINE o == worker[w].item
             ev == Event(o, worker[w].snap, "Submitted", <<"state", "Submitted">>)
  <2>0. o \in Orders /\ outbox[o] # "none" /\ UNCHANGED responses /\ worker[w].pc = "submitted"
    BY <1>q, <1>4 DEF WorkerSubmitted
  <2>1. CASE WorkerSkips(w, "answer") /\ worker[w].snap.state # "SubmitPending"
    <3>1. Past(o)
      BY <1>t, <2>0, <2>1 DEF Applied, Past
    <3>2. orders'[o].state # "SubmitPending"
      BY <1>p, <2>0, <3>1 DEF Past
    <3>. QED BY <1>3, <2>0, <2>1, <3>2
  <2>2. CASE Transition(ev, worker[w].snap, FALSE) /\ WorkerProceeds(w, "answer")
    <3>1. ev.order = o /\ ev.state = "Submitted"
      BY DEF Event
    <3>2. orders'[o].state = "Submitted"
      BY <1>t, <2>0, <2>2, <3>1 DEF Transition, Updated, TablesTyped
    <3>. QED BY <1>3, <2>0, <2>2, <3>2
  <2>3. CASE Redelivered(ev) /\ WorkerProceeds(w, "answer")
    <3>1. ev \in events /\ ev.order = o /\ ev.state = "Submitted" /\ UNCHANGED orders
      BY <2>3 DEF Event, Redelivered, tables
    <3>2. orders[o].state \notin Undelivered
      BY <2>0, <3>1 DEF DeliveryInv, EventsUndelivered, Undelivered
    <3>3. orders'[o].state # "SubmitPending"
      BY <3>1, <3>2 DEF Undelivered
    <3>. QED BY <1>3, <2>0, <2>3, <3>3
  <2>4. CASE WorkerLeaves(w)
    <3>1. worker'[w].pc = "idle"
      BY <1>t, <2>4 DEF WorkerLeaves, WorkersTyped, IdleWorker
    <3>. QED BY <3>1 DEF Applied
  <2>. QED BY <1>4, <2>1, <2>2, <2>3, <2>4 DEF WorkerSubmitted, WorkerTransition
<1>5. ASSUME worker[w].pc \in {"answer", "fill", "mark"}
      PROVE  orders'[worker[w].item].state # "SubmitPending"
  <2>1. Past(worker[w].item)
    BY <1>t, <1>q, <1>5 DEF Applied, Past
  <2>. QED BY <1>p, <1>q, <1>5, <2>1 DEF Past
<1>6. CASE WorkerReject(w)
  <2>1. /\ worker[w].pc = "answer" /\ UNCHANGED responses
        /\ WorkerProceeds(w, "mark") \/ WorkerSkips(w, "mark") \/ WorkerLeaves(w)
    BY <1>6 DEF WorkerReject, WorkerTransition
  <2>2. responses[w][worker[w].item].fills = {}
    BY <1>q, <1>6, <2>1 DEF WorkerReject, DeliveryInv, AnswersSound
  <2>. QED BY <1>3, <1>5, <2>1, <2>2
<1>7. CASE WorkerAcknowledge(w)
  <2>1. /\ worker[w].pc = "answer" /\ UNCHANGED responses
        /\ WorkerProceeds(w, "fill") \/ WorkerSkips(w, "fill") \/ WorkerLeaves(w)
    BY <1>7 DEF WorkerAcknowledge, WorkerTransition
  <2>. QED BY <1>3, <1>5, <2>1
<1>8. CASE WorkerFill(w)
  <2> DEFINE o == worker[w].item
             Stored == \A f \in responses[w][o].fills : FillRow(o, f) \in fills'
  <2>0. worker[w].pc = "fill" /\ UNCHANGED responses /\ o \in Orders
    BY <1>q, <1>8 DEF WorkerFill
  <2>1. \A f, g \in responses[w][o].fills : f = g
    BY <2>0 DEF DeliveryInv, AnswersSound
  <2>2. CASE responses[w][o].fills = {} /\ WorkerSkips(w, "mark")
    BY <1>3, <1>5, <2>0, <2>2
  <2>3. ASSUME NEW f \in responses[w][o].fills, FillRow(o, f) \in fills', WorkerProceeds(w, "mark")
        PROVE  Applied(w)'
    <3>1. Stored
      BY <2>1, <2>3
    <3>. QED BY <1>3, <1>5, <2>0, <2>3, <3>1
  <2>4. CASE WorkerLeaves(w)
    BY <1>3, <1>5, <2>0, <2>4
  <2>5. ASSUME NEW f \in responses[w][o].fills,
               FillTransition(Event(o, worker[w].snap, Following(o, worker[w].snap, f),
                                    <<"fill", f>>), worker[w].snap, f)
        PROVE  FillRow(o, f) \in fills'
    BY <2>5 DEF FillTransition, Event
  <2>. QED BY <1>8, <2>2, <2>3, <2>4, <2>5 DEF WorkerFill, tables
<1>. QED BY <1>1, <1>2, <1>4, <1>6, <1>7, <1>8 DEF WorkerStep

LEMMA DeliveryStep ==
  ASSUME Inductive, DeliveryInv, [Next]_vars
  PROVE  DeliveryInv'
<1>1. /\ TypeOK /\ TablesTyped /\ WorkersTyped /\ TablesStep
      /\ QueuedTables /\ QueuedStates /\ WorkersHandleQueued
  BY NextAppends, QueuedTogetherParts DEF Inductive, TypeOK
<1>2. EventsUndelivered' /\ AnswersSound'
  BY <1>1, EventsUndeliveredStep, AnswersSoundStep DEF DeliveryInv
<1>3. \A o \in Orders : Past(o) => Past(o)'
  BY <1>1, PastStays
<1>4. ASSUME NEW w \in Workers, worker'[w] = worker[w], responses'[w] = responses[w]
      PROVE  Applied(w)'
  <2>1. worker[w].pc \notin {"idle", "send"} =>
          worker[w].item \in Orders /\ outbox[worker[w].item] # "none"
    BY <1>1 DEF WorkersTyped, WorkersHandleQueued
  <2>2. Applied(w) /\ fills \subseteq fills'
    BY <1>1, FillsGrow DEF DeliveryInv, DeliveriesApplied
  <2>. QED BY <1>3, <1>4, <2>1, <2>2 DEF Applied, Past, FillRow
<1>5. ASSUME NEW v \in Workers, WorkerStep(v) \/ WorkerRestart(v), NEW w \in Workers
      PROVE  Applied(w)'
  <2>1. CASE w = v
    BY <1>1, <1>5, <2>1, WorkerApplies
  <2>2. CASE w # v
    <3>1. worker'[w] = worker[w]
      BY <1>1, <1>5, <2>2, WorkerMoves
    <3>2. responses'[w] = responses[w]
      <4>1. responses \in [Workers -> [Orders -> BrokerAnswer]]
        BY <1>1 DEF TypeOK, BrokersTyped, BrokerAnswer
      <4>2. CASE WorkerSend(v)
        BY <2>2, <4>1, <4>2 DEF WorkerSend, BrokerSubmit
      <4>3. CASE WorkerRestart(v)
        BY <2>2, <4>1, <4>3 DEF WorkerRestart
      <4>4. CASE WorkerStep(v) /\ ~WorkerSend(v)
        BY <4>4 DEF WorkerStep, WorkerScan, WorkerSubmitted, WorkerReject, WorkerAcknowledge,
                    WorkerFill, WorkerMark
      <4>. QED BY <1>5, <4>2, <4>3, <4>4
    <3>. QED BY <1>4, <3>1, <3>2
  <2>. QED BY <2>1, <2>2
<1>6. \/ UNCHANGED <<worker, responses>>
      \/ \E v \in Workers : WorkerStep(v) \/ WorkerRestart(v)
  <2>1. ASSUME NEW c \in Clients, ClientStep(c) \/ ClientCrash(c)
        PROVE  UNCHANGED <<worker, responses>>
    <3>1. UNCHANGED worker
      BY <1>1, <2>1, ClientMoves
    <3>2. UNCHANGED responses
      BY <2>1 DEF ClientStep, ClientCrash, QueueLookup, QueueCreate, QueueEvaluate,
                  QueueReadReserved, QueueDecide, QueueSubmit, ClientTransition
    <3>. QED BY <3>1, <3>2
  <2>2. ASSUME NEW p \in Orders, OperatorStep(p) PROVE UNCHANGED <<worker, responses>>
    BY <2>2 DEF OperatorStep, request_cancel, request_replace, apply_cancel_result,
                apply_replace_result, recover_unknown, OperatorTransition
  <2>. QED BY <2>1, <2>2 DEF Next, vars
<1>7. \A w \in Workers : Applied(w)'
  BY <1>4, <1>5, <1>6
<1>8. ASSUME NEW o \in Orders, outbox'[o] = "delivered" PROVE orders'[o].state # "SubmitPending"
  <2>1. CASE outbox[o] = "delivered"
    BY <1>3, <2>1 DEF DeliveryInv, DeliveriesApplied, Past
  <2>2. ASSUME NEW w \in Workers, worker[w].pc = "mark", worker[w].item = o
        PROVE  orders'[o].state # "SubmitPending"
    <3>1. Past(o)
      BY <1>1, <2>2 DEF DeliveryInv, DeliveriesApplied, Applied, Past, WorkersHandleQueued
    <3>. QED BY <1>3, <3>1 DEF Past
  <2>. QED BY <1>1, <1>8, <2>1, <2>2, OutboxMoves
<1>. QED BY <1>2, <1>7, <1>8 DEF DeliveryInv, DeliveriesApplied

---------------------------------------------------------------------------
(* Reservations within the account.                                       *)

\* Between reading the totals and queueing, no other client may intervene: see
\* the violation found with two of them.
SingleClient == \A c, d \in Clients : c = d

Row == [status : {"none", "active", "released"}, cash : Nat, quantity : Nat]

ReservationRows == {o \in Orders : reservations[o].status # "none"}

\* The account still has room for an order.
Room(o) ==
  IF Side[o] = "buy"
  THEN Required[o] + reserved_cash <= AvailableCash
  ELSE Quantity[o] + reserved_sell_quantity(Instrument[o]) <= AvailablePosition[Instrument[o]]

\* A client that has been approved has not lost the room it was approved for.
Cleared(c) ==
  \/ client[c].pc = "submit"
  \/ client[c].pc = "decide" /\ client[c].verdict = "RiskApproved"
  => Room(client[c].order)

Within ==
  /\ IsFiniteSet(ReservationRows)
  /\ NoOverReservation
  /\ \A c \in Clients : Cleared(c)

Holding(r) == {o \in Orders : r[o].status # "none"}

CashIn(r) ==
  SumFunctionOnSet([o \in Orders |-> r[o].cash],
                   {o \in Orders : Side[o] = "buy" /\ r[o].status = "active"})

QuantityIn(r, i) ==
  SumFunctionOnSet([o \in Orders |-> r[o].quantity],
                   {o \in Orders : Side[o] = "sell" /\ Instrument[o] = i
                                     /\ r[o].status = "active"})

LEMMA HoldingNat ==
  ASSUME NEW r \in [Orders -> Row], IsFiniteSet(Holding(r))
  PROVE  CashIn(r) \in Nat /\ \A i : QuantityIn(r, i) \in Nat
<1>1. CashIn(r) \in Nat
  <2> DEFINE S == {o \in Orders : Side[o] = "buy" /\ r[o].status = "active"}
             f == [o \in Orders |-> r[o].cash]
  <2>1. IsFiniteSet(S)
    BY FS_Subset DEF Holding
  <2>2. \A o \in S : f[o] \in Nat
    BY DEF Row
  <2> HIDE DEF S, f
  <2>3. SumFunctionOnSet(f, S) \in Nat
    BY <2>1, <2>2, SumNat
  <2>. QED BY <2>3 DEF CashIn, S, f
<1>2. ASSUME NEW i PROVE QuantityIn(r, i) \in Nat
  <2> DEFINE S == {o \in Orders : Side[o] = "sell" /\ Instrument[o] = i
                                    /\ r[o].status = "active"}
             f == [o \in Orders |-> r[o].quantity]
  <2>1. IsFiniteSet(S)
    BY FS_Subset DEF Holding
  <2>2. \A o \in S : f[o] \in Nat
    BY DEF Row
  <2> HIDE DEF S, f
  <2>3. SumFunctionOnSet(f, S) \in Nat
    BY <2>1, <2>2, SumNat
  <2>. QED BY <2>3 DEF QuantityIn, S, f
<1>. QED BY <1>1, <1>2

\* The totals are natural numbers, before a step and after it.
LEMMA ReservedNat ==
  ASSUME TablesTyped, IsFiniteSet(ReservationRows)
  PROVE  reserved_cash \in Nat /\ \A i : reserved_sell_quantity(i) \in Nat
<1>1. reservations \in [Orders -> Row]
  BY DEF TablesTyped, Row
<1>2. Holding(reservations) = ReservationRows
  BY DEF Holding, ReservationRows
<1>3. reserved_cash = CashIn(reservations)
  BY DEF CashIn, reserved_cash
<1>4. \A i : reserved_sell_quantity(i) = QuantityIn(reservations, i)
  BY DEF QuantityIn, reserved_sell_quantity
<1>. QED BY <1>1, <1>2, <1>3, <1>4, HoldingNat

LEMMA ReservedNatAfter ==
  ASSUME TablesTyped', IsFiniteSet(ReservationRows)'
  PROVE  reserved_cash' \in Nat /\ \A i : reserved_sell_quantity(i)' \in Nat
<1>1. reservations' \in [Orders -> Row]
  BY DEF TablesTyped, Row
<1>2. Holding(reservations') = ReservationRows'
  BY DEF Holding, ReservationRows
<1>3. reserved_cash' = CashIn(reservations')
  BY DEF CashIn, reserved_cash
<1>4. \A i : reserved_sell_quantity(i)' = QuantityIn(reservations', i)
  BY DEF QuantityIn, reserved_sell_quantity
<1>. QED BY <1>1, <1>2, <1>3, <1>4, HoldingNat

\* No row is added and none grows.
Shrinks ==
  \A o \in Orders :
    /\ reservations'[o].status = "none" <=> reservations[o].status = "none"
    /\ reservations'[o].status = "active" => reservations[o].status = "active"
    /\ reservations'[o].cash <= reservations[o].cash
    /\ reservations'[o].quantity <= reservations[o].quantity

LEMMA ShrunkTotals ==
  ASSUME TablesTyped, TablesTyped', IsFiniteSet(ReservationRows), Shrinks
  PROVE  /\ ReservationRows' = ReservationRows
         /\ reserved_cash' <= reserved_cash
         /\ \A i : reserved_sell_quantity(i)' <= reserved_sell_quantity(i)
<1>r. reservations \in [Orders -> Row] /\ reservations' \in [Orders -> Row]
  BY DEF TablesTyped, Row
<1>1. ReservationRows' = ReservationRows
  BY DEF ReservationRows, Shrinks
<1>2. reserved_cash' <= reserved_cash
  <2> DEFINE S == {o \in Orders : Side[o] = "buy" /\ reservations[o].status = "active"}
             T == {o \in Orders : Side[o] = "buy" /\ reservations'[o].status = "active"}
             f == [o \in Orders |-> reservations[o].cash]
             e == [o \in Orders |-> reservations'[o].cash]
  <2>1. IsFiniteSet(S) /\ T \subseteq S
    BY <1>r, FS_Subset DEF ReservationRows, Shrinks
  <2>2. (\A o \in S : f[o] \in Nat) /\ \A o \in T : e[o] \in Nat /\ e[o] <= f[o]
    BY <1>r DEF Row, Shrinks
  <2> HIDE DEF S, T, f, e
  <2>3. SumFunctionOnSet(e, T) <= SumFunctionOnSet(f, S)
    BY <2>1, <2>2, SumShrinks
  <2>. QED BY <2>3 DEF reserved_cash, S, T, f, e
<1>3. ASSUME NEW i PROVE reserved_sell_quantity(i)' <= reserved_sell_quantity(i)
  <2> DEFINE S == {o \in Orders : /\ Side[o] = "sell" /\ Instrument[o] = i
                                  /\ reservations[o].status = "active"}
             T == {o \in Orders : /\ Side[o] = "sell" /\ Instrument[o] = i
                                  /\ reservations'[o].status = "active"}
             f == [o \in Orders |-> reservations[o].quantity]
             e == [o \in Orders |-> reservations'[o].quantity]
  <2>1. IsFiniteSet(S) /\ T \subseteq S
    BY <1>r, FS_Subset DEF ReservationRows, Shrinks
  <2>2. (\A o \in S : f[o] \in Nat) /\ \A o \in T : e[o] \in Nat /\ e[o] <= f[o]
    BY <1>r DEF Row, Shrinks
  <2> HIDE DEF S, T, f, e
  <2>3. SumFunctionOnSet(e, T) <= SumFunctionOnSet(f, S)
    BY <2>1, <2>2, SumShrinks
  <2>. QED BY <2>3 DEF reserved_sell_quantity, S, T, f, e
<1>. QED BY <1>1, <1>2, <1>3

\* Scaling by what remains rounds down and never up.
LEMMA Scaled ==
  ASSUME NEW a \in Nat, NEW b \in Nat, NEW q \in Nat \ {0}, b <= q
  PROVE  (a * b) \div q <= a
<1> DEFINE d == (a * b) \div q
<1>1. a * b <= a * q /\ a * b \in Nat
  OBVIOUS
<1>2. d \in Nat /\ q * d <= a * b
  BY <1>1
<1>3. SUFFICES ASSUME d >= a + 1 PROVE FALSE
  BY <1>2
<1>4. q * d >= q * (a + 1)
  BY <1>2, <1>3
<1>5. q * (a + 1) = a * q + q
  OBVIOUS
<1> HIDE DEF d
<1>. QED BY <1>1, <1>2, <1>4, <1>5

\* Only queueing lets a reservation grow.
LEMMA StepShrinks ==
  ASSUME TypeOK, TypeOK', QueuedTables, TablesStep, UNCHANGED outbox \/ \A o \in Orders :
           outbox[o] = "none" => outbox'[o] = "none"
  PROVE  Shrinks
<1>r. reservations \in [Orders -> Row] /\ TablesTyped /\ TablesTyped'
  BY DEF TypeOK, TablesTyped, Row
<1>n. \A o \in Orders : reservations[o].cash \in Nat /\ reservations[o].quantity \in Nat
  BY <1>r DEF Row
<1>1. ASSUME UNCHANGED reservations PROVE Shrinks
  BY <1>n, <1>1 DEF Shrinks
<1>2. ASSUME NEW o \in Orders, reservations[o].status = "active",
             NEW row, reservations' = [reservations EXCEPT ![o] = row],
             row.status # "none", row.cash <= reservations[o].cash,
             row.quantity <= reservations[o].quantity
      PROVE  Shrinks
  <2> SUFFICES ASSUME NEW p \in Orders
               PROVE  /\ reservations'[p].status = "none" <=> reservations[p].status = "none"
                      /\ reservations'[p].status = "active" => reservations[p].status = "active"
                      /\ reservations'[p].cash <= reservations[p].cash
                      /\ reservations'[p].quantity <= reservations[p].quantity
    BY DEF Shrinks
  <2>1. CASE p = o
    <3>1. reservations'[p] = row
      BY <1>r, <1>2, <2>1
    <3>. QED BY <1>2, <2>1, <3>1
  <2>2. CASE p # o
    <3>1. reservations'[p] = reservations[p]
      BY <1>r, <1>2, <2>2
    <3>. QED BY <1>n, <3>1
  <2>. QED BY <2>1, <2>2
<1>3. ASSUME NEW ev, NEW snap, NEW release, ev.order \in Orders, Ordinary(ev, snap, release)
      PROVE  Shrinks
  <2>1. CASE UNCHANGED reservations
    BY <1>1, <2>1
  <2>2. CASE /\ reservations[ev.order].status = "active"
             /\ reservations' = [reservations EXCEPT ![ev.order] = Released]
    <3>1. Released.status # "none" /\ Released.cash = 0 /\ Released.quantity = 0
      BY DEF Released
    <3>2. 0 <= reservations[ev.order].cash /\ 0 <= reservations[ev.order].quantity
      BY <1>n, <1>3
    <3>. QED BY <1>2, <1>3, <2>2, <3>1, <3>2
  <2>. QED BY <1>3, <2>1, <2>2 DEF Ordinary, Transition
<1>4. ASSUME NEW o \in Orders, NEW snap, NEW s, NEW b, QueueTransition(Event(o, snap, s, b), snap)
      PROVE  FALSE
  <2>1. outbox[o] = "none" /\ outbox'[o] = "pending"
    BY <1>r, <1>4 DEF QueueTransition, QueueAcceptable, Event, TablesTyped
  <2>. QED BY <2>1
<1>5. ASSUME NEW o \in Orders, NEW snap, NEW f \in [quantity : Nat, price : Nat], NEW ev,
             ev.order = o, FillTransition(ev, snap, f)
      PROVE  Shrinks
  <2> DEFINE filled == orders[o].filled + f.quantity
  <2>1. CASE UNCHANGED reservations
    BY <1>1, <2>1
  <2>2. CASE /\ reservations[o].status = "active"
             /\ reservations' = [reservations EXCEPT ![o] = Reduced(o, filled)]
    <3>1. /\ Quantity[o] \in Nat \ {0} /\ orders[o].filled \in Nat /\ f.quantity \in Nat
          /\ filled <= Quantity[o]
      BY <1>r, <1>5, OrdersAssumption DEF FillTransition, FillAcceptable, TablesTyped, OrderRow
    <3>2. Quantity[o] - filled \in Nat /\ Quantity[o] - filled <= Quantity[o]
      BY <3>1
    <3>3. (reservations[o].cash * (Quantity[o] - filled)) \div Quantity[o]
            <= reservations[o].cash
      <4> HIDE DEF filled
      <4>. QED BY <1>n, <3>1, <3>2, Scaled
    <3>4. /\ Reduced(o, filled).status # "none"
          /\ Reduced(o, filled).cash
               = (reservations[o].cash * (Quantity[o] - filled)) \div Quantity[o]
          /\ Reduced(o, filled).quantity = IF reservations[o].quantity < Quantity[o] - filled
                                           THEN reservations[o].quantity
                                           ELSE Quantity[o] - filled
      BY DEF Reduced
    <3>5. Reduced(o, filled).quantity <= reservations[o].quantity
      <4> HIDE DEF filled
      <4>. QED BY <1>n, <3>2, <3>4
    <3>. QED BY <1>2, <2>2, <3>3, <3>4, <3>5
  <2>. QED BY <1>5, <2>1, <2>2 DEF FillTransition
<1>6. ASSUME NEW o \in Orders, Appends(o) PROVE Shrinks
  <2>1. CASE \E ev, snap, release : ev.order = o /\ Ordinary(ev, snap, release)
    BY <1>3, <2>1
  <2>2. \A snap, f : Event(o, snap, Following(o, snap, f), <<"fill", f>>).order = o
    BY DEF Event
  <2>. QED BY <1>1, <1>4, <1>5, <1>6, <2>1, <2>2 DEF Appends, Created, Delivered
<1>. QED BY <1>1, <1>6 DEF TablesStep, tables

\* A shrinking step leaves every limit and every room as it was, or better.
LEMMA ShrinkKeeps ==
  ASSUME TablesTyped, TablesTyped', IsFiniteSet(ReservationRows), Shrinks
  PROVE  /\ IsFiniteSet(ReservationRows)'
         /\ NoOverReservation => NoOverReservation'
         /\ \A o \in Orders : Room(o) => Room(o)'
<1>1. /\ ReservationRows' = ReservationRows
      /\ reserved_cash' <= reserved_cash
      /\ \A i : reserved_sell_quantity(i)' <= reserved_sell_quantity(i)
  BY ShrunkTotals
<1>2. reserved_cash \in Nat /\ \A i : reserved_sell_quantity(i) \in Nat
  BY ReservedNat
<1>3. IsFiniteSet(ReservationRows')
  BY <1>1
<1>4. reserved_cash' \in Nat /\ \A i : reserved_sell_quantity(i)' \in Nat
  BY <1>3, ReservedNatAfter
<1>5. \A o \in Orders : /\ Required[o] \in Nat /\ Quantity[o] \in Nat
                        /\ AvailablePosition[Instrument[o]] \in Nat
  BY OrdersAssumption
<1>6. AvailableCash \in Nat
  BY OrdersAssumption
<1>7. \A a, b, c, d \in Nat : a <= b /\ c + b <= d => c + a <= d
  OBVIOUS
<1>8. \A a, b, d \in Nat : a <= b /\ b <= d => a <= d
  OBVIOUS
<1>9. NoOverReservation => NoOverReservation'
  BY <1>1, <1>2, <1>4, <1>5, <1>6, <1>8 DEF NoOverReservation
<1>10. \A o \in Orders : Room(o) => Room(o)'
  <2> SUFFICES ASSUME NEW o \in Orders, Room(o) PROVE Room(o)'
    OBVIOUS
  <2>1. CASE Side[o] = "buy"
    BY <1>1, <1>2, <1>4, <1>5, <1>6, <1>7, <2>1 DEF Room
  <2>2. CASE Side[o] # "buy"
    BY <1>1, <1>2, <1>4, <1>5, <1>7, <2>2 DEF Room
  <2>. QED BY <2>1, <2>2
<1>. QED BY <1>3, <1>9, <1>10

\* Queueing takes the room that was found, and no more.
LEMMA QueueKeeps ==
  ASSUME TablesTyped, TablesTyped', Within, NEW o \in Orders, Room(o), NEW snap, NEW s, NEW b,
         QueueTransition(Event(o, snap, s, b), snap)
  PROVE  IsFiniteSet(ReservationRows)' /\ NoOverReservation'
<1> DEFINE row == [status |-> "active", cash |-> IF Side[o] = "buy" THEN Required[o] ELSE 0,
                   quantity |-> Quantity[o]]
<1>r. reservations \in [Orders -> Row] /\ reservations' \in [Orders -> Row]
  BY DEF TablesTyped, Row
<1>1. reservations[o].status = "none" /\ reservations' = [reservations EXCEPT ![o] = row]
  BY DEF QueueTransition, QueueAcceptable, Event
<1>2. reservations'[o] = row /\ \A p \in Orders : p # o => reservations'[p] = reservations[p]
  BY <1>r, <1>1
<1>3. ReservationRows' = ReservationRows \cup {o}
  BY <1>2 DEF ReservationRows
<1>4. IsFiniteSet(ReservationRows) /\ IsFiniteSet(ReservationRows')
  BY <1>3, FS_AddElement DEF Within
<1>q. Required[o] \in Nat /\ Quantity[o] \in Nat
  BY OrdersAssumption
<1>5. reserved_cash' = reserved_cash + (IF Side[o] = "buy" THEN Required[o] ELSE 0)
  <2> DEFINE S == {p \in Orders : Side[p] = "buy" /\ reservations[p].status = "active"}
             T == {p \in Orders : Side[p] = "buy" /\ reservations'[p].status = "active"}
             f == [p \in Orders |-> reservations[p].cash]
             e == [p \in Orders |-> reservations'[p].cash]
  <2>1. IsFiniteSet(S) /\ o \notin S
    BY <1>r, <1>1, <1>4, FS_Subset DEF ReservationRows
  <2>2. (\A p \in S : e[p] = f[p]) /\ \A p \in S : f[p] \in Int
    BY <1>r, <1>2, <2>1 DEF Row
  <2>3. (\A p \in S \cup {o} : e[p] \in Int) /\ e[o] = row.cash
    BY <1>r, <1>2 DEF Row
  <2>4. T = IF Side[o] = "buy" THEN S \cup {o} ELSE S
    BY <1>2
  <2>5. reserved_cash = SumFunctionOnSet(f, S) /\ reserved_cash' = SumFunctionOnSet(e, T)
    BY DEF reserved_cash
  <2> HIDE DEF S, T, f, e
  <2>6. SumFunctionOnSet(e, S) = SumFunctionOnSet(f, S) /\ SumFunctionOnSet(f, S) \in Int
    BY <2>1, <2>2, SumAgrees, SumInt
  <2>7. CASE Side[o] = "buy"
    <3>1. SumFunctionOnSet(e, S \cup {o}) = SumFunctionOnSet(e, S) + e[o]
      BY <2>1, <2>3, SumAdd
    <3>. QED BY <2>3, <2>4, <2>5, <2>6, <2>7, <3>1
  <2>8. CASE Side[o] # "buy"
    BY <2>4, <2>5, <2>6, <2>8
  <2>. QED BY <2>7, <2>8
<1>6. ASSUME NEW i
      PROVE  reserved_sell_quantity(i)' = reserved_sell_quantity(i)
               + (IF Side[o] = "sell" /\ Instrument[o] = i THEN Quantity[o] ELSE 0)
  <2> DEFINE S == {p \in Orders : /\ Side[p] = "sell" /\ Instrument[p] = i
                                  /\ reservations[p].status = "active"}
             T == {p \in Orders : /\ Side[p] = "sell" /\ Instrument[p] = i
                                  /\ reservations'[p].status = "active"}
             f == [p \in Orders |-> reservations[p].quantity]
             e == [p \in Orders |-> reservations'[p].quantity]
  <2>1. IsFiniteSet(S) /\ o \notin S
    BY <1>r, <1>1, <1>4, FS_Subset DEF ReservationRows
  <2>2. (\A p \in S : e[p] = f[p]) /\ \A p \in S : f[p] \in Int
    BY <1>r, <1>2, <2>1 DEF Row
  <2>3. (\A p \in S \cup {o} : e[p] \in Int) /\ e[o] = Quantity[o]
    BY <1>r, <1>2 DEF Row
  <2>4. T = IF Side[o] = "sell" /\ Instrument[o] = i THEN S \cup {o} ELSE S
    BY <1>2
  <2>5. /\ reserved_sell_quantity(i) = SumFunctionOnSet(f, S)
        /\ reserved_sell_quantity(i)' = SumFunctionOnSet(e, T)
    BY DEF reserved_sell_quantity
  <2> HIDE DEF S, T, f, e
  <2>6. SumFunctionOnSet(e, S) = SumFunctionOnSet(f, S) /\ SumFunctionOnSet(f, S) \in Int
    BY <2>1, <2>2, SumAgrees, SumInt
  <2>7. CASE Side[o] = "sell" /\ Instrument[o] = i
    <3>1. SumFunctionOnSet(e, S \cup {o}) = SumFunctionOnSet(e, S) + e[o]
      BY <2>1, <2>3, SumAdd
    <3>. QED BY <2>3, <2>4, <2>5, <2>6, <2>7, <3>1
  <2>8. CASE ~(Side[o] = "sell" /\ Instrument[o] = i)
    BY <2>4, <2>5, <2>6, <2>8
  <2>. QED BY <2>7, <2>8
<1>7. /\ reserved_cash \in Nat /\ \A i : reserved_sell_quantity(i) \in Nat
      /\ AvailableCash \in Nat
      /\ \A p \in Orders : AvailablePosition[Instrument[p]] \in Nat
  BY <1>4, ReservedNat, OrdersAssumption
<1>8. NoOverReservation
  BY DEF Within
<1>9. reserved_cash' <= AvailableCash
  BY <1>5, <1>7, <1>8, <1>q DEF NoOverReservation, Room
<1>10. ASSUME NEW p \in Orders
       PROVE  reserved_sell_quantity(Instrument[p])' <= AvailablePosition[Instrument[p]]
  <2>1. CASE Side[o] = "sell" /\ Instrument[o] = Instrument[p]
    <3>1. Quantity[o] + reserved_sell_quantity(Instrument[p]) <= AvailablePosition[Instrument[p]]
      BY <2>1 DEF Room
    <3>. QED BY <1>6, <1>7, <1>q, <2>1, <3>1
  <2>2. CASE ~(Side[o] = "sell" /\ Instrument[o] = Instrument[p])
    BY <1>6, <1>7, <1>8, <2>2 DEF NoOverReservation
  <2>. QED BY <2>1, <2>2
<1>. QED BY <1>4, <1>9, <1>10 DEF NoOverReservation

\* The verdict approves only where there is room, and only an approved client goes
\* on to submit.
LEMMA ClearedMoves ==
  ASSUME TypeOK, IsFiniteSet(ReservationRows), NEW c \in Clients, ClientStep(c) \/ ClientCrash(c),
         Cleared(c), \A o \in Orders : Room(o) => Room(o)'
  PROVE  Cleared(c)'
<1>t. ClientsTyped /\ TablesTyped /\ client \in [Clients -> ClientRow]
  BY DEF TypeOK, ClientsTyped, ClientRow
<1>1. ASSUME ClientLeaves(c) PROVE Cleared(c)'
  <2>1. client'[c].pc = "idle"
    BY <1>t, <1>1 DEF ClientLeaves, IdleClient
  <2>. QED BY <2>1 DEF Cleared
<1>2. ASSUME NEW pc \in {"evaluate", "reserve"}, ClientProceeds(c, pc) PROVE Cleared(c)'
  <2>1. client'[c].pc = pc
    BY <1>t, <1>2 DEF ClientProceeds, ClientRow
  <2>. QED BY <1>2, <2>1 DEF Cleared
<1>3. ASSUME NEW o \in Orders, QueueLookup(c, o) PROVE Cleared(c)'
  <2>1. client'[c].pc = "create"
    BY <1>t, <1>3 DEF QueueLookup, ClientRow
  <2>. QED BY <2>1 DEF Cleared
<1>4. CASE QueueReadReserved(c)
  <2> DEFINE o == client[c].order
  <2>1. o \in Orders /\ UNCHANGED reservations
    BY <1>t, <1>4 DEF QueueReadReserved, ClientsTyped, tables
  <2>2. client'[c].order = o /\ client'[c].verdict = RiskVerdict(o)
    BY <1>t, <1>4 DEF QueueReadReserved, ClientRow
  <2>3. /\ reserved_cash \in Nat /\ reserved_sell_quantity(Instrument[o]) \in Nat
        /\ Required[o] \in Nat /\ Quantity[o] \in Nat /\ AvailableCash \in Nat
        /\ AvailablePosition[Instrument[o]] \in Nat
    BY <1>t, <2>1, ReservedNat, OrdersAssumption
  <2>4. RiskVerdict(o) = "RiskApproved" => Room(o)
    <3> HIDE DEF o
    <3>1. CASE Side[o] = "buy"
      BY <2>3, <3>1 DEF RiskVerdict, Room
    <3>2. CASE Side[o] # "buy"
      BY <2>3, <3>2 DEF RiskVerdict, Room
    <3>. QED BY <3>1, <3>2
  <2>5. client'[c].pc = "decide"
    BY <1>t, <1>4 DEF QueueReadReserved, ClientRow
  <2>6. PICK p \in Orders : p = o
    BY <2>1
  <2>7. Room(p) => Room(p)'
    OBVIOUS
  <2>. QED BY <2>2, <2>4, <2>5, <2>6, <2>7 DEF Cleared, Room
<1>5. CASE QueueDecide(c)
  <2>1. ClientLeaves(c) \/ (client[c].verdict = "RiskApproved" /\ ClientProceeds(c, "submit"))
    BY <1>5 DEF QueueDecide, ClientTransition
  <2>2. CASE client[c].verdict = "RiskApproved" /\ ClientProceeds(c, "submit")
    <3>1. client[c].order \in Orders /\ Room(client[c].order)
      BY <1>t, <1>5, <2>2 DEF QueueDecide, ClientsTyped, Cleared
    <3>2. client'[c].order = client[c].order
      BY <1>t, <2>2 DEF ClientProceeds, ClientRow
    <3>. QED BY <3>1, <3>2 DEF Cleared, Room
  <2>. QED BY <1>1, <2>1, <2>2
<1>6. CASE QueueCreate(c) \/ QueueEvaluate(c) \/ QueueSubmit(c) \/ ClientCrash(c)
  BY <1>1, <1>2, <1>6 DEF QueueCreate, QueueEvaluate, QueueSubmit, ClientCrash, ClientTransition
<1>. QED BY <1>3, <1>4, <1>5, <1>6 DEF ClientStep

LEMMA WithinStep ==
  ASSUME SingleClient, Inductive, TypeOK', Within, [Next]_vars
  PROVE  Within'
<1>t. TypeOK /\ TablesTyped /\ TablesTyped' /\ ClientsTyped /\ TablesStep /\ QueuedTables
  BY NextAppends, QueuedTogetherParts DEF Inductive, TypeOK
<1>w. IsFiniteSet(ReservationRows) /\ NoOverReservation /\ \A c \in Clients : Cleared(c)
  BY DEF Within
<1>1. ASSUME Shrinks PROVE Within'
  <2>1. /\ IsFiniteSet(ReservationRows)'
        /\ NoOverReservation'
        /\ \A o \in Orders : Room(o) => Room(o)'
    BY <1>1, <1>t, <1>w, ShrinkKeeps
  <2>2. ASSUME NEW c \in Clients PROVE Cleared(c)'
    <3>1. CASE ClientStep(c) \/ ClientCrash(c)
      BY <1>t, <1>w, <2>1, <3>1, ClearedMoves
    <3>2. CASE UNCHANGED client
      <4>1. client[c].pc # "idle" => client[c].order \in Orders
        BY <1>t DEF ClientsTyped
      <4>2. Cleared(c)
        BY <1>w
      <4>. QED BY <2>1, <3>2, <4>1, <4>2 DEF Cleared, Room
    <3>3. \A w \in Workers : WorkerStep(w) \/ WorkerRestart(w) => UNCHANGED client
      BY <1>t, WorkerMoves
    <3>4. \A o \in Orders : OperatorStep(o) => UNCHANGED client
      BY DEF OperatorStep, request_cancel, request_replace, apply_cancel_result,
             apply_replace_result, recover_unknown, OperatorTransition
    <3>. QED BY <3>1, <3>2, <3>3, <3>4 DEF Next, vars, SingleClient
  <2>. QED BY <2>1, <2>2 DEF Within
<1>2. ASSUME NEW c \in Clients, QueueSubmit(c) PROVE Within'
  <2> DEFINE o == client[c].order
             snap == client[c].snap
  <2>1. o \in Orders /\ Room(o)
    BY <1>2, <1>t, <1>w DEF QueueSubmit, ClientsTyped, Cleared
  <2>2. client'[c].pc = "idle"
    BY <1>2, <1>t DEF QueueSubmit, ClientLeaves, ClientsTyped, IdleClient
  <2>3. \A d \in Clients : Cleared(d)'
    BY <2>2 DEF SingleClient, Cleared
  <2>4. CASE QueueTransition(Event(o, snap, "SubmitPending", <<"step", "submit_pending">>), snap)
    <3> HIDE DEF o, snap
    <3>1. IsFiniteSet(ReservationRows)' /\ NoOverReservation'
      BY <1>t, <2>1, <2>4, QueueKeeps
    <3>. QED BY <2>3, <3>1 DEF Within
  <2>5. CASE UNCHANGED tables
    BY <1>1, <1>t, <2>5, StepShrinks DEF tables
  <2>. QED BY <1>2, <2>4, <2>5 DEF QueueSubmit, Redelivered
<1>3. CASE UNCHANGED outbox
  BY <1>1, <1>3, <1>t, StepShrinks
<1>4. ASSUME NEW w \in Workers, WorkerMark(w) PROVE Within'
  <2>1. outbox' = [outbox EXCEPT ![worker[w].item] = "delivered"]
    BY <1>4 DEF WorkerMark
  <2>2. worker[w].item \in Orders /\ outbox[worker[w].item] # "none"
    BY <1>4 DEF WorkerMark, Inductive, WorkersHandleQueued, TypeOK, WorkersTyped
  <2>3. \A p \in Orders : outbox[p] = "none" => outbox'[p] = "none"
    BY <1>t, <2>1, <2>2 DEF TablesTyped
  <2>. QED BY <1>1, <1>t, <2>3, StepShrinks
<1>. QED BY <1>2, <1>3, <1>4, OutboxWriters

---------------------------------------------------------------------------
(* The invariants.                                                        *)

Accounts == FillsStored /\ ReservationsFit /\ DeliveryInv

LEMMA AccountsInit == Init => Accounts
<1> SUFFICES ASSUME Init PROVE Accounts
  OBVIOUS
<1>1. FillsStored
  <2>1. fills = {} /\ \A o \in Orders : orders[o].filled = 0
    BY DEF Init, Absent
  <2>2. ASSUME NEW o PROVE FilledBy(o, {}) = 0
    <3>1. {f \in {} : f.order = o} = {}
      OBVIOUS
    <3>. QED BY <3>1, SumOfNone DEF FilledBy
  <2>. QED BY <2>1, <2>2, FS_EmptySet DEF FillsStored
<1>2. ReservationsFit
  BY DEF Init, Absent, ReservationsFit
<1>3. DeliveryInv
  BY DEF Init, Absent, IdleWorker, NoResponse, DeliveryInv, EventsUndelivered, AnswersSound,
         DeliveriesApplied, Applied
<1>. QED BY <1>1, <1>2, <1>3 DEF Accounts

LEMMA AccountsStep ==
  ASSUME Inductive, Accounts, [Next]_vars
  PROVE  Accounts'
<1>1. /\ TypeOK /\ QueuedStates /\ FilledWithinQuantity /\ TablesStep /\ QueuedTables
  BY NextAppends, QueuedTogetherParts DEF Inductive
<1>. QED BY <1>1, FillsStoredStep, ReservationsFitStep, DeliveryStep DEF Accounts

THEOREM AccountsInvariant == Spec => [](Inductive /\ Accounts)
<1>1. Init => Inductive /\ Accounts
  BY InductiveInit, AccountsInit
<1>2. Inductive /\ Accounts /\ [Next]_vars => (Inductive /\ Accounts)'
  BY InductiveStep, AccountsStep
<1>. QED BY <1>1, <1>2, PTL DEF Spec

\* filled_quantity is the sum of the stored fills and stays within the order, and
\* Filled means that nothing remains: transition_fill and the UNIQUE fill identity
\* count each fill once, however often and by however many workers it is delivered.
THEOREM FillsTheorem == Spec => []FillsAccountForOrder
<1>1. Inductive /\ Accounts => FillsAccountForOrder
  BY DEF Inductive, Accounts, FillsStored, FilledBy, FilledWithinQuantity, FillsAccountForOrder
<1>. QED BY <1>1, AccountsInvariant, PTL

\* A queued order that no manual recovery has closed holds its reservation exactly
\* while it is open, for exactly the quantity that remains.
THEOREM ReservationTheorem == Spec => []ReservationFollowsOrder
<1>1. Inductive /\ Accounts => ReservationFollowsOrder
  BY DEF Accounts, ReservationsFit, Fits, RecoveredClosed, ReservationFollowsOrder
<1>. QED BY <1>1, AccountsInvariant, PTL

\* A worker that marks a row delivered has stored the fills of its broker's answer,
\* and a delivered order has left SubmitPending, whatever other workers, operators
\* and restarts did in between.
THEOREM DeliveredTheorem == Spec => []DeliveredMeansApplied
<1>1. Inductive /\ Accounts => DeliveredMeansApplied
  <2> SUFFICES ASSUME Inductive, Accounts PROVE DeliveredMeansApplied
    OBVIOUS
  <2>. QED BY DEF Accounts, DeliveryInv, DeliveriesApplied, Applied, DeliveredMeansApplied
<1>. QED BY <1>1, AccountsInvariant, PTL

LEMMA WithinInit == Init => Within
<1> SUFFICES ASSUME Init PROVE Within
  OBVIOUS
<1>1. /\ \A o \in Orders : reservations[o].status = "none"
      /\ ReservationRows = {}
  BY DEF Init, NoReservation, ReservationRows
<1>2. {o \in Orders : Side[o] = "buy" /\ reservations[o].status = "active"} = {}
  BY <1>1
<1>3. reserved_cash = 0
  BY <1>2, SumOfNone DEF reserved_cash
<1>4. ASSUME NEW i PROVE reserved_sell_quantity(i) = 0
  <2>1. {o \in Orders : Side[o] = "sell" /\ Instrument[o] = i
                          /\ reservations[o].status = "active"} = {}
    BY <1>1
  <2>. QED BY <2>1, SumOfNone DEF reserved_sell_quantity
<1>5. NoOverReservation
  BY <1>3, <1>4, OrdersAssumption DEF NoOverReservation
<1>6. \A c \in Clients : Cleared(c)
  BY DEF Init, IdleClient, Cleared
<1>. QED BY <1>1, <1>5, <1>6, FS_EmptySet DEF Within

\* As long as one process at a time runs queue, the reservations never promise more
\* cash, or more of a position, than the account has: fills and terminal states
\* only ever shrink them.  (With two processes RiskVerdict reads totals that are
\* stale by the time the order is queued, and this fails.)
THEOREM ReservationLimit ==
  ASSUME SingleClient
  PROVE  Spec => []NoOverReservation
<1>1. Init => Inductive /\ Within
  BY InductiveInit, WithinInit
<1>2. Inductive /\ Within /\ [Next]_vars => (Inductive /\ Within)'
  <2>1. Inductive /\ [Next]_vars => Inductive' /\ TypeOK'
    BY InductiveStep DEF Inductive
  <2>. QED BY <2>1, WithinStep
<1>3. Inductive /\ Within => NoOverReservation
  BY DEF Within
<1>. QED BY <1>1, <1>2, <1>3, PTL DEF Spec

=============================================================================
