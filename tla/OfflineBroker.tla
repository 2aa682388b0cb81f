---------------------------- MODULE OfflineBroker ----------------------------
(***************************************************************************)
(* The offline broker fixture (brokers/fixture.py): one broker session that *)
(* takes commands and ingests the callbacks of a venue.  Callbacks arrive   *)
(* in any order, any number of times, whole or corrupted.  A refused        *)
(* command and a callback heard before change nothing and are stuttering    *)
(* steps.                                                                   *)
(***************************************************************************)
EXTENDS Naturals, FiniteSets, Functions

CONSTANTS
    Fixtures,       \* [faults, supported]: how a fixture is constructed
    Requests,       \* submit requests [client, key, quantity, lot]
    NewQuantities,  \* quantities a replace may ask for
    Callbacks,      \* events [identity, kind, client, sequence, fill, quantity, state]
    MaxSequence     \* bound: commands that consume a sequence number stop here

Clients == {r.client : r \in Requests}

(* BrokerOrderState *)
OrderStates ==
    {"pending_submit", "acknowledged", "partially_filled", "filled", "cancel_pending",
     "cancelled", "replace_pending", "replaced", "rejected", "expired", "unknown"}

(* A client order id has one idempotency key, and no other id has it. *)
ASSUME RequestAssumption ==
    /\ \A r \in Requests : r.quantity \in Nat \ {0}
    /\ \A r, s \in Requests : r.client = s.client <=> r.key = s.key

ASSUME CallbackAssumption ==
    /\ NewQuantities \subseteq Nat \ {0}
    /\ MaxSequence \in Nat
    /\ \A e \in Callbacks :
        /\ e.kind \in {"order", "fill"}
        /\ e.sequence \in Nat \ {0}
        /\ e.quantity \in Nat \ {0}
        /\ e.kind = "order" => e.state \in OrderStates

VARIABLES
    faults,     \* the injected faults
    supported,  \* the capabilities
    health,     \* state of the session
    kill,       \* kill_new_risk
    placed,     \* orders: client order id -> [quantity, filled, state, last]
    keys,       \* idempotency keys the broker has seen
    heard,      \* the events applied, by business identity
    recorded    \* the fills applied, by fill id

brokerVars == <<faults, supported, health, kill, placed, keys, heard, recorded>>

-----------------------------------------------------------------------------
With(f, k, v) == [x \in DOMAIN f \cup {k} |-> IF x = k THEN v ELSE f[x]]

Identities == {e.identity : e \in heard}

(* The next sequence number of a client order id, known to the broker or not. *)
ExpectedSequence(c) == IF c \in DOMAIN placed THEN placed[c].last + 1 ELSE 1

Advance(c, o) == placed' = With(placed, c, [o EXCEPT !.last = ExpectedSequence(c)])

BrokerInit ==
    /\ \E f \in Fixtures : faults = f.faults /\ supported = f.supported
    /\ health = "disconnected" /\ kill = TRUE
    /\ placed = <<>> /\ keys = {} /\ heard = {} /\ recorded = <<>>

(* A session that has expired is not opened, and the kill switch stays as it is. *)
OpenSession ==
    /\ IF "session_expired" \in faults
         THEN health' = "expired" /\ kill' = kill
         ELSE health' = "healthy" /\ kill' = FALSE
    /\ UNCHANGED <<faults, supported, placed, keys, heard, recorded>>

\* Mutant: closing leaves the kill switch as it is.
EndSessionOnly ==
    /\ health' = "disconnected"
    /\ UNCHANGED <<faults, supported, kill, placed, keys, heard, recorded>>

EndSession ==
    /\ health' = "disconnected" /\ kill' = TRUE
    /\ UNCHANGED <<faults, supported, placed, keys, heard, recorded>>

(* A new order is recorded whether or not its answer is lost. *)
Submit(r) ==
    /\ ~kill /\ health = "healthy"
    /\ "submit" \in supported
    /\ r.key \notin keys
    /\ {"rate_limited", "suspended", "limit_locked"} \cap faults = {}
    /\ r.lot = "common" \/ "odd_lot_rejected" \notin faults
    /\ placed' = With(placed, r.client, [quantity |-> r.quantity, filled |-> 0,
                                         state |-> "acknowledged", last |-> 1])
    /\ keys' = keys \cup {r.key}
    /\ UNCHANGED <<faults, supported, health, kill, heard, recorded>>

(* A command on a known order that is not filled consumes a sequence number. *)
Commandable(c, capability) ==
    /\ capability \in supported
    /\ c \in DOMAIN placed
    /\ placed[c].state # "filled"
    /\ placed[c].last < MaxSequence

Cancel(c) ==
    /\ Commandable(c, "cancel")
    /\ Advance(c, [placed[c] EXCEPT !.state = "cancelled"])
    /\ UNCHANGED <<faults, supported, health, kill, keys, heard, recorded>>

\* Mutant: a replace may leave less than what is filled.
NotBelowFilledUnchecked(c, q) == TRUE

NotBelowFilled(c, q) == q >= placed[c].filled

Replace(c, q) ==
    /\ Commandable(c, "replace")
    /\ NotBelowFilled(c, q)
    /\ Advance(c, [placed[c] EXCEPT !.state = "replaced", !.quantity = q])
    /\ UNCHANGED <<faults, supported, health, kill, keys, heard, recorded>>

-----------------------------------------------------------------------------
(* ingest_event, by what becomes of the event. *)
IngestCorrupted(e) ==
    /\ kill' = TRUE
    /\ UNCHANGED <<faults, supported, health, placed, keys, heard, recorded>>

\* Mutant: an event with a number that has been used is not taken for a gap.
InSequenceOrLate(e) == e.sequence <= ExpectedSequence(e.client)

InSequence(e) == e.sequence = ExpectedSequence(e.client)

IngestGap(e) ==
    /\ e.identity \notin Identities /\ ~InSequence(e)
    /\ kill' = TRUE /\ health' = "degraded"
    /\ UNCHANGED <<faults, supported, placed, keys, heard, recorded>>

IngestUncorrelated(e) ==
    /\ e.identity \notin Identities /\ InSequence(e)
    /\ e.client \notin DOMAIN placed
    /\ kill' = TRUE
    /\ UNCHANGED <<faults, supported, health, placed, keys, heard, recorded>>

Applicable(e) ==
    /\ e.identity \notin Identities /\ InSequence(e)
    /\ e.client \in DOMAIN placed

\* Mutant: a fill that comes again under another identity counts again.
NewFillAlways(e) == TRUE

NewFill(e) == e.fill \notin DOMAIN recorded

Fits(e) == placed[e.client].filled + e.quantity <= placed[e.client].quantity

IngestOverfill(e) ==
    /\ Applicable(e) /\ e.kind = "fill" /\ NewFill(e) /\ ~Fits(e)
    /\ kill' = TRUE
    /\ UNCHANGED <<faults, supported, health, placed, keys, heard, recorded>>

AfterFill(o, quantity) ==
    [o EXCEPT !.filled = @ + quantity,
              !.state = IF o.filled + quantity = o.quantity THEN "filled" ELSE "partially_filled"]

IngestFill(e) ==
    /\ Applicable(e) /\ e.kind = "fill" /\ NewFill(e) /\ Fits(e)
    /\ Advance(e.client, AfterFill(placed[e.client], e.quantity))
    /\ recorded' = With(recorded, e.fill, e)
    /\ heard' = heard \cup {e}
    /\ UNCHANGED <<faults, supported, health, kill, keys>>

IngestOrder(e) ==
    /\ Applicable(e) /\ e.kind = "order"
    /\ Advance(e.client, [placed[e.client] EXCEPT !.state = e.state])
    /\ heard' = heard \cup {e}
    /\ UNCHANGED <<faults, supported, health, kill, keys, recorded>>

IngestEvent(e) ==
    \/ IngestCorrupted(e) \/ IngestGap(e) \/ IngestUncorrelated(e)
    \/ IngestOverfill(e) \/ IngestFill(e) \/ IngestOrder(e)

-----------------------------------------------------------------------------
ForceKillNewRisk ==
    /\ kill' = TRUE /\ health' = "degraded"
    /\ UNCHANGED <<faults, supported, placed, keys, heard, recorded>>

ClearFaultsAndReconnect ==
    /\ faults' = {} /\ kill' = FALSE /\ health' = "healthy"
    /\ UNCHANGED <<supported, placed, keys, heard, recorded>>

BrokerNext ==
    \/ OpenSession \/ EndSession
    \/ \E r \in Requests : Submit(r)
    \/ \E c \in Clients : Cancel(c) \/ \E q \in NewQuantities : Replace(c, q)
    \/ \E e \in Callbacks : IngestEvent(e)
    \/ ForceKillNewRisk \/ ClearFaultsAndReconnect

BrokerSpec == BrokerInit /\ [][BrokerNext]_brokerVars

-----------------------------------------------------------------------------
(* Every callback that counts has a sequence number of its order to itself. *)
SequencesUsedOnce ==
    /\ \A e \in heard : e.client \in DOMAIN placed /\ e.sequence \in 2..placed[e.client].last
    /\ \A e, f \in heard : e.client = f.client /\ e.sequence = f.sequence => e = f

RecordedFor(c) == {f \in DOMAIN recorded : recorded[f].client = c}

RecordedQuantities == [f \in DOMAIN recorded |-> recorded[f].quantity]

(* What an order has filled is the sum of the fills recorded for it, which fits the
   quantity last asked for, however often, in whatever order and under whatever identity
   callbacks arrive between cancels and replaces (test_phase4_broker_contracts.py:
   duplicates, gaps and the races of a fill with a cancel or a replace). *)
FillsMatchOrders ==
    /\ SequencesUsedOnce
    /\ \A c \in DOMAIN placed :
        /\ placed[c].filled = SumFunctionOnSet(RecordedQuantities, RecordedFor(c))
        /\ placed[c].filled <= placed[c].quantity

(* ADR 0017: every non-healthy session sets kill_new_risk.  open leaves the switch alone
   when the session has expired, so this rests on no fixture with that fault having been
   healthy before its faults were cleared. *)
UnhealthyStopsNewRisk == health # "healthy" => kill
=============================================================================
