--------------------------- MODULE MCPaperOMSRace ---------------------------
(***************************************************************************)
(* One order in many hands; an order's number says which.  Two clients     *)
(* queue order 1 at once, two processes deliver it, and an operator        *)
(* cancels and recovers it.  Order 2 is queued by one client at a time,    *)
(* and the operator also replaces it.  A market fills one or two units at  *)
(* one of two prices, so that two brokers together fill the order in part, *)
(* fill it whole, or would fill too much of it.                            *)
(***************************************************************************)
EXTENDS PaperOMS, TLC

\* Clients are interchangeable, and so are workers.
Symmetry == Permutations(Clients) \cup Permutations(Workers)

Quantity_ == [o \in Orders |-> o + 1]
Side_ == [o \in Orders |-> "buy"]
Instrument_ == [o \in Orders |-> "2330"]
Required_ == [o \in Orders |-> 4]
AvailablePosition_ == [i \in {"2330"} |-> 0]
Markets_ == { [kind |-> "missing", capacity |-> 0, price |-> 0] }
              \cup [kind : {"trade"}, capacity : {1, 2}, price : {1, 2}]

\* Bound: a behaviour is about one order.
About(o) ==
  /\ \A c \in Clients : client[c].order \in {NoOrder, o}
  /\ \A p \in Orders \ {o} : orders[p] = Absent

\* Bound on order 1: it is not replaced.
Contested == About(1) /\ \A e \in events : e.state # "ReplacePending"

\* Bound on order 2: its clients come one after the other.
Handled ==
  About(2) /\ \A c, d \in Clients : c # d => "idle" \in {client[c].pc, client[d].pc}

OneOrder == Contested \/ Handled
=============================================================================
