--------------------------- MODULE MCPaperOMSDesk ---------------------------
(***************************************************************************)
(* The deployment of the runbook: one process queues, one delivers and may *)
(* be restarted, the operator only requests cancels (no command of the     *)
(* repository applies their results).  A buy, a sell and a buy the cash    *)
(* cannot carry as well; a market in which the broker fills one unit of an *)
(* order or nothing.  (A market that changes its mind across a restart, so *)
(* that the new broker fills what the old one rejected or overfills what   *)
(* it filled in part, leaves a row that is never delivered: see README.)   *)
(***************************************************************************)
EXTENDS PaperOMS, TLC

Quantity_ == 1 :> 2 @@ 2 :> 1 @@ 3 :> 1
Side_ == 1 :> "buy" @@ 2 :> "sell" @@ 3 :> "buy"
Instrument_ == [o \in Orders |-> "2330"]
Required_ == 1 :> 4 @@ 2 :> 0 @@ 3 :> 3
AvailablePosition_ == [i \in {"2330"} |-> 1]
Markets_ == { [kind |-> "trade", capacity |-> 1, price |-> 1],
              [kind |-> "no_fill", capacity |-> 0, price |-> 0] }
=============================================================================
