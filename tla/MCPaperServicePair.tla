------------------------- MODULE MCPaperServicePair -------------------------
(***************************************************************************)
(* Two processes run cycles of one session at once.  Two jobs are enough:  *)
(* one that only sets the target and one that writes it to the report.     *)
(* Both runs share the module: with owners of their own the lease is       *)
(* checked; with the one owner name that every paper-service-run passes    *)
(* (operations/cli.py) nothing keeps them apart.                           *)
(***************************************************************************)
EXTENDS PaperService, TLC

CONSTANT p1

DistinctOwner == [p \in Processes |-> IF p = p1 THEN "one" ELSE "two"]
CommandOwner == [p \in Processes |-> "paper-service-cli"]
Jobs_ == << "decision_snapshot", "daily_report" >>
=============================================================================
