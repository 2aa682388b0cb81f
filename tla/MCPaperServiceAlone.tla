------------------------ MODULE MCPaperServiceAlone ------------------------
(***************************************************************************)
(* The runbook's deployment: one process at a time runs one cycle at a     *)
(* time, for two sessions of which one has a target.  The jobs are the     *)
(* ones with an effect of their own, in their order, and one that only     *)
(* checks.  Time is scaled: a backoff of 1, a lease of 2, a start window   *)
(* of 3 and a grace of 4 units keep the order of 30 s, 2 min, 5 min and    *)
(* 15 min.                                                                 *)
(***************************************************************************)
EXTENDS PaperService, TLC

Owner_ == [p \in Processes |-> "paper-service-cli"]
Jobs_ == << "decision_snapshot", "risk_evaluation", "paper_order_submission",
            "reconciliation", "daily_report" >>
=============================================================================
