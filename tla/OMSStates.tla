----------------------------- MODULE OMSStates -----------------------------
(***************************************************************************)
(* The order state machine of the persistent paper OMS                     *)
(* (src/island_quant/oms/models.py): its states, its terminal states and   *)
(* the transitions that validate_transition lets through.                  *)
(***************************************************************************)

OMSState ==
  { "Created", "RiskPending", "RiskApproved", "RiskRejected", "SubmitPending",
    "Submitted", "Acknowledged", "PartiallyFilled", "Filled", "CancelPending",
    "Cancelled", "ReplacePending", "Replaced", "Rejected", "Expired", "Unknown" }

TERMINAL_STATES ==
  { "RiskRejected", "Filled", "Cancelled", "Rejected", "Expired" }

\* The dictionary of successor sets, as the relation it denotes.
ALLOWED_TRANSITIONS ==
  UNION {
    { "Created" }         \X { "RiskPending" },
    { "RiskPending" }     \X { "RiskApproved", "RiskRejected" },
    { "RiskApproved" }    \X { "SubmitPending" },
    { "SubmitPending" }   \X { "Submitted", "Rejected", "Unknown" },
    { "Submitted" }       \X { "Acknowledged", "Rejected", "CancelPending",
                               "Unknown" },
    { "Acknowledged" }    \X { "PartiallyFilled", "Filled", "CancelPending",
                               "ReplacePending", "Rejected", "Expired", "Unknown" },
    { "PartiallyFilled" } \X { "PartiallyFilled", "Filled", "CancelPending",
                               "ReplacePending", "Expired", "Unknown" },
    { "CancelPending" }   \X { "Cancelled", "PartiallyFilled", "Filled", "Unknown" },
    { "ReplacePending" }  \X { "Replaced", "PartiallyFilled", "Filled", "Unknown" },
    { "Replaced" }        \X { "SubmitPending", "CancelPending" },
    { "Unknown" }         \X { "Submitted", "Acknowledged", "Cancelled", "Rejected" } }

validate_transition(previous, following) ==
  <<previous, following>> \in ALLOWED_TRANSITIONS
=============================================================================
