------------------------------ MODULE MCLearning ------------------------------
(* One experiment on a calendar with closed days, as they are around every weekend. *)
EXTENDS WalkForward, TLC

MCCalendars == {{1, 2, 3, 4, 6, 7, 8, 9}}

MCListing == "a" :> 1
MCDelisting == "a" :> 20

MCLabelSpecs == {[kind |-> "open_to_close", horizon |-> 1]}

MCSplitConfigs ==
    {[method |-> "expanding", train |-> 4, validation |-> 1, test |-> 1, step |-> 2,
      embargo |-> 1, holdout |-> 1]}
=============================================================================
