------------------------------ MODULE MCAdmission ------------------------------
(* One complete pack and the revisions of its sections. *)
EXTENDS ProductionAdmission, TLC

(* A pack that is admitted, and what each of its sections may be revised to: dates around
   the two expiries, references to a letter that may be missing, people who are not named. *)
MCDocument(id, kind, expires) ==
    [id |-> id, kind |-> kind, owner |-> "ann", retrieved |-> 1, reviewed |-> 2,
     expires |-> expires, intact |-> TRUE]

MCContract == MCDocument("contract", "contract", 5)
MCReview == MCDocument("review", "official", 6)

MCApproved == [status |-> "approved", owner |-> "ann", reviewed |-> 2, expires |-> 5,
               evidence |-> {"contract"}]

MCDataset == [complete |-> TRUE, pointInTime |-> TRUE, evidence |-> {"contract"}]

MCProvider ==
    [owner |-> "ann", status |-> "approved", entitlementExpires |-> 5, named |-> TRUE,
     evidence |-> {"contract"}, capabilities |-> {"corrections"}, datasets |-> {MCDataset},
     decisions |-> [d \in {"storage"} |-> MCApproved]]

MCReconciliation ==
    [owner |-> "bob", accepted |-> {"separate", "no_fallback"}, evidence |-> {"review"}]

MCSecurity ==
    [secretBackend |-> MCApproved, rotation |-> MCApproved, controls |-> {"owner_only"},
     drills |-> {"review"}, requestedBy |-> "ann", approvedBy |-> "bob", approvalExpires |-> 10,
     rollbackOwner |-> "ann", killSwitchOwner |-> "bob", evidence |-> {"review", "contract"}]

MCBroker ==
    [blocker |-> "identity", owner |-> "bob", evidence |-> {"review"}, unknownStated |-> TRUE]

MCPack ==
    [scope |-> "production_candidate", synthetic |-> FALSE, asOf |-> 8,
     owners |-> <<"ann", "bob">>, evidence |-> <<MCContract, MCReview>>,
     provider |-> MCProvider, reconciliation |-> MCReconciliation,
     security |-> MCSecurity, broker |-> <<MCBroker>>]

MCDecisions ==
    {[MCApproved EXCEPT !.status = "unknown"], [MCApproved EXCEPT !.owner = "cat"],
     [MCApproved EXCEPT !.evidence = {}], [MCApproved EXCEPT !.evidence = {"letter"}]}

MCForms ==
    [asOf |-> {2, 8, 9, 10, 11, 12},
     scope |-> {"synthetic_offline", "production_candidate"},
     owners |-> {<<"ann">>, <<"ann", "bob", "bob">>, <<"ann", "bob", "cat">>},
     evidence |->
        {<<e, MCReview>> :
            e \in {[MCContract EXCEPT !.kind = "synthetic"], [MCContract EXCEPT !.owner = "cat"],
                   [MCContract EXCEPT !.expires = 3], [MCContract EXCEPT !.reviewed = 5],
                   [MCContract EXCEPT !.retrieved = 3], [MCContract EXCEPT !.intact = FALSE],
                   [MCContract EXCEPT !.expires = 6]}}
          \cup {<<MCContract>>, <<MCReview>>, <<MCReview, MCContract, MCReview>>,
                <<MCReview, MCContract, MCDocument("letter", "contract", 6)>>,
                <<MCContract, [MCReview EXCEPT !.kind = "contract"]>>},
     provider |->
        {[MCProvider EXCEPT !.owner = "cat"], [MCProvider EXCEPT !.status = "rejected"],
         [MCProvider EXCEPT !.entitlementExpires = 4], [MCProvider EXCEPT !.capabilities = {}],
         [MCProvider EXCEPT !.evidence = {"letter"}], [MCProvider EXCEPT !.datasets = {}],
         [MCProvider EXCEPT !.datasets = {[MCDataset EXCEPT !.evidence = {}]}],
         [MCProvider EXCEPT !.decisions = <<>>]}
          \cup {[MCProvider EXCEPT !.decisions["storage"] = d] : d \in MCDecisions},
     reconciliation |->
        {[MCReconciliation EXCEPT !.accepted = {"separate"}],
         [MCReconciliation EXCEPT !.evidence = {"letter"}]},
     security |->
        {[MCSecurity EXCEPT !.rotation = d] : d \in MCDecisions}
          \cup {[MCSecurity EXCEPT !.approvedBy = "ann"], [MCSecurity EXCEPT !.drills = {}],
                [MCSecurity EXCEPT !.drills = {"letter"}],
                [MCSecurity EXCEPT !.approvedBy = "cat"], [MCSecurity EXCEPT !.controls = {}],
                [MCSecurity EXCEPT !.approvalExpires = 11],
                [MCSecurity EXCEPT !.evidence = {"letter", "review"}]},
     broker |->
        {<<>>, <<[MCBroker EXCEPT !.unknownStated = FALSE]>>,
         <<[MCBroker EXCEPT !.evidence = {"contract"}]>>,
         <<[MCBroker EXCEPT !.evidence = {"review", "letter"}]>>,
         <<MCBroker, [MCBroker EXCEPT !.unknownStated = FALSE]>>,
         <<[MCBroker EXCEPT !.unknownStated = FALSE], MCBroker>>}]
=============================================================================
