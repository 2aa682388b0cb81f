---------------------------- MODULE ArtifactCatalog ----------------------------
(* What an immutable artifact store promises, whoever writes to it and whoever dies: a
   version is there as a whole or not at all, it stays, and nobody is told that a
   version is published before it is.  Losing an artifact is the disk's doing. *)
CONSTANT Versions

VARIABLES
    catalog,    \* what has been published
    lost,       \* what of it is no longer whole
    told        \* the versions that publish has returned to somebody

Init == catalog = {} /\ lost = {} /\ told = {}

Publish(v) ==
    /\ v \notin catalog
    /\ catalog' = catalog \cup {v}
    /\ UNCHANGED <<lost, told>>

Confirm(v) ==
    /\ v \in catalog
    /\ told' = told \cup {v}
    /\ UNCHANGED <<catalog, lost>>

Lose(v) ==
    /\ v \in catalog
    /\ lost' = lost \cup {v}
    /\ UNCHANGED <<catalog, told>>

Next == \E v \in Versions : Publish(v) \/ Confirm(v) \/ Lose(v)

Spec == Init /\ [][Next]_<<catalog, lost, told>>
=============================================================================
