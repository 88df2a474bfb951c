------------------------- MODULE MCStatusController -------------------------
(***************************************************************************)
(* Two replicas of the proxy and a few writes by users.                    *)
(***************************************************************************)
EXTENDS StatusController

CONSTANTS r1, r2

MCReplicas == {r1, r2}
MCReplicasOne == {r1}

=============================================================================
