----------------------- MODULE MCLiveDeploymentGroup -----------------------
(* LiveDeploymentGroup for TLC.                                               *)
EXTENDS LiveDeploymentGroup

CONSTANTS n1, n2, b1, b2

\* One group, whose branchMatch matches every branch ("").
MatchAll == [n \in Namespaces |-> Branches]

\* Two groups of the same name with a branch each.
MatchOneEach == [n \in Namespaces |-> IF n = n1 THEN {b1} ELSE {b2}]
=============================================================================
