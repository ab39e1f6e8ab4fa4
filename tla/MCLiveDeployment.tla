-------------------------- MODULE MCLiveDeployment --------------------------
(* LiveDeployment for TLC. A LiveDeployment that was deleted may still be in   *)
(* the cache and go on to make Lives for the garbage collector, as many as    *)
(* MaxUid allows; then its worker waits, which is the bound's doing.          *)
EXTENDS LiveDeployment

MCTemplate == [interruptible |-> FALSE, serviceAccountName |-> CHOOSE a \in ServiceAccounts : TRUE]
=============================================================================
