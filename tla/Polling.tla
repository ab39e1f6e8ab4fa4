------------------------------- MODULE Polling -------------------------------
(* When the LiveDeployment controller and the LiveDeploymentGroup controller  *)
(* look at the remote again after a Reconcile that succeeded.                 *)
EXTENDS Integers

CONSTANT PollIntervalSeconds  \* spec.pollIntervalSeconds, an int32

MaxInt32 == 2147483647

ASSUME PollingAssumption == PollIntervalSeconds \in (-MaxInt32 - 1)..MaxInt32

\* Mutant: the interval itself.
RequeueAfterInterval == PollIntervalSeconds

\* The sum is an int32.
RequeueAfter ==
  IF PollIntervalSeconds = MaxInt32 THEN -MaxInt32 - 1 ELSE PollIntervalSeconds + 1

\* The queue takes nothing that is to be added after zero seconds, or fewer.
PollsAgain == RequeueAfter > 0
=============================================================================
