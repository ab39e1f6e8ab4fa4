-------------------------------- MODULE Live --------------------------------
(* The Live custom resource (api/v1alpha1/live_types.go) and the admission    *)
(* rules of its webhook (api/v1alpha1/live_webhook.go), as the pure operators *)
(* that the controller and the back-off specifications share.                 *)
EXTENDS Naturals

CONSTANTS
  Commits,          \* git commits a Live may ask for
  ServiceAccounts,  \* what Lives may have in spec.serviceAccountName, which may be ""
  None              \* "no such object": nil pointers, absent conditions

\* spec.commit stands for everything the kustomize build of the Live depends on.
Specs == [commit: Commits, interruptible: BOOLEAN, serviceAccountName: ServiceAccounts]

GetServiceAccountName(l) ==
  IF l.spec.serviceAccountName = "" THEN "default" ELSE l.spec.serviceAccountName

\* The service accounts that are impersonated.
Accounts == (ServiceAccounts \ {""}) \cup {"default"}

Phases == {"Applying", "Succeeded", "Failed"}

\* The Ready condition; `since` is its lastTransitionTime.
Conditions ==
  [status: BOOLEAN, reason: Phases, observedGeneration: Nat, since: Nat]

Lives ==
  [uid: Nat, generation: Nat, deleting: BOOLEAN, finalizer: BOOLEAN,
   spec: Specs, ready: Conditions \cup {None}, retries: Nat]

ASSUME NoneAssumption == None \notin Lives /\ None \notin Conditions

NewLive(uid, spec) ==
  [uid |-> uid, generation |-> 1, deleting |-> FALSE, finalizer |-> FALSE,
   spec |-> spec, ready |-> None, retries |-> 0]

-----------------------------------------------------------------------------
\* Mutant: a Ready condition counts whatever generation it was recorded for.
ReconciledAtAnyGeneration(l) == l.ready # None /\ l.ready.status

Reconciled(l) ==
  /\ l.ready # None
  /\ l.ready.status
  /\ l.ready.observedGeneration = l.generation

IsApplying(l) == l.ready # None /\ l.ready.reason = "Applying"

-----------------------------------------------------------------------------
\* The webhook.

\* Mutant: not being reconciled is mistaken for not being applied.
CanInterruptUnreconciled(l) == l.spec.interruptible \/ ~Reconciled(l)

CanInterrupt(l) == l.spec.interruptible \/ ~IsApplying(l)

\* Mutant: the service account may be changed.
ValidateUpdateAnyAccount(old, new) == CanInterrupt(old) \/ CanInterrupt(new)

ValidateUpdate(old, new) ==
  /\ CanInterrupt(old) \/ CanInterrupt(new)
  /\ old.spec.serviceAccountName = new.spec.serviceAccountName

-----------------------------------------------------------------------------
\* Mutant: an outdated condition is updated in place instead of replaced.
SetPhaseKeepingTime(l, phase, now) ==
  LET status == phase = "Succeeded"
      flips  == l.ready = None \/ l.ready.status # status
  IN  [l EXCEPT
        !.ready = [status |-> status, reason |-> phase,
                   observedGeneration |-> l.generation,
                   since |-> IF flips THEN now ELSE l.ready.since],
        !.retries = IF phase = "Failed" THEN @ + 1 ELSE @]

\* SetPhase at time `now`, with meta.SetStatusCondition: the transition time
\* moves only when the status of the condition flips, or when there was none.
SetPhase(l, phase, now) ==
  LET outdated == /\ phase = "Applying"
                  /\ l.ready # None
                  /\ l.ready.observedGeneration # l.generation
      status   == phase = "Succeeded"
      flips    == l.ready = None \/ outdated \/ l.ready.status # status
      retries  == IF outdated THEN 0 ELSE l.retries
  IN  [l EXCEPT
        !.ready = [status |-> status, reason |-> phase,
                   observedGeneration |-> l.generation,
                   since |-> IF flips THEN now ELSE l.ready.since],
        !.retries = IF phase = "Failed" THEN retries + 1 ELSE retries]
=============================================================================
