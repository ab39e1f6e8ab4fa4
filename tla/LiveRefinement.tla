--------------------------- MODULE LiveRefinement ----------------------------
(* LiveController as an implementation of LiveLifecycle, for the first Live   *)
(* of its name: where the user's view is to be found in the controller's state.*)
EXTENDS LiveController

\* A condition that was recorded for an earlier generation says nothing about
\* the request as it stands, except that its apply has not been reported yet.
PhaseSeen ==
  IF live = None \/ live.ready = None THEN "Pending"
  ELSE IF IsApplying(live) \/ live.ready.observedGeneration = live.generation
       THEN live.ready.reason
       ELSE "Pending"

Lifecycle == INSTANCE LiveLifecycle WITH
  asked <- IF live = None THEN None ELSE live.spec.commit,
  deleted <- live # None /\ live.deleting,
  phase <- PhaseSeen,
  deployed <- cluster[1].objects

\* The controller, the informer, the goroutines and their crashes together do
\* nothing but what the user's view of a Live allows, each of its steps being
\* one of LiveLifecycle's, or none (live_controller.go, Reconcile).
ImplementsLifecycle == Lifecycle!Spec
=============================================================================
