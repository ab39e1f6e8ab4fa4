------------------------- MODULE LiveOutcomeProofs --------------------------
(* What is reported is what is deployed. ReadyIsApplied needs three           *)
(* assumptions, and fails without any of them: no interruptible Lives, the    *)
(* webhook switched on, no lost replies. CleanedUp, and that LiveController   *)
(* implements LiveLifecycle, also need that there is one Live of its name,    *)
(* that it is not edited once it is deleted, and that Destroy does not fail.  *)
EXTENDS LiveControllerProofs, LiveRefinement

Uninterruptible == live # None => ~live.spec.interruptible

ObservedIsPast ==
  live # None /\ live.ready # None => live.ready.observedGeneration <= live.generation

\* An entry in ApplyResults, whether or not there is a result in it, belongs to
\* the Live as it is now: the status keeps the webhook from changing it.
EntryMeansApplying ==
  applyResults # "none" => live # None /\ IsApplying(live) /\ live.finalizer

ApplierIsCurrent == applier # None => applier.commit = live.spec.commit

ResultIsCurrent ==
  applyResults = "ok" /\ ~live.deleting => cluster[live.uid].objects = live.spec.commit

RInv ==
  /\ Uninterruptible /\ ObservedIsPast /\ EntryMeansApplying
  /\ ApplierIsCurrent /\ ResultIsCurrent /\ ReadyIsApplied

LEMMA InitReady == Init => RInv
BY DEF Init, RInv, Uninterruptible, ObservedIsPast, EntryMeansApplying, ApplierIsCurrent,
   ResultIsCurrent, ReadyIsApplied

\* A Live that says Applying does not count as reconciled.
LEMMA ApplyingIsNotReady ==
  ASSUME IInv, live # None, IsApplying(live)
  PROVE  ~Reconciled(live)
BY DEF IInv, CopiesWellFormed, WellFormed, IsApplying, Reconciled

\* The steps that touch neither the Live, its apply, nor what is deployed.
Elsewhere == UNCHANGED <<live, cluster, applyResults, applier>>

LEMMA ReadyDisjuncts ==
  ASSUME [Next]_vars
  PROVE  \/ Create \/ UpdateSpec \/ Delete \/ AddFinalizer \/ StartApply \/ CollectApply
         \/ CollectDelete \/ ApplyProgress \/ ApplySucceeds \/ ApplyFails
         \/ DestroyProgress \/ DestroySucceeds \/ Crash \/ Elsewhere
<1>1. CASE Next
  BY <1>1, Disjuncts DEF Elsewhere, server, applying, CacheSync, Resync, Deliver, Get,
     KeepFinalizer, BackoffWait, BeginDelete, Rest, Rejected, ReconcileError, DestroyFails
<1>2. CASE UNCHANGED vars
  BY <1>2 DEF Elsewhere, vars
<1>3. QED
  BY <1>1, <1>2

LEMMA ReadyStep ==
  ASSUME InterruptibleChoices \subseteq {FALSE}, WebhooksEnabled = TRUE,
         "lostReply" \notin FaultKinds,
         IInv, RInv, [Next]_vars
  PROVE  RInv'
<1>0. /\ TypeOK /\ TypeOK'
      /\ ApplyingWhileApplierRuns /\ DestroyOnlyWhenDeleted /\ FinalizerFirst
  BY TypeStep DEF IInv
<1>a. ~ReplyLost
  BY DEF ReplyLost, Fault
<1>b. live # None => live \in Lives /\ live.generation \in Nat /\ live.uid \in Uids
  BY <1>0 DEF TypeOK, Lives, IInv, CopiesWellFormed, WellFormed
<1> USE DEF RInv, Uninterruptible, ObservedIsPast, EntryMeansApplying, ApplierIsCurrent,
        ResultIsCurrent, ReadyIsApplied
<1>1. CASE Create
  <2>1. live = None /\ applyResults = "none" /\ applier = None
    BY <1>0, <1>1 DEF Create, ApplyingWhileApplierRuns
  <2>2. PICK spec \in UserSpecs : live' = NewLive(nextUid, spec)
    BY <1>1 DEF Create
  <2>3. live'.ready = None /\ ~live'.spec.interruptible
    BY <2>2 DEF NewLive, UserSpecs
  <2>4. UNCHANGED <<applyResults, applier>>
    BY <1>1 DEF Create, applying
  <2>5. QED
    BY <2>1, <2>3, <2>4 DEF Reconciled
<1>2. CASE UpdateSpec
  <2>1. PICK spec \in UserSpecs :
          /\ live' = [live EXCEPT !.spec = spec, !.generation = @ + 1]
          /\ Admitted(live, live')
    BY <1>2 DEF UpdateSpec
  <2>2. live # None /\ spec \in Specs /\ ~spec.interruptible
    BY <1>2, Constants DEF UpdateSpec, UserSpecs
  <2>3. /\ live'.ready = live.ready /\ live'.spec = spec
        /\ live'.generation = live.generation + 1
    BY <1>b, <2>1, <2>2, EditedLive
  <2>4. ~IsApplying(live)
    BY <2>1, <2>2, <2>3 DEF Admitted, ValidateUpdate, CanInterrupt, IsApplying
  <2>5. applyResults = "none" /\ applier = None
    BY <1>0, <2>4 DEF ApplyingWhileApplierRuns
  <2>6. live.ready # None => live.ready.observedGeneration \in Nat
    BY <1>b, <2>2 DEF Lives, Conditions
  <2>7. ObservedIsPast' /\ ~Reconciled(live')
    BY <1>b, <2>2, <2>3, <2>6 DEF Reconciled
  <2>8. UNCHANGED <<applyResults, applier>>
    BY <1>2 DEF UpdateSpec, applying
  <2>9. QED
    BY <2>2, <2>3, <2>5, <2>7, <2>8
<1>3. CASE Delete
  <2>1. live # None /\ UNCHANGED <<cluster, applyResults, applier>>
    BY <1>3 DEF Delete, applying
  <2>2. CASE live.finalizer
    <3>1. live' = [live EXCEPT !.deleting = TRUE, !.generation = @ + 1]
      BY <1>3, <2>2 DEF Delete
    <3>2. /\ live'.ready = live.ready /\ live'.spec = live.spec /\ live'.deleting
          /\ live'.generation = live.generation + 1 /\ live'.finalizer = live.finalizer
          /\ live' # None
      BY <1>b, <2>1, <3>1, DeletedLive
    <3>3. live.ready # None => live.ready.observedGeneration \in Nat
      BY <1>b, <2>1 DEF Lives, Conditions
    <3>4. ObservedIsPast'
      BY <1>b, <2>1, <3>2, <3>3
    <3>5. QED
      BY <2>1, <3>2, <3>4 DEF IsApplying
  <2>3. CASE ~live.finalizer
    <3>1. live' = None
      BY <1>3, <2>3 DEF Delete
    <3>2. applyResults = "none" /\ applier = None
      BY <1>0, <2>3 DEF ApplyingWhileApplierRuns
    <3>3. QED
      BY <2>1, <3>1, <3>2
  <2>4. QED
    BY <2>2, <2>3
<1>4. CASE AddFinalizer
  <2>1. local # None /\ local = live /\ live' = WithFinalizer
    BY <1>0, <1>4 DEF AddFinalizer, NeedsFinalizer, TypeOK
  <2>2. /\ live' # None /\ live'.finalizer /\ live'.uid = live.uid /\ live'.spec = live.spec
        /\ live'.deleting = live.deleting /\ live'.ready = live.ready
        /\ live'.generation = live.generation
    BY <2>1, WrittenLives
  <2>3. UNCHANGED <<cluster, applyResults, applier>>
    BY <1>4 DEF AddFinalizer, applying
  <2>4. QED
    BY <2>1, <2>2, <2>3 DEF IsApplying, Reconciled
<1>5. CASE StartApply
  <2>1. local \in Lives /\ local # None /\ local = live /\ local.finalizer
    BY <1>0, <1>5 DEF StartApply, AtApply, TypeOK, FinalizerFirst
  <2>2. live' = SetPhase(local, "Applying", 0)
    BY <1>5 DEF StartApply
  <2>3. /\ live' # None /\ live'.spec = live.spec /\ live'.generation = live.generation
        /\ live'.finalizer = live.finalizer /\ live'.ready # None
        /\ live'.ready.reason = "Applying"
        /\ live'.ready.status = ("Applying" = "Succeeded")
        /\ live'.ready.observedGeneration = live.generation
    BY <2>1, <2>2, SetPhaseFacts DEF Phases
  <2>4. applyResults' = "pending" /\ applier'.commit = live.spec.commit
    BY <1>5, <1>a, <2>1 DEF StartApply
  <2>5. QED
    <3>1. ObservedIsPast'
      BY <1>b, <2>1, <2>3
    <3>2. EntryMeansApplying' /\ ~Reconciled(live')
      BY <2>1, <2>3 DEF IsApplying, Reconciled
    <3>3. Uninterruptible' /\ ApplierIsCurrent'
      BY <2>1, <2>3, <2>4
    <3>4. ResultIsCurrent' /\ ReadyIsApplied'
      BY <2>4, <3>2
    <3>5. QED
      BY <3>1, <3>2, <3>3, <3>4
<1>6. CASE CollectApply
  <2>1. local \in Lives /\ local # None /\ local = live
    BY <1>0, <1>6 DEF CollectApply, AtApply, TypeOK
  <2>2. /\ applyResults' = "none" /\ UNCHANGED <<cluster, applier>>
        /\ applier = None
    BY <1>0, <1>6, <1>a DEF CollectApply, TypeOK, Results
  <2>3. PICK phase \in {"Succeeded", "Failed"} :
          /\ live' = SetPhase(local, phase, 0)
          /\ phase = "Succeeded" => applyResults = "ok"
    BY <1>6 DEF CollectApply
  <2>4. /\ live' # None /\ live'.spec = live.spec /\ live'.generation = live.generation
        /\ live'.uid = live.uid /\ live'.deleting = live.deleting
        /\ live'.ready.status = (phase = "Succeeded")
        /\ live'.ready.observedGeneration = live.generation
    BY <2>1, <2>3, SetPhaseFacts DEF Phases
  <2>5. QED
    <3>1. ObservedIsPast'
      BY <1>b, <2>1, <2>4
    <3>2. Uninterruptible' /\ EntryMeansApplying' /\ ApplierIsCurrent' /\ ResultIsCurrent'
      BY <2>1, <2>2, <2>4
    <3>3. ReadyIsApplied'
      BY <2>1, <2>2, <2>3, <2>4 DEF Reconciled
    <3>4. QED
      BY <3>1, <3>2, <3>3
<1>7. CASE CollectDelete
  <2>1. live # None /\ Reconciled(live)
    BY <1>0, <1>7 DEF CollectDelete, AtDelete, TypeOK
  <2>2. applyResults = "none" /\ applier = None
    BY <1>0, <2>1, ApplyingIsNotReady DEF ApplyingWhileApplierRuns
  <2>3. live' = None /\ UNCHANGED <<applyResults, applier>>
    BY <1>7 DEF CollectDelete, applying
  <2>4. QED
    BY <2>2, <2>3
<1>8. CASE ApplyProgress \/ ApplySucceeds
  <2>1. /\ applier # None /\ applyResults = "pending"
        /\ live # None /\ applier.uid = live.uid /\ live.uid \in Uids
    BY <1>0, <1>8, <1>b DEF ApplyProgress, ApplySucceeds, TypeOK, ApplyingWhileApplierRuns
  <2>2. ~Reconciled(live) /\ live' = live
    BY <1>8, <2>1, ApplyingIsNotReady DEF ApplyProgress, ApplySucceeds, server
  <2>3. CASE ApplyProgress
    BY <2>1, <2>2, <2>3 DEF ApplyProgress, applying
  <2>4. CASE ApplySucceeds
    <3>1. cluster'[live.uid].objects = live.spec.commit
      BY <1>0, <2>1, <2>4 DEF ApplySucceeds, TypeOK
    <3>2. applyResults' = "ok" /\ applier' = None
      BY <2>4 DEF ApplySucceeds
    <3>3. QED
      BY <2>1, <2>2, <3>1, <3>2
  <2>5. QED
    BY <1>8, <2>3, <2>4
<1>9. CASE ApplyFails
  <2>1. /\ UNCHANGED <<live, cluster>> /\ applyResults' = "err" /\ applier' = None
        /\ applyResults = "pending"
    BY <1>0, <1>9 DEF ApplyFails, TypeOK, server
  <2>2. QED
    BY <2>1
<1>10. CASE DestroyProgress \/ DestroySucceeds
  <2>1. UNCHANGED <<live, applyResults, applier>> /\ destroyer # None
    BY <1>10 DEF DestroyProgress, DestroySucceeds, server, applying
  <2>2. live # None /\ live.uid = destroyer.uid => live.deleting
    BY <1>0, <2>1 DEF DestroyOnlyWhenDeleted
  <2>3. live # None /\ live.uid # destroyer.uid => cluster'[live.uid] = cluster[live.uid]
    BY <1>0, <1>10, <1>b DEF TypeOK, DestroyProgress, DestroySucceeds
  <2>4. QED
    BY <2>1, <2>2, <2>3
<1>11. CASE Crash
  <2>1. UNCHANGED <<live, cluster>> /\ applyResults' = "none" /\ applier' = None
    BY <1>11 DEF Crash, server
  <2>2. QED
    BY <2>1
<1>12. CASE Elsewhere
  BY <1>12 DEF Elsewhere
<1>13. QED
  BY <1>1, <1>2, <1>3, <1>4, <1>5, <1>6, <1>7, <1>8, <1>9, <1>10, <1>11, <1>12, ReadyDisjuncts

\* Without interruptible Lives, with the webhook and when no reply of the API
\* server is lost, a Live is Ready only while its commit is fully deployed.
THEOREM ReadyMeansApplied ==
  ASSUME InterruptibleChoices \subseteq {FALSE}, WebhooksEnabled = TRUE,
         "lostReply" \notin FaultKinds
  PROVE  Spec => []ReadyIsApplied
<1>1. IInv /\ RInv /\ [Next]_vars => RInv'
  BY ReadyStep
<1>2. RInv => ReadyIsApplied
  BY DEF RInv
<1>3. QED
  BY Invariance, InitReady, <1>1, <1>2, PTL DEF Spec

-----------------------------------------------------------------------------

OutcomeAssumptions ==
  /\ MaxUid = 1
  /\ InterruptibleChoices \subseteq {FALSE}
  /\ WebhooksEnabled = TRUE
  /\ UpdatesWhileDeleting = FALSE
  /\ FaultKinds \cap {"lostReply", "destroyFails"} = {}

\* Is the Live on its way out, for good?
Leaving(v) == v.deleting /\ Reconciled(v)

\* Until there is a finalizer, nothing is done for the Live; after, nothing is left.
NothingDone ==
  /\ live = None \/ ~live.finalizer => cluster[1] = Empty
  /\ live # None /\ ~live.finalizer => live.ready = None

\* A copy that says so is right, even if it is old.
LeavingSeen ==
  \A v \in {cache, local} : v # None /\ Leaving(v) => live = None \/ Leaving(live)

\* Destroy and its result belong to the Live, and are its last.
DestroyIsLast ==
  destroyer # None \/ deleteResults # "none" =>
    nextUid = 2 /\ (live = None \/ Leaving(live))

DestroyedIsEmpty ==
  /\ deleteResults # "err"
  /\ deleteResults = "ok" => cluster[1] = Empty

\* As ResultIsCurrent, and deleted or not.
ResultStays == applyResults = "ok" => cluster[1].objects = live.spec.commit

OInv ==
  /\ NothingDone /\ LeavingSeen /\ DestroyIsLast /\ DestroyedIsEmpty /\ ResultStays

LEMMA InitOutcome ==
  ASSUME OutcomeAssumptions
  PROVE  Init => OInv
BY DEF Init, Uids, OutcomeAssumptions, OInv, NothingDone, LeavingSeen, DestroyIsLast,
   DestroyedIsEmpty, ResultStays

\* There is one uid.
LEMMA FirstUid ==
  ASSUME OutcomeAssumptions, IInv
  PROVE  /\ Uids = {1} /\ cluster \in [{1} -> Deployments]
         /\ \A v \in {live, cache, local} : v # None => v.uid = 1 /\ nextUid = 2
         /\ applier # None => applier.uid = 1
         /\ destroyer # None => destroyer.uid = 1
<1>1. Uids = {1}
  BY DEF OutcomeAssumptions, Uids
<1>2. nextUid \in 1..2
  BY DEF OutcomeAssumptions, IInv, TypeOK
<1>3. QED
  BY <1>1, <1>2 DEF IInv, TypeOK, CopiesWellFormed, WellFormed, Appliers, Destroyers

\* A Live that is on its way out is not applied any more.
LEMMA LeavingIsNotApplied ==
  ASSUME IInv, RInv, live # None, Leaving(live)
  PROVE  applier = None /\ applyResults = "none"
BY ApplyingIsNotReady DEF Leaving, IInv, ApplyingWhileApplierRuns, RInv, EntryMeansApplying

LEMMA OutcomeStep ==
  ASSUME OutcomeAssumptions, IInv, RInv, OInv, [Next]_vars
  PROVE  OInv'
<1>0. TypeOK /\ FinalizerFirst /\ EntryMeansApplying /\ ApplierIsCurrent
  BY DEF IInv, RInv
<1>a. ~ReplyLost /\ ~DestroyFails
  BY DEF OutcomeAssumptions, ReplyLost, DestroyFails, Fault
<1>b. live # None => live \in Lives /\ live.uid = 1 /\ nextUid = 2
  BY <1>0, FirstUid DEF TypeOK
<1> USE DEF OInv, NothingDone, LeavingSeen, DestroyIsLast, DestroyedIsEmpty, ResultStays,
        server, informer, worker, applying, deletion
<1>1. CASE Create
  <2>1. /\ live = None /\ nextUid \in {1} /\ nextUid' = nextUid + 1
        /\ UNCHANGED <<cluster, cache, local, applyResults, destroyer, deleteResults>>
    BY <1>1, FirstUid DEF Create
  <2>2. PICK spec \in UserSpecs : live' = NewLive(nextUid, spec)
    BY <1>1 DEF Create
  <2>3. live' # None /\ live'.ready = None
    BY <2>1, <2>2, NewLiveFacts, Constants
  <2>4. cache = None /\ local = None /\ applyResults = "none"
    BY <1>0, <2>1, FirstUid DEF EntryMeansApplying
  <2>5. QED
    BY <2>1, <2>3, <2>4
<1>2. CASE UpdateSpec
  <2>1. PICK spec \in UserSpecs :
          /\ live' = [live EXCEPT !.spec = spec, !.generation = @ + 1]
          /\ Admitted(live, live')
    BY <1>2 DEF UpdateSpec
  <2>2. /\ live # None /\ spec \in Specs /\ ~spec.interruptible /\ ~live.deleting
        /\ UNCHANGED <<nextUid, cluster, cache, local, applyResults, destroyer, deleteResults>>
    BY <1>2, Constants DEF UpdateSpec, UserSpecs, OutcomeAssumptions
  <2>3. /\ live'.ready = live.ready /\ live'.spec = spec /\ live' # None
        /\ live'.finalizer = live.finalizer
    BY <1>b, <2>1, <2>2, EditedLive
  <2>4. ~IsApplying(live)
    BY <2>1, <2>2, <2>3 DEF OutcomeAssumptions, RInv, Uninterruptible, Admitted, ValidateUpdate,
       CanInterrupt, IsApplying
  <2>5. applyResults = "none" /\ ~Leaving(live)
    BY <1>0, <2>2, <2>4 DEF EntryMeansApplying, Leaving
  <2>6. QED
    BY <2>2, <2>3, <2>5
<1>3. CASE Delete
  <2>1. /\ live # None /\ ~live.deleting /\ ~Leaving(live)
        /\ UNCHANGED <<nextUid, cluster, cache, local, applyResults, destroyer, deleteResults>>
    BY <1>3 DEF Delete, Leaving
  <2>2. CASE live.finalizer
    <3>1. live' # None /\ live'.finalizer /\ live'.spec = live.spec
      BY <1>3, <1>b, <2>1, <2>2, DeletedLive DEF Delete
    <3>2. QED
      BY <2>1, <3>1
  <2>3. CASE ~live.finalizer
    BY <1>0, <1>3, <2>1, <2>3 DEF Delete, EntryMeansApplying
  <2>4. QED
    BY <2>2, <2>3
<1>4. CASE CacheSync \/ Resync \/ Deliver \/ Get
  BY <1>4 DEF CacheSync, Resync, Deliver, Get
<1>5. CASE AddFinalizer
  <2>1. /\ local # None /\ local = live /\ live' = WithFinalizer /\ local' = live'
        /\ UNCHANGED <<nextUid, cluster, cache, applyResults, destroyer, deleteResults>>
    BY <1>0, <1>5, <1>a DEF AddFinalizer, NeedsFinalizer, TypeOK
  <2>2. /\ live' # None /\ live'.finalizer /\ live'.deleting = live.deleting
        /\ live'.ready = live.ready /\ live'.generation = live.generation
        /\ live'.spec = live.spec
    BY <2>1, WrittenLives
  <2>3. Leaving(live') <=> Leaving(live)
    BY <2>2 DEF Leaving, Reconciled
  <2>4. QED
    BY <2>1, <2>2, <2>3
<1>6. CASE KeepFinalizer \/ BackoffWait \/ Rest \/ Rejected \/ ReconcileError
  BY <1>6 DEF KeepFinalizer, BackoffWait, Rest, Rejected, ReconcileError, Return, Requeue
<1>7. CASE StartApply \/ CollectApply
  <2>1. local = live /\ live # None /\ live \in Lives /\ live.finalizer /\ ~Leaving(live)
    BY <1>0, <1>7 DEF StartApply, CollectApply, AtApply, TypeOK, FinalizerFirst, Leaving
  <2>2. PICK phase \in Phases : live' = SetPhase(live, phase, 0)
    BY <1>7, <2>1 DEF StartApply, CollectApply, Phases
  <2>3. live' # None /\ live'.finalizer /\ live'.spec = live.spec
    BY <2>1, <2>2, SetPhaseFacts
  <2>4. /\ UNCHANGED <<nextUid, cluster, cache, destroyer, deleteResults>> /\ local' = None
        /\ applyResults' # "ok"
    BY <1>7, <1>a DEF StartApply, CollectApply, Return
  <2>5. QED
    BY <2>1, <2>3, <2>4
<1>8. CASE BeginDelete
  <2>1. /\ local # None /\ Leaving(local)
        /\ UNCHANGED <<nextUid, live, cluster, cache, local, applyResults>>
        /\ deleteResults' = "pending"
    BY <1>0, <1>8 DEF BeginDelete, AtDelete, TypeOK, Leaving
  <2>2. nextUid = 2
    BY <2>1, FirstUid
  <2>3. QED
    BY <2>1, <2>2
<1>9. CASE CollectDelete
  <2>1. /\ deleteResults = "ok" /\ live' = None /\ deleteResults' = "none" /\ local' = None
        /\ UNCHANGED <<nextUid, cluster, cache, applyResults, destroyer>>
    BY <1>9, <1>a DEF CollectDelete, DestroyReported, Results, Return
  <2>2. live # None /\ Leaving(live)
    BY <1>0, <1>9 DEF CollectDelete, AtDelete, TypeOK, Leaving
  <2>3. applyResults = "none"
    BY <2>2, LeavingIsNotApplied
  <2>4. nextUid = 2
    BY <1>b, <2>2
  <2>5. QED
    BY <2>1, <2>3, <2>4
<1>10. CASE ApplyProgress \/ ApplySucceeds
  <2>1. /\ applier # None /\ live # None /\ live.finalizer /\ applier.uid = 1
        /\ applier.commit = live.spec.commit
    BY <1>0, <1>10, FirstUid DEF ApplyProgress, ApplySucceeds, IInv, ApplyingWhileApplierRuns,
       ApplierIsCurrent
  <2>2. destroyer = None /\ deleteResults = "none"
    BY <2>1, LeavingIsNotApplied
  <2>3. UNCHANGED <<nextUid, live, cache, local, destroyer, deleteResults>>
    BY <1>10 DEF ApplyProgress, ApplySucceeds
  <2>4. applyResults' = "ok" => cluster'[1].objects = live.spec.commit
    <3>1. CASE ApplyProgress
      BY <1>0, <2>1, <3>1 DEF ApplyProgress, TypeOK
    <3>2. CASE ApplySucceeds
      BY <2>1, <3>2, FirstUid DEF ApplySucceeds
    <3>3. QED
      BY <1>10, <3>1, <3>2
  <2>5. QED
    BY <2>1, <2>2, <2>3, <2>4
<1>11. CASE ApplyFails
  BY <1>11 DEF ApplyFails
<1>12. CASE DestroyProgress \/ DestroySucceeds
  <2>1. /\ destroyer # None /\ destroyer.uid = 1 /\ UNCHANGED <<nextUid, live, cache, local, applyResults>>
    BY <1>12, FirstUid DEF DestroyProgress, DestroySucceeds
  <2>2. live = None \/ Leaving(live)
    BY <2>1
  <2>3. applyResults = "none"
    BY <1>0, <2>2, LeavingIsNotApplied DEF EntryMeansApplying
  <2>4. CASE DestroyProgress
    <3>1. cluster[1] # Empty /\ UNCHANGED <<destroyer, deleteResults>>
      BY <2>1, <2>4 DEF DestroyProgress, Empty
    <3>2. deleteResults = "pending" /\ live # None /\ live.finalizer
      BY <1>0, <2>1, <3>1 DEF TypeOK
    <3>3. QED
      BY <2>1, <2>3, <3>1, <3>2
  <2>5. CASE DestroySucceeds
    <3>1. cluster'[1] = Empty /\ deleteResults' = "ok"
      BY <2>1, <2>5, FirstUid DEF DestroySucceeds
    <3>2. QED
      BY <2>1, <2>3, <3>1
  <2>6. QED
    BY <1>12, <2>4, <2>5
<1>13. CASE Crash
  BY <1>13 DEF Crash
<1>14. CASE UNCHANGED vars
  BY <1>14 DEF vars
<1>15. QED
  BY Disjuncts, <1>a, <1>1, <1>2, <1>3, <1>4, <1>5, <1>6, <1>7, <1>8, <1>9, <1>10, <1>11, <1>12,
     <1>13, <1>14

LEMMA OutcomeInvariance ==
  ASSUME OutcomeAssumptions
  PROVE  Spec => [](IInv /\ RInv /\ OInv)
<1>1. IInv /\ RInv /\ [Next]_vars => RInv'
  BY ReadyStep DEF OutcomeAssumptions
<1>2. IInv /\ RInv /\ OInv /\ [Next]_vars => OInv'
  BY OutcomeStep
<1>3. Init => OInv
  BY InitOutcome
<1>4. QED
  BY Invariance, InitReady, <1>1, <1>2, <1>3, PTL DEF Spec

\* Under the assumptions, a Live that is gone has left nothing in the cluster,
\* whatever failed, crashed or was read from an old cache on the way.
THEOREM NothingRemains ==
  ASSUME OutcomeAssumptions
  PROVE  Spec => []CleanedUp
<1>1. IInv /\ OInv => CleanedUp
  BY FirstUid DEF OInv, NothingDone, CleanedUp
<1>2. QED
  BY OutcomeInvariance, <1>1, PTL

-----------------------------------------------------------------------------
\* The refinement.

\* Where a condition is about the current generation, its reason is what is seen.
LEMMA PhaseFacts ==
  ASSUME live # None
  PROVE  /\ live.ready = None => PhaseSeen = "Pending"
         /\ IsApplying(live) => PhaseSeen = "Applying"
         /\ live.ready # None /\ live.ready.observedGeneration = live.generation
              => PhaseSeen = live.ready.reason
         /\ live.ready # None /\ live.ready.observedGeneration # live.generation
              /\ ~IsApplying(live) => PhaseSeen = "Pending"
BY DEF PhaseSeen, IsApplying

LEMMA InitRefines ==
  ASSUME Init, MaxUid = 1
  PROVE  Lifecycle!Init
BY DEF Init, Uids, Empty, Lifecycle!Init, PhaseSeen

\* The steps that change neither the Live nor the cluster.
Unseen == UNCHANGED <<live, cluster>>

LEMMA UnseenStutters ==
  ASSUME Unseen
  PROVE  UNCHANGED Lifecycle!vars
BY DEF Unseen, Lifecycle!vars, PhaseSeen

LEMMA StepRefines ==
  ASSUME OutcomeAssumptions, IInv, RInv, OInv, [Next]_vars
  PROVE  [Lifecycle!Next]_(Lifecycle!vars)
<1>0. /\ TypeOK /\ FinalizerFirst /\ EntryMeansApplying /\ ApplierIsCurrent /\ ObservedIsPast
      /\ NothingDone /\ DestroyIsLast /\ DestroyedIsEmpty /\ ResultStays
  BY DEF IInv, RInv, OInv
<1>a. ~ReplyLost /\ ~DestroyFails
  BY DEF OutcomeAssumptions, ReplyLost, DestroyFails, Fault
<1>b. live # None =>
        /\ live \in Lives /\ live.uid = 1 /\ live.deleting \in BOOLEAN
        /\ live.spec.commit \in Commits /\ live.spec.commit # None
        /\ live.ready # None => (live.ready.status <=> live.ready.reason = "Succeeded")
        /\ live.ready # None => live.ready.reason \in Phases
  BY <1>0, FirstUid, ControllerAssumption DEF TypeOK, Lives, Specs, Conditions, IInv, CopiesWellFormed, WellFormed
<1>c. Empty.objects = None
  BY DEF Empty
<1>d. live # None /\ Reconciled(live) => PhaseSeen = "Succeeded"
  BY <1>b, PhaseFacts DEF Reconciled
<1> USE DEF server, informer, worker, applying, deletion
<1>1. CASE Create
  <2>1. live = None /\ UNCHANGED cluster /\ nextUid \in Nat
    BY <1>1, Constants DEF Create
  <2>2. PICK spec \in UserSpecs : live' = NewLive(nextUid, spec)
    BY <1>1 DEF Create
  <2>3. live' # None /\ live'.ready = None /\ ~live'.deleting /\ live'.spec.commit \in Commits
    BY <2>1, <2>2, NewLiveFacts, Constants DEF NewLive, UserSpecs
  <2>4. PhaseSeen = "Pending" /\ PhaseSeen' = "Pending"
    BY <2>1, <2>3 DEF PhaseSeen
  <2>5. Lifecycle!Ask
    BY <2>1, <2>3, <2>4 DEF Lifecycle!Ask
  <2>6. QED
    BY <2>5 DEF Lifecycle!Next
<1>2. CASE UpdateSpec
  <2>1. PICK spec \in UserSpecs :
          /\ live' = [live EXCEPT !.spec = spec, !.generation = @ + 1]
          /\ Admitted(live, live')
    BY <1>2 DEF UpdateSpec
  <2>2. /\ live # None /\ spec \in Specs /\ spec.commit \in Commits /\ ~spec.interruptible
        /\ ~live.deleting /\ UNCHANGED cluster
    BY <1>2, Constants DEF UpdateSpec, UserSpecs, OutcomeAssumptions
  <2>3. /\ live'.ready = live.ready /\ live'.spec = spec /\ live' # None
        /\ live'.deleting = live.deleting /\ live'.generation = live.generation + 1
    BY <1>b, <2>1, <2>2, EditedLive
  <2>4. ~IsApplying(live) /\ ~IsApplying(live')
    BY <2>1, <2>2, <2>3 DEF OutcomeAssumptions, RInv, Uninterruptible, Admitted, ValidateUpdate,
       CanInterrupt, IsApplying
  <2>5. live.ready # None => live'.ready.observedGeneration # live'.generation
    BY <1>0, <1>b, <2>2, <2>3 DEF ObservedIsPast, Lives, Conditions
  <2>6. PhaseSeen # "Applying" /\ PhaseSeen' = "Pending"
    BY <2>2, <2>3, <2>4, <2>5 DEF PhaseSeen, IsApplying
  <2>7. Lifecycle!Change
    BY <1>b, <2>2, <2>3, <2>6 DEF Lifecycle!Change
  <2>8. QED
    BY <2>7 DEF Lifecycle!Next
<1>3. CASE Delete
  <2>1. live # None /\ ~live.deleting /\ UNCHANGED cluster
    BY <1>3 DEF Delete
  <2>2. CASE live.finalizer
    <3>1. /\ live' # None /\ live'.deleting /\ live'.spec = live.spec
          /\ live'.ready = live.ready /\ live'.generation = live.generation + 1
      BY <1>3, <1>b, <2>1, <2>2, DeletedLive DEF Delete
    <3>2. live.ready # None => live'.ready.observedGeneration # live'.generation
      BY <1>0, <1>b, <2>1, <3>1 DEF ObservedIsPast, Lives, Conditions
    <3>3. PhaseSeen' = IF PhaseSeen = "Applying" THEN PhaseSeen ELSE "Pending"
      BY <2>1, <3>1, <3>2 DEF PhaseSeen, IsApplying
    <3>4. Lifecycle!Delete
      BY <1>b, <2>1, <3>1, <3>3 DEF Lifecycle!Delete
    <3>5. QED
      BY <3>4 DEF Lifecycle!Next
  <2>3. CASE ~live.finalizer
    <3>1. live' = None /\ live.ready = None /\ cluster[1].objects = None
      BY <1>0, <1>3, <1>c, <2>1, <2>3 DEF Delete, NothingDone
    <3>2. PhaseSeen = "Pending" /\ PhaseSeen' = "Pending"
      BY <3>1 DEF PhaseSeen
    <3>3. Lifecycle!Delete
      BY <1>b, <2>1, <3>1, <3>2 DEF Lifecycle!Delete, Lifecycle!Gone
    <3>4. QED
      BY <3>3 DEF Lifecycle!Next
  <2>4. QED
    BY <2>2, <2>3
<1>4. CASE AddFinalizer
  <2>1. local # None /\ local = live /\ live' = WithFinalizer /\ UNCHANGED cluster
    BY <1>0, <1>4 DEF AddFinalizer, NeedsFinalizer, TypeOK
  <2>2. /\ live' # None /\ live'.deleting = live.deleting /\ live'.ready = live.ready
        /\ live'.generation = live.generation /\ live'.spec = live.spec
    BY <2>1, WrittenLives
  <2>3. PhaseSeen' = PhaseSeen
    BY <2>1, <2>2 DEF PhaseSeen, IsApplying
  <2>4. QED
    BY <1>b, <2>1, <2>2, <2>3 DEF Lifecycle!vars
<1>5. CASE StartApply
  <2>1. local = live /\ live # None /\ ~Reconciled(live) /\ UNCHANGED cluster
    BY <1>0, <1>5 DEF StartApply, AtApply, TypeOK
  <2>2. live' = SetPhase(live, "Applying", 0)
    BY <1>5, <2>1 DEF StartApply
  <2>3. /\ live' # None /\ live'.spec = live.spec /\ live'.deleting = live.deleting
        /\ live'.ready # None /\ live'.ready.reason = "Applying"
    <3>1. live \in Lives /\ "Applying" \in Phases
      BY <1>b, <2>1 DEF Phases
    <3>2. QED
      BY <2>2, <3>1, SetPhaseFacts
  <2>4. PhaseSeen' = "Applying"
    BY <2>3 DEF PhaseSeen, IsApplying
  <2>5. PhaseSeen \in {"Pending", "Failed", "Applying"}
    BY <1>b, <2>1 DEF PhaseSeen, IsApplying, Reconciled, Phases
  <2>6. Lifecycle!Begin \/ UNCHANGED Lifecycle!vars
    BY <1>b, <2>1, <2>3, <2>4, <2>5 DEF Lifecycle!Begin, Lifecycle!vars
  <2>7. QED
    BY <2>6 DEF Lifecycle!Next
<1>6. CASE CollectApply
  <2>1. /\ local = live /\ live # None /\ applyResults \in {"ok", "err"} /\ UNCHANGED cluster
    BY <1>0, <1>6 DEF CollectApply, AtApply, TypeOK, Results
  <2>2. PhaseSeen = "Applying"
    BY <1>0, <2>1, PhaseFacts DEF EntryMeansApplying
  <2>3. PICK phase \in {"Succeeded", "Failed"} :
          live' = SetPhase(live, phase, 0) /\ (phase = "Succeeded" => applyResults = "ok")
    BY <1>6, <2>1 DEF CollectApply
  <2>4. /\ live' # None /\ live'.spec = live.spec /\ live'.deleting = live.deleting
        /\ live'.ready # None /\ live'.ready.reason = phase
        /\ live'.generation = live.generation /\ live'.ready.observedGeneration = live.generation
    <3>1. live \in Lives /\ phase \in Phases /\ 0 \in Nat
      BY <1>b, <2>1 DEF Phases
    <3>2. QED
      BY <2>3, <3>1, SetPhaseFacts
  <2>5. PhaseSeen' = phase
    BY <2>4 DEF PhaseSeen, IsApplying
  <2>6. Lifecycle!Report
    BY <1>b, <1>0, <2>1, <2>2, <2>3, <2>4, <2>5 DEF Lifecycle!Report, ResultStays
  <2>7. QED
    BY <2>6 DEF Lifecycle!Next
<1>7. CASE CollectDelete
  <2>1. /\ local = live /\ live # None /\ Reconciled(live) /\ live.deleting
        /\ live' = None /\ UNCHANGED cluster /\ deleteResults \in {"ok", "err"}
    BY <1>0, <1>7 DEF CollectDelete, AtDelete, TypeOK, DestroyReported, Results
  <2>2. cluster[1].objects = None
    BY <1>0, <1>c, <2>1 DEF DestroyedIsEmpty
  <2>3. PhaseSeen = "Succeeded" /\ PhaseSeen' = "Pending"
    BY <1>d, <2>1 DEF PhaseSeen
  <2>4. Lifecycle!Vanish
    BY <1>b, <2>1, <2>2, <2>3 DEF Lifecycle!Vanish, Lifecycle!Gone
  <2>5. QED
    BY <2>4 DEF Lifecycle!Next
<1>8. CASE ApplyProgress \/ ApplySucceeds
  <2>1. /\ applier # None /\ live # None /\ IsApplying(live) /\ applier.uid = 1
        /\ applier.commit = live.spec.commit /\ UNCHANGED live
    BY <1>0, <1>8, FirstUid DEF ApplyProgress, ApplySucceeds, IInv, ApplyingWhileApplierRuns,
       ApplierIsCurrent
  <2>2. cluster'[1].objects \in {Partial, live.spec.commit}
    <3>1. PICK objects \in {Partial, live.spec.commit} :
            cluster' = [cluster EXCEPT ![1] = [objects |-> objects, account |-> applier.account]]
      BY <1>8, <2>1 DEF ApplyProgress, ApplySucceeds
    <3>2. cluster'[1] = [objects |-> objects, account |-> applier.account]
      BY <3>1, FirstUid
    <3>3. QED
      BY <3>2
  <2>3. PhaseSeen = "Applying" /\ PhaseSeen' = PhaseSeen
    BY <2>1, PhaseFacts DEF PhaseSeen
  <2>4. Lifecycle!Deploy
    BY <1>b, <2>1, <2>2, <2>3 DEF Lifecycle!Deploy
  <2>5. QED
    BY <2>4 DEF Lifecycle!Next
<1>9. CASE DestroyProgress \/ DestroySucceeds
  <2>1. destroyer # None /\ destroyer.uid = 1 /\ UNCHANGED live
    BY <1>9, FirstUid DEF DestroyProgress, DestroySucceeds
  <2>2. cluster'[1].objects \in {Partial, None}
    <3>1. CASE DestroyProgress
      <4>1. cluster' = [cluster EXCEPT ![1] = [cluster[1] EXCEPT !.objects = Partial]]
        BY <2>1, <3>1 DEF DestroyProgress
      <4>2. cluster'[1].objects = Partial
        BY <4>1, FirstUid DEF Deployments
      <4>3. QED
        BY <4>2
    <3>2. CASE DestroySucceeds
      BY <1>c, <2>1, <3>2, FirstUid DEF DestroySucceeds
    <3>3. QED
      BY <1>9, <3>1, <3>2
  <2>3. PhaseSeen' = PhaseSeen
    BY <2>1 DEF PhaseSeen
  <2>4. CASE live = None
    <3>1. cluster[1] = Empty
      BY <1>0, <2>4 DEF NothingDone
    <3>2. DestroySucceeds
      BY <1>9, <1>c, <2>1, <3>1 DEF DestroyProgress
    <3>3. cluster' = cluster
      BY <2>1, <3>1, <3>2, FirstUid DEF DestroySucceeds
    <3>4. QED
      BY <2>1, <3>3, UnseenStutters DEF Unseen
  <2>5. CASE live # None
    <3>1. live.deleting /\ PhaseSeen = "Succeeded"
      BY <1>0, <1>d, <2>1, <2>5 DEF DestroyIsLast, Leaving
    <3>2. Lifecycle!Destroy
      BY <1>b, <2>1, <2>2, <2>3, <2>5, <3>1 DEF Lifecycle!Destroy
    <3>3. QED
      BY <3>2 DEF Lifecycle!Next
  <2>6. QED
    BY <2>4, <2>5
<1>10. CASE Unseen
  BY <1>10, UnseenStutters
<1>11. \/ Create \/ UpdateSpec \/ Delete \/ AddFinalizer \/ StartApply \/ CollectApply
       \/ CollectDelete \/ ApplyProgress \/ ApplySucceeds \/ DestroyProgress
       \/ DestroySucceeds \/ Unseen
  BY <1>a, Disjuncts DEF Unseen, vars, CacheSync, Resync, Deliver, Get, KeepFinalizer,
     BackoffWait, BeginDelete, Rest, Rejected, ReconcileError, ApplyFails, Crash
<1>12. QED
  BY <1>1, <1>2, <1>3, <1>4, <1>5, <1>6, <1>7, <1>8, <1>9, <1>10, <1>11

\* Under the assumptions, the controller with its cache, queue, goroutines, result
\* maps, crashes and conflicts does what LiveLifecycle says, and nothing else.
THEOREM Refinement ==
  ASSUME OutcomeAssumptions
  PROVE  Spec => ImplementsLifecycle
<1>1. Init => Lifecycle!Init
  BY InitRefines DEF OutcomeAssumptions
<1>2. IInv /\ RInv /\ OInv /\ [Next]_vars => [Lifecycle!Next]_(Lifecycle!vars)
  BY StepRefines
<1>3. QED
  BY OutcomeInvariance, <1>1, <1>2, PTL DEF Spec, ImplementsLifecycle, Lifecycle!Spec
=============================================================================
