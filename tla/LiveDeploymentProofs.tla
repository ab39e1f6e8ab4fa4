------------------------ MODULE LiveDeploymentProofs ------------------------
(* The two controllers together, for any number of Lives, LiveDeployments and *)
(* pushes: what the Live controller guarantees survives the LiveDeployment    *)
(* controller's writes, and no commit of the branch overtakes another's apply.*)
EXTENDS LiveDeployment, LiveSafetyProofs, LiveOutcomeProofs

-----------------------------------------------------------------------------
\* The steps of the composition as steps of the Live controller's specification.
ControllerStep ==
  \/ Create \/ Delete \/ Informer \/ Reconcile \/ Goroutines \/ Crash \/ UNCHANGED vars

LEMMA TemplateSpec ==
  ASSUME NEW commit \in Commits
  PROVE  SpecFor(commit) \in UserSpecs /\ SpecFor(commit) \in Specs
BY DeploymentAssumption, Constants DEF SpecFor, UserSpecs

LEMMA CompositionSteps ==
  ASSUME LDTypeOK, [LDNext]_allVars
  PROVE  ControllerStep \/ UpdateExisting
<1>1. CASE CreateLiveForCommit
  <2>1. SpecFor(ldLocal.commit) \in UserSpecs
    BY <1>1, TemplateSpec DEF CreateLiveForCommit, LDTypeOK
  <2>2. Create
    BY <1>1, <2>1 DEF CreateLiveForCommit, Create
  <2>3. QED
    BY <2>2 DEF ControllerStep
<1>2. CASE FetchBranch \/ AlreadyExists \/ GetExisting \/ UpdateRejected
  BY <1>2 DEF FetchBranch, AlreadyExists, GetExisting, UpdateRejected, ControllerStep
<1>3. CASE Push \/ CreateDeployment \/ DeleteDeployment \/ LDCacheSync
  BY <1>3 DEF Push, CreateDeployment, DeleteDeployment, LDCacheSync, ControllerStep
<1>4. CASE CreateForeign \/ CollectGarbage \/ ManagerCrash
  BY <1>4 DEF CreateForeign, CollectGarbage, ManagerCrash, ControllerStep
<1>5. CASE Informer \/ Reconcile \/ Goroutines
  BY <1>5 DEF ControllerStep
<1>6. CASE UNCHANGED allVars
  BY <1>6 DEF allVars, ControllerStep
<1>7. QED
  BY <1>1, <1>2, <1>3, <1>4, <1>5, <1>6 DEF LDNext, LDReconcile

LEMMA ControllerStepIsNext == ControllerStep => [Next]_vars
BY DEF ControllerStep, Next, Users

\* The update of an existing Live: none, or an edit as users make them.
LEMMA UpdateFacts ==
  ASSUME TypeOK, LDTypeOK, UpdateExisting
  PROVE  /\ live \in Lives /\ live # None /\ live' \in Lives /\ live' # None
         /\ live'.uid = live.uid /\ live'.deleting = live.deleting
         /\ live'.finalizer = live.finalizer /\ live'.ready = live.ready
         /\ live'.spec = SpecFor(ldLocal.commit) /\ SpecFor(ldLocal.commit) \in UserSpecs
         /\ live'.spec = live.spec => live' = live
         /\ live'.spec # live.spec => live'.generation = live.generation + 1
         /\ Admitted(live, live')
         /\ UNCHANGED <<nextUid, cluster, cache, notify, queued, pc, local, applyResults,
                        applier, deleteResults, destroyer, faults>>
<1>1. live \in Lives /\ live # None /\ existingLive = live /\ live' = Updated
  BY DEF UpdateExisting, UpdateAccepted, TypeOK, LDTypeOK
<1>2. ldLocal.commit \in Commits
  BY DEF UpdateExisting, LDTypeOK
<1> DEFINE spec == SpecFor(ldLocal.commit)
           generation == IF live.spec = spec THEN live.generation ELSE live.generation + 1
<1>3. spec \in UserSpecs /\ spec \in Specs /\ generation \in Nat
  BY <1>1, <1>2, TemplateSpec DEF Lives
<1>4. live' = [live EXCEPT !.spec = spec, !.generation = generation]
  BY <1>1 DEF Updated
<1>5. /\ Admitted(live, live')
      /\ UNCHANGED <<nextUid, cluster, cache, notify, queued, pc, local, applyResults,
                     applier, deleteResults, destroyer, faults>>
  BY <1>1 DEF UpdateExisting, UpdateAccepted, informer, worker, applying, deletion
<1>6. live.spec = spec => [live EXCEPT !.spec = spec, !.generation = generation] = live
  BY <1>1 DEF Lives
<1> HIDE DEF spec
<1>7. /\ live' \in Lives /\ live' # None
      /\ live'.uid = live.uid /\ live'.deleting = live.deleting
      /\ live'.finalizer = live.finalizer /\ live'.ready = live.ready
      /\ live'.spec = spec /\ live'.generation = generation
  BY <1>1, <1>3, <1>4, NoneAssumption DEF Lives
<1>8. QED
  BY <1>1, <1>3, <1>4, <1>5, <1>6, <1>7 DEF spec

\* The Live controller's invariant is the composition's, too.
LEMMA UpdateKeepsInvariant ==
  ASSUME IInv, LDTypeOK, UpdateExisting
  PROVE  IInv'
<1>1. TypeOK
  BY DEF IInv
<1>2. TypeOK'
  BY <1>1, UpdateFacts DEF TypeOK
<1>3. QED
  BY <1>1, <1>2, UpdateFacts DEF IInv, CopiesWellFormed, WellFormed, DeletionIsFinal, DeletionSeen,
     FinalizerFirst, DestroyerUid, ApplyingWhileApplierRuns, DestroyOnlyWhenDeleted, IsApplying

LEMMA DeploymentTypeStep ==
  ASSUME IInv, LDTypeOK, [LDNext]_allVars
  PROVE  LDTypeOK'
<1> USE DeploymentAssumption DEF LDTypeOK, git, deployments, ldWorker, ldVars, LDReturn,
        LDFinish, LDError
<1>1. CASE Push
  BY <1>1 DEF Push
<1>2. CASE CreateForeign \/ CollectGarbage
  BY <1>2 DEF CreateForeign, CollectGarbage
<1>3. CASE CreateDeployment
  BY <1>3 DEF CreateDeployment
<1>4. CASE DeleteDeployment
  BY <1>4 DEF DeleteDeployment
<1>5. CASE FetchBranch
  <2>1. /\ ldLocal' \in [uid: 1..MaxDeployments, commit: Commits]
        /\ ldLocal' \in [uid: Nat, commit: Commits]
    BY <1>5 DEF FetchBranch
  <2>2. QED
    BY <1>5, <2>1 DEF FetchBranch
<1>6. CASE CreateLiveForCommit
  <2>1. owner' = [owner EXCEPT ![nextUid] = ldLocal.uid] /\ ldLocal.uid \in 1..MaxDeployments
    BY <1>6 DEF CreateLiveForCommit
  <2>2. owner' \in [Uids -> 1..MaxDeployments \cup {None}]
    BY <2>1
  <2>3. QED
    BY <1>6, <2>2 DEF CreateLiveForCommit
<1>7. CASE AlreadyExists
  BY <1>7 DEF AlreadyExists
<1>8. CASE GetExisting
  BY <1>8 DEF GetExisting, IInv, TypeOK
<1>9. CASE UpdateExisting \/ UpdateRejected
  <2>1. /\ ldPc' = "idle" /\ ldLocal' = None /\ existingLive' = None /\ ldQueued' \in BOOLEAN
        /\ UNCHANGED <<tip, deployment, nextDeployment, ldCache, owner>>
    <3>1. ldQueued' \in BOOLEAN
      <4>1. (ldQueued \/ PollsAgain) \in BOOLEAN
        BY DEF PollsAgain
      <4>2. QED
        BY <1>9, <4>1 DEF UpdateExisting, UpdateRejected
    <3>2. QED
      BY <1>9, <3>1 DEF UpdateExisting, UpdateRejected
  <2>2. QED
    BY <2>1
<1>10. CASE ManagerCrash
  BY <1>10 DEF ManagerCrash
<1>11. CASE LDCacheSync
  BY <1>11 DEF LDCacheSync
<1>12. CASE UNCHANGED ldVars
  BY <1>12
<1>13. QED
  BY <1>1, <1>2, <1>3, <1>4, <1>5, <1>6, <1>7, <1>8, <1>9, <1>10, <1>11, <1>12
     DEF LDNext, LDReconcile, allVars

LEMMA CompositionInvariance == LDSpec => [](IInv /\ LDTypeOK)
<1>1. LDInit => IInv /\ LDTypeOK
  <2> SUFFICES ASSUME LDInit PROVE IInv /\ LDTypeOK
    OBVIOUS
  <2>1. IInv
    BY InitInv DEF LDInit
  <2>2. tip \in Commits /\ nextDeployment \in 1..(MaxDeployments + 1)
    BY DeploymentAssumption DEF LDInit
  <2>3. LDTypeOK
    BY <2>2 DEF LDInit, LDTypeOK
  <2>4. QED
    BY <2>1, <2>3
<1>2. IInv /\ LDTypeOK /\ [LDNext]_allVars => (IInv /\ LDTypeOK)'
  <2> SUFFICES ASSUME IInv, LDTypeOK, [LDNext]_allVars PROVE IInv' /\ LDTypeOK'
    OBVIOUS
  <2>1. CASE ControllerStep
    BY <2>1, ControllerStepIsNext, TypeStep, SafeStep, DeploymentTypeStep DEF IInv, Safe
  <2>2. CASE UpdateExisting
    BY <2>2, UpdateKeepsInvariant, DeploymentTypeStep
  <2>3. QED
    BY <2>1, <2>2, CompositionSteps
<1>3. QED
  BY <1>1, <1>2, PTL DEF LDSpec

\* The worker has a commit and an owner in hand whenever it writes, and the copy
\* that it writes to.
THEOREM DeploymentTypeCorrect == LDSpec => []LDTypeOK
BY CompositionInvariance, PTL

-----------------------------------------------------------------------------
\* What the Live controller's steps do to the spec: nothing.
LEMMA SpecStays ==
  ASSUME IInv, ControllerStep, live # None, live' # None
  PROVE  live'.spec = live.spec
<1>1. live \in Lives
  BY DEF IInv, TypeOK
<1>2. CASE Delete
  BY <1>1, <1>2, DeletedLive DEF Delete
<1>3. CASE AddFinalizer
  <2>1. local # None /\ local = live /\ live' = WithFinalizer
    BY <1>3 DEF AddFinalizer
  <2>2. QED
    BY <2>1, WrittenLives
<1>4. CASE StartApply \/ CollectApply
  <2>1. local = live /\ \E phase \in Phases : live' = SetPhase(live, phase, 0)
    BY <1>4 DEF StartApply, CollectApply, Phases
  <2>2. QED
    BY <1>1, <2>1, SetPhaseFacts
<1>5. CASE UNCHANGED live
  BY <1>5
<1>6. QED
  BY <1>2, <1>3, <1>4, <1>5 DEF ControllerStep, Create, CollectDelete, Informer, Reconcile,
     Goroutines, vars, server, CacheSync, Resync, Deliver, Get, KeepFinalizer, BackoffWait,
     BeginDelete, Rest, Rejected, ReconcileError, ApplyProgress, ApplySucceeds, ApplyFails,
     DestroyProgress, DestroySucceeds, DestroyFails, Crash

\* Users and templates write no interruptible Lives.
LEMMA UninterruptibleStep ==
  ASSUME InterruptibleChoices \subseteq {FALSE}, IInv, LDTypeOK, Uninterruptible, [LDNext]_allVars
  PROVE  Uninterruptible'
<1> USE DEF Uninterruptible
<1>1. CASE UpdateExisting
  BY <1>1, UpdateFacts DEF IInv, UserSpecs
<1>2. CASE ControllerStep /\ live # None
  BY <1>2, SpecStays
<1>3. CASE ControllerStep /\ live = None /\ live' # None
  <2>1. pc # "idle" => local # live
    BY <1>3 DEF IInv, TypeOK
  <2>2. Create
    BY <1>3, <2>1 DEF NeedsFinalizer, AtApply, ControllerStep, Delete, CollectDelete, Informer, Reconcile, Goroutines, vars,
       server, CacheSync, Resync, Deliver, Get, AddFinalizer, KeepFinalizer, BackoffWait, StartApply,
       CollectApply, BeginDelete, Rest, Rejected, ReconcileError, ApplyProgress, ApplySucceeds,
       ApplyFails, DestroyProgress, DestroySucceeds, DestroyFails, Crash
  <2>3. PICK spec \in UserSpecs : live' = NewLive(nextUid, spec)
    BY <2>2 DEF Create
  <2>4. QED
    BY <2>3 DEF NewLive, UserSpecs
<1>4. QED
  BY <1>1, <1>2, <1>3, CompositionSteps

LEMMA CompositionUninterruptible ==
  ASSUME InterruptibleChoices \subseteq {FALSE}
  PROVE  LDSpec => []Uninterruptible
<1>1. LDInit => Uninterruptible
  BY DEF LDInit, Init, Uninterruptible
<1>2. IInv /\ LDTypeOK /\ Uninterruptible /\ [LDNext]_allVars => Uninterruptible'
  BY UninterruptibleStep
<1>3. QED
  BY CompositionInvariance, <1>1, <1>2, PTL DEF LDSpec

\* With the webhook and without interruptible Lives, the LiveDeployment controller
\* changes a commit only when no apply of the Live runs.
THEOREM CommitsTakeTurns ==
  ASSUME InterruptibleChoices \subseteq {FALSE}, WebhooksEnabled = TRUE
  PROVE  LDSpec => OneCommitAtATime
<1> DEFINE Turns == live # None /\ live' # None /\ live.spec # live'.spec => applier = None
<1>1. IInv /\ LDTypeOK /\ Uninterruptible /\ [LDNext]_allVars => [Turns]_allVars
  <2> SUFFICES ASSUME IInv, LDTypeOK, Uninterruptible, [LDNext]_allVars,
                      live # None, live' # None, live.spec # live'.spec
               PROVE  applier = None
    OBVIOUS
  <2>1. UpdateExisting
    BY CompositionSteps, SpecStays
  <2>2. ~live.spec.interruptible /\ ~live'.spec.interruptible /\ Admitted(live, live')
    BY <2>1, UpdateFacts DEF IInv, UserSpecs, Uninterruptible
  <2>3. live'.ready = live.ready
    BY <2>1, UpdateFacts DEF IInv
  <2>4. ~IsApplying(live)
    BY <2>2, <2>3 DEF Admitted, ValidateUpdate, CanInterrupt, IsApplying
  <2>5. QED
    BY <2>4 DEF IInv, ApplyingWhileApplierRuns
<1>2. QED
  BY CompositionInvariance, CompositionUninterruptible, <1>1, PTL DEF LDSpec, OneCommitAtATime

-----------------------------------------------------------------------------
\* The update of a Live that is Ready makes it not Ready, that of a Live that is
\* being applied is refused.
LEMMA UpdateKeepsReady ==
  ASSUME InterruptibleChoices \subseteq {FALSE}, WebhooksEnabled = TRUE,
         IInv, LDTypeOK, RInv, UpdateExisting
  PROVE  RInv'
<1>1. /\ TypeOK /\ live \in Lives /\ live # None /\ live' # None
      /\ live'.ready = live.ready /\ live'.finalizer = live.finalizer
      /\ UNCHANGED <<cluster, applyResults, applier>>
  BY UpdateFacts DEF IInv
<1>2. CASE live'.spec = live.spec
  <2>1. live' = live
    BY <1>1, <1>2, UpdateFacts
  <2>2. QED
    BY <1>1, <2>1 DEF RInv, Uninterruptible, ObservedIsPast, EntryMeansApplying, ApplierIsCurrent,
       ResultIsCurrent, ReadyIsApplied
<1>3. CASE live'.spec # live.spec
  <2>1. live'.generation = live.generation + 1 /\ Admitted(live, live') /\ live'.spec \in UserSpecs
    BY <1>1, <1>3, UpdateFacts
  <2>2. ~live.spec.interruptible /\ ~live'.spec.interruptible
    BY <1>1, <2>1 DEF RInv, Uninterruptible, UserSpecs
  <2>3. ~IsApplying(live)
    BY <1>1, <2>1, <2>2 DEF Admitted, ValidateUpdate, CanInterrupt, IsApplying
  <2>4. applyResults = "none" /\ applier = None
    BY <2>3 DEF RInv, EntryMeansApplying, IInv, ApplyingWhileApplierRuns
  <2>5. live.generation \in Nat /\ (live.ready # None => live.ready.observedGeneration \in Nat)
    BY <1>1 DEF Lives, Conditions
  <2>6. live.ready # None => live'.ready.observedGeneration < live'.generation
    BY <1>1, <2>1, <2>5 DEF RInv, ObservedIsPast
  <2>7. ObservedIsPast' /\ ~Reconciled(live')
    BY <1>1, <2>1, <2>5, <2>6 DEF ObservedIsPast, Reconciled
  <2>8. QED
    BY <1>1, <2>2, <2>4, <2>7 DEF RInv, Uninterruptible, EntryMeansApplying, ApplierIsCurrent,
       ResultIsCurrent, ReadyIsApplied
<1>4. QED
  BY <1>2, <1>3

\* Under the assumptions of ReadyMeansApplied, the two controllers together keep
\* it: a LiveDeployment never makes a commit Ready that is not applied.
THEOREM DeployedMeansApplied ==
  ASSUME InterruptibleChoices \subseteq {FALSE}, WebhooksEnabled = TRUE,
         "lostReply" \notin FaultKinds
  PROVE  LDSpec => []ReadyIsApplied
<1>1. LDInit => RInv
  BY InitReady DEF LDInit
<1>2. IInv /\ LDTypeOK /\ RInv /\ [LDNext]_allVars => RInv'
  BY CompositionSteps, ControllerStepIsNext, ReadyStep, UpdateKeepsReady
<1>3. RInv => ReadyIsApplied
  BY DEF RInv
<1>4. QED
  BY CompositionInvariance, <1>1, <1>2, <1>3, PTL DEF LDSpec
-----------------------------------------------------------------------------
\* The Live controller's other guarantees, kept by the updates as well.

\* While a Live is applied it exists, says Applying and holds the finalizer, and
\* Destroy runs only for Lives that are deleted, whoever writes the spec.
THEOREM AnnouncedTogether == LDSpec => [](ApplyingWhileApplierRuns /\ DestroyOnlyWhenDeleted)
<1>1. IInv => ApplyingWhileApplierRuns /\ DestroyOnlyWhenDeleted
  BY DEF IInv
<1>2. QED
  BY CompositionInvariance, <1>1, PTL

\* The webhook lets an update of a LiveDeployment change everything but the account.
LEMMA UpdateKeepsAccounts ==
  ASSUME WebhooksEnabled = TRUE, IInv, LDTypeOK, AInv, UpdateExisting
  PROVE  AInv'
<1>1. /\ live # None /\ live' # None /\ live'.uid = live.uid /\ Admitted(live, live')
      /\ UNCHANGED <<nextUid, cluster, cache, local, applier, destroyer>>
  BY UpdateFacts DEF IInv
<1>2. GetServiceAccountName(live') = GetServiceAccountName(live)
  BY <1>1 DEF Admitted, ValidateUpdate, GetServiceAccountName
<1>3. PICK acc \in Assignments : AgreeOn(acc)
  BY DEF AInv
<1>4. AgreeOn(acc)'
  BY <1>1, <1>2, <1>3 DEF AgreeOn
<1>5. FutureIsEmpty'
  BY <1>1 DEF AInv, FutureIsEmpty
<1>6. QED
  BY <1>4, <1>5 DEF AInv

\* With the webhook, what a LiveDeployment had applied is destroyed as the account
\* that applied it, whatever Live the template was written to.
THEOREM DestroyedAsAppliedTogether ==
  ASSUME WebhooksEnabled = TRUE
  PROVE  LDSpec => []DestroyAsApplied
<1>1. LDInit => AInv
  BY InitAccounts DEF LDInit
<1>2. IInv /\ LDTypeOK /\ AInv /\ [LDNext]_allVars => AInv'
  BY CompositionSteps, ControllerStepIsNext, AccountStep, UpdateKeepsAccounts
<1>3. IInv /\ AInv => DestroyAsApplied
  BY DEF IInv, TypeOK, AInv, AgreeOn, DestroyAsApplied, Destroyers
<1>4. QED
  BY CompositionInvariance, <1>1, <1>2, <1>3, PTL DEF LDSpec

\* An update that changes the Live makes a version that no cache has seen.
LEMMA UpdateKeepsWakeup ==
  ASSUME IInv, LDTypeOK, QInv, UpdateExisting
  PROVE  QInv'
<1>1. /\ live \in Lives /\ live # None /\ live' \in Lives /\ live' # None
      /\ UNCHANGED <<cache, notify, queued, pc, local, applier, destroyer>>
      /\ cache # None => cache \in Lives
  BY UpdateFacts DEF IInv, TypeOK
<1>2. CASE live'.spec = live.spec
  <2>1. live' = live
    BY <1>2, UpdateFacts DEF IInv
  <2>2. QED
    BY <1>1, <2>1 DEF QInv, CacheIsOlder, LatestInHand, QuiescentMeansDone
<1>3. CASE live'.spec # live.spec
  <2>1. live'.uid = live.uid /\ live'.generation = live.generation + 1
    BY <1>3, UpdateFacts DEF IInv
  <2>2. live.generation \in Nat
    BY <1>1 DEF Lives
  <2>3. Before(live, live')
    BY <2>1, <2>2 DEF Before
  <2>4. cache # None => Before(cache, live')
    BY <1>1, <2>3, BeforeIsTransitive DEF QInv, CacheIsOlder
  <2>5. cache' # live'
    BY <1>1, <2>4, BeforeIsStrict
  <2>6. QED
    BY <1>1, <2>4, <2>5 DEF QInv, CacheIsOlder, LatestInHand, QuiescentMeansDone
<1>4. QED
  BY <1>2, <1>3

\* The updates of a LiveDeployment cost the Live controller no wake-up: when nothing
\* is queued, running or on its way there, the Live is reconciled at its last spec.
THEOREM NoLostWakeupTogether == LDSpec => []QuiescentMeansDone
<1>1. LDInit => QInv
  BY InitWakeup DEF LDInit
<1>2. IInv /\ LDTypeOK /\ QInv /\ [LDNext]_allVars => QInv'
  BY CompositionSteps, ControllerStepIsNext, WakeupStep, UpdateKeepsWakeup
<1>3. QInv => QuiescentMeansDone
  BY DEF QInv
<1>4. QED
  BY CompositionInvariance, <1>1, <1>2, <1>3, PTL DEF LDSpec
=============================================================================
