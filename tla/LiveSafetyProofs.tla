-------------------------- MODULE LiveSafetyProofs --------------------------
(* DestroyAsApplied and QuiescentMeansDone, proved: that whoever applied also *)
(* destroys, and that no wake-up is lost.                                     *)
EXTENDS LiveControllerProofs

-----------------------------------------------------------------------------
\* Accounts. The webhook gives every uid one account for as long as it exists:
\* `acc` is that account, and every copy, goroutine and deployment agrees on it.
AgreeOn(acc) ==
  /\ \A v \in {live, cache, local} : v # None => GetServiceAccountName(v) = acc[v.uid]
  /\ applier # None => applier.account = acc[applier.uid]
  /\ destroyer # None => destroyer.account = acc[destroyer.uid]
  /\ \A u \in Uids : cluster[u].account \in {None, acc[u]}

Assignments == [Uids -> Accounts \cup {None}]

\* Nothing was ever deployed for a Live that is still to be created.
FutureIsEmpty == \A u \in Uids : u >= nextUid => cluster[u] = Empty

AInv == FutureIsEmpty /\ \E acc \in Assignments : AgreeOn(acc)

LEMMA InitAccounts == Init => AInv
<1> SUFFICES ASSUME Init PROVE AInv
  OBVIOUS
<1> DEFINE acc == [u \in Uids |-> None]
<1>1. acc \in Assignments /\ AgreeOn(acc)
  BY DEF Init, Assignments, AgreeOn, Empty
<1>2. QED
  BY <1>1 DEF Init, AInv, FutureIsEmpty

\* All but the creation of a Live leave the accounts as they are.
LEMMA AgreeStep ==
  ASSUME WebhooksEnabled = TRUE, IInv, [Next]_vars, ~Create,
         NEW acc \in Assignments, AgreeOn(acc)
  PROVE  AgreeOn(acc)'
<1>0. TypeOK /\ TypeOK'
  BY TypeStep DEF IInv
<1>s. \A v, w : v.spec = w.spec => GetServiceAccountName(v) = GetServiceAccountName(w)
  BY DEF GetServiceAccountName
<1> USE DEF AgreeOn, server, informer, worker, applying, deletion
<1>1. CASE UpdateSpec
  <2>1. PICK spec \in UserSpecs :
          /\ live' = [live EXCEPT !.spec = spec, !.generation = @ + 1]
          /\ Admitted(live, live')
    BY <1>1 DEF UpdateSpec
  <2>2. live \in Lives /\ live # None /\ spec \in Specs
    BY <1>0, <1>1, Constants DEF UpdateSpec, TypeOK
  <2>3. live'.uid = live.uid /\ live' # None
    BY <2>1, <2>2, EditedLive
  <2>4. GetServiceAccountName(live') = GetServiceAccountName(live)
    BY <2>1 DEF Admitted, ValidateUpdate, GetServiceAccountName
  <2>5. UNCHANGED <<cache, local, applier, destroyer, cluster>>
    BY <1>1 DEF UpdateSpec
  <2>6. QED
    BY <2>2, <2>3, <2>4, <2>5
<1>2. CASE Delete
  <2>1. live \in Lives /\ live # None
    BY <1>0, <1>2 DEF Delete, TypeOK
  <2>2. live' = None \/ (live'.uid = live.uid /\ live'.spec = live.spec)
    BY <1>2, <2>1, DeletedLive DEF Delete
  <2>3. live' = None \/ GetServiceAccountName(live') = GetServiceAccountName(live)
    BY <1>s, <2>2
  <2>4. UNCHANGED <<cache, local, applier, destroyer, cluster>>
    BY <1>2 DEF Delete
  <2>5. QED
    BY <2>1, <2>2, <2>3, <2>4
<1>3. CASE CacheSync \/ Resync \/ Deliver \/ Get
  BY <1>3 DEF CacheSync, Resync, Deliver, Get
<1>4. CASE AddFinalizer
  <2>1. local # None /\ live' = WithFinalizer
    BY <1>0, <1>4 DEF AddFinalizer, NeedsFinalizer, TypeOK
  <2>2. live' # None /\ live'.uid = local.uid /\ live'.spec = local.spec
    BY <2>1, WrittenLives
  <2>3. local' = None \/ local' = live'
    BY <1>4, <2>1 DEF AddFinalizer, ReplyLost, Requeue
  <2>4. UNCHANGED <<cache, applier, destroyer, cluster>>
    BY <1>4 DEF AddFinalizer
  <2>5. QED
    BY <1>s, <2>1, <2>2, <2>3, <2>4
<1>5. CASE KeepFinalizer \/ BackoffWait \/ Rest \/ Rejected \/ ReconcileError
  BY <1>5 DEF KeepFinalizer, BackoffWait, Rest, Rejected, ReconcileError, Return, Requeue
<1>6. CASE StartApply \/ CollectApply
  <2>1. local \in Lives /\ local # None
    BY <1>0, <1>6 DEF StartApply, CollectApply, AtApply, TypeOK
  <2>2. PICK phase \in Phases : live' = SetPhase(local, phase, 0)
    BY <1>6 DEF StartApply, CollectApply, Phases
  <2>3. live' # None /\ live'.uid = local.uid /\ live'.spec = local.spec
    BY <2>1, <2>2, SetPhaseFacts
  <2>4. UNCHANGED <<cache, destroyer, cluster>> /\ local' = None
    BY <1>6 DEF StartApply, CollectApply, Return, ReplyLost, Requeue
  <2>5. applier' # applier =>
          applier'.uid = local.uid /\ applier'.account = GetServiceAccountName(local)
    BY <1>6 DEF StartApply, CollectApply
  <2>6. QED
    BY <1>s, <2>1, <2>3, <2>4, <2>5
<1>7. CASE BeginDelete
  <2>1. local # None
    BY <1>0, <1>7 DEF BeginDelete, AtDelete, TypeOK
  <2>2. QED
    BY <1>7, <2>1 DEF BeginDelete
<1>8. CASE CollectDelete
  BY <1>8 DEF CollectDelete, Return, ReplyLost, Requeue
<1>9. CASE ApplyProgress \/ ApplySucceeds
  <2>1. applier # None /\ applier.uid \in Uids
    BY <1>0, <1>9 DEF ApplyProgress, ApplySucceeds, TypeOK, Appliers
  <2>2. \E objects \in {Partial, applier.commit} :
          cluster' = [cluster EXCEPT ![applier.uid] =
                        [objects |-> objects, account |-> applier.account]]
    BY <1>9 DEF ApplyProgress, ApplySucceeds
  <2>3. \A u \in Uids : cluster'[u].account \in {None, acc[u]}
    BY <1>0, <2>1, <2>2 DEF TypeOK
  <2>4. UNCHANGED <<live, cache, local, destroyer>> /\ applier' \in {None, applier}
    BY <1>9 DEF ApplyProgress, ApplySucceeds
  <2>5. QED
    BY <2>3, <2>4
<1>10. CASE ApplyFails \/ DestroyFails
  BY <1>10 DEF ApplyFails, DestroyFails
<1>11. CASE DestroyProgress \/ DestroySucceeds
  <2>1. destroyer.uid \in Uids
    BY <1>0, <1>11 DEF DestroyProgress, DestroySucceeds, TypeOK, Destroyers
  <2>2. \A u \in Uids : cluster'[u].account \in {None, cluster[u].account}
    BY <1>0, <1>11, <2>1 DEF DestroyProgress, DestroySucceeds, TypeOK, Deployments, Empty
  <2>3. UNCHANGED <<live, cache, local, applier>> /\ destroyer' \in {None, destroyer}
    BY <1>11 DEF DestroyProgress, DestroySucceeds
  <2>4. QED
    BY <2>2, <2>3
<1>12. CASE Crash
  BY <1>12 DEF Crash
<1>13. CASE UNCHANGED vars
  BY <1>13 DEF vars
<1>14. QED
  BY Disjuncts, <1>1, <1>2, <1>3, <1>4, <1>5, <1>6, <1>7, <1>8, <1>9, <1>10, <1>11, <1>12, <1>13

LEMMA AccountStep ==
  ASSUME WebhooksEnabled = TRUE, IInv, AInv, [Next]_vars
  PROVE  AInv'
<1>0. /\ TypeOK /\ TypeOK' /\ CopiesWellFormed /\ DestroyerUid
      /\ applier # None => applier.uid \in Uids /\ applier.uid < nextUid
      /\ destroyer # None => destroyer.uid \in Uids /\ destroyer.uid < nextUid
  BY TypeStep DEF IInv, CopiesWellFormed, WellFormed, ApplyingWhileApplierRuns, DestroyerUid,
     TypeOK, Destroyers
<1>1. PICK acc \in Assignments : AgreeOn(acc)
  BY DEF AInv
<1>2. CASE Create
  <2>1. PICK spec \in UserSpecs : live' = NewLive(nextUid, spec)
    BY <1>2 DEF Create
  <2>2. nextUid \in Uids /\ nextUid' = nextUid + 1 /\ nextUid \in Nat
    BY <1>2, Constants DEF Create
  <2>3. /\ live' # None /\ live'.uid = nextUid
        /\ GetServiceAccountName(live') \in Accounts
    BY <2>1, <2>2, NewLiveFacts, Constants
       DEF NewLive, UserSpecs, GetServiceAccountName, Accounts
  <2>4. UNCHANGED <<cache, local, applier, destroyer, cluster>>
    BY <1>2 DEF Create, worker, informer, applying, deletion
  <2>5. PICK new \in Assignments : /\ new[nextUid] = GetServiceAccountName(live')
                                /\ \A u \in Uids : u # nextUid => new[u] = acc[u]
    <3>1. [acc EXCEPT ![nextUid] = GetServiceAccountName(live')] \in Assignments
      BY <1>1, <2>2, <2>3 DEF Assignments
    <3>2. QED
      BY <1>1, <2>2, <3>1 DEF Assignments
  <2>6. \A v \in {cache, local} : v # None => v.uid \in Uids /\ v.uid # nextUid
    BY <1>0, <2>2 DEF CopiesWellFormed, WellFormed, Uids
  <2>7. cluster[nextUid].account = None
    BY <1>0, <2>2 DEF AInv, FutureIsEmpty, Empty
  <2>8. AgreeOn(new)'
    <3>1. \A v \in {live', cache', local'} : v # None => GetServiceAccountName(v) = new[v.uid]
      BY <1>1, <2>3, <2>4, <2>5, <2>6 DEF AgreeOn
    <3>2. \A u \in Uids : cluster'[u].account \in {None, new[u]}
      BY <1>1, <2>4, <2>5, <2>7 DEF AgreeOn
    <3>3. /\ applier # None => applier.uid # nextUid
          /\ destroyer # None => destroyer.uid # nextUid
      BY <1>0, <2>2 DEF Uids
    <3>4. /\ applier' # None => applier'.account = new[applier'.uid]
          /\ destroyer' # None => destroyer'.account = new[destroyer'.uid]
      BY <1>0, <1>1, <2>4, <2>5, <3>3 DEF AgreeOn
    <3>5. QED
      BY <3>1, <3>2, <3>4 DEF AgreeOn
  <2>9. FutureIsEmpty'
    BY <2>2, <2>4 DEF AInv, FutureIsEmpty, Uids
  <2>10. QED
    BY <2>5, <2>8, <2>9 DEF AInv
<1>3. CASE ~Create
  <2>1. AgreeOn(acc)'
    BY <1>1, <1>3, AgreeStep
  <2>2. nextUid' = nextUid
    BY <1>3, Disjuncts DEF vars, server, UpdateSpec, Delete, CacheSync, Resync, Deliver, Get,
       AddFinalizer, KeepFinalizer, BackoffWait, StartApply, CollectApply, BeginDelete,
       CollectDelete, Rest, Rejected, ReconcileError, ApplyProgress, ApplySucceeds, ApplyFails,
       DestroyProgress, DestroySucceeds, DestroyFails, Crash
  <2>3. ApplyProgress \/ ApplySucceeds \/ DestroyProgress \/ DestroySucceeds \/ UNCHANGED cluster
    BY <1>3, Disjuncts DEF vars, UpdateSpec, Delete, CacheSync, Resync, Deliver, Get,
       AddFinalizer, KeepFinalizer, BackoffWait, StartApply, CollectApply, BeginDelete,
       CollectDelete, Rest, Rejected, ReconcileError, ApplyFails, DestroyFails, Crash
  <2>4. \A u \in Uids : u >= nextUid => cluster'[u] = cluster[u]
    <3>1. CASE ApplyProgress \/ ApplySucceeds
      BY <1>0, <3>1 DEF ApplyProgress, ApplySucceeds, TypeOK, Uids
    <3>2. CASE DestroyProgress \/ DestroySucceeds
      BY <1>0, <3>2 DEF DestroyProgress, DestroySucceeds, TypeOK, Uids
    <3>3. QED
      BY <2>3, <3>1, <3>2
  <2>5. FutureIsEmpty'
    BY <2>2, <2>4 DEF AInv, FutureIsEmpty
  <2>6. QED
    BY <2>1, <2>5 DEF AInv
<1>4. QED
  BY <1>2, <1>3

\* With the webhook, objects are destroyed as the account that applied them,
\* however the Live was edited, retried, and read from an old cache in between.
THEOREM DestroyedAsApplied ==
  ASSUME WebhooksEnabled = TRUE
  PROVE  Spec => []DestroyAsApplied
<1>1. IInv /\ AInv /\ [Next]_vars => AInv'
  BY AccountStep
<1>2. IInv /\ AInv => DestroyAsApplied
  BY DEF IInv, TypeOK, AInv, AgreeOn, DestroyAsApplied, Destroyers
<1>3. QED
  BY Invariance, InitAccounts, <1>1, <1>2, PTL DEF Spec

-----------------------------------------------------------------------------
\* Wake-ups. The versions of a Live are ordered and none comes back, so that a
\* cache which equals the stored Live has seen its last change.
StatusIsCurrent(v) == v.ready # None /\ v.ready.observedGeneration = v.generation

\* Attempts at one generation, in order, and the success that ends them.
AttemptBefore(v, w) ==
  \/ v.ready.reason # "Succeeded" /\ w.ready.reason = "Succeeded"
  \/ /\ v.ready.reason # "Succeeded" /\ w.ready.reason # "Succeeded"
     /\ \/ v.retries < w.retries
        \/ /\ v.retries = w.retries
           /\ v.ready.reason = "Failed" /\ w.ready.reason = "Applying"

StatusBefore(v, w) ==
  /\ StatusIsCurrent(w)
  /\ StatusIsCurrent(v) => AttemptBefore(v, w)

Before(v, w) ==
  \/ v.uid < w.uid
  \/ v.uid = w.uid /\ v.generation < w.generation
  \/ /\ v.uid = w.uid /\ v.generation = w.generation
     /\ \/ ~v.finalizer /\ w.finalizer
        \/ v.finalizer = w.finalizer /\ StatusBefore(v, w)

CacheIsOlder == cache # None /\ live # None => cache = live \/ Before(cache, live)

\* A Reconcile that nothing will repeat holds the latest version, if the cache does.
LatestInHand == pc # "idle" /\ ~queued /\ cache = live /\ live # None => local = live

QInv == CacheIsOlder /\ LatestInHand /\ QuiescentMeansDone

LEMMA BeforeIsStrict ==
  ASSUME NEW v \in Lives
  PROVE  ~Before(v, v)
BY DEF Before, StatusBefore, AttemptBefore, StatusIsCurrent, Lives

LEMMA BeforeIsTransitive ==
  ASSUME NEW v \in Lives, NEW w \in Lives, NEW x \in Lives, Before(v, w), Before(w, x)
  PROVE  Before(v, x)
<1>1. /\ v.uid \in Nat /\ w.uid \in Nat /\ x.uid \in Nat
      /\ v.generation \in Nat /\ w.generation \in Nat /\ x.generation \in Nat
      /\ v.finalizer \in BOOLEAN /\ w.finalizer \in BOOLEAN /\ x.finalizer \in BOOLEAN
      /\ v.retries \in Nat /\ w.retries \in Nat /\ x.retries \in Nat
  BY DEF Lives
<1>2. StatusBefore(v, w) /\ StatusBefore(w, x) => StatusBefore(v, x)
  BY <1>1 DEF StatusBefore, AttemptBefore
<1>3. QED
  BY <1>1, <1>2 DEF Before

\* What SetPhase does within a generation.
LEMMA SetPhaseAgain ==
  ASSUME NEW l \in Lives, NEW phase \in Phases, StatusIsCurrent(l), ~l.ready.status
  PROVE  /\ SetPhase(l, phase, 0).retries = IF phase = "Failed" THEN l.retries + 1 ELSE l.retries
         /\ phase = "Applying" /\ l.ready.reason = "Applying" => SetPhase(l, phase, 0) = l
<1> DEFINE status == phase = "Succeeded"
           ready == [status |-> status, reason |-> phase,
                     observedGeneration |-> l.generation,
                     since |-> IF l.ready.status # status THEN 0 ELSE l.ready.since]
           kept == IF phase = "Failed" THEN l.retries + 1 ELSE l.retries
<1>1. SetPhase(l, phase, 0) = [l EXCEPT !.ready = ready, !.retries = kept]
  BY DEF SetPhase, StatusIsCurrent
<1>2. l.ready \in Conditions /\ l.retries \in Nat /\ l.ready.status = FALSE
  BY DEF StatusIsCurrent, Lives, Conditions
<1>3. phase = "Applying" /\ l.ready.reason = "Applying" => ready = l.ready /\ kept = l.retries
  BY <1>2 DEF StatusIsCurrent, Conditions
<1> HIDE DEF ready, kept
<1>4. [l EXCEPT !.ready = ready, !.retries = kept].retries = kept
  BY DEF Lives
<1>5. ready = l.ready /\ kept = l.retries => [l EXCEPT !.ready = ready, !.retries = kept] = l
  BY DEF Lives
<1>6. QED
  BY <1>1, <1>3, <1>4, <1>5 DEF kept

\* Every change of a Live takes it to a later version.
LEMMA Onward ==
  ASSUME IInv, [Next]_vars, live # None, live' # None, live' # live
  PROVE  Before(live, live')
<1>0. /\ TypeOK /\ live \in Lives /\ live.generation \in Nat
      /\ live.ready # None => (live.ready.status <=> live.ready.reason = "Succeeded")
  BY DEF IInv, TypeOK, CopiesWellFormed, WellFormed, Lives
<1>1. CASE UpdateSpec
  <2>1. PICK spec \in UserSpecs : live' = [live EXCEPT !.spec = spec, !.generation = @ + 1]
    BY <1>1 DEF UpdateSpec
  <2>2. live'.uid = live.uid /\ live'.generation = live.generation + 1
    BY <1>0, <2>1, EditedLive, Constants
  <2>3. QED
    BY <1>0, <2>2 DEF Before
<1>2. CASE Delete
  <2>1. live'.uid = live.uid /\ live'.generation = live.generation + 1
    BY <1>0, <1>2, DeletedLive DEF Delete
  <2>2. QED
    BY <1>0, <2>1 DEF Before
<1>3. CASE AddFinalizer
  <2>1. local # None /\ local = live /\ ~live.finalizer /\ live' = WithFinalizer
    BY <1>3 DEF AddFinalizer, NeedsFinalizer
  <2>2. live'.uid = live.uid /\ live'.generation = live.generation /\ live'.finalizer
    BY <2>1, WrittenLives
  <2>3. QED
    BY <2>1, <2>2 DEF Before
<1>4. CASE StartApply \/ CollectApply
  <2>1. local = live /\ ~Reconciled(live)
    BY <1>4 DEF StartApply, CollectApply, AtApply
  <2>2. PICK phase \in Phases : live' = SetPhase(live, phase, 0)
    BY <1>4 DEF StartApply, CollectApply, Phases
  <2>3. CASE ~StatusIsCurrent(live)
    BY <1>0, <2>2, <2>3, SetPhaseFacts DEF Before, StatusBefore, StatusIsCurrent
  <2>4. CASE StatusIsCurrent(live)
    <3>1. live.ready # None /\ ~live.ready.status /\ live.ready.reason # "Succeeded"
      BY <1>0, <2>1, <2>4 DEF Reconciled, StatusIsCurrent
    <3>2. /\ live'.retries = IF phase = "Failed" THEN live.retries + 1 ELSE live.retries
          /\ phase = "Applying" => live.ready.reason # "Applying"
      BY <1>0, <2>2, <2>4, <3>1, SetPhaseAgain
    <3>3. live.ready.reason \in Phases /\ live.retries \in Nat
      BY <1>0, <3>1 DEF Lives, Conditions
    <3>4. /\ live'.uid = live.uid /\ live'.generation = live.generation
          /\ live'.finalizer = live.finalizer /\ live'.ready.reason = phase
          /\ StatusIsCurrent(live')
      BY <1>0, <2>2, SetPhaseFacts DEF StatusIsCurrent
    <3>5. AttemptBefore(live, live')
      BY <3>1, <3>2, <3>3, <3>4 DEF AttemptBefore, Phases
    <3>6. QED
      BY <3>4, <3>5 DEF Before, StatusBefore
  <2>5. QED
    BY <2>3, <2>4
<1>5. QED
  BY <1>1, <1>2, <1>3, <1>4, Disjuncts DEF vars, server, Create, CollectDelete, CacheSync,
     Resync, Deliver, Get, KeepFinalizer, BackoffWait, BeginDelete, Rest, Rejected,
     ReconcileError, ApplyProgress, ApplySucceeds, ApplyFails, DestroyProgress,
     DestroySucceeds, DestroyFails, Crash

\* The cache stays behind, and a change of the Live leaves it behind.
LEMMA CacheStep ==
  ASSUME IInv, CacheIsOlder, [Next]_vars
  PROVE  /\ CacheIsOlder'
         /\ live' # live /\ live' # None /\ cache' = cache => cache' # live'
<1>0. TypeOK /\ TypeOK' /\ CopiesWellFormed
  BY TypeStep DEF IInv
<1>1. cache' \in {cache, live} /\ (cache' # cache => live' = live)
  BY Disjuncts DEF vars, server, informer, UpdateSpec, Delete, Create, CollectDelete,
     CacheSync, Resync, Deliver, Get, AddFinalizer, KeepFinalizer, BackoffWait, StartApply,
     CollectApply, BeginDelete, Rest, Rejected, ReconcileError, ApplyProgress, ApplySucceeds,
     ApplyFails, DestroyProgress, DestroySucceeds, DestroyFails, Crash
<1>2. ASSUME live' # live, live' # None, cache # None PROVE Before(cache, live')
  <2>1. cache \in Lives /\ live' \in Lives
    BY <1>0, <1>2 DEF TypeOK
  <2>2. CASE live = None
    <3>1. Create
      BY <1>2, <2>2, Disjuncts DEF vars, server, UpdateSpec, Delete, CollectDelete,
         CacheSync, Resync, Deliver, Get, AddFinalizer, NeedsFinalizer, KeepFinalizer,
         BackoffWait, StartApply, AtApply, CollectApply, BeginDelete, Rest, Rejected,
         ReconcileError, ApplyProgress, ApplySucceeds, ApplyFails, DestroyProgress,
         DestroySucceeds, DestroyFails, Crash, TypeOK, IInv
    <3>2. live'.uid = nextUid
      BY <3>1, NewLiveFacts, Constants DEF Create
    <3>3. QED
      BY <1>0, <1>2, <3>2 DEF CopiesWellFormed, WellFormed, Before
  <2>3. CASE live # None
    <3>1. live \in Lives /\ Before(live, live')
      BY <1>0, <1>2, <2>3, Onward DEF TypeOK
    <3>2. cache = live \/ Before(cache, live)
      BY <1>2, <2>3 DEF CacheIsOlder
    <3>3. QED
      BY <2>1, <3>1, <3>2, BeforeIsTransitive
  <2>4. QED
    BY <2>2, <2>3
<1>3. CacheIsOlder'
  BY <1>1, <1>2 DEF CacheIsOlder
<1>4. ASSUME live' # live, live' # None, cache' = cache PROVE cache' # live'
  BY <1>0, <1>2, <1>4, BeforeIsStrict DEF TypeOK
<1>5. QED
  BY <1>3, <1>4

LEMMA InitWakeup == Init => QInv
BY DEF Init, QInv, CacheIsOlder, LatestInHand, QuiescentMeansDone

LEMMA WakeupStep ==
  ASSUME IInv, QInv, [Next]_vars
  PROVE  QInv'
<1>0. TypeOK /\ TypeOK'
  BY TypeStep DEF IInv
<1>a. /\ CacheIsOlder'
      /\ live' # live /\ live' # None /\ cache' = cache => cache' # live'
  BY CacheStep DEF QInv
<1> SUFFICES LatestInHand' /\ QuiescentMeansDone'
  BY <1>a DEF QInv
<1> USE DEF QInv, LatestInHand, QuiescentMeansDone, server, informer, worker, applying, deletion
<1>1. CASE Create \/ UpdateSpec \/ Delete
  <2>1. live' # live /\ cache' = cache
    <3>1. CASE Create
      BY <1>0, <3>1, NewLiveFacts, Constants DEF Create
    <3>2. CASE UpdateSpec
      <4>1. PICK spec \in UserSpecs : live' = [live EXCEPT !.spec = spec, !.generation = @ + 1]
        BY <3>2 DEF UpdateSpec
      <4>2. live \in Lives /\ live.generation \in Nat /\ cache' = cache
        BY <1>0, <3>2 DEF UpdateSpec, TypeOK, Lives
      <4>3. live'.generation = live.generation + 1
        BY <4>1, <4>2, EditedLive, Constants
      <4>4. QED
        BY <4>2, <4>3
    <3>3. CASE Delete
      <4>1. live \in Lives /\ live # None /\ cache' = cache /\ ~live.deleting
        BY <1>0, <3>3 DEF Delete, TypeOK
      <4>2. live' = None \/ live'.deleting
        BY <3>3, <4>1, DeletedLive DEF Delete
      <4>3. QED
        BY <4>1, <4>2
    <3>4. QED
      BY <1>1, <3>1, <3>2, <3>3
  <2>2. QED
    BY <1>a, <2>1
<1>2. CASE CacheSync \/ Resync \/ Deliver
  BY <1>2 DEF CacheSync, Resync, Deliver
<1>3. CASE Get
  BY <1>3 DEF Get
<1>4. CASE AddFinalizer
  <2>1. /\ local # None /\ ~local.finalizer /\ local = live /\ live' = WithFinalizer
        /\ cache' = cache
    BY <1>0, <1>4 DEF AddFinalizer, NeedsFinalizer, TypeOK
  <2>2. live' # None /\ live' # live
    BY <2>1, WrittenLives
  <2>3. QED
    BY <1>a, <2>1, <2>2
<1>5. CASE KeepFinalizer \/ BeginDelete
  <2>1. UNCHANGED <<live, cache, queued, local>> /\ pc # "idle" /\ pc' # "idle"
    BY <1>5 DEF KeepFinalizer, BeginDelete, AtDelete
  <2>2. QED
    BY <2>1
<1>6. CASE BackoffWait \/ Rejected \/ ReconcileError
  BY <1>6 DEF BackoffWait, Rejected, ReconcileError, Requeue
<1>7. CASE StartApply
  <2>1. pc' = "idle" /\ (queued' \/ applier' # None)
    BY <1>0, <1>7 DEF StartApply, Return, ReplyLost, Requeue, TypeOK
  <2>2. QED
    BY <2>1
<1>8. CASE CollectApply
  <2>1. pc' = "idle" /\ cache' = cache
    BY <1>8 DEF CollectApply, Return, ReplyLost, Requeue
  <2>2. local = live /\ live \in Lives /\ ~Reconciled(live)
    BY <1>0, <1>8 DEF CollectApply, AtApply, TypeOK
  <2>3. PICK phase \in {"Succeeded", "Failed"} : live' = SetPhase(live, phase, 0)
    BY <1>8, <2>2 DEF CollectApply
  <2>4. live' # None /\ live' # live
    <3>1. StatusIsCurrent(live')
      BY <2>2, <2>3, SetPhaseFacts DEF StatusIsCurrent, Phases
    <3>2. live'.ready.reason = phase /\ live' # None
      BY <2>2, <2>3, SetPhaseFacts DEF Phases
    <3>3. CASE phase = "Succeeded"
      <4>1. Reconciled(live')
        <5>1. /\ live'.ready # None /\ live'.ready.status = (phase = "Succeeded")
              /\ live'.ready.observedGeneration = live'.generation
          BY <2>2, <2>3, SetPhaseFacts DEF Phases
        <5>2. QED
          BY <3>3, <5>1 DEF Reconciled
      <4>2. QED
        BY <2>2, <3>2, <4>1
    <3>4. CASE phase = "Failed" /\ StatusIsCurrent(live)
      <4>1. live.retries \in Nat /\ ~live.ready.status
        BY <2>2, <3>4 DEF Lives, Reconciled, StatusIsCurrent
      <4>2. live'.retries = live.retries + 1
        BY <2>2, <2>3, <3>4, <4>1, SetPhaseAgain DEF Phases
      <4>3. QED
        BY <3>2, <4>1, <4>2
    <3>5. QED
      BY <3>1, <3>2, <3>3, <3>4
  <2>5. QED
    BY <1>a, <2>1, <2>4
<1>9. CASE CollectDelete
  BY <1>9 DEF CollectDelete, Return, ReplyLost, Requeue
<1>10. CASE Rest
  <2>1. /\ pc # "idle" /\ pc' = "idle" /\ UNCHANGED <<live, cache, queued, applier, destroyer>>
    BY <1>10 DEF Rest, Return
  <2>2. \/ applier # None \/ destroyer # None
        \/ Reconciled(local) /\ ~local.deleting
    BY <1>0, <1>10 DEF Rest, AtApply, AtDelete, TypeOK
  <2>3. QED
    BY <2>1, <2>2
<1>11. CASE ApplyProgress \/ DestroyProgress
  BY <1>11 DEF ApplyProgress, DestroyProgress
<1>12. CASE ApplySucceeds \/ ApplyFails \/ DestroySucceeds \/ DestroyFails
  BY <1>12 DEF ApplySucceeds, ApplyFails, DestroySucceeds, DestroyFails, Announce
<1>13. CASE Crash
  BY <1>13 DEF Crash
<1>14. CASE UNCHANGED vars
  BY <1>14 DEF vars
<1>15. QED
  BY Disjuncts, <1>1, <1>2, <1>3, <1>4, <1>5, <1>6, <1>7, <1>8, <1>9, <1>10, <1>11, <1>12,
     <1>13, <1>14

\* No wake-up is lost, whatever is retried, refused, late or lost: when nothing is
\* queued, running or on its way, the Live is reconciled, or there is none.
THEOREM NoLostWakeup == Spec => []QuiescentMeansDone
<1>1. IInv /\ QInv /\ [Next]_vars => QInv'
  BY WakeupStep
<1>2. QInv => QuiescentMeansDone
  BY DEF QInv
<1>3. QED
  BY Invariance, InitWakeup, <1>1, <1>2, PTL DEF Spec
=============================================================================
