------------------------ MODULE LiveControllerProofs ------------------------
(* Safety of the Live controller for any number of Lives, edits, faults,      *)
(* commits and accounts: LiveController's invariants, proved.                 *)
EXTENDS LiveController, TLAPS

-----------------------------------------------------------------------------
\* The inductive invariant: type correctness, two of the safety invariants, and
\* what relates the three copies of the Live (stored, cached, in hand).

\* A copy was made after the uid was handed out; a Live that is marked as
\* deleted still has the finalizer; only a success makes it Ready.
WellFormed(v) ==
  v # None =>
    /\ v.uid \in Uids /\ v.uid < nextUid
    /\ v.deleting => v.finalizer
    /\ v.ready # None => (v.ready.status <=> v.ready.reason = "Succeeded")

CopiesWellFormed == WellFormed(live) /\ WellFormed(cache) /\ WellFormed(local)

\* Being deleted cannot be undone, so an old copy that says so is right.
DeletionSeen(v) ==
  v # None /\ live # None /\ v.uid = live.uid /\ v.deleting => live.deleting

DeletionIsFinal == DeletionSeen(cache) /\ DeletionSeen(local)

FinalizerFirst == pc = "dispatch" => local.finalizer

DestroyerUid == destroyer # None => destroyer.uid < nextUid

IInv ==
  /\ TypeOK
  /\ CopiesWellFormed
  /\ DeletionIsFinal
  /\ FinalizerFirst
  /\ DestroyerUid
  /\ ApplyingWhileApplierRuns
  /\ DestroyOnlyWhenDeleted

-----------------------------------------------------------------------------
\* What a new Live looks like.
LEMMA NewLiveFacts ==
  ASSUME NEW uid \in Nat, NEW spec \in Specs
  PROVE  /\ NewLive(uid, spec) \in Lives
         /\ NewLive(uid, spec) # None
         /\ NewLive(uid, spec).uid = uid
         /\ NewLive(uid, spec).ready = None
         /\ ~NewLive(uid, spec).deleting
<1>1. NewLive(uid, spec) \in Lives
  BY DEF NewLive, Lives
<1>2. NewLive(uid, spec) # None
  BY <1>1, NoneAssumption
<1>3. QED
  BY <1>1, <1>2 DEF NewLive

\* SetPhase reports on the current generation and touches nothing but status.
LEMMA SetPhaseFacts ==
  ASSUME NEW l \in Lives, NEW phase \in Phases, NEW now \in Nat
  PROVE  LET new == SetPhase(l, phase, now) IN
         /\ new \in Lives /\ new # None
         /\ new.uid = l.uid /\ new.generation = l.generation
         /\ new.deleting = l.deleting /\ new.finalizer = l.finalizer
         /\ new.spec = l.spec
         /\ new.ready \in Conditions /\ new.ready # None
         /\ new.ready.reason = phase
         /\ new.ready.status = (phase = "Succeeded")
         /\ new.ready.observedGeneration = l.generation
<1> DEFINE outdated == /\ phase = "Applying"
                       /\ l.ready # None
                       /\ l.ready.observedGeneration # l.generation
           status   == phase = "Succeeded"
           flips    == l.ready = None \/ outdated \/ l.ready.status # status
           retries  == IF outdated THEN 0 ELSE l.retries
           ready    == [status |-> status, reason |-> phase,
                        observedGeneration |-> l.generation,
                        since |-> IF flips THEN now ELSE l.ready.since]
           kept     == IF phase = "Failed" THEN retries + 1 ELSE retries
<1>1. ready \in Conditions
  <2>1. (IF flips THEN now ELSE l.ready.since) \in Nat
    BY DEF Lives, Conditions
  <2>2. l.generation \in Nat
    BY DEF Lives
  <2> HIDE DEF flips
  <2>3. QED
    BY <2>1, <2>2 DEF Conditions
<1>2. kept \in Nat
  BY DEF Lives
<1>3. SetPhase(l, phase, now) = [l EXCEPT !.ready = ready, !.retries = kept]
  BY DEF SetPhase
<1>4. /\ ready.reason = phase
      /\ ready.status = (phase = "Succeeded")
      /\ ready.observedGeneration = l.generation
  OBVIOUS
<1> HIDE DEF ready, kept
<1>5. [l EXCEPT !.ready = ready, !.retries = kept] \in Lives
  BY <1>1, <1>2 DEF Lives
<1>6. QED
  BY <1>1, <1>3, <1>4, <1>5, NoneAssumption DEF Lives

-----------------------------------------------------------------------------
\* Facts about the constants, and the helpers the actions are made of.
LEMMA Constants ==
  /\ UserSpecs \subseteq Specs
  /\ Empty \in Deployments
  /\ None \notin Appliers /\ None \notin Destroyers
  /\ \A u \in Uids : u \in Nat /\ u \in 1..(MaxUid + 1)
  /\ \A u \in 1..(MaxUid + 1) : u \in Uids => u + 1 \in 1..(MaxUid + 1)
<1>1. UserSpecs \subseteq Specs
  BY ControllerAssumption DEF UserSpecs, Specs
<1>2. Empty \in Deployments
  BY DEF Empty, Deployments
<1>3. /\ \A u \in Uids : u \in Nat /\ u \in 1..(MaxUid + 1)
      /\ \A u \in 1..(MaxUid + 1) : u \in Uids => u + 1 \in 1..(MaxUid + 1)
  BY ControllerAssumption DEF Uids
<1>4. QED
  BY <1>1, <1>2, <1>3, GoroutineAssumption

LEMMA InitInv == Init => IInv
<1> SUFFICES ASSUME Init PROVE IInv
  OBVIOUS
<1> USE DEF Init
<1>1. TypeOK
  <2>1. nextUid \in 1..(MaxUid + 1)
    BY ControllerAssumption
  <2>2. cluster \in [Uids -> Deployments]
    BY Constants
  <2>3. QED
    BY <2>1, <2>2 DEF TypeOK, Entries
<1>2. QED
  BY <1>1 DEF IInv, CopiesWellFormed, WellFormed, DeletionIsFinal, DeletionSeen,
     FinalizerFirst, DestroyerUid, ApplyingWhileApplierRuns, DestroyOnlyWhenDeleted

-----------------------------------------------------------------------------
\* One step at a time. `Disjuncts` splits Next for the lemmas below.
LEMMA Disjuncts ==
  ASSUME Next
  PROVE  \/ Create \/ UpdateSpec \/ Delete
         \/ CacheSync \/ Resync \/ Deliver
         \/ Get \/ AddFinalizer \/ KeepFinalizer \/ BackoffWait \/ StartApply
         \/ CollectApply \/ BeginDelete \/ CollectDelete \/ Rest \/ Rejected
         \/ ReconcileError
         \/ ApplyProgress \/ ApplySucceeds \/ ApplyFails
         \/ DestroyProgress \/ DestroySucceeds \/ DestroyFails
         \/ Crash
BY DEF Next, Users, Informer, Reconcile, Goroutines

\* The object that each write of the reconcile stores is a Live (or none).
LEMMA WrittenLives ==
  ASSUME IInv, local # None
  PROVE  /\ WithFinalizer \in Lives /\ WithFinalizer # None
         /\ WithFinalizer.finalizer
         /\ \A f \in {"uid", "generation", "deleting", "ready", "spec"} :
              WithFinalizer[f] = local[f]
<1>1. local \in Lives
  BY DEF IInv, TypeOK
<1>2. WithFinalizer \in Lives
  BY <1>1 DEF WithFinalizer, Lives
<1>3. QED
  BY <1>1, <1>2, NoneAssumption DEF WithFinalizer, Lives

\* An edit by a user, and the mark that a deletion leaves.
LEMMA EditedLive ==
  ASSUME NEW l \in Lives, NEW spec \in Specs
  PROVE  LET new == [l EXCEPT !.spec = spec, !.generation = @ + 1] IN
         /\ new \in Lives /\ new # None
         /\ new.uid = l.uid /\ new.deleting = l.deleting /\ new.finalizer = l.finalizer
         /\ new.ready = l.ready /\ new.spec = spec /\ new.generation = l.generation + 1
<1>1. l.generation + 1 \in Nat
  BY DEF Lives
<1>2. [l EXCEPT !.spec = spec, !.generation = l.generation + 1] \in Lives
  BY <1>1 DEF Lives
<1>3. QED
  BY <1>2, NoneAssumption DEF Lives

LEMMA DeletedLive ==
  ASSUME NEW l \in Lives
  PROVE  LET new == [l EXCEPT !.deleting = TRUE, !.generation = @ + 1] IN
         /\ new \in Lives /\ new # None
         /\ new.uid = l.uid /\ new.deleting /\ new.finalizer = l.finalizer
         /\ new.ready = l.ready /\ new.spec = l.spec /\ new.generation = l.generation + 1
<1>1. l.generation + 1 \in Nat
  BY DEF Lives
<1>2. [l EXCEPT !.deleting = TRUE, !.generation = l.generation + 1] \in Lives
  BY <1>1 DEF Lives
<1>3. QED
  BY <1>2, NoneAssumption DEF Lives

\* Both ways for a write to end leave the worker idle.
LEMMA ReturnFacts ==
  ASSUME IInv, (Return /\ UNCHANGED faults) \/ ReplyLost
  PROVE  pc' = "idle" /\ local' = None /\ queued' \in BOOLEAN /\ faults' \in Nat
<1>1. CASE Return /\ UNCHANGED faults
  BY <1>1 DEF Return, IInv, TypeOK
<1>2. CASE ReplyLost
  BY <1>2 DEF ReplyLost, Requeue, Fault, IInv, TypeOK
<1>3. QED
  BY <1>1, <1>2

LEMMA TypeStep == IInv /\ [Next]_vars => TypeOK'
<1> SUFFICES ASSUME IInv, [Next]_vars PROVE TypeOK'
  OBVIOUS
<1> USE DEF IInv, TypeOK, server, informer, worker, applying, deletion, Entries, Results,
        Return, Requeue, ReplyLost, Fault, Announce, AtApply, AtDelete
<1>1. CASE Create
  <2>1. PICK spec \in UserSpecs : live' = NewLive(nextUid, spec)
    BY <1>1 DEF Create
  <2>2. live' \in Lives
    BY <2>1, NewLiveFacts, Constants
  <2>3. nextUid' \in 1..(MaxUid + 1)
    BY <1>1, Constants DEF Create
  <2>4. QED
    BY <1>1, <2>2, <2>3 DEF Create
<1>2. CASE UpdateSpec
  <2>1. PICK spec \in UserSpecs :
               live' = [live EXCEPT !.spec = spec, !.generation = @ + 1]
    BY <1>2 DEF UpdateSpec
  <2>2. live \in Lives /\ spec \in Specs
    BY <1>2, Constants DEF UpdateSpec
  <2>3. live' \in Lives
    BY <2>1, <2>2, EditedLive
  <2>4. QED
    BY <1>2, <2>3 DEF UpdateSpec
<1>3. CASE Delete
  <2>1. live \in Lives
    BY <1>3 DEF Delete
  <2>2. [live EXCEPT !.deleting = TRUE, !.generation = @ + 1] \in Lives
    BY <2>1, DeletedLive
  <2>3. live' \in Lives \cup {None}
    BY <1>3, <2>2 DEF Delete
  <2>4. QED
    BY <1>3, <2>3 DEF Delete
<1>4. CASE CacheSync
  BY <1>4 DEF CacheSync
<1>5. CASE Resync
  BY <1>5 DEF Resync
<1>6. CASE Deliver
  BY <1>6 DEF Deliver
<1>7. CASE Get
  BY <1>7 DEF Get
<1>8. CASE AddFinalizer
  <2>1. local # None
    BY <1>8 DEF AddFinalizer, NeedsFinalizer
  <2>2. WithFinalizer \in Lives /\ WithFinalizer # None
    BY <2>1, WrittenLives
  <2>3. QED
    <3>1. live' \in Lives
      BY <1>8, <2>2 DEF AddFinalizer
    <3>2. CASE pc' = "dispatch" /\ local' = WithFinalizer /\ UNCHANGED <<queued, faults>>
      BY <1>8, <2>2, <3>1, <3>2 DEF AddFinalizer
    <3>3. CASE ReplyLost
      BY <1>8, <3>1, <3>3 DEF AddFinalizer
    <3>4. QED
      BY <1>8, <3>2, <3>3 DEF AddFinalizer
<1>9. CASE KeepFinalizer
  BY <1>9 DEF KeepFinalizer
<1>10. CASE BackoffWait
  BY <1>10 DEF BackoffWait
<1>11. CASE StartApply
  <2>1. local \in Lives /\ local # None
    BY <1>11 DEF StartApply
  <2>2. live' \in Lives
    BY <1>11, <2>1, SetPhaseFacts DEF StartApply, Phases
  <2>3. local.uid \in Uids /\ local.spec \in Specs
    BY <2>1 DEF CopiesWellFormed, WellFormed, Lives
  <2>4. [uid |-> local.uid, commit |-> local.spec.commit,
         account |-> GetServiceAccountName(local)] \in Appliers
    BY <2>3 DEF Specs, Appliers, Accounts, GetServiceAccountName
  <2>5. (applier' \in Appliers \cup {None}) /\ ((applier' = None) <=> (applyResults' # "pending"))
    BY <1>11, <2>4, Constants DEF StartApply
  <2>6. QED
    <3>1. /\ UNCHANGED <<nextUid, cluster, cache, notify, deleteResults, destroyer>>
          /\ applyResults' \in Entries
      BY <1>11 DEF StartApply
    <3>2. QED
      BY <1>11, <2>2, <2>5, <3>1, ReturnFacts DEF StartApply
<1>12. CASE CollectApply
  <2>1. local \in Lives /\ local # None
    BY <1>12 DEF CollectApply
  <2>2. live' \in Lives
    BY <1>12, <2>1, SetPhaseFacts DEF CollectApply, Phases
  <2>3. QED
    <3>1. /\ UNCHANGED <<nextUid, cluster, cache, notify, applier, deleteResults, destroyer>>
          /\ applyResults # "pending" /\ applyResults' # "pending"
          /\ applyResults' \in Entries
      BY <1>12 DEF CollectApply
    <3>2. QED
      BY <1>12, <2>2, <3>1, ReturnFacts DEF CollectApply
<1>13. CASE BeginDelete
  <2>1. local \in Lives /\ local # None
    BY <1>13 DEF BeginDelete
  <2>2. local.uid \in Uids /\ local.spec \in Specs
    BY <2>1 DEF CopiesWellFormed, WellFormed, Lives
  <2>3. destroyer' \in Destroyers
    BY <1>13, <2>2 DEF Specs, Destroyers, BeginDelete, Accounts, GetServiceAccountName
  <2>4. QED
    BY <1>13, <2>3, Constants DEF BeginDelete
<1>14. CASE CollectDelete
  <2>1. /\ UNCHANGED <<nextUid, cluster, cache, notify, applyResults, applier, destroyer>>
        /\ deleteResults # "pending" /\ deleteResults' # "pending"
        /\ deleteResults' \in Entries /\ live' = None
    BY <1>14 DEF CollectDelete, DestroyReported
  <2>2. QED
    BY <1>14, <2>1, ReturnFacts DEF CollectDelete
<1>15. CASE Rest
  BY <1>15 DEF Rest
<1>16. CASE Rejected
  BY <1>16 DEF Rejected
<1>17. CASE ReconcileError
  BY <1>17 DEF ReconcileError
<1>18. CASE ApplyProgress
  <2>1. applier \in Appliers
    BY <1>18 DEF ApplyProgress
  <2>2. [objects |-> Partial, account |-> applier.account] \in Deployments
    BY <2>1 DEF Appliers, Deployments
  <2>3. cluster' \in [Uids -> Deployments]
    BY <1>18, <2>2 DEF ApplyProgress
  <2>4. QED
    BY <1>18, <2>3 DEF ApplyProgress
<1>19. CASE ApplySucceeds
  <2>1. applier \in Appliers
    BY <1>19 DEF ApplySucceeds
  <2>2. [objects |-> applier.commit, account |-> applier.account] \in Deployments
    BY <2>1 DEF Appliers, Deployments
  <2>3. cluster' \in [Uids -> Deployments]
    BY <1>19, <2>2 DEF ApplySucceeds
  <2>4. QED
    BY <1>19, <2>3 DEF ApplySucceeds
<1>20. CASE ApplyFails
  BY <1>20 DEF ApplyFails
<1>21. CASE DestroyProgress
  <2>1. destroyer \in Destroyers
    BY <1>21 DEF DestroyProgress
  <2>2. destroyer.uid \in Uids
    BY <2>1 DEF Destroyers
  <2>3. [cluster[destroyer.uid] EXCEPT !.objects = Partial] \in Deployments
    BY <2>2 DEF Deployments
  <2>4. cluster' = [cluster EXCEPT ![destroyer.uid] =
                      [cluster[destroyer.uid] EXCEPT !.objects = Partial]]
    BY <1>21 DEF DestroyProgress
  <2>5. cluster' \in [Uids -> Deployments]
    BY <2>3, <2>4
  <2>6. QED
    BY <1>21, <2>5 DEF DestroyProgress
<1>22. CASE DestroySucceeds
  <2>1. cluster' \in [Uids -> Deployments]
    BY <1>22, Constants DEF DestroySucceeds
  <2>2. QED
    BY <1>22, <2>1 DEF DestroySucceeds
<1>23. CASE DestroyFails
  BY <1>23 DEF DestroyFails
<1>24. CASE Crash
  <2>1. /\ cache' = live /\ queued' \in BOOLEAN /\ notify' = FALSE
        /\ faults' \in Nat
    BY <1>24 DEF Crash
  <2>2. QED
    BY <1>24, <2>1 DEF Crash
<1>25. CASE UNCHANGED vars
  BY <1>25 DEF vars
<1>26. QED
  BY Disjuncts, <1>1, <1>2, <1>3, <1>4, <1>5, <1>6, <1>7, <1>8, <1>9, <1>10, <1>11, <1>12, <1>13, <1>14, <1>15, <1>16, <1>17, <1>18, <1>19, <1>20, <1>21, <1>22, <1>23, <1>24, <1>25

\* What the actions preserve beyond types.
Safe ==
  /\ CopiesWellFormed /\ DeletionIsFinal /\ FinalizerFirst
  /\ DestroyerUid /\ ApplyingWhileApplierRuns /\ DestroyOnlyWhenDeleted

LEMMA SafeStep == IInv /\ [Next]_vars => Safe'
<1> SUFFICES ASSUME IInv, [Next]_vars PROVE Safe'
  OBVIOUS
<1>0. TypeOK /\ TypeOK' /\ Safe
  BY TypeStep DEF IInv, Safe
<1> USE <1>0 DEF Safe, CopiesWellFormed, WellFormed, DeletionIsFinal, DeletionSeen,
        FinalizerFirst, DestroyerUid, ApplyingWhileApplierRuns, DestroyOnlyWhenDeleted,
        server, informer, worker, applying, deletion
<1>1. CASE Create
  <2>1. PICK spec \in UserSpecs : live' = NewLive(nextUid, spec)
    BY <1>1 DEF Create
  <2>2. live = None /\ nextUid \in Uids /\ nextUid \in Nat /\ nextUid' = nextUid + 1
    BY <1>1, Constants DEF Create
  <2>3. /\ live' # None /\ live'.uid = nextUid /\ live'.ready = None /\ ~live'.deleting
    BY <2>1, <2>2, NewLiveFacts, Constants
  <2>4. UNCHANGED <<cache, local, pc, applier, destroyer>>
    BY <1>1 DEF Create
  <2>5. WellFormed(live)' /\ WellFormed(cache)' /\ WellFormed(local)'
    BY <2>2, <2>3, <2>4, Constants DEF TypeOK, Lives
  <2>6. DeletionSeen(cache)' /\ DeletionSeen(local)'
    BY <2>2, <2>3, <2>4, Constants DEF TypeOK, Lives
  <2>7. DestroyerUid' /\ DestroyOnlyWhenDeleted'
    BY <2>2, <2>3, <2>4 DEF TypeOK, Destroyers, Uids
  <2>8. QED
    BY <2>2, <2>4, <2>5, <2>6, <2>7
<1>2. CASE UpdateSpec
  <2>1. PICK spec \in UserSpecs :
               live' = [live EXCEPT !.spec = spec, !.generation = @ + 1]
    BY <1>2 DEF UpdateSpec
  <2>2. live \in Lives /\ live # None /\ spec \in Specs
    BY <1>2, Constants DEF UpdateSpec, TypeOK
  <2>3. /\ live' # None /\ live'.uid = live.uid /\ live'.deleting = live.deleting
        /\ live'.finalizer = live.finalizer /\ live'.ready = live.ready
    BY <2>1, <2>2, EditedLive
  <2>4. UNCHANGED <<nextUid, cache, local, pc, applier, destroyer>>
    BY <1>2 DEF UpdateSpec
  <2>5. QED
    BY <2>2, <2>3, <2>4 DEF IsApplying
<1>3. CASE Delete
  <2>1. live \in Lives /\ live # None
    BY <1>3 DEF Delete, TypeOK
  <2>2. UNCHANGED <<nextUid, cache, local, pc, applier, destroyer>>
    BY <1>3 DEF Delete
  <2>3. CASE live.finalizer
    <3>1. live' = [live EXCEPT !.deleting = TRUE, !.generation = @ + 1]
      BY <1>3, <2>3 DEF Delete
    <3>2. /\ live' # None /\ live'.uid = live.uid /\ live'.deleting
          /\ live'.finalizer = live.finalizer /\ live'.ready = live.ready
      BY <2>1, <3>1, DeletedLive
    <3>3. QED
      BY <2>1, <2>2, <2>3, <3>2 DEF IsApplying
  <2>4. CASE ~live.finalizer
    BY <1>3, <2>1, <2>2, <2>4 DEF Delete
  <2>5. QED
    BY <2>3, <2>4
<1>4. CASE CacheSync
  BY <1>4 DEF CacheSync
<1>5. CASE Resync
  BY <1>5 DEF Resync
<1>6. CASE Deliver
  BY <1>6 DEF Deliver
<1>7. CASE Get
  BY <1>7 DEF Get
<1>8. CASE AddFinalizer
  <2>1. local # None /\ ~local.deleting /\ local = live /\ live' = WithFinalizer
    BY <1>8 DEF AddFinalizer, NeedsFinalizer, TypeOK
  <2>2. /\ live' # None /\ live'.finalizer /\ live'.uid = live.uid
        /\ live'.deleting = live.deleting /\ live'.ready = live.ready
    BY <2>1, WrittenLives
  <2>3. UNCHANGED <<nextUid, cache, applier, destroyer>>
    BY <1>8 DEF AddFinalizer
  <2>4. \/ pc' = "dispatch" /\ local' = live'
        \/ pc' = "idle" /\ local' = None
    BY <1>8, <2>1 DEF AddFinalizer, ReplyLost, Requeue
  <2>5. QED
    BY <2>1, <2>2, <2>3, <2>4 DEF IsApplying
<1>9. CASE KeepFinalizer
  <2>1. local # None /\ (local.deleting \/ local.finalizer)
    BY <1>9 DEF KeepFinalizer, NeedsFinalizer, TypeOK
  <2>2. local.finalizer
    BY <2>1
  <2>3. UNCHANGED <<live, nextUid, cache, local, applier, destroyer>>
    BY <1>9 DEF KeepFinalizer
  <2>4. QED
    BY <2>2, <2>3
<1>10. CASE BackoffWait
  BY <1>10 DEF BackoffWait, Requeue
<1>11. CASE StartApply
  <2>1. local \in Lives /\ local # None /\ local = live /\ local.finalizer
    BY <1>11 DEF StartApply, AtApply, TypeOK
  <2>2. live' = SetPhase(local, "Applying", 0)
    BY <1>11 DEF StartApply
  <2>3. /\ live' # None /\ live'.uid = live.uid /\ live'.deleting = live.deleting
        /\ live'.finalizer = live.finalizer
        /\ live'.ready # None /\ live'.ready.reason = "Applying"
        /\ live'.ready.status = ("Applying" = "Succeeded")
    BY <2>1, <2>2, SetPhaseFacts DEF Phases
  <2>4. UNCHANGED <<nextUid, cache, destroyer>> /\ pc' = "idle" /\ local' = None
    BY <1>11 DEF StartApply, Return, ReplyLost, Requeue
  <2>5. applier' # None => applier'.uid = live.uid
    BY <1>11, <2>1 DEF StartApply, TypeOK
  <2>6. QED
    BY <2>1, <2>3, <2>4, <2>5 DEF IsApplying
<1>12. CASE CollectApply
  <2>1. local \in Lives /\ local # None /\ local = live /\ local.finalizer
    BY <1>12 DEF CollectApply, AtApply, TypeOK
  <2>2. PICK phase \in {"Succeeded", "Failed"} : live' = SetPhase(local, phase, 0)
    BY <1>12 DEF CollectApply
  <2>3. /\ live' # None /\ live'.uid = live.uid /\ live'.deleting = live.deleting
        /\ live'.finalizer = live.finalizer
        /\ live'.ready # None /\ live'.ready.reason = phase
        /\ live'.ready.status = (phase = "Succeeded")
    BY <2>1, <2>2, SetPhaseFacts DEF Phases
  <2>4. UNCHANGED <<nextUid, cache, destroyer, applier>> /\ pc' = "idle" /\ local' = None
    BY <1>12 DEF CollectApply, Return, ReplyLost, Requeue
  <2>5. applier = None
    BY <1>12 DEF CollectApply, TypeOK, Results
  <2>6. QED
    BY <2>1, <2>2, <2>3, <2>4, <2>5
<1>13. CASE BeginDelete
  <2>1. local \in Lives /\ local # None /\ local.deleting
    BY <1>13 DEF BeginDelete, AtDelete, TypeOK
  <2>2. destroyer'.uid = local.uid
    BY <1>13 DEF BeginDelete
  <2>3. UNCHANGED <<live, nextUid, cache, pc, local, applier>>
    BY <1>13 DEF BeginDelete
  <2>4. QED
    BY <2>1, <2>2, <2>3
<1>14. CASE CollectDelete
  <2>1. local # None /\ local = live /\ Reconciled(live)
    BY <1>14 DEF CollectDelete, AtDelete, TypeOK
  <2>2. ~IsApplying(live)
    BY <2>1 DEF Reconciled, IsApplying
  <2>3. applier = None
    BY <2>2
  <2>4. /\ UNCHANGED <<nextUid, cache, applier, destroyer>>
        /\ live' = None /\ pc' = "idle" /\ local' = None
    BY <1>14 DEF CollectDelete, Return, ReplyLost, Requeue
  <2>5. QED
    BY <2>3, <2>4
<1>15. CASE Rest
  BY <1>15 DEF Rest, Return
<1>16. CASE Rejected
  BY <1>16 DEF Rejected, Requeue
<1>17. CASE ReconcileError
  BY <1>17 DEF ReconcileError, Requeue
<1>18. CASE ApplyProgress
  BY <1>18 DEF ApplyProgress
<1>19. CASE ApplySucceeds
  BY <1>19 DEF ApplySucceeds
<1>20. CASE ApplyFails
  BY <1>20 DEF ApplyFails
<1>21. CASE DestroyProgress
  BY <1>21 DEF DestroyProgress
<1>22. CASE DestroySucceeds
  BY <1>22 DEF DestroySucceeds
<1>23. CASE DestroyFails
  BY <1>23 DEF DestroyFails
<1>24. CASE Crash
  BY <1>24 DEF Crash
<1>25. CASE UNCHANGED vars
  BY <1>25 DEF vars
<1>26. QED
  BY Disjuncts, <1>1, <1>2, <1>3, <1>4, <1>5, <1>6, <1>7, <1>8, <1>9, <1>10, <1>11, <1>12, <1>13, <1>14, <1>15, <1>16, <1>17, <1>18, <1>19, <1>20, <1>21, <1>22, <1>23, <1>24, <1>25

-----------------------------------------------------------------------------
\* The theorems.

THEOREM Invariance == Spec => []IInv
<1>1. IInv /\ [Next]_vars => IInv'
  BY TypeStep, SafeStep DEF IInv, Safe
<1>2. QED
  BY InitInv, <1>1, PTL DEF Spec

\* Type correctness, and that reconciles hold a Live exactly while they run and
\* goroutines have an empty channel exactly while they run.
THEOREM TypeCorrect == Spec => []TypeOK
BY Invariance, PTL DEF IInv

\* While a goroutine applies a Live, that Live exists, says Applying and holds
\* the finalizer: what the webhook and the deletion of the Live rely on.
THEOREM ApplierIsAnnounced == Spec => []ApplyingWhileApplierRuns
BY Invariance, PTL DEF IInv

\* Destroy runs only for Lives that users deleted, however stale the cache.
THEOREM DestroyIsAsked == Spec => []DestroyOnlyWhenDeleted
BY Invariance, PTL DEF IInv

\* With the webhook, nobody edits a Live while a goroutine applies it, unless it
\* is interruptible before or after the edit.
THEOREM NotInterrupted ==
  ASSUME WebhooksEnabled = TRUE
  PROVE  Spec => RunningApplyNotInterrupted
<1> DEFINE Kept ==
      /\ applier # None /\ live' # None
      /\ ~live.spec.interruptible /\ ~live'.spec.interruptible
      => live'.spec = live.spec
<1>1. IInv /\ [Next]_vars => [Kept]_vars
  <2> SUFFICES ASSUME IInv, [Next]_vars, applier # None, live' # None,
                      ~live.spec.interruptible, ~live'.spec.interruptible
               PROVE  live'.spec = live.spec
    OBVIOUS
  <2>1. live \in Lives /\ live # None /\ IsApplying(live)
    BY DEF IInv, TypeOK, ApplyingWhileApplierRuns
  <2>2. CASE UpdateSpec
    <3>1. PICK spec \in UserSpecs :
            /\ live' = [live EXCEPT !.spec = spec, !.generation = @ + 1]
            /\ Admitted(live, live')
      BY <2>2 DEF UpdateSpec
    <3>2. live'.ready = live.ready
      BY <2>1, <3>1, EditedLive, Constants
    <3>3. ~CanInterrupt(live) /\ ~CanInterrupt(live')
      BY <2>1, <3>2 DEF CanInterrupt, IsApplying
    <3>4. QED
      BY <3>1, <3>3 DEF Admitted, ValidateUpdate
  <2>3. CASE Delete
    BY <2>1, <2>3, DeletedLive DEF Delete
  <2>4. CASE AddFinalizer
    <3>1. local # None /\ local = live /\ live' = WithFinalizer
      BY <2>1, <2>4 DEF AddFinalizer
    <3>2. QED
      BY <3>1, WrittenLives
  <2>5. CASE StartApply \/ CollectApply
    <3>1. local = live /\ \E phase \in Phases : live' = SetPhase(live, phase, 0)
      BY <2>5 DEF StartApply, CollectApply, Phases
    <3>2. QED
      BY <2>1, <3>1, SetPhaseFacts
  <2>6. CASE UNCHANGED live
    BY <2>6
  <2>7. UpdateSpec \/ Delete \/ AddFinalizer \/ StartApply \/ CollectApply \/ UNCHANGED live
    <3>1. ~Create
      BY <2>1 DEF Create
    <3>2. ~CollectDelete
      BY DEF CollectDelete
    <3>3. QED
      BY <3>1, <3>2, Disjuncts DEF vars, server, CacheSync, Resync, Deliver, Get,
         KeepFinalizer, BackoffWait, BeginDelete, Rest, Rejected, ReconcileError,
         ApplyProgress, ApplySucceeds, ApplyFails, DestroyProgress, DestroySucceeds,
         DestroyFails, Crash
  <2>8. QED
    BY <2>2, <2>3, <2>4, <2>5, <2>6, <2>7
<1>2. QED
  BY Invariance, <1>1, PTL DEF Spec, RunningApplyNotInterrupted
=============================================================================
