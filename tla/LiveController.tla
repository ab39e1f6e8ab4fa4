--------------------------- MODULE LiveController ---------------------------
(* The Live controller (controllers/live_controller.go): a reconcile loop     *)
(* over one Live, the goroutines it starts to apply and to destroy what the   *)
(* Live deploys, the API server and informer cache it works against, the      *)
(* users who create, change and delete the Live, and the faults in between.   *)
(*                                                                            *)
(* ApplyResults and DeleteResults are keyed by namespaced name and the        *)
(* controller runs one worker, so Lives with different names share only that  *)
(* worker; the name is fixed here and successive Lives of it differ in uid.   *)
EXTENDS Live

CONSTANTS
  Partial,               \* what a half-finished apply or destroy leaves behind
  InterruptibleChoices,  \* values of spec.interruptible that users write
  WebhooksEnabled,       \* ENABLE_WEBHOOKS of main.go
  UpdatesWhileDeleting,  \* may users edit a Live that is being deleted?
  FaultKinds,            \* subset of AllFaultKinds that may occur
  MaxUid,                \* bound: how many Lives get created
  MaxGeneration,         \* bound: generation up to which users edit the spec
  MaxFaults              \* bound: faults in one behaviour

AllFaultKinds == {"crash", "error", "lostReply", "applyFails", "destroyFails"}

ASSUME ControllerAssumption ==
  /\ InterruptibleChoices \subseteq BOOLEAN
  /\ WebhooksEnabled \in BOOLEAN
  /\ UpdatesWhileDeleting \in BOOLEAN
  /\ FaultKinds \subseteq AllFaultKinds
  /\ MaxUid \in Nat /\ MaxGeneration \in Nat /\ MaxFaults \in Nat
  /\ None \notin Commits /\ Partial \notin Commits /\ None # Partial
  /\ None \notin Accounts

VARIABLES
  live,           \* the Live stored by the API server, or None
  nextUid,        \* uid of the next Live to be created
  cluster,        \* what is deployed under each uid's inventory, and by whom
  cache,          \* the informer's copy of the Live
  queued,         \* is the Live's key in the work queue?
  notify,         \* is an event on its way from KptClientEvents to the queue?
  pc,             \* where the reconcile worker is
  local,          \* the `live` of the running Reconcile
  applyResults,   \* ApplyResults[name]: no entry, an empty channel, a result
  deleteResults,  \* DeleteResults[name]
  applier,        \* the goroutine that runs kptClient.Apply, or None
  destroyer,      \* the goroutine that runs kptClient.Destroy, or None
  faults          \* faults so far

server == <<live, nextUid>>
informer == <<cache, notify>>
worker == <<pc, local>>
applying == <<applyResults, applier>>
deletion == <<deleteResults, destroyer>>
vars == <<live, nextUid, cluster, cache, queued, notify, pc, local,
          applyResults, deleteResults, applier, destroyer, faults>>

Uids == 1..MaxUid
UserSpecs == [commit: Commits, interruptible: InterruptibleChoices,
              serviceAccountName: ServiceAccounts]
Entries == {"none", "pending", "ok", "err"}
Results == {"ok", "err"}
Deployments == [objects: Commits \cup {None, Partial},
                account: Accounts \cup {None}]
Empty == [objects |-> None, account |-> None]
Appliers == [uid: Uids, commit: Commits, account: Accounts]
Destroyers == [uid: Uids, account: Accounts]

ASSUME GoroutineAssumption == None \notin Appliers /\ None \notin Destroyers

Init ==
  /\ live = None /\ nextUid = 1
  /\ cluster = [u \in Uids |-> Empty]
  /\ cache = None /\ queued = FALSE /\ notify = FALSE
  /\ pc = "idle" /\ local = None
  /\ applyResults = "none" /\ deleteResults = "none"
  /\ applier = None /\ destroyer = None
  /\ faults = 0

Fault(kind) ==
  /\ kind \in FaultKinds /\ faults < MaxFaults
  /\ faults' = faults + 1

-----------------------------------------------------------------------------
\* Users and the API server.

Admitted(old, new) == WebhooksEnabled => ValidateUpdate(old, new)

Create ==
  /\ live = None /\ nextUid \in Uids
  /\ \E spec \in UserSpecs : live' = NewLive(nextUid, spec)
  /\ nextUid' = nextUid + 1
  /\ UNCHANGED <<cluster, informer, queued, worker, applying, deletion, faults>>

UpdateSpec ==
  /\ live # None /\ live.generation < MaxGeneration
  /\ live.deleting => UpdatesWhileDeleting
  /\ \E spec \in UserSpecs \ {live.spec} :
       LET new == [live EXCEPT !.spec = spec, !.generation = @ + 1]
       IN  Admitted(live, new) /\ live' = new
  /\ UNCHANGED <<nextUid, cluster, informer, queued, worker, applying, deletion, faults>>

\* Deletion is not sent to the webhook. A finalizer keeps the object, and
\* marking it as deleted starts a new generation.
Delete ==
  /\ live # None /\ ~live.deleting
  /\ live' = IF live.finalizer
             THEN [live EXCEPT !.deleting = TRUE, !.generation = @ + 1]
             ELSE None
  /\ UNCHANGED <<nextUid, cluster, informer, queued, worker, applying, deletion, faults>>

\* The watch catches up; For(&Live{}) has no predicates: every change enqueues.
CacheSync ==
  /\ cache # live
  /\ cache' = live /\ queued' = TRUE
  /\ UNCHANGED <<server, cluster, notify, worker, applying, deletion, faults>>

\* Periodic resync, or any event that makes no difference to the Live.
Resync ==
  /\ cache # None /\ ~queued
  /\ queued' = TRUE
  /\ UNCHANGED <<server, cluster, informer, worker, applying, deletion, faults>>

\* source.Channel turns an event of KptClientEvents into a request.
Deliver ==
  /\ notify
  /\ notify' = FALSE /\ queued' = TRUE
  /\ UNCHANGED <<server, cluster, cache, worker, applying, deletion, faults>>

-----------------------------------------------------------------------------
\* Reconcile.

Return == pc' = "idle" /\ local' = None /\ UNCHANGED queued

\* Mutant: the error of a reconcile is swallowed.
RequeueNever == Return

\* Reconcile returns an error, or a RequeueAfter.
Requeue == pc' = "idle" /\ local' = None /\ queued' = TRUE

\* The API server did what was asked, but the caller sees an error.
ReplyLost == Fault("lostReply") /\ Requeue

NeedsFinalizer == pc = "setFinalizers" /\ ~local.deleting /\ ~local.finalizer
AtApply == pc = "dispatch" /\ ~Reconciled(local)

\* Mutant: the deletion timestamp is not looked at.
AtDeleteOfAny == pc = "dispatch" /\ Reconciled(local)

AtDelete == pc = "dispatch" /\ Reconciled(local) /\ local.deleting

\* Mutant: not finding the Live is not told apart from finding it.
GetWithoutNotFound ==
  /\ pc = "idle" /\ queued
  /\ queued' = FALSE
  /\ pc' = "setFinalizers" /\ local' = cache
  /\ UNCHANGED <<server, cluster, informer, applying, deletion, faults>>

Get ==
  /\ pc = "idle" /\ queued
  /\ queued' = FALSE
  /\ \/ cache = None /\ UNCHANGED worker
     \/ cache # None /\ pc' = "setFinalizers" /\ local' = cache
  /\ UNCHANGED <<server, cluster, informer, applying, deletion, faults>>

\* Writes carry the resourceVersion of `local`: they succeed only if the stored
\* Live is still that one. (No two versions of a Live have the same contents.)
WithFinalizer == [local EXCEPT !.finalizer = TRUE]

AddFinalizer ==
  /\ NeedsFinalizer
  /\ local = live /\ Admitted(live, WithFinalizer)
  /\ live' = WithFinalizer
  /\ \/ pc' = "dispatch" /\ local' = WithFinalizer /\ UNCHANGED <<queued, faults>>
     \/ ReplyLost
  /\ UNCHANGED <<nextUid, cluster, informer, applying, deletion>>

KeepFinalizer ==
  /\ pc = "setFinalizers" /\ ~NeedsFinalizer
  /\ pc' = "dispatch"
  /\ UNCHANGED <<server, cluster, informer, queued, local, applying, deletion, faults>>

\* BackoffRemaining is positive. Time is left out: LiveBackoff measures it, here
\* a Live that has failed before may have to wait at any attempt.
BackoffWait ==
  /\ AtApply /\ local.retries > 0
  /\ Requeue
  /\ UNCHANGED <<server, cluster, informer, applying, deletion, faults>>

\* Mutant: the goroutine starts without the status saying so.
StartApplyUnannounced ==
  /\ AtApply /\ applyResults = "none" /\ local = live
  /\ applyResults' = "pending"
  /\ applier' = [uid |-> local.uid, commit |-> local.spec.commit,
                 account |-> GetServiceAccountName(local)]
  /\ Return
  /\ UNCHANGED <<server, cluster, informer, deletion, faults>>

\* ReconcileApply without an entry: fetch, build, report Applying, go apply.
StartApply ==
  /\ AtApply /\ applyResults = "none"
  /\ local = live /\ live' = SetPhase(local, "Applying", 0)
  /\ \/ /\ applyResults' = "pending"
        /\ applier' = [uid |-> local.uid, commit |-> local.spec.commit,
                       account |-> GetServiceAccountName(local)]
        /\ Return /\ UNCHANGED faults
     \/ ReplyLost /\ UNCHANGED applying
  /\ UNCHANGED <<nextUid, cluster, informer, deletion>>

\* Mutant: the error of the apply is not looked at.
CollectApplyAsSuccess ==
  /\ AtApply /\ applyResults \in Results
  /\ local = live /\ live' = SetPhase(local, "Succeeded", 0)
  /\ applyResults' = "none" /\ Return
  /\ UNCHANGED <<nextUid, cluster, informer, applier, deletion, faults>>

\* ReconcileApply with an entry that holds a result. When the status update
\* fails, the result is put back under the same name.
CollectApply ==
  /\ AtApply /\ applyResults \in Results
  /\ local = live
  /\ live' = SetPhase(local, IF applyResults = "ok" THEN "Succeeded" ELSE "Failed", 0)
  /\ \/ applyResults' = "none" /\ Return /\ UNCHANGED faults
     \/ ReplyLost /\ UNCHANGED applyResults
  /\ UNCHANGED <<nextUid, cluster, informer, applier, deletion>>

\* ReconcileDelete without an entry: go destroy. No API call guards this.
BeginDelete ==
  /\ AtDelete /\ deleteResults = "none"
  /\ deleteResults' = "pending"
  /\ destroyer' = [uid |-> local.uid, account |-> GetServiceAccountName(local)]
  /\ UNCHANGED <<server, cluster, informer, queued, worker, applying, faults>>

\* Mutant: an entry is enough, the channel need not hold a result yet.
DestroyStarted == deleteResults # "none"

DestroyReported == deleteResults \in Results

\* ReconcileDelete with a result: the finalizer goes whatever the result says,
\* and with it the object.
WithoutFinalizer == [local EXCEPT !.finalizer = FALSE]

CollectDelete ==
  /\ AtDelete /\ DestroyReported
  /\ local = live /\ Admitted(live, WithoutFinalizer)
  /\ live' = None
  /\ \/ deleteResults' = "none" /\ Return /\ UNCHANGED faults
     \/ ReplyLost /\ UNCHANGED deleteResults
  /\ UNCHANGED <<nextUid, cluster, informer, applying, destroyer>>

\* Nothing to do: the channel is still empty, or the Live is as specified.
Rest ==
  /\ pc = "dispatch"
  /\ \/ AtApply /\ applyResults = "pending"
     \/ AtDelete /\ deleteResults = "pending"
     \/ ~AtApply /\ ~AtDelete
  /\ Return
  /\ UNCHANGED <<server, cluster, informer, applying, deletion, faults>>

\* The API server rejects the write: conflict, not found, or the webhook.
Rejected ==
  /\ \/ NeedsFinalizer /\ ~(local = live /\ Admitted(live, WithFinalizer))
     \/ AtApply /\ applyResults # "pending" /\ local # live
     \/ AtDelete /\ DestroyReported /\ ~(local = live /\ Admitted(live, WithoutFinalizer))
  /\ Requeue
  /\ UNCHANGED <<server, cluster, informer, applying, deletion, faults>>

\* Any of the other error returns: API server, git remote, kustomize build.
ReconcileError ==
  /\ Fault("error")
  /\ \/ NeedsFinalizer
     \/ AtApply /\ applyResults # "pending"
     \/ AtDelete /\ DestroyReported
  /\ Requeue
  /\ UNCHANGED <<server, cluster, informer, applying, deletion>>

Reconcile ==
  \/ Get \/ AddFinalizer \/ KeepFinalizer \/ BackoffWait \/ StartApply
  \/ CollectApply \/ BeginDelete \/ CollectDelete \/ Rest \/ Rejected
  \/ ReconcileError

-----------------------------------------------------------------------------
\* The goroutines. The result is in the channel before the event is sent, and
\* the event may take any time to arrive: both are one step here. Were the event
\* sent first, the result would come without any (ApplyAnnouncedFirst).

\* Mutant: the goroutine ends without an event.
AnnounceNothing == UNCHANGED notify

Announce == notify' = TRUE

ApplyProgress ==
  /\ applier # None
  /\ LET begun == [objects |-> Partial, account |-> applier.account]
     IN  /\ cluster[applier.uid] # begun
         /\ cluster' = [cluster EXCEPT ![applier.uid] = begun]
  /\ UNCHANGED <<server, informer, queued, worker, applying, deletion, faults>>

ApplySucceeds ==
  /\ applier # None
  /\ cluster' = [cluster EXCEPT ![applier.uid] =
                   [objects |-> applier.commit, account |-> applier.account]]
  /\ applyResults' = "ok" /\ applier' = None
  /\ Announce
  /\ UNCHANGED <<server, cache, queued, worker, deletion, faults>>

ApplyFails ==
  /\ applier # None /\ Fault("applyFails")
  /\ applyResults' = "err" /\ applier' = None
  /\ Announce
  /\ UNCHANGED <<server, cluster, cache, queued, worker, deletion>>

DestroyProgress ==
  /\ destroyer # None
  /\ cluster[destroyer.uid].objects \notin {None, Partial}
  /\ cluster' = [cluster EXCEPT ![destroyer.uid].objects = Partial]
  /\ UNCHANGED <<server, informer, queued, worker, applying, deletion, faults>>

\* Destroy finds its objects by the inventory id, which is the uid.
DestroySucceeds ==
  /\ destroyer # None
  /\ cluster' = [cluster EXCEPT ![destroyer.uid] = Empty]
  /\ deleteResults' = "ok" /\ destroyer' = None
  /\ Announce
  /\ UNCHANGED <<server, cache, queued, worker, applying, faults>>

DestroyFails ==
  /\ destroyer # None /\ Fault("destroyFails")
  /\ deleteResults' = "err" /\ destroyer' = None
  /\ Announce
  /\ UNCHANGED <<server, cluster, cache, queued, worker, applying>>

\* Mutant: the event is sent while the channel is still empty, and none after it.
ApplyAnnouncedFirst ==
  \/ ApplyProgress
  \/ /\ applier # None /\ Announce
     /\ UNCHANGED <<server, cluster, cache, queued, worker, applying, deletion, faults>>
  \/ /\ applier # None
     /\ cluster' = [cluster EXCEPT ![applier.uid] =
                      [objects |-> applier.commit, account |-> applier.account]]
     /\ applyResults' = "ok" /\ applier' = None
     /\ UNCHANGED <<server, informer, queued, worker, deletion, faults>>
  \/ DestroyProgress \/ DestroySucceeds \/ DestroyFails

Goroutines ==
  \/ ApplyProgress \/ ApplySucceeds \/ ApplyFails
  \/ DestroyProgress \/ DestroySucceeds \/ DestroyFails

\* The manager dies and starts again: maps, channels, goroutines and queue are
\* lost, the informer lists the Lives before the worker starts.
Crash ==
  /\ Fault("crash")
  /\ cache' = live /\ queued' = (live # None) /\ notify' = FALSE
  /\ pc' = "idle" /\ local' = None
  /\ applyResults' = "none" /\ applier' = None
  /\ deleteResults' = "none" /\ destroyer' = None
  /\ UNCHANGED <<server, cluster>>

Users == Create \/ UpdateSpec \/ Delete
Informer == CacheSync \/ Resync \/ Deliver

Next == Users \/ Informer \/ Reconcile \/ Goroutines \/ Crash

Spec == Init /\ [][Next]_vars

\* The watch, the queue, the worker and the goroutines do not stop. Back-off
\* ends, so a Live that keeps coming up for apply is at last not made to wait.
\* Nothing makes users act, resyncs come, or faults happen.
Fairness ==
  /\ WF_vars(CacheSync) /\ WF_vars(Deliver) /\ WF_vars(Reconcile)
  /\ SF_vars(StartApply) /\ SF_vars(CollectApply)
  /\ WF_vars(ApplySucceeds) /\ WF_vars(DestroySucceeds)

FairSpec == Spec /\ Fairness

-----------------------------------------------------------------------------
\* Properties.

\* Type correctness; a Reconcile is under way exactly when it holds a Live, and
\* a goroutine runs exactly when its channel is registered and still empty.
TypeOK ==
  /\ live \in Lives \cup {None}
  /\ nextUid \in 1..(MaxUid + 1)
  /\ cluster \in [Uids -> Deployments]
  /\ cache \in Lives \cup {None} /\ queued \in BOOLEAN /\ notify \in BOOLEAN
  /\ pc \in {"idle", "setFinalizers", "dispatch"}
  /\ local \in Lives \cup {None}
  /\ (pc = "idle") <=> (local = None)
  /\ applyResults \in Entries /\ deleteResults \in Entries
  /\ applier \in Appliers \cup {None}
  /\ (applier = None) <=> (applyResults # "pending")
  /\ destroyer \in Destroyers \cup {None}
  /\ (destroyer = None) <=> (deleteResults # "pending")
  /\ faults \in Nat

\* While a goroutine applies a Live, that very Live still exists, says Applying
\* (which is all the webhook goes by) and holds the finalizer, so that neither
\* an edit nor a deletion can slip past the apply unnoticed.
ApplyingWhileApplierRuns ==
  applier # None =>
    /\ live # None
    /\ live.uid = applier.uid
    /\ IsApplying(live)
    /\ live.finalizer

\* A Live that is not interruptible, before and after the edit, is not edited
\* while its apply runs (live_types.go, Interruptible).
RunningApplyNotInterrupted ==
  [][/\ applier # None /\ live' # None
     /\ ~live.spec.interruptible /\ ~live'.spec.interruptible
     => live'.spec = live.spec]_vars

\* A Live that counts as reconciled has its commit deployed, completely
\* (live_types.go, LiveConditionReady).
ReadyIsApplied ==
  live # None /\ ~live.deleting /\ Reconciled(live) =>
    cluster[live.uid].objects = live.spec.commit

\* Nothing is destroyed that a user did not delete: whatever stale copy of the
\* Live the Reconcile that started Destroy saw, the Live is marked or gone.
DestroyOnlyWhenDeleted ==
  destroyer # None /\ live # None /\ live.uid = destroyer.uid => live.deleting

\* Objects are destroyed with the service account that they were applied with,
\* which need not be allowed to touch another account's objects.
DestroyAsApplied ==
  destroyer # None => cluster[destroyer.uid].account \in {None, destroyer.account}

\* No lost wake-up: when nothing is queued, running or on its way, there is
\* nothing left to do.
QuiescentMeansDone ==
  /\ pc = "idle" /\ ~queued /\ ~notify /\ cache = live
  /\ applier = None /\ destroyer = None
  => live = None \/ (Reconciled(live) /\ ~live.deleting)

\* When a Live is gone, so is what it deployed (the finalizer's whole purpose).
CleanedUp ==
  \A u \in Uids :
    (live = None \/ live.uid # u) => cluster[u] = Empty

\* Every version of a Live is acted upon in the end, once faults stop.
Settles == []<>(live = None \/ Reconciled(live))

\* A deleted Live goes away, provided that its last apply can succeed.
DeletedEventuallyGone ==
  \A u \in Uids :
    (live # None /\ live.uid = u /\ live.deleting) ~> (live = None \/ live.uid # u)
=============================================================================
