--------------------------- MODULE LiveDeployment ---------------------------
(* The LiveDeployment controller (controllers/livedeployment_controller.go)   *)
(* composed with the Live controller: a LiveDeployment follows a git branch   *)
(* by creating the Live of its own name and rewriting that Live's spec. It    *)
(* shares with the Live controller the API server, the webhook and the        *)
(* manager's cache. One name, hence one LiveDeployment and one Live at a time. *)
EXTENDS LiveController, Polling

CONSTANTS
  Template,        \* what LiveDeployments put in spec, apart from the commit
  MaxDeployments   \* bound: how many LiveDeployments get created

\* Commits are numbered in the order in which they are pushed to the branch.
ASSUME DeploymentAssumption ==
  /\ Commits \subseteq Nat /\ 1 \in Commits
  /\ Template \in [interruptible: InterruptibleChoices, serviceAccountName: ServiceAccounts]
  /\ MaxDeployments \in Nat
  /\ None \notin [uid: Nat, commit: Commits]

VARIABLES
  tip,              \* the commit at the tip of the branch in the remote
  deployment,       \* uid of the LiveDeployment, or None
  nextDeployment,   \* uid of the next LiveDeployment
  ldCache,          \* uid of the LiveDeployment in the informer's cache, or None
  owner,            \* for each Live, the LiveDeployment that owns it, or None
  ldQueued,         \* is a Reconcile of the LiveDeployment to come?
  ldPc,             \* where the LiveDeployment worker is
  ldLocal,          \* its liveDeployment: uid, and the commit it fetched
  existingLive      \* its copy of the Live that is already there

git == <<tip>>
deployments == <<deployment, nextDeployment>>
ldWorker == <<ldPc, ldLocal, existingLive>>
ldVars == <<git, deployments, ldCache, owner, ldQueued, ldWorker>>
allVars == <<vars, ldVars>>

LDInit ==
  /\ Init
  /\ tip = 1 /\ deployment = None /\ nextDeployment = 1 /\ ldCache = None
  /\ owner = [u \in Uids |-> None]
  /\ ldQueued = FALSE /\ ldPc = "idle" /\ ldLocal = None /\ existingLive = None

-----------------------------------------------------------------------------
\* The world around it.

Push ==
  /\ tip + 1 \in Commits
  /\ tip' = tip + 1
  /\ UNCHANGED <<vars, deployments, ldCache, owner, ldQueued, ldWorker>>

\* A user makes a Live of that name, which no LiveDeployment owns, for another
\* commit than the branch's, before there is a LiveDeployment. With another account
\* than the template's, the webhook would refuse to let it be taken over.
CreateForeign ==
  /\ nextDeployment = 1
  /\ Create /\ live'.spec.commit # tip
  /\ live'.spec.serviceAccountName = Template.serviceAccountName
  /\ UNCHANGED ldVars

CreateDeployment ==
  /\ deployment = None /\ nextDeployment <= MaxDeployments
  /\ deployment' = nextDeployment /\ nextDeployment' = nextDeployment + 1
  /\ UNCHANGED <<vars, git, ldCache, owner, ldQueued, ldWorker>>

DeleteDeployment ==
  /\ deployment # None
  /\ deployment' = None
  /\ UNCHANGED <<vars, git, nextDeployment, ldCache, owner, ldQueued, ldWorker>>

\* The garbage collector deletes what belongs to an owner that is gone.
CollectGarbage ==
  /\ live # None /\ owner[live.uid] \notin {None, deployment}
  /\ Delete
  /\ UNCHANGED ldVars

\* The informer of LiveDeployments follows in its own time. (Its resync is left
\* out: it does no more than polling does.)
LDCacheSync ==
  /\ ldCache # deployment
  /\ ldCache' = deployment /\ ldQueued' = TRUE
  /\ UNCHANGED <<vars, git, deployments, owner, ldWorker>>

-----------------------------------------------------------------------------
\* Reconcile. A LiveDeployment that the cache does not have is an error, too: it
\* is looked for again and again, which changes nothing.

SpecFor(commit) ==
  [commit |-> commit, interruptible |-> Template.interruptible,
   serviceAccountName |-> Template.serviceAccountName]

LDReturn == ldPc' = "idle" /\ ldLocal' = None /\ existingLive' = None

LDFinish == LDReturn /\ ldQueued' = (ldQueued \/ PollsAgain)
LDError == LDReturn /\ ldQueued' = TRUE

FetchBranch ==
  /\ ldPc = "idle" /\ ldQueued /\ ldCache # None
  /\ ldQueued' = FALSE
  /\ ldPc' = "create" /\ ldLocal' = [uid |-> ldCache, commit |-> tip]
  /\ UNCHANGED <<vars, git, deployments, ldCache, owner, existingLive>>

CreateLiveForCommit ==
  /\ ldPc = "create" /\ live = None /\ nextUid \in Uids
  /\ live' = NewLive(nextUid, SpecFor(ldLocal.commit)) /\ nextUid' = nextUid + 1
  /\ owner' = [owner EXCEPT ![nextUid] = ldLocal.uid]
  /\ LDFinish
  /\ UNCHANGED <<cluster, informer, queued, worker, applying, deletion, faults,
                 git, deployments, ldCache>>

AlreadyExists ==
  /\ ldPc = "create" /\ live # None
  /\ ldPc' = "get"
  /\ UNCHANGED <<vars, git, deployments, ldCache, owner, ldQueued, ldLocal, existingLive>>

\* Mutant: the error of the Get is dropped.
GetExistingOrNothing ==
  /\ ldPc = "get"
  /\ existingLive' = cache /\ ldPc' = "update"
  /\ UNCHANGED <<vars, git, deployments, ldCache, owner, ldQueued, ldLocal>>

\* The existing Live comes from the cache, which may not know it yet.
GetExisting ==
  /\ ldPc = "get"
  /\ \/ cache # None /\ existingLive' = cache /\ ldPc' = "update" /\ UNCHANGED <<ldQueued, ldLocal>>
     \/ cache = None /\ LDError
  /\ UNCHANGED <<vars, git, deployments, ldCache, owner>>

\* The update as the API server sees it: a new generation if the spec changes.
Updated ==
  LET spec == SpecFor(ldLocal.commit)
  IN  [existingLive EXCEPT !.spec = spec,
         !.generation = IF existingLive.spec = spec THEN @ ELSE @ + 1]

UpdateAccepted == existingLive = live /\ Admitted(live, Updated)

UpdateExisting ==
  /\ ldPc = "update" /\ UpdateAccepted
  /\ live' = Updated
  /\ LDFinish
  /\ UNCHANGED <<nextUid, cluster, informer, queued, worker, applying, deletion, faults,
                 git, deployments, ldCache, owner>>

\* Conflict, not found, or the webhook: the error ends this Reconcile.
UpdateRejected ==
  /\ ldPc = "update" /\ ~UpdateAccepted
  /\ LDError
  /\ UNCHANGED <<vars, git, deployments, ldCache, owner>>

LDReconcile ==
  \/ FetchBranch \/ CreateLiveForCommit \/ AlreadyExists \/ GetExisting
  \/ UpdateExisting \/ UpdateRejected

\* The new process lists the LiveDeployments.
ManagerCrash ==
  /\ Crash /\ LDReturn
  /\ ldCache' = deployment /\ ldQueued' = (deployment # None)
  /\ UNCHANGED <<git, deployments, owner>>

LDNext ==
  \/ Push \/ CreateForeign \/ CreateDeployment \/ DeleteDeployment \/ CollectGarbage
  \/ LDCacheSync
  \/ LDReconcile
  \/ (Informer \/ Reconcile \/ Goroutines) /\ UNCHANGED ldVars
  \/ ManagerCrash

LDSpec == LDInit /\ [][LDNext]_allVars

\* The watches, the workers and the garbage collector do not stop. An update that is rejected while an
\* apply runs or the cache lags is tried again until it is not.
LDFairness ==
  /\ WF_allVars(CacheSync /\ UNCHANGED ldVars) /\ WF_allVars(Deliver /\ UNCHANGED ldVars)
  /\ WF_allVars(Reconcile /\ UNCHANGED ldVars)
  /\ SF_allVars(StartApply /\ UNCHANGED ldVars) /\ SF_allVars(CollectApply /\ UNCHANGED ldVars)
  /\ WF_allVars(ApplySucceeds /\ UNCHANGED ldVars)
  /\ WF_allVars(DestroySucceeds /\ UNCHANGED ldVars)
  /\ WF_allVars(CollectGarbage) /\ WF_allVars(LDCacheSync) /\ WF_allVars(LDReconcile)

LDFairSpec == LDSpec /\ LDFairness

-----------------------------------------------------------------------------
\* Properties.

\* The worker that writes the spec holds the commit it writes, and the copy it
\* writes it to.
LDTypeOK ==
  /\ tip \in Commits
  /\ {deployment, ldCache} \subseteq 1..MaxDeployments \cup {None}
  /\ nextDeployment \in 1..(MaxDeployments + 1)
  /\ owner \in [Uids -> 1..MaxDeployments \cup {None}]
  /\ ldQueued \in BOOLEAN /\ ldPc \in {"idle", "create", "get", "update"}
  /\ ldLocal \in [uid: 1..MaxDeployments, commit: Commits] \cup {None}
  /\ (ldPc = "idle") <=> (ldLocal = None)
  /\ existingLive \in Lives \cup {None}
  /\ (ldPc = "update") <=> (existingLive # None)

\* An apply that runs is not overtaken by the next commit of the branch, provided
\* that the template is not interruptible: the update is rejected, and tried
\* again at the next poll, until the apply has been reported.
OneCommitAtATime ==
  [][live # None /\ live' # None /\ live.spec # live'.spec => applier = None]_allVars

\* In the end the Live has the commit at the tip and has it applied, whoever
\* made it, or, when the LiveDeployment is gone, its Live is gone.
Converges ==
  <>[](IF deployment = None THEN live = None \/ owner[live.uid] = None
       ELSE /\ live # None /\ Reconciled(live) /\ ~live.deleting
            /\ live.spec.commit = tip
            /\ cluster[live.uid].objects = tip)
=============================================================================
