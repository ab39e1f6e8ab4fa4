------------------------ MODULE LiveDeploymentGroup ------------------------
(* The LiveDeploymentGroup controller                                         *)
(* (controllers/livedeploymentgroup_controller.go): one LiveDeployment for    *)
(* each branch that matches, created and deleted as branches come and go.     *)
(* All groups here have the same name, each in a namespace of its own: the    *)
(* label that LiveDeployments are found by is the name, without namespace.    *)
EXTENDS Polling, FiniteSets

CONSTANTS
  Namespaces,   \* namespaces that hold a group of that name
  Branches,     \* branches of the remote repository
  Match,        \* for each namespace, the branches that its branchMatch matches
  FaultKinds,   \* which errors and crashes there are
  MaxId,        \* bound: LiveDeployments created
  MaxGroups,    \* bound: groups created
  MaxPushes,    \* bound: branches created or deleted in the remote
  MaxFaults     \* bound: errors

ASSUME GroupAssumption ==
  /\ Match \in [Namespaces -> SUBSET Branches]
  /\ FaultKinds \subseteq {"error", "list", "crash"}
  /\ MaxId \in Nat /\ MaxGroups \in Nat /\ MaxPushes \in Nat /\ MaxFaults \in Nat

VARIABLES
  remote,      \* the branches that exist
  groups,      \* for each namespace, the uid of its group; 0 if there is none
  groupCache,  \* the groups in the informer's cache
  lds,         \* the LiveDeployments stored by the API server
  ldCache,     \* the LiveDeployments in the informer's cache
  scheduled,   \* namespaces whose group has a Reconcile coming
  pc,          \* where the worker is
  req,         \* the group of the running Reconcile: namespace and uid
  branches,    \* its branches
  toCreate,    \* branches it still has to create a LiveDeployment for
  toDelete,    \* LiveDeployments it still has to delete
  nextId, nextUid, pushes, faults,   \* counters
  listFailed,  \* history: has an error ended a Reconcile for good?
  seenGone     \* history: ids whose branch did not exist at some time since creation

env == <<remote, groups, nextUid, pushes>>
store == <<lds, nextId, seenGone>>
caches == <<groupCache, ldCache>>
failures == <<faults, listFailed>>
worker == <<pc, req, branches, toCreate, toDelete>>
vars == <<remote, groups, groupCache, lds, ldCache, scheduled, pc, req, branches, toCreate,
          toDelete, nextId, nextUid, pushes, faults, listFailed, seenGone>>

\* spec.branch, and the owner reference (which is what namespace it is in, too).
LiveDeployments ==
  [id: 1..MaxId, branch: Branches, namespace: Namespaces, owner: 1..MaxGroups]
NoRequest == [namespace |-> "", owner |-> 0]

Fault(kind) ==
  /\ kind \in FaultKinds /\ faults < MaxFaults
  /\ faults' = faults + 1 /\ listFailed' = (listFailed \/ kind = "list")

Init ==
  /\ remote \in SUBSET Branches
  /\ groups = [n \in Namespaces |-> 0] /\ groupCache = groups
  /\ lds = {} /\ ldCache = {} /\ scheduled = {}
  /\ pc = "idle" /\ req = NoRequest /\ branches = {}
  /\ toCreate = {} /\ toDelete = {}
  /\ nextId = 1 /\ nextUid = 1 /\ pushes = 0 /\ faults = 0
  /\ listFailed = FALSE /\ seenGone = {}

-----------------------------------------------------------------------------
\* Users, git, the API server and the garbage collector.

CreateGroup(n) ==
  /\ groups[n] = 0 /\ nextUid <= MaxGroups
  /\ groups' = [groups EXCEPT ![n] = nextUid] /\ nextUid' = nextUid + 1
  /\ UNCHANGED <<remote, store, caches, scheduled, worker, pushes, failures>>

DeleteGroup(n) ==
  /\ groups[n] # 0
  /\ groups' = [groups EXCEPT ![n] = 0]
  /\ UNCHANGED <<remote, store, caches, scheduled, worker, nextUid, pushes, failures>>

CreateBranch(b) ==
  /\ b \notin remote /\ pushes < MaxPushes
  /\ remote' = remote \cup {b} /\ pushes' = pushes + 1
  /\ UNCHANGED <<groups, store, caches, scheduled, worker, nextUid, failures>>

DeleteBranch(b) ==
  /\ b \in remote /\ pushes < MaxPushes
  /\ remote' = remote \ {b} /\ pushes' = pushes + 1
  /\ seenGone' = seenGone \cup {ld.id : ld \in {x \in lds : x.branch = b}}
  /\ UNCHANGED <<groups, lds, nextId, caches, scheduled, worker, nextUid, failures>>

Orphaned(ld) == groups[ld.namespace] # ld.owner

CollectGarbage(ld) ==
  /\ Orphaned(ld)
  /\ lds' = lds \ {ld}
  /\ UNCHANGED <<env, nextId, seenGone, caches, scheduled, worker, failures>>

\* The controller does not watch LiveDeployments: nothing is scheduled.
CacheSync ==
  /\ ldCache # lds
  /\ ldCache' = lds
  /\ UNCHANGED <<env, store, groupCache, scheduled, worker, failures>>

\* It does watch groups, each in its own time.
GroupSync(n) ==
  /\ groupCache[n] # groups[n]
  /\ groupCache' = [groupCache EXCEPT ![n] = groups[n]]
  /\ scheduled' = scheduled \cup {n}
  /\ UNCHANGED <<env, store, ldCache, worker, failures>>

\* The informer's periodic resync of the groups it has.
Resync(n) ==
  /\ groupCache[n] # 0 /\ n \notin scheduled
  /\ scheduled' = scheduled \cup {n}
  /\ UNCHANGED <<env, store, caches, worker, failures>>

-----------------------------------------------------------------------------
\* Reconcile.

Finish ==
  pc' = "idle" /\ req' = NoRequest /\ branches' = {} /\ toCreate' = {} /\ toDelete' = {}

\* A Reconcile that ends with an error is followed by another.
Requeue == Finish /\ scheduled' = scheduled \cup {req.namespace}

MatchingBranches(n) == remote \cap Match[n]

\* A group that the cache does not have is an error, too: it is looked for again
\* and again, which changes nothing.

\* Mutant: not finding the group is not told apart from finding it.
ListBranchesWithoutNotFound(n) ==
  /\ pc = "idle" /\ n \in scheduled
  /\ scheduled' = scheduled \ {n}
  /\ req' = [namespace |-> n, owner |-> groupCache[n]]
  /\ branches' = MatchingBranches(n)
  /\ pc' = "list"
  /\ UNCHANGED <<env, store, caches, toCreate, toDelete, failures>>

ListBranches(n) ==
  /\ pc = "idle" /\ n \in scheduled /\ groupCache[n] # 0
  /\ scheduled' = scheduled \ {n}
  /\ req' = [namespace |-> n, owner |-> groupCache[n]]
  /\ branches' = MatchingBranches(n)
  /\ pc' = "list"
  /\ UNCHANGED <<env, store, caches, toCreate, toDelete, failures>>

\* continue branches
Missing(created) == branches \ {ld.branch : ld \in created}

\* Mutant: a continue without its label, so that every one is deleted.
SurplusUnlabelled(created) == created

\* continue liveDeployments
Surplus(created) == {ld \in created : ld.branch \notin branches}

\* Everything in the cache has the label, in whatever namespace it is.
List ==
  /\ pc = "list"
  /\ toCreate' = Missing(ldCache) /\ toDelete' = Surplus(ldCache)
  /\ pc' = "create"
  /\ UNCHANGED <<env, store, caches, scheduled, req, branches, failures>>

\* When listing fails, the Reconcile ends as if it had succeeded, unscheduled.
ListFails ==
  /\ pc = "list" /\ Fault("list")
  /\ Finish
  /\ UNCHANGED <<env, store, caches, scheduled>>

\* LiveDeploymentForBranch, under a generated name.
Create(b) ==
  /\ pc = "create" /\ b \in toCreate /\ nextId <= MaxId
  /\ lds' = lds \cup {[id |-> nextId, branch |-> b,
                       namespace |-> req.namespace, owner |-> req.owner]}
  /\ nextId' = nextId + 1
  /\ seenGone' = IF b \in remote THEN seenGone ELSE seenGone \cup {nextId}
  /\ toCreate' = toCreate \ {b}
  /\ UNCHANGED <<env, caches, scheduled, pc, req, branches, toDelete, failures>>

Created ==
  /\ pc = "create" /\ toCreate = {}
  /\ pc' = "delete"
  /\ UNCHANGED <<env, store, caches, scheduled, req, branches, toCreate, toDelete, failures>>

DeleteSurplus(ld) ==
  /\ pc = "delete" /\ ld \in toDelete
  /\ \/ /\ ld \in lds /\ lds' = lds \ {ld}
        /\ toDelete' = toDelete \ {ld}
        /\ UNCHANGED <<scheduled, pc, req, branches, toCreate>>
     \/ ld \notin lds /\ UNCHANGED lds /\ Requeue
  /\ UNCHANGED <<env, nextId, seenGone, caches, failures>>

Done ==
  /\ pc = "delete" /\ toDelete = {}
  /\ Finish /\ scheduled' = scheduled \cup (IF PollsAgain THEN {req.namespace} ELSE {})
  /\ UNCHANGED <<env, store, caches, failures>>

\* Any API call or the git remote fails.
ReconcileError ==
  /\ pc # "idle" /\ Fault("error")
  /\ Requeue
  /\ UNCHANGED <<env, store, caches>>

\* A new process lists all groups and starts from fresh caches.
Crash ==
  /\ Fault("crash")
  /\ Finish
  /\ groupCache' = groups /\ ldCache' = lds
  /\ scheduled' = {n \in Namespaces : groups[n] # 0}
  /\ UNCHANGED <<env, store>>

Reconcile ==
  \/ \E n \in Namespaces : ListBranches(n)
  \/ List \/ ListFails \/ Created \/ Done \/ ReconcileError
  \/ \E b \in Branches : Create(b)
  \/ \E ld \in toDelete : DeleteSurplus(ld)

Next ==
  \/ \E n \in Namespaces : CreateGroup(n) \/ DeleteGroup(n) \/ GroupSync(n) \/ Resync(n)
  \/ \E b \in Branches : CreateBranch(b) \/ DeleteBranch(b)
  \/ \E ld \in lds : CollectGarbage(ld)
  \/ CacheSync \/ Reconcile \/ Crash

Spec == Init /\ [][Next]_vars

\* The watches, the worker and the garbage collector do not stop. The worker
\* takes groups from the queue in turn. Resyncs come again and again, but it must do
\* without them unless listing has failed.
Fairness ==
  /\ WF_vars(CacheSync) /\ WF_vars(Reconcile)
  /\ WF_vars(\E ld \in lds : CollectGarbage(ld))
  /\ \A n \in Namespaces :
       /\ WF_vars(GroupSync(n)) /\ SF_vars(ListBranches(n))
       /\ WF_vars(listFailed /\ Resync(n))

FairSpec == Spec /\ Fairness

-----------------------------------------------------------------------------
\* Properties.

\* Type correctness; the LiveDeployments in hand and in the cache were created,
\* and no two LiveDeployments have the same id.
TypeOK ==
  /\ remote \in SUBSET Branches
  /\ groups \in [Namespaces -> 0..MaxGroups] /\ groupCache \in [Namespaces -> 0..MaxGroups]
  /\ lds \subseteq LiveDeployments
  /\ \A x, y \in lds : x.id = y.id => x = y
  /\ ldCache \cup toDelete \subseteq {ld \in LiveDeployments : ld.id < nextId}
  /\ scheduled \subseteq Namespaces
  /\ pc \in {"idle", "list", "create", "delete"}
  /\ req = NoRequest \/ req \in [namespace: Namespaces, owner: 1..MaxGroups]
  /\ (pc = "idle") <=> (req = NoRequest)
  /\ toCreate \subseteq branches /\ branches \subseteq Branches
  /\ nextId \in 1..(MaxId + 1) /\ nextUid \in 1..(MaxGroups + 1)
  /\ listFailed \in BOOLEAN /\ seenGone \subseteq 1..MaxId

\* A LiveDeployment of a group that is still there is deleted only when its
\* branch was missing from the remote at some time since it was created: a stale
\* cache, an error halfway or a restart never costs a branch its deployment.
PrunedOnlyForDeletedBranch ==
  [][\A ld \in lds \ lds' : ~Orphaned(ld) => ld.id \in seenGone]_vars

\* The bound on LiveDeployments keeps the worker from creating another.
OutOfIds == pc = "create" /\ toCreate # {} /\ nextId > MaxId

\* In the end the branches with a LiveDeployment are those that match, for each
\* group that is there, and none for each group that is not.
Converges ==
  <>[](\A n \in Namespaces :
         \/ OutOfIds
         \/ {ld.branch : ld \in {x \in lds : x.namespace = n}} =
              IF groups[n] = 0 THEN {} ELSE remote \cap Match[n])
=============================================================================
