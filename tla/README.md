# Kuberik deploy-controller in TLA+

Kuberik deploys Kustomize layers from git. A `Live` asks for one commit of a
repository to be applied to the cluster. A `LiveDeployment` follows a branch by
rewriting a Live. A `LiveDeploymentGroup` keeps one LiveDeployment for every
branch that matches a pattern. One manager process runs a controller for each of
the three, and an admission webhook for Lives.

These modules describe what the controllers do between a user's edit and the
cluster's state, with what gets in between: caches that lag, conflicting writes,
goroutines that report late, crashes, and API calls that fail after they took
effect. TLC checks small instances, TLAPS proves the safety properties, and that
the Live controller implements what a user may expect of a Live, for every value
of the constants.

## The system

| component | state | operations | talks to |
|---|---|---|---|
| Live (`api/v1alpha1/live_types.go`) | spec; Ready condition with the generation it is about and a transition time; number of retries | `Reconciled`, `IsApplying`, `SetPhase`, `Backoff`, `BackoffRemaining` | used by the Live controller and the webhook |
| Live webhook (`live_webhook.go`) | none | `ValidateUpdate`, `CanInterrupt` | the API server, at every update of a Live's main resource |
| Live controller (`controllers/live_controller.go`) | `ApplyResults`, `DeleteResults`: maps from name to a channel of capacity 1; `KptClientEvents`; the goroutines | `Reconcile`: finalizer, back-off, apply, collect, destroy, collect | API server, cache, git, Kustomize, kpt |
| LiveDeployment controller (`livedeployment_controller.go`) | none of its own | `Reconcile`: fetch the branch, create or update the Live, poll again | API server, cache, git |
| LiveDeploymentGroup controller (`livedeploymentgroup_controller.go`) | none of its own | `Reconcile`: list branches, list LiveDeployments, create the missing, delete the surplus, poll again | API server, cache, git |
| Git repository (`pkg/repository`) | a bare repository and work trees on disk: for each Live by its name, for the other two controllers by the URL | `InitGitRepository`, `FetchBranch`, `FetchCommit`, `CreateCommitDir`, `ListBranches` | the remote |
| Kustomize overlay (`pkg/kustomize`) | none: files in, files out | building the layer that is applied | the apply client |
| Apply client (`pkg/live`) | the inventory object, by the Live's uid | `Apply`, `Destroy` | the cluster, impersonating the service account |
| Manager (`main.go`) | flags, the maps at start | wiring, leader election, `ENABLE_WEBHOOKS` | all of the above |

They interact through four things. The *API server* stores the objects, refuses a
write whose resourceVersion is old, asks the webhook, keeps an object that is
deleted while it has a finalizer, and starts a new generation when the spec
changes or the deletion is requested. The *informer cache* follows it at some
distance; every read of a controller comes from there. The *work queue* holds a
name once, and gives it to one worker at a time (the controllers run with the
default of one worker, and `config/manager/manager.yaml` runs the manager with
leader election). The *goroutines* that apply and destroy put a result into a
channel, then send an event that becomes a queue entry.

### What is hard

- The result of an apply is found by name, when the Live may be of another
  generation or uid than the one that was applied.
- Destroy is started from a copy in the cache, with no write that could fail.
- A crash forgets the maps and the goroutines but not the status, which goes on
  saying Applying.
- A status update can take effect and still return an error.
- The webhook decides by the status alone whether an apply is running.
- Two controllers and the garbage collector write the same Live, one of them for a
  LiveDeployment that may be gone already.
- The group's list of LiveDeployments is old, and holds those of other
  namespaces; its loops can stop halfway.
- A directory on disk outlives the Reconcile that broke off while filling it, and
  the spec that it was made for.
- The layer that is built refers from a directory in memory to one on disk, and
  Destroy finds by an inventory what Apply stored under one.
- The poll interval is an `int32` that one is added to, and no requeue is also a
  requeue after zero seconds.
- Back-off is computed from a transition time that not every transition moves.

For each component, this is what makes it correct:

- *Live*: the back-off doubles up to its cap; a Ready condition counts only for
  the generation it is about.
- *Webhook*: an apply is not interrupted unless someone allowed it; the service
  account is the same from the first apply to Destroy.
- *Live controller*: the status announces every running apply; Ready means applied;
  nothing is destroyed unasked; nothing remains of a Live that is gone; no
  wake-up is lost; every version is acted upon in the end.
- *LiveDeployment controller*: the tip of the branch ends up applied; no commit
  overtakes the apply of another one; nothing stays when it is deleted.
- *Group controller*: branches and LiveDeployments agree in the end; none is
  deleted while its branch exists.
- *Git repository*: what is built is the whole commit; every commit that can be had is
  built in the end.
- *Overlay and apply client*: what is applied is what the commit's layer and its
  transformers say, and the inventory is the one that Destroy asks for.

## The modules

| module | what it is |
|---|---|
| `Live` | the Live resource and the webhook as pure operators |
| `LiveController` | the Live controller with API server, cache, queue, goroutines, users and faults |
| `LiveLifecycle` | the life of one Live as its user sees it: what the controller promises |
| `LiveRefinement` | where that view is to be found in `LiveController`'s state |
| `LiveBackoff` | the timing of retries: a clock, one Live, the delaying queue |
| `Polling` | when the other two controllers look at the remote again; both extend it |
| `LiveDeployment` | the LiveDeployment controller; extends `LiveController`, so both run together |
| `LiveDeploymentGroup` | the group controller, with the LiveDeployments as its data |
| `GitRepository` | the directory of a Live: repository, stored commits, work trees |
| `LiveBuild` | from the work tree to what is applied; extends `GitRepository` |
| `MCLiveController`, `MCLiveDeployment`, `MCLiveDeploymentGroup`, `MCLiveBuild` | definitions for TLC's instances |
| `LiveControllerProofs`, `LiveSafetyProofs`, `LiveOutcomeProofs` | proofs about `LiveController` and `LiveRefinement` |
| `LiveBackoffProofs`, `LiveDeploymentProofs`, `LiveDeploymentGroupProofs`, `LiveBuildProofs` | proofs about the others; the last is about `GitRepository`, too |
| `Iteration` | what the proofs need about natural numbers and recursive functions |

Operators named in a comment that begins with "Mutant:" are wrong versions of the
definition after them. They say which mistake in the code each property would
notice, and no specification uses them.

### LiveController

One name, hence at most one Live at a time; a Live that is deleted may be followed
by another with a new uid. Lives of different names share nothing but the worker
and the event channel, which only delay.

| variable | in the code |
|---|---|
| `live`, `nextUid` | the stored object and the API server's uids |
| `cluster` | for each uid, what its inventory has deployed: a commit, `Partial`, or nothing; and the account that applied it |
| `cache`, `queued`, `notify` | the informer's copy; is the name in the queue; an event in `KptClientEvents` |
| `pc`, `local` | where `Reconcile` is, and its `live` |
| `applyResults`, `applier` | `ApplyResults[name]`: none, a channel that is empty (`"pending"`), or one with a result; what the goroutine captured |
| `deleteResults`, `destroyer` | the same for `DeleteResults` |
| `faults` | counts the injected faults |

`Reconcile` is split where others can step in between: `Get` reads the cache,
`AddFinalizer`/`KeepFinalizer` is `SetFinalizers`, and one of `BackoffWait`,
`StartApply`, `CollectApply`, `BeginDelete`, `CollectDelete`, `Rest`, `Rejected`
and `ReconcileError` is the rest, up to the return. In `StartApply` the status
update, the map entry and the start of the goroutine are one step. They are not
one in the code, but only this worker reads the map, and the goroutine's own first
effect is a later step. A crash in between leaves what a crash right after leaves: a
Live that says Applying, and nothing that applies it.

The abstractions, and why they are sound:

- *Optimistic locking* compares contents instead of a resourceVersion. The
  contents of a Live do not come back: its uid, generation, deletion mark and
  finalizer only go forward, and within a generation the Ready condition does
  not return to an earlier one without the number of retries going up, except
  when an apply is started again while the Live says Applying already. Such an
  update changes nothing, and the API server does not give a new resourceVersion
  for it either.
- *The cache* goes to the current version at once. It may skip versions but never
  goes back; a copy from any earlier moment can still be in `local`.
- *Time* is left out. A Live that failed before may be made to wait at any attempt.
  How long is `LiveBackoff`'s subject.
- *The result and the event* are one step: `Deliver` may come at any time later, and
  the order of the two in the code is what makes this right. `ApplyAnnouncedFirst` is the other
  order: an event while the channel is empty, and none after the result. It loses a wake-up, as
  `QuiescentMeansDone` notices.
- *Destroy* finds objects by the uid, `Apply` likewise.
- *A spec* is a commit, the interruptible flag and the service account's name. A commit
  stands for everything else that the build depends on. The empty name means
  the account `default` (`GetServiceAccountName`); the webhook compares names, so it
  refuses to write `default` where nothing was.
- Conditions other than Ready, messages and events for users are left out.

### LiveLifecycle and LiveRefinement

The user of a Live knows four things: the commit that is asked for, whether the Live was
deleted, what its status says, and what is deployed. `LiveLifecycle` says how these may
change: a request is not changed while it is carried out; something is deployed only while
the status says Applying; success is reported only when the commit is deployed; destroying begins
only after a deletion and a success, and the Live vanishes only when nothing is left. It has no
cache, queue, goroutine, map or restart.

| `LiveLifecycle` | in `LiveController` |
|---|---|
| `asked`, `deleted` | `live.spec.commit`, `live.deleting`; `None` and `FALSE` without a Live |
| `phase` | `PhaseSeen`: the reason of the Ready condition when it is about the current generation, or when it says Applying; otherwise `"Pending"` |
| `deployed` | `cluster[1].objects` |

`ImplementsLifecycle` is `LiveLifecycle`'s specification under this mapping. A status that is put
back to Applying after a crash, a result that was kept, or a conflict that repeats a Reconcile are
stutters or steps that the user's view allows. The mapping is for the first Live of a name,
with `LiveOutcome`'s restrictions: without them the code does not implement it (see below).

### LiveBackoff

`Step` is `wait.Backoff.Step`, and `Stepped` is the loop around it as a recursive
function. The controller takes no time of its own; applies take any time. `Fire` and `Tick`
are the delaying queue: a timer fires at its time, and a name that is added again
keeps the earlier time. `firstAt` and `failedAt` are history variables. `EditIsTimely` is about what a success leaves: the number of
retries, and with it a back-off for the next generation.

### LiveDeployment

Commits are numbered in the order of the pushes. `FetchBranch` reads the LiveDeployment from the
informer's cache (`ldCache`, which follows by `LDCacheSync`) and the tip, the
next step runs into the stored Live or creates it, `GetExisting` reads the Live from the cache,
`UpdateExisting` writes if that copy is still the stored one and the webhook
agrees. An error, a change of the cache and a restart enqueue it again; a success does
so if `RequeueAfter`, the sum of the poll interval and one as an `int32`, is positive (`LDFinish`, `Polling`).
A LiveDeployment that the cache does not have is an error as well, which repeats and changes nothing, so a
Reconcile begins only with one that is there; one that was deleted is reconciled until the cache shows it. The template is
fixed. `CollectGarbage` is the cluster's garbage collector, which deletes a Live
whose owner is gone. `CreateForeign` is a user who makes a Live of that name first, with the template's account; the
LiveDeployment takes it over without becoming its owner.

### LiveDeploymentGroup

Groups here have the same name and differ in the namespace, because the label that
LiveDeployments are listed by holds the name only. `ListBranches` reads the remote,
`List` reads the cache, `Create` and `DeleteSurplus` are the bodies of the two
loops, one item at a time, in any order. (The code sorts branches; the order of a
list from the cache is arbitrary.) An error may come before any of them, and
an error of `List` ends the Reconcile without a requeue, as in the code; the history variable `listFailed` remembers it. Groups are read from a cache as
well (`groupCache`); its changes (`GroupSync`) and its resyncs are what enqueues a group, apart from polls (`Polling`) and errors.
LiveDeployments are not watched: a change of theirs enqueues nothing.

### GitRepository

`exists` and `origin` are the bare repository and its remote, `objects` the commits stored,
`trees` the directories under `commits/`. A Reconcile goes through `GetAuthMethod`,
`InitGitRepository` or `OpenGitRepository`, `FetchCommit`, `CreateCommitDir` and `Build`. An
error ends it at any of them, leaves the disk as it is, and another one follows. Commits
are hashes, so a commit has the same contents whichever remote it comes from. Remotes hand out the
commits that can be reached from their branches; pushes and force pushes change these. All work trees
share one index and one HEAD in the bare repository, which a forced checkout sets anew; only one worker
uses a directory, so they are left out.

### LiveBuild

Paths are sequences of names, and a file system is a function from the paths of files to
kustomizations and sets of objects. `Layered` is `LayeredFilesystem` as one function: a file on disk is seen
unless something in memory has its path. `OverlayFiles` has the two files that `CreateLayeredFilesystemLayer` writes
to memory, with the relative paths it computes. `Accumulate` is kustomize, as far as the overlay
relies on it: a directory needs exactly one kustomization, must not be part of a cycle, files must
lie below it, names must be unique, an error anywhere is an error of the whole. It is a function of the depth to which directories
refer to one another, built from that for the next lower depth (`AccumulateDir`, `Load`). Transformers do one thing,
which is what the overlay exists for: they copy the Live's commit into other objects, and fail unless there is
exactly one Live to copy from. `LayerBuild` takes objects out that are marked as local.
`NewLiveApply` and `ApplyRequest` are `pkg/live` up to the call of kpt.

`BuildAndApply` is the `Build` step of `GitRepository` together with the
request that it leads to. It builds what is on disk at that moment, whether that is a whole
commit or not; that it is one is `BuildsWholeCommit`.

`AppliesTheCommit` compares the request with `Intended`, which knows of no overlay: the layer and its transformers,
each as the commit has it, with the Live added and taken out again. Where the commit has files that the overlay's
would hide or stand beside (`Reserved`), nothing may be applied instead. A layer that lies below its transformers' directory
is never applied, since kustomize takes that for a cycle; `Intended` says the same.

## The runs

Deadlock is not checked in any of them: the system does stop when users do nothing more and
everything is reconciled. `QuiescentMeansDone` says that it stops nowhere else.

| run | instance | shows |
|---|---|---|
| `LiveSafety` | 2 Lives, 2 commits, 3 account names (one empty, one `default`), interruptible or not, 2 generations by edits, 2 faults of any kind, symmetry | `TypeOK`, `ApplyingWhileApplierRuns`, `RunningApplyNotInterrupted`, `DestroyOnlyWhenDeleted`, `DestroyAsApplied`, `QuiescentMeansDone` |
| `LiveOutcome` | 1 Live, 3 generations, 3 faults; not interruptible, no edits once deleted, no lost replies, Destroy works | `ReadyIsApplied`, `CleanedUp`, `ImplementsLifecycle` |
| `LiveLiveness` | 1 Live, 2 generations, 2 faults of any kind, fairness | `Settles`, `DeletedEventuallyGone` |
| `Backoff` | the constants of the code, 2 generations, 10 failures, 420 s | `BackoffDoublesUpToCap`, `RetryIsTimely`, `EditIsTimely`, `RetriesArePaced` |
| `LiveDeployment` | 2 commits, one LiveDeployment that may be deleted, perhaps a user's Live first, 1 uid, poll interval 0, 1 crash or failing apply, fairness | `LDTypeOK`, `ReadyIsApplied`, `OneCommitAtATime`, `Converges` for both controllers together |
| `Group` | 1 group, 2 branches, 2 pushes, 3 LiveDeployments, 1 error, failing `List` or crash, poll interval 0, fairness with resyncs only once `List` has failed | `TypeOK`, `PrunedOnlyForDeletedBranch`, `Converges` |
| `GitRepository` | `LiveBuild` with 15 layers, 1 remote, 2 commits, 3 changes, 2 faults (remote, mkdir, fetch, checkout, crash), fairness | `BuildsWholeCommit`, `AppliesTheCommit`, `EventuallyBuilt` |
| `LiveInterrupted` | interruptible Lives | a generation becomes Ready that was never applied |
| `LiveDestroyFails` | Destroy fails once | the finalizer goes, the objects stay |
| `LiveRecreated` | two Lives of the same name, no faults | the second is not destroyed |
| `GroupNamespaces` | two groups of one name | each deletes what the other made |
| `GitRepositoryMoved` | two remotes, one edit, no faults | the commits of the new remote are never built |

*Bounds.* Two Lives are what it takes for one to find what its predecessor left in the
maps. Two generations by edits, and one more by the deletion, give a result an
older and a newer generation to be taken for. Two faults allow a crash during the
recovery from another fault. In `Backoff` the cap of 300 s is reached at the ninth failure, so
ten failures go past it; a tick of 130 s, next to the timers' own times, makes applies that are
shorter or longer than the early back-offs. Three changes are an edit and two pushes, such as a
commit that is added and taken away again. The layers are with and without
transformers, with a resource group, with a Live of their own, at the root and further down, missing, with transformers
that are a file or the layer itself, below its transformers, and next to a directory named like the overlay's; the second commit
adds a second kustomization there. `Depth`, 5, is more than the directories that refer to one another in them, so that
running out of depth, which is an error, does not stand in for a result. The poll interval 0 is the smallest one that polls. Two commits give the LiveDeployment
one update to lose. One uid allows for the Live that a Reconcile makes when its LiveDeployment is gone already, and for a user's Live
that is taken over. That the copy of one Live may be in hand when its successor is stored is left to the proofs, which are for any
number of uids, and for `Converges` to a larger instance: with two uids and crashes only it has 656,426 states and passes, too, but takes
longer. Three LiveDeployments are one more than
the branches, which a stale list or a branch that comes back needs; when a fourth is wanted (`OutOfIds`) the worker
stands still, and `Converges` claims nothing.

*Fairness.* The watch, the event channel, the workers and the goroutines go on
(weak fairness). Starting and collecting an apply need strong fairness, because
`BackoffWait`, or another controller's write, can stand in the way again and again:
back-off is over at some point since time passes, and a conflict requeues the
name. Applies and Destroys succeed at last since `faults` is bounded: what
is claimed is what happens once faults stop. Users are not fair, nor is the resync in the
Live controller, which therefore must get by without it. For groups it *is* assumed
(controller-runtime does it every ten hours), but only once `List` has failed (`listFailed /\ Resync(n)`): an error of `List` stops
a group until something wakes it. In all other behaviours polls, errors and watch events have to be enough.

### What the violations say

- `LiveInterrupted`: `ReconcileApply` records a result for the generation it finds
  (`live_controller.go:139`), not for the one that it applied. With an interruptible
  Live these differ.
- `LiveDestroyFails`: the `err` that the closure in `ReconcileDelete` receives is not
  looked at (`live_controller.go:240`).
- `LiveRecreated`: a Reconcile that reads the deleted Live from the cache begins a
  second Destroy, whose result stays in the map under the name.
- `GroupNamespaces`: `List` is not restricted to the group's namespace.
- `GitRepositoryMoved`: the directory has the name of the Live (`live_controller.go:156`), and
  a repository that is in it already is opened without a look at its remote
  (`git_repository.go:33`).

Some properties one might expect are not stated because the code does not have them, and the
runs say so in their assumptions:

- An apply that takes longer than its back-off is retried at once when it fails: Ready is
  False while applying and after a failure, so the failure does not move its transition time
  (`live_types.go:238`). `RetriesArePaced` therefore counts from the first attempt.
- If `CreateRemote` fails after `PlainInit` (`git_repository.go:44`), the repository stays without a remote
  until the process is restarted. `EventuallyBuilt` has the premise that this does not last.
- The overlay's directory has a fixed name next to the layer. If the commit has a directory
  of that name, its files are mixed with the overlay's: a second kustomization there makes the build
  fail. `AppliesTheCommit` allows that, but nothing else, to be the result.
- When the status update of `ReconcileApply` takes effect but returns an error, `ReconcileChanResult` puts
  the result back (`live_controller.go:124-130`), and the next generation finds it: it becomes Ready without being applied. `LiveOutcome`
  has no lost replies for this reason; with `"lostReply"` among its faults `ReadyIsApplied` fails.
- `Retries`, described as the number of *consecutive* failures (`live_types.go:67`), is not
  reset by a success but by the next generation's first apply (`live_types.go:167-171`),
  which has to wait for the old back-off first. `EditIsTimely` says how long that may take.
- An edit of a Live that is being destroyed makes it unreconciled, so it is applied
  again, and the result of the Destroy that came before removes the finalizer. A LiveDeployment makes such an edit when it
  is deleted during its Reconcile, or before one that still reads it from the cache (`livedeployment_controller.go:88`).
  `LiveOutcome` has no edits of a Live that is deleted for this reason; `CleanedUp` fails as an invariant of `LiveDeployment`.
- The group's list comes from a cache that need not show yet what the last Reconcile created. Nothing removes the
  second LiveDeployment that is then made while the branch exists. `Converges` compares sets of branches, so it allows them.
- With a poll interval of -1, or of 2^31 - 1, neither a LiveDeployment nor a group is polled after its first success.

## The proofs

`LiveControllerProofs` proves, for any number of Lives, commits, accounts, edits and faults:

- `TypeCorrect`: `[]TypeOK`.
- `ApplierIsAnnounced`: `[]ApplyingWhileApplierRuns`.
- `DestroyIsAsked`: `[]DestroyOnlyWhenDeleted`.
- `NotInterrupted`: `RunningApplyNotInterrupted`, when the webhook is on.

The inductive invariant `IInv` adds what the properties do not say about the three
copies of a Live. All of them have a uid handed out before, and a finalizer when they
are marked as deleted (`CopiesWellFormed`). An old copy that is marked
is right about it (`DeletionIsFinal`): this is why Destroy may be started from the cache.
The copy in hand has the finalizer once `SetFinalizers` is through (`FinalizerFirst`):
this is why a Live cannot vanish while it is applied. The argument for
`ApplyingWhileApplierRuns` is that only a collected result takes the Live out of
Applying, and the map entry keeps results from being collected before the
goroutine has ended; an edit bumps the generation but leaves the condition.

`LiveOutcomeProofs` begins with `ReadyMeansApplied`, `[]ReadyIsApplied`, under three
assumptions without which it fails: no interruptible Lives, the webhook on, no lost
replies. Its invariant `RInv` says that an entry in `ApplyResults` belongs to the
Live as it is now (`EntryMeansApplying`, `ApplierIsCurrent`), since the webhook lets nobody
edit a Live that says Applying; so a success means that this very commit is
deployed (`ResultIsCurrent`).

`LiveSafetyProofs` proves two properties whose invariants need history that the state does not have:

- `DestroyedAsApplied`, `[]DestroyAsApplied`, with the webhook on. The invariant says that there *is*
  an assignment of accounts to uids that the stored Live, both copies, both goroutines and the cluster agree on
  (`AgreeOn`). All steps keep it but a creation, which may choose anew for the next uid: nothing
  was deployed for that one.
- `NoLostWakeup`, `[]QuiescentMeansDone`, under any faults and with or without the webhook. Versions of a Live are
  ordered (`Before`): by uid, deletion mark, generation, finalizer, attempts and outcome within a
  generation. Every step takes the stored Live forward or leaves it (`Onward`), so a cache that is
  equal to it has seen its last change, and a cache that is not leaves a `CacheSync` to come (`CacheIsOlder`). Hence a
  Reconcile that nothing will repeat has the latest version in hand (`LatestInHand`), and it rests only when that is
  reconciled, or when a goroutine is still to report.

The rest of `LiveOutcomeProofs` has `LiveOutcome`'s restrictions as `OutcomeAssumptions`: one uid, no interruptible Lives, the webhook
on, no edits of Lives that are deleted, no lost replies and no failing Destroys. Under these,

- `NothingRemains`, `[]CleanedUp`. A Live that is deleted and reconciled stays so (`LeavingSeen` says
  that an old copy that says so is right); from then on nothing applies, and a result of Destroy means an empty cluster.
- `Refinement`, `ImplementsLifecycle`. The invariants of `ReadyMeansApplied` and of `NothingRemains` together make every
  step one of `LiveLifecycle` or a stutter: an apply that runs is of the commit that is asked for while the status says Applying,
  a success is collected only if that commit is deployed, and Destroy's steps come only after both.

`LiveDeploymentProofs` takes the composition back to the controller. Every step of it is one of `LiveController`'s users,
controller, informer or goroutines, since creating and deleting a Live are what users do as well (`ControllerStep`), or it is
`UpdateExisting`: the one write that `LiveController` does not have, because it may leave the spec as it is. Each invariant above is shown to
survive that write, and so holds here:

- `DeploymentTypeCorrect`, `[]LDTypeOK`.
- `AnnouncedTogether`, `[](ApplyingWhileApplierRuns /\ DestroyOnlyWhenDeleted)`.
- `DestroyedAsAppliedTogether`, `[]DestroyAsApplied`, with the webhook on: it admits no update with another account, so the
  assignment of accounts is not touched.
- `NoLostWakeupTogether`, `[]QuiescentMeansDone`: an update either leaves the Live as it was or starts a generation, which is a later
  version (`Before`) than the cache has.
- `CommitsTakeTurns`, `OneCommitAtATime`, and `DeployedMeansApplied`, `[]ReadyIsApplied`, when templates are not interruptible and the
  webhook is on; the latter also without lost replies.

`LiveDeploymentGroupProofs` proves `TypeCorrect` (`[]TypeOK`), and `PrunedSoundly` (`PrunedOnlyForDeletedBranch`) for groups in one namespace:
branches are listed before LiveDeployments, so one that exists without a branch in the list lost it
at that time or later (`ListedBefore`); ids are never used again, so a stale list only finds what is gone.

`LiveBackoffProofs` proves `TypeCorrect` (`[]TypeOK`), `RetriedInTime` (`[]RetryIsTimely`), `EditedInTime` (`[]EditIsTimely`) and `Paced` (`RetriesArePaced`). A failure leaves the
transition time at the first attempt of its generation (`SinceFirst`), from which the back-off is counted, and
the back-off is at most the cap (`BackoffIsCapped`). `DoublesUpToCap`, `[]BackoffDoublesUpToCap`, says what it is: the number of
retries is a natural number in every state, and for all of these the loop's state agrees with the closed form. As long as doubling does not exceed the
cap, the duration has doubled once for each step taken. The step that passes the cap sets the duration to it and ends the
loop's steps for good, whereas a doubling that has passed the cap stays past it.

`LiveBuildProofs` has two parts. The first is about the repository, for any number of remotes, commits and faults: `TypeCorrect` (`[]TypeOK`) and
`WholeCommitsAreBuilt` (`[]BuildsWholeCommit`). Past the fetch the commit is stored (`StoredOnceFetched`), and a
checkout starts from nothing that an earlier one left.

The second part is `AppliedAsIntended`, `[]AppliesTheCommit`, for any trees, layers, names and depth. In turn:

1. *Paths.* The references that the overlay writes lead from its directory to the layer and to the transformers (`RelLeadsThere`).
2. *Files.* The layered file system agrees with the disk on every path but those of the overlay's two files and of the directories that contain
   them (`LayeredIs`).
3. *Elsewhere.* Hence any other directory amounts to the same in both (`AccumulateAgrees`), by induction on the depth. One that contains the
   overlay's directory, or refers to it, runs into a directory that is being visited, which is an error in both; one that refers to the
   overlay's files is an error, too, unless the commit has files there, and then the layered build is the error.
4. *The overlay.* Its directory therefore amounts to what `Intended` says, or to an error when something of the commit is in the way
   (`OverlayAgrees`). Transformers that lead to the overlay's own local config transform nothing: it is not a transformer, and fails.
5. *The request.* The Live that was added is the one object with its name, and local, so taking it out by name or by the annotation is the
   same (`LiveIsLocal`); a ResourceGroup in the layer makes the request fail, and otherwise the one in it is the Live's (`RequestIs`).

`BuildInv` carries this through the behaviours: the last request is that for the last work tree, which was whole.

*Recursion.* Both this and the back-off reason about recursive functions by induction, with a principle that comes from the well-foundedness of the
naturals: a set with 0 and all its successors has no least number outside (`SetInduction`). That such a function exists at all
is shown from its first n values (`IterationExists`).

The proofs rest on the named assumptions of the modules: `NoneAssumption` of `Live`, `ControllerAssumption` and `GoroutineAssumption` of
`LiveController`, `BackoffAssumption`, `PollingAssumption`, `DeploymentAssumption`, `GroupAssumption`, `RepositoryAssumption` and `BuildAssumption`. They say that bounds are
natural numbers, that `None` differs from every object, which choices the users have, and, the last, that trees hold
files with names from `Names` and objects with names from `Ids`, among which are those that the overlay uses. TLC evaluates them in every run.

Only model-checked: everything about liveness (`Settles`, `DeletedEventuallyGone`, `Converges` of both controllers, `EventuallyBuilt`),
which is beyond the prover.

## Not modelled

- `NameSuffixOverlay`, which no controller uses, and the operations of `LayeredFilesystem` that panic: a layered
  file system as the base of another one asks it for `Exists`, which panics, but no controller stacks them.
- What kustomize does beyond what the overlay relies on, such as patches or generators.
- `FetchBranch` and `ListBranches` appear as what they return. Their repositories lie
  in directories named by the URL, so that the remote is the right one.
- kpt's event stream, timeouts, the installation of its CRD, and the client configurations with and without impersonation:
  `Apply` and `Destroy` succeed, fail, or are halfway, and every object they touch is of the account they run as.
- Generated deep copies, registration of types, manifests, flags, probes, logs.
- Edits of the templates of LiveDeployments and groups. (The code does not pass a
  group's new template on to LiveDeployments that exist, and a new service account in a template
  makes the webhook refuse every update of the Live from then on.)

## Plan

1. Done: `Live`, `LiveController`, its runs and the proofs of its safety; `LiveBackoff`;
   `LiveDeployment` composed with it; `LiveDeploymentGroup`; `GitRepository`.
2. Done: `LiveLifecycle` and its refinement, checked and proved; `LiveBuild`; users' Lives and poll
   intervals in `LiveDeployment`.
3. Done: proofs of all safety properties, `AppliesTheCommit` and `BackoffDoublesUpToCap` among them; what
   the Live controller guarantees, carried over to the composition.
4. Done: caches of LiveDeployments and groups, polling of groups, the order of result and event, what a success leaves of the back-off.
5. Left: edits of templates, with what of the composition's theorems survives them; what may be said of duplicates in a group.
