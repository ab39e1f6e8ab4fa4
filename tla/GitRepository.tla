--------------------------- MODULE GitRepository ---------------------------
(* The git repository on disk (pkg/repository/git_repository.go) as the Live  *)
(* controller uses it: a directory named after the Live, in which every       *)
(* Reconcile that gets to ReconcileApply opens a repository, fetches the      *)
(* commit, checks it out into a work tree of its own, and builds that. Errors *)
(* end the Reconcile wherever they occur and leave the directory as it is.    *)
EXTENDS Naturals, FiniteSets

CONSTANTS
  Urls,         \* remote repositories
  Commits,      \* commits; a commit is named by its hash, so equal means equal contents
  None,         \* "no such thing"
  FaultKinds,   \* which of "remote", "mkdir", "fetch", "checkout" and "crash" may happen
  MaxFaults,    \* bound: how many of them
  MaxChanges    \* bound: edits of the Live, pushes, and changes of the secret

Specs == [url: Urls, commit: Commits]

ASSUME RepositoryAssumption ==
  /\ None \notin Specs /\ None \notin Urls
  /\ FaultKinds \subseteq {"remote", "mkdir", "fetch", "checkout", "crash"}
  /\ MaxFaults \in Nat /\ MaxChanges \in Nat

VARIABLES
  spec,        \* spec.repository.url and spec.commit of the Live
  secret,      \* is there a Secret with the token?
  reachable,   \* for each remote, the commits that it hands out
  exists,      \* is there a repository in the directory?
  origin,      \* the URL of its remote
  objects,     \* the commits it has stored
  trees,       \* for each commit, what is in its work tree
  pc, local,   \* where the Reconcile is, and its copy of the spec
  built,       \* the spec that was built last
  faults, changes

world == <<spec, secret, reachable, changes>>
disk == <<exists, origin, objects, trees>>
vars == <<world, disk, pc, local, built, faults>>

NewDisk ==
  /\ exists' = FALSE /\ origin' = None /\ objects' = {}
  /\ trees' = [c \in Commits |-> "empty"]

Init ==
  /\ spec \in Specs /\ secret \in BOOLEAN
  /\ reachable \in [Urls -> SUBSET Commits]
  /\ exists = FALSE /\ origin = None /\ objects = {}
  /\ trees = [c \in Commits |-> "empty"]
  /\ pc = "idle" /\ local = None /\ built = None
  /\ faults = 0 /\ changes = 0

Fault(kind) == kind \in FaultKinds /\ faults < MaxFaults /\ faults' = faults + 1

-----------------------------------------------------------------------------
Change == changes < MaxChanges /\ changes' = changes + 1

EditSpec ==
  /\ Change
  /\ spec' \in Specs \ {spec}
  /\ UNCHANGED <<secret, reachable, disk, pc, local, built, faults>>

\* A force push can take away commits, a push or a new branch add some.
Push(u) ==
  /\ Change
  /\ \E cs \in SUBSET Commits : reachable' = [reachable EXCEPT ![u] = cs]
  /\ UNCHANGED <<spec, secret, disk, pc, local, built, faults>>

ChangeSecret ==
  /\ Change
  /\ secret' = ~secret
  /\ UNCHANGED <<spec, reachable, disk, pc, local, built, faults>>

-----------------------------------------------------------------------------
\* The next Reconcile comes after an error, an edit, or a failed apply.
Return == pc' = "idle" /\ local' = None

GetAuthMethod ==
  /\ pc = "idle" /\ secret
  /\ pc' = "init" /\ local' = spec
  /\ UNCHANGED <<world, disk, built, faults>>

\* Mutant: the repository is not kept on disk.
InitInMemory ==
  /\ pc = "init" /\ ~exists
  /\ origin' = local.url /\ pc' = "fetch"
  /\ UNCHANGED <<world, exists, objects, trees, local, built, faults>>

\* PlainInit, CreateRemote and Mkdir. The directory that Mkdir fails to make is
\* made later by the first checkout.
InitGitRepository ==
  /\ pc = "init" /\ ~exists
  /\ exists' = TRUE
  /\ \/ origin' = local.url /\ pc' = "fetch" /\ UNCHANGED <<local, faults>>
     \/ origin' = local.url /\ Fault("mkdir") /\ Return
     \/ origin' = None /\ Fault("remote") /\ Return
  /\ UNCHANGED <<world, objects, trees, built>>

\* PlainOpen of whatever repository is there.
OpenGitRepository ==
  /\ pc = "init" /\ exists
  /\ pc' = "fetch"
  /\ UNCHANGED <<world, disk, local, built, faults>>

Offered == origin # None /\ local.commit \in reachable[origin]

\* Mutant: the commit is fetched although it is stored already.
FetchAlways ==
  /\ pc = "fetch"
  /\ IF Offered
     THEN objects' = objects \cup {local.commit} /\ pc' = "checkout" /\ UNCHANGED local
     ELSE Return /\ UNCHANGED objects
  /\ UNCHANGED <<world, exists, origin, trees, built, faults>>

FetchCommit ==
  /\ pc = "fetch"
  /\ IF local.commit \in objects \/ Offered
     THEN objects' = objects \cup {local.commit} /\ pc' = "checkout" /\ UNCHANGED local
     ELSE Return /\ UNCHANGED objects
  /\ UNCHANGED <<world, exists, origin, trees, built, faults>>

\* The fetch breaks off, with the commit already stored or not.
FetchFails ==
  /\ pc = "fetch" /\ local.commit \notin objects /\ Fault("fetch")
  /\ objects' \in {objects} \cup IF Offered THEN {objects \cup {local.commit}} ELSE {}
  /\ Return
  /\ UNCHANGED <<world, exists, origin, trees, built>>

\* Mutant: a work tree with something in it is taken for checked out.
CreateMissingCommitDir ==
  /\ pc = "checkout"
  /\ trees' = [trees EXCEPT ![local.commit] = IF @ = "empty" THEN "complete" ELSE @]
  /\ pc' = "build"
  /\ UNCHANGED <<world, exists, origin, objects, local, built, faults>>

CreateCommitDir ==
  /\ pc = "checkout"
  /\ trees' = [trees EXCEPT ![local.commit] = "complete"]
  /\ pc' = "build"
  /\ UNCHANGED <<world, exists, origin, objects, local, built, faults>>

CheckoutFails ==
  /\ pc = "checkout" /\ Fault("checkout")
  /\ trees' = [trees EXCEPT ![local.commit] = "partial"]
  /\ Return
  /\ UNCHANGED <<world, exists, origin, objects, built>>

Build ==
  /\ pc = "build"
  /\ built' = local
  /\ Return
  /\ UNCHANGED <<world, disk, faults>>

PrepareTree ==
  \/ GetAuthMethod \/ InitGitRepository \/ OpenGitRepository
  \/ FetchCommit \/ FetchFails \/ CreateCommitDir \/ CheckoutFails

Reconcile == PrepareTree \/ Build

\* The next process makes a new temporary directory.
Crash ==
  /\ Fault("crash")
  /\ NewDisk /\ Return
  /\ UNCHANGED <<world, built>>

Outside == EditSpec \/ (\E u \in Urls : Push(u)) \/ ChangeSecret \/ Crash

Next == Outside \/ Reconcile

Spec == Init /\ [][Next]_vars

\* A Live that is not applied is reconciled again and again.
FairSpec == Spec /\ WF_vars(Reconcile)

-----------------------------------------------------------------------------
\* Type correctness; a Reconcile has a spec in hand exactly while it is under
\* way, and a repository in the directory as soon as it needs one.
TypeOK ==
  /\ spec \in Specs /\ secret \in BOOLEAN /\ reachable \in [Urls -> SUBSET Commits]
  /\ exists \in BOOLEAN /\ origin \in Urls \cup {None} /\ objects \subseteq Commits
  /\ trees \in [Commits -> {"empty", "partial", "complete"}]
  /\ pc \in {"idle", "init", "fetch", "checkout", "build"}
  /\ local \in Specs \cup {None}
  /\ (pc = "idle") <=> (local = None)
  /\ pc \in {"fetch", "checkout", "build"} => exists
  /\ built \in Specs \cup {None}

\* What is built is the whole commit: neither a work tree that an earlier
\* checkout left half done, nor one of a commit that is not stored.
BuildsWholeCommit ==
  pc = "build" => local.commit \in objects /\ trees[local.commit] = "complete"

\* A commit that can be had is built in the end: from the repository that the
\* spec names, or, once it has been fetched, without it, even if a force push
\* has taken it away there (git_repository.go, FetchCommit). The one thing in
\* the way is a repository whose initialisation broke off before its remote was
\* set: only a restart gets rid of it (InitGitRepository).
EventuallyBuilt ==
  <>[](/\ secret /\ (exists => origin # None)
       /\ spec.commit \in reachable[spec.url] \/ spec.commit \in objects)
    => <>[](built = spec)
=============================================================================
