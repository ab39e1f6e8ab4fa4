--------------------- MODULE LiveDeploymentGroupProofs ---------------------
(* LiveDeploymentGroup for any number of branches, pushes, groups and faults: *)
(* type correctness, and, when only one namespace has a group of that name,   *)
(* that LiveDeployments are pruned for branches that went away only.          *)
EXTENDS LiveDeploymentGroup, TLAPS

\* Ids are handed out in order.
IdsAreOld == \A ld \in lds : ld.id < nextId

\* There is nothing to create before the LiveDeployments were listed.
NothingYet == pc \in {"idle", "list"} => toCreate = {}

TInv == TypeOK /\ IdsAreOld /\ NothingYet

LEMMA NoRequestIsNone == NoRequest \notin [namespace: Namespaces, owner: 1..MaxGroups]
BY DEF NoRequest

LEMMA InitType == Init => TInv
<1> SUFFICES ASSUME Init PROVE TInv
  OBVIOUS
<1>1. /\ nextId \in 1..(MaxId + 1) /\ nextUid \in 1..(MaxGroups + 1)
      /\ groups \in [Namespaces -> 0..MaxGroups]
  BY GroupAssumption DEF Init
<1>2. QED
  BY <1>1 DEF Init, TInv, TypeOK, IdsAreOld, NothingYet

LEMMA TypeStep == TInv /\ [Next]_vars => TInv'
<1> SUFFICES ASSUME TInv, [Next]_vars PROVE TInv'
  OBVIOUS
<1> USE GroupAssumption DEF TInv, TypeOK, IdsAreOld, NothingYet, env, store, caches, failures, worker,
        Fault
<1>1. ASSUME NEW n \in Namespaces, CreateGroup(n) PROVE TInv'
  BY <1>1 DEF CreateGroup
<1>2. ASSUME NEW n \in Namespaces, DeleteGroup(n) PROVE TInv'
  BY <1>2 DEF DeleteGroup
<1>3. ASSUME NEW n \in Namespaces, Resync(n) PROVE TInv'
  BY <1>3 DEF Resync
<1>4. ASSUME NEW b \in Branches, CreateBranch(b) PROVE TInv'
  BY <1>4 DEF CreateBranch
<1>5. ASSUME NEW b \in Branches, DeleteBranch(b) PROVE TInv'
  <2>1. {ld.id : ld \in {x \in lds : x.branch = b}} \subseteq 1..MaxId
    BY DEF LiveDeployments
  <2>2. QED
    BY <1>5, <2>1 DEF DeleteBranch
<1>6. ASSUME NEW ld \in lds, CollectGarbage(ld) PROVE TInv'
  BY <1>6 DEF CollectGarbage
<1>7. CASE CacheSync
  BY <1>7 DEF CacheSync
<1>8. ASSUME NEW n \in Namespaces, ListBranches(n) PROVE TInv'
  <2>1. req' \in [namespace: Namespaces, owner: 1..MaxGroups] /\ req' # NoRequest
    BY <1>8, NoRequestIsNone DEF ListBranches
  <2>2. QED
    BY <1>8, <2>1 DEF ListBranches, MatchingBranches
<1>9. CASE List
  BY <1>9 DEF List, Missing, Surplus
<1>10. CASE ListFails
  BY <1>10 DEF ListFails, Finish
<1>11. ASSUME NEW b \in Branches, Create(b) PROVE TInv'
  <2>1. req \in [namespace: Namespaces, owner: 1..MaxGroups] /\ nextId \in 1..MaxId
    BY <1>11 DEF Create
  <2> DEFINE new == [id |-> nextId, branch |-> b, namespace |-> req.namespace, owner |-> req.owner]
  <2>2. new \in LiveDeployments /\ new.id = nextId
    BY <2>1 DEF LiveDeployments
  <2>3. lds' = lds \cup {new} /\ nextId' = nextId + 1
    BY <1>11 DEF Create
  <2> HIDE DEF new
  <2>4. /\ lds' \subseteq LiveDeployments /\ \A x, y \in lds' : x.id = y.id => x = y
        /\ \A ld \in lds' : ld.id < nextId'
    BY <2>1, <2>2, <2>3 DEF LiveDeployments
  <2>5. ldCache' \cup toDelete' \subseteq {ld \in LiveDeployments : ld.id < nextId'}
    BY <1>11, <2>1, <2>3 DEF Create, LiveDeployments
  <2>6. seenGone' \subseteq 1..MaxId
    BY <1>11, <2>1 DEF Create
  <2>7. QED
    BY <1>11, <2>1, <2>3, <2>4, <2>5, <2>6 DEF Create
<1>12. CASE Created
  BY <1>12 DEF Created
<1>13. ASSUME NEW ld \in toDelete, DeleteSurplus(ld) PROVE TInv'
  BY <1>13 DEF DeleteSurplus, Requeue, Finish
<1>14. CASE Done
  BY <1>14 DEF Done, Finish
<1>15. CASE ReconcileError
  BY <1>15 DEF ReconcileError, Requeue, Finish
<1>16. CASE Crash
  BY <1>16 DEF Crash, Finish
<1>17. ASSUME NEW n \in Namespaces, GroupSync(n) PROVE TInv'
  BY <1>17 DEF GroupSync
<1>18. CASE UNCHANGED vars
  BY <1>18 DEF vars
<1>19. QED
  BY <1>1, <1>2, <1>3, <1>4, <1>5, <1>6, <1>7, <1>8, <1>9, <1>10, <1>11, <1>12, <1>13,
     <1>14, <1>15, <1>16, <1>17, <1>18 DEF Next, Reconcile

\* Type correctness: ids are unique, and what is listed or about to be deleted
\* was created.
THEOREM TypeCorrect == Spec => []TypeOK
<1>1. TInv => TypeOK
  BY DEF TInv
<1>2. QED
  BY InitType, TypeStep, <1>1, PTL DEF Spec

-----------------------------------------------------------------------------
\* Pruning.

OneNamespace == \A m, n \in Namespaces : m = n

\* A branch that is missing now has been missing since its LiveDeployment exists.
GoneIsSeen == \A ld \in lds : ld.branch \notin remote => ld.id \in seenGone

\* LiveDeployments are made for branches that match.
Matching ==
  /\ \A ld \in lds : ld.branch \in Match[ld.namespace]
  /\ pc # "idle" => branches \subseteq Match[req.namespace]

\* The branches were listed before the LiveDeployments: one without a branch in
\* the list had lost it when the branches were listed, or since.
ListedBefore ==
  pc = "list" => \A ld \in lds : ld.branch \in branches \/ ld.id \in seenGone

\* What is to be deleted, if it still exists, had its branch missing.
SurplusWasGone == \A ld \in toDelete \cap lds : ld.id \in seenGone

PInv == GoneIsSeen /\ Matching /\ ListedBefore /\ SurplusWasGone

LEMMA InitPruning == Init => PInv
BY DEF Init, PInv, GoneIsSeen, Matching, ListedBefore, SurplusWasGone

LEMMA PruningStep ==
  ASSUME OneNamespace, TInv, PInv, [Next]_vars
  PROVE  PInv'
<1>0. TypeOK /\ TypeOK' /\ IdsAreOld
  BY TypeStep DEF TInv
<1> USE DEF PInv, GoneIsSeen, Matching, ListedBefore, SurplusWasGone, env, store, caches, failures, worker
<1>1. ASSUME NEW n \in Namespaces, CreateGroup(n) \/ DeleteGroup(n) \/ GroupSync(n) \/ Resync(n) PROVE PInv'
  BY <1>1 DEF CreateGroup, DeleteGroup, GroupSync, Resync
<1>2. ASSUME NEW b \in Branches, CreateBranch(b) PROVE PInv'
  BY <1>2 DEF CreateBranch
<1>3. ASSUME NEW b \in Branches, DeleteBranch(b) PROVE PInv'
  BY <1>3 DEF DeleteBranch
<1>4. ASSUME NEW ld \in lds, CollectGarbage(ld) PROVE PInv'
  BY <1>4 DEF CollectGarbage
<1>5. CASE CacheSync
  BY <1>5 DEF CacheSync
<1>6. ASSUME NEW n \in Namespaces, ListBranches(n) PROVE PInv'
  <2>1. \A ld \in lds : ld.namespace = n
    BY <1>0, OneNamespace DEF TypeOK, LiveDeployments, OneNamespace
  <2>2. branches' = remote \cap Match[n] /\ req'.namespace = n
    BY <1>6 DEF ListBranches, MatchingBranches
  <2>3. \A ld \in lds : ld.branch \in branches' \/ ld.id \in seenGone
    BY <2>1, <2>2
  <2>4. UNCHANGED <<lds, seenGone, remote, toDelete>>
    BY <1>6 DEF ListBranches
  <2>5. QED
    BY <2>2, <2>3, <2>4
<1>7. CASE List
  <2>1. \A ld \in toDelete' \cap lds : ld.id \in seenGone
    BY <1>7 DEF List, Surplus
  <2>2. QED
    BY <1>7, <2>1 DEF List
<1>8. CASE ListFails \/ Done \/ ReconcileError \/ Crash
  BY <1>8 DEF ListFails, Done, ReconcileError, Crash, Requeue, Finish
<1>9. ASSUME NEW b \in Branches, Create(b) PROVE PInv'
  <2> DEFINE new == [id |-> nextId, branch |-> b, namespace |-> req.namespace, owner |-> req.owner]
  <2>1. lds' = lds \cup {new} /\ new.id = nextId /\ new.branch = b /\ new.namespace = req.namespace
    BY <1>9 DEF Create
  <2> HIDE DEF new
  <2>2. pc = "create" /\ pc' = pc /\ UNCHANGED <<remote, req, branches, toDelete>>
    BY <1>9 DEF Create
  <2>3. b \in Match[req.namespace]
    BY <1>0, <1>9, <2>2 DEF Create, TypeOK
  <2>4. seenGone \subseteq seenGone' /\ (b \notin remote => nextId \in seenGone')
    BY <1>9 DEF Create
  <2>5. \A ld \in toDelete : ld.id < nextId
    BY <1>0 DEF TypeOK
  <2>6. nextId \in Nat
    BY <1>0 DEF TypeOK
  <2>7. GoneIsSeen' /\ Matching'
    BY <2>1, <2>2, <2>3, <2>4
  <2>8. SurplusWasGone'
    BY <2>1, <2>2, <2>4, <2>5, <2>6
  <2>9. QED
    BY <2>2, <2>7, <2>8
<1>10. CASE Created
  BY <1>10 DEF Created
<1>11. ASSUME NEW ld \in toDelete, DeleteSurplus(ld) PROVE PInv'
  BY <1>11 DEF DeleteSurplus, Requeue, Finish
<1>12. CASE UNCHANGED vars
  BY <1>12 DEF vars
<1>13. QED
  BY <1>1, <1>2, <1>3, <1>4, <1>5, <1>6, <1>7, <1>8, <1>9, <1>10, <1>11, <1>12
     DEF Next, Reconcile

\* When no other namespace has a group of that name, stale caches, errors halfway
\* and restarts never cost a branch that stayed its LiveDeployment.
THEOREM PrunedSoundly ==
  ASSUME OneNamespace
  PROVE  Spec => PrunedOnlyForDeletedBranch
<1> DEFINE Sound == \A ld \in lds \ lds' : ~Orphaned(ld) => ld.id \in seenGone
<1>1. TInv /\ PInv /\ [Next]_vars => PInv'
  BY PruningStep, OneNamespace
<1>2. TInv /\ PInv /\ [Next]_vars => [Sound]_vars
  <2> SUFFICES ASSUME PInv, Next, NEW ld \in lds \ lds', ~Orphaned(ld) PROVE ld.id \in seenGone
    OBVIOUS
  <2>1. CASE \E x \in lds : CollectGarbage(x)
    BY <2>1 DEF CollectGarbage
  <2>2. CASE \E x \in toDelete : DeleteSurplus(x)
    BY <2>2 DEF DeleteSurplus, PInv, SurplusWasGone
  <2>3. CASE \E b \in Branches : Create(b)
    BY <2>3 DEF Create
  <2>4. CASE UNCHANGED lds
    BY <2>4
  <2>5. QED
    BY <2>1, <2>2, <2>3, <2>4 DEF Next, Reconcile, CreateGroup, DeleteGroup, GroupSync, Resync,
       CreateBranch, DeleteBranch, CacheSync, ListBranches, List, ListFails, Created, Done,
       ReconcileError, Crash, env, store, caches, failures
<1>3. QED
  BY InitType, TypeStep, InitPruning, <1>1, <1>2, PTL DEF Spec, PrunedOnlyForDeletedBranch
=============================================================================
