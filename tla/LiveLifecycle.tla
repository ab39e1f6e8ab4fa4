---------------------------- MODULE LiveLifecycle ----------------------------
(* What the Live controller promises to whoever asks for a commit: the life   *)
(* of a Live as its user sees it, without caches, queue, goroutines, result   *)
(* maps or restarts. What is deployed follows what was asked for, the status  *)
(* follows what is deployed, and the Live stays until nothing is left of it.  *)

CONSTANTS
  Commits,   \* what can be asked for
  None,      \* nothing
  Partial    \* something, but not a commit

VARIABLES
  asked,      \* the commit asked for; None when there is no Live
  deleted,    \* has the user asked for the Live to go?
  phase,      \* what its status says about the request as it stands
  deployed    \* what the cluster has

vars == <<asked, deleted, phase, deployed>>

Init == asked = None /\ deleted = FALSE /\ phase = "Pending" /\ deployed = None

Gone == asked' = None /\ deleted' = FALSE /\ phase' = "Pending"

Ask ==
  /\ asked = None
  /\ asked' \in Commits
  /\ UNCHANGED <<deleted, phase, deployed>>

\* A request is not changed while it is being carried out.
Change ==
  /\ asked # None /\ ~deleted /\ phase # "Applying"
  /\ asked' \in Commits /\ phase' = "Pending"
  /\ UNCHANGED <<deleted, deployed>>

\* A Live that nothing was done for goes at once.
Delete ==
  /\ asked # None /\ ~deleted
  /\ \/ /\ deleted' = TRUE /\ UNCHANGED asked
        /\ phase' = IF phase = "Applying" THEN phase ELSE "Pending"
     \/ phase = "Pending" /\ deployed = None /\ Gone
  /\ UNCHANGED deployed

\* A Live that is deleted is applied once more, too.
Begin ==
  /\ asked # None /\ phase \in {"Pending", "Failed"}
  /\ phase' = "Applying"
  /\ UNCHANGED <<asked, deleted, deployed>>

Deploy ==
  /\ phase = "Applying"
  /\ deployed' \in {Partial, asked}
  /\ UNCHANGED <<asked, deleted, phase>>

Report ==
  /\ phase = "Applying"
  /\ phase' = "Failed" \/ (phase' = "Succeeded" /\ deployed = asked)
  /\ UNCHANGED <<asked, deleted, deployed>>

Destroy ==
  /\ deleted /\ phase = "Succeeded"
  /\ deployed' \in {Partial, None}
  /\ UNCHANGED <<asked, deleted, phase>>

Vanish ==
  /\ deleted /\ phase = "Succeeded" /\ deployed = None
  /\ Gone
  /\ UNCHANGED deployed

Next == Ask \/ Change \/ Delete \/ Begin \/ Deploy \/ Report \/ Destroy \/ Vanish

Spec == Init /\ [][Next]_vars
=============================================================================
