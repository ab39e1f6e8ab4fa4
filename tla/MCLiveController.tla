-------------------------- MODULE MCLiveController --------------------------
(* LiveController and its refinement for TLC: the constants, by name.         *)
EXTENDS LiveRefinement, TLC

\* Commits are interchangeable (safety runs only).
Symmetry == Permutations(Commits)

\* Faults that leave every result in place exactly once, and say so truthfully.
HonestFaults == AllFaultKinds \ {"lostReply", "destroyFails"}
=============================================================================
