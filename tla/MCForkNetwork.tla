--------------------------- MODULE MCForkNetwork ---------------------------
(* Three repositories, so that a cascade has three levels.                 *)
EXTENDS ForkNetwork, TLC

Symmetry ==
    Permutations(RepoId) \cup Permutations(ForkReqs) \cup Permutations(DeleteReqs)
=============================================================================
