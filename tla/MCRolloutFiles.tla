-------------------------- MODULE MCRolloutFiles --------------------------
(* Instances of RolloutFiles for TLC.                                      *)
EXTENDS RolloutFiles, TLC

CONSTANTS p1, p2, l1, l2, f1, f2, f3, x1, x2

Symmetry == Permutations(Procs) \cup Permutations(LockInodes)
            \cup Permutations(FileInodes) \cup Permutations(Items)
=============================================================================
