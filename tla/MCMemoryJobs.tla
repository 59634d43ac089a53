--------------------------- MODULE MCMemoryJobs ---------------------------
(* Instances of MemoryJobs for TLC.                                        *)
EXTENDS MemoryJobs, TLC

CONSTANTS r1, r2, t1, t2

Symmetry == Permutations(Runs) \cup Permutations(Threads)
=============================================================================
