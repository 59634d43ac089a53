-------------------------- MODULE MCAgentRegistry --------------------------
(* Instances of AgentRegistry for TLC.                                     *)
EXTENDS AgentRegistry, TLC

CONSTANTS s1, s2, s3, t1, t2, t3, t4, p1, p2

Symmetry == Permutations(Spawners)
            \cup Permutations(Threads \ Stored) \cup Permutations(Paths)

(* Everything but resumes; V1 agents that are resumed as well.             *)
PassScopes == {{"SpawnV1", "SpawnV2", "Restore", "Close", "Unload"},
               {"SpawnV1", "Resume", "Close", "Unload"}}

(* What it takes for a slot to leak.                                       *)
LeakScopes == {{"SpawnV1", "Resume", "Unload"}}
=============================================================================
