------------------------- MODULE MCAgentResidency -------------------------
(* Instances of AgentResidency for TLC.                                    *)
EXTENDS AgentResidency, TLC

CONSTANTS t1, t2, t3, c1, c2

(* Room for one agent, so that every other call evicts; and room for two,  *)
(* so that two calls can reload the same agent at once.                    *)
ResidencyScopes == {[capacity |-> 1, calls |-> 4], [capacity |-> 2, calls |-> 3]}
=============================================================================
