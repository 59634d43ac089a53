-------------------------- MODULE MCTurnLifecycle --------------------------
(* Instances of TurnLifecycle for TLC.                                     *)
EXTENDS TurnLifecycle, TLC

CONSTANTS u1, u2, m1, m2, q1, e1, e2

Symmetry == Permutations(UserItems) \cup Permutations(TriggerMail)
            \cup Permutations(ExtItems)

(* A client drives the session; agents and an extension drive it.          *)
SafetyScopes ==
    {[ops |-> {"UserInput", "Interrupt", "Compact", "QueueMail"}, turns |-> 3],
     [ops |-> {"TriggerMail", "QueueMail", "StartIfIdle"}, turns |-> 4]}

(* Agents alone; one turn under everything that can end it.                *)
LiveScopes ==
    {[ops |-> {"TriggerMail", "QueueMail"}, turns |-> 3],
     [ops |-> {"UserInput", "Interrupt", "Inject", "Denial", "Shutdown"},
      turns |-> 1]}

(* A client and an agent.                                                  *)
RaceScopes == {[ops |-> {"UserInput", "TriggerMail"}, turns |-> 3]}
=============================================================================
