-------------------------- MODULE MCAgentLifecycle --------------------------
(* TLC instances of AgentLifecycle. *)
EXTENDS AgentLifecycle, TLC

RequestSymmetry == Permutations(Requests) \cup Permutations(Agents)
=============================================================================
