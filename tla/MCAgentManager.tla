-------------------------- MODULE MCAgentManager --------------------------
(* AgentManager on a few worker threads. *)
EXTENDS AgentManager
=============================================================================
