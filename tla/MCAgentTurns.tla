---------------------------- MODULE MCAgentTurns ----------------------------
(* Instances of AgentTurns for TLC. *)
EXTENDS AgentTurns

CONSTANTS read, write

\* One more than may run together, and one that must not run beside another.
MixedRequests == {<<read, read, read>>, <<read, write>>}
=============================================================================
