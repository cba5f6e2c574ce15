---------------------------- MODULE MCAgentLife ----------------------------
(* One address, three starts. *)
EXTENDS AgentLife

CONSTANTS a1

OneAddress == {a1}
=============================================================================
