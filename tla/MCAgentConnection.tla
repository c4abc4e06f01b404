------------------------- MODULE MCAgentConnection -------------------------
(* Model checking of AgentConnection. *)
EXTENDS AgentConnection
=============================================================================
