------------------------- MODULE MCAgentLifecycle -------------------------
(* Connections and shutdown timeouts for AgentLifecycle.                   *)
EXTENDS AgentLifecycle

CONSTANTS c1, c2

\* One that Go takes for "already expired", one that is too short and the
\* shortest that is LongEnough for the other timeouts of AgentLifecycle.cfg.
MCShutdownTimeouts == {-1, 2, 8}
===========================================================================
