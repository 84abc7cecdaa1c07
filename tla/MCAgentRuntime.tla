----------------------------- MODULE MCAgentRuntime -----------------------------
(* Small instances of AgentRuntime for TLC.                                *)
EXTENDS AgentRuntime

CONSTANTS m1

=============================================================================
