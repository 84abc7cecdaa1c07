--------------------------- MODULE MCAgentEventStore ---------------------------
(* Small instances of AgentEventStore for TLC.                             *)
EXTENDS AgentEventStore, TLC

CONSTANTS c1, c2

(* The two append calls are interchangeable.                               *)
CallSymmetry == Permutations({c1, c2})

=============================================================================
