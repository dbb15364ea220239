--------------------------- MODULE MCAgentWorkflow ---------------------------
(* AgentWorkflow for TLC. *)
EXTENDS AgentWorkflow, TLC

\* Workers differ only by name.
WorkerSymmetry == Permutations(Workers)
==============================================================================
