--------------------------- MODULE MCAgentBranches ---------------------------
(* AgentBranches for TLC. *)
EXTENDS AgentBranches, TLC

\* All workers run as the same agent, so they share branch names.
SameAgent == [w \in Workers |-> "codex"]

\* Workers differ only by name.
WorkerSymmetry == Permutations(Workers)
==============================================================================
