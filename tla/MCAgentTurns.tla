---------------------------- MODULE MCAgentTurns ----------------------------
(* Instances of AgentTurns for TLC. *)
EXTENDS AgentTurns, TLC

\* The tasks are alike, and so are the available calls in a mode that asks for
\* no approval; only runs without liveness use this.
TaskAndCallSymmetry == Permutations(Task) \cup Permutations(Call \ Unavailable)

=============================================================================
