--------------------------- MODULE MCPipelineFront ---------------------------
(***************************************************************************)
(* The agent, the shell that started it, and two pids for what they fork.  *)
(***************************************************************************)
EXTENDS PipelineFront, TLC

CONSTANTS agent, shell, c1, c2, python, sh

MCPids == {agent, shell, c1, c2}

MCPrograms == {python, sh}

\* Nothing tells the two free pids, or the programs, apart.
Symmetry == Permutations({c1, c2}) \cup Permutations(MCPrograms)
=============================================================================
