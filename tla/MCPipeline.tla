----------------------------- MODULE MCPipeline -----------------------------
EXTENDS Pipeline, TLC

\* The processes are alike.
Alike == Permutations(Processes)
=============================================================================
