------------------------- MODULE MCGenerationMerge -------------------------
EXTENDS GenerationMerge, TLC
CONSTANTS e1, e2
MCEdges == {e1, e2}
Symmetry == Permutations(MCEdges)
=============================================================================
