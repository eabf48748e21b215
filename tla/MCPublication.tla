---------------------------- MODULE MCPublication ----------------------------
EXTENDS Publication, TLC

\* Publishers and targets are interchangeable.
Symmetry == Permutations(Publishers) \union Permutations(Targets)
==============================================================================
