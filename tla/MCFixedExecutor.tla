-------------------------- MODULE MCFixedExecutor --------------------------
(* Instances of FixedExecutor for TLC. *)
EXTENDS FixedExecutor, TLC

\* Threads are interchangeable: only their number matters.  Not used when a
\* liveness property is checked.
Symmetry == Permutations(Workers) \union Permutations(Callers)
============================================================================
