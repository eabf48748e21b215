----------------------------- MODULE MCGraphBuild -----------------------------
EXTENDS GraphBuild

\* Every list of up to three edges over three identifiers, and longer ones
\* that take several runs and passes.
MCIds == {-4, 0, 7}

MCInputs ==
  UNION {[1 .. n -> MCIds \X MCIds] : n \in 1 .. 3}
    \union [1 .. 4 -> {<<-4, 7>>, <<7, -4>>, <<0, 7>>, <<7, 7>>, <<7, 0>>}]
    \union [1 .. 5 -> {<<-4, 7>>, <<7, 0>>, <<0, 7>>}]
=============================================================================
