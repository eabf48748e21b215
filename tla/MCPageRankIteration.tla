------------------------ MODULE MCPageRankIteration ------------------------
EXTENDS PageRankIteration

\* The ranks of each iteration, without vectors that are used again.
MCRankAfter[k \in 0 .. MaxIterations] ==
  IF k = 0 THEN Initial
  ELSE Normal(Mapped(Transformed(MCRankAfter[k - 1])))
=============================================================================
