------------------------- MODULE MCParallelTraversal -------------------------
EXTENDS ParallelTraversal, TLC

CONSTANTS w1, w2

Symmetry == Permutations(Workers)

\* An ordinary task of three destinations, one of them without edges, and a hub
\* of three slices, which fall into different windows of two tasks.
MCCounts == <<2, 0, 1, 5>>

MCStored == << Ordinary(0, 3, 0, 3), HubSlice(3, 0, 3, 3, 2),
               HubSlice(3, 1, 3, 5, 2), HubSlice(3, 2, 3, 7, 1) >>

\* Changes of the first two or of the last two tasks to well-formed records,
\* within the graph and beyond it.
MCRewrites ==
  LET OrdinaryAt(ds, es) ==
        {Ordinary(d, n, e, m) : d \in ds, n \in 1 .. 3, e \in es, m \in {0, 2, 3, 5}}
      SlicesAt(ds, is, es) ==
        {t \in {HubSlice(d, i, n, e, m) : d \in ds, i \in is, n \in 1 .. 3,
                                          e \in es, m \in 1 .. 2} : WellFormed(t)}
  IN  {<<t, u, MCStored[3], MCStored[4]>> :
         t \in OrdinaryAt({0}, {0}) \union SlicesAt({0}, {0}, {0}),
         u \in OrdinaryAt({1, 3}, {0, 2}) \union SlicesAt({1, 4}, {0, 1}, {2})}
        \union
      {<<MCStored[1], MCStored[2], t, u>> :
         t \in OrdinaryAt({3}, {5}) \union SlicesAt({3}, {1}, {5, 6}),
         u \in OrdinaryAt({3, 4}, {7}) \union SlicesAt({3, 4}, {0, 2}, {6, 7})}
=============================================================================
