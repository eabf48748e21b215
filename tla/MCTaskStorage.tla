---------------------------- MODULE MCTaskStorage ----------------------------
EXTENDS TaskStorage

\* Every record a graph of that size could hold, and some beyond it.
MCOffers ==
  LET Ends == 0 .. MaxDestinations
      Begins == 0 .. MaxDestinations * MaxCount
      Edges == 0 .. MaxTaskEdges + 1
  IN  {Ordinary(d, n, e, m) : d \in Ends, n \in 1 .. MaxTaskVertices + 1,
                              e \in Begins, m \in Edges}
        \union
      {t \in {HubSlice(d, i, n, e, m) :
                d \in Ends, i \in 0 .. 2, n \in 1 .. 3,
                e \in Begins, m \in Edges} : WellFormed(t)}
=============================================================================
