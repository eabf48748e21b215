SPECIFICATION Spec
CONSTANTS
  e1 = e1
  e2 = e2
  Edges <- MCEdges
  FanIn = 2
  MaxRuns = 5
INVARIANT FailuresExposeFrontier
