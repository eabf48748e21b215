\* Four iterations: enough for each vector to be used again twice.
SPECIFICATION IterationSpec
CONSTANTS
  MaxIterations = 4
  RankAfter <- MCRankAfter
INVARIANTS VerifiedResult ViewIsOfOneIteration ReportIsOfOneVector
CHECK_DEADLOCK FALSE
