\* Two workers, two passes, windows of two tasks, a hub of three slices; any
\* read, job or thread may fail and tasks.bin may be rewritten once.
SPECIFICATION Spec
CONSTANTS
  EdgeSlice = 2
  MaxTaskEdges = 3
  MaxTaskVertices = 3
  w1 = w1
  w2 = w2
  Workers = {w1, w2}
  Counts <- MCCounts
  Stored <- MCStored
  Rewrites <- MCRewrites
  WindowRecords = 2
  CountBatch = 1
  SourceBatch = 2
  MaxPasses = 2
SYMMETRY Symmetry
INVARIANTS ReturnedPassIsWhole ResultIsDeterministic WritesAreSeparate PassGoesOn
CHECK_DEADLOCK FALSE
