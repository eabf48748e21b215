\* A single process, and no crash that could lose what was published.
SPECIFICATION Spec
CONSTANTS
  Processes = {p}
  NoProcess = none
  Chunks = 2
  MaxChanges = 0
  MaxCrashes = 0
INVARIANTS UncertainMeansPublished
CHECK_DEADLOCK FALSE
