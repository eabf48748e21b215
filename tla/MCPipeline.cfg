\* Two processes, an input read in two chunks and changed once,
\* one crash.
SPECIFICATION Spec
CONSTANTS
  Processes = {p, q}
  NoProcess = none
  Chunks = 2
  MaxChanges = 1
  MaxCrashes = 1
SYMMETRY Alike
INVARIANTS ExitTellsWhatIsThere OutputIsOfOneInput SomethingWholeRemains
CHECK_DEADLOCK FALSE
