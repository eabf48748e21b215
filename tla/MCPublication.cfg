SPECIFICATION Spec
CONSTANTS
  Publishers = {p, q}
  Targets = {t}
  Chunks = 1
  MaxAttempts = 2
  MaxSequence = 2
  MaxFiles = 2
  MaxDeaths = 1
SYMMETRY Symmetry
PROPERTY StoreSpec
INVARIANTS WholeOrAbsent TruthfulResult NothingLeftBehind DescriptorsClosedOnce
