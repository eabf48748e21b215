\* Three workers, two callers that may overlap, two waves of up to three jobs,
\* threads that cannot be created and an audit that fails.
CONSTANTS
  Workers = {w1, w2, w3}
  Callers = {c1, c2}
  MaxJobs = 3
  MaxGeneration = 2
  Faults = {"pthread_create", "audit"}
SPECIFICATION Spec
SYMMETRY Symmetry
INVARIANTS IInv DeterministicFailure
PROPERTIES WavesSpec CompleteWaves WavesDoNotOverlap
