\* Two workers, one caller, every external fault, under fair scheduling.
CONSTANTS
  Workers = {w1, w2}
  Callers = {c1}
  MaxJobs = 3
  MaxGeneration = 2
  Faults = {"pthread_create", "audit", "relock"}
SPECIFICATION FairSpec
INVARIANT NoUseAfterReturn
PROPERTIES CallsReturn OwnerFinishes
