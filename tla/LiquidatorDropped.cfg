\* An open trove below the minimum is left out of every later batch.
SPECIFICATION Spec
CONSTANTS
  Owner = {o1}
  Pass = {p1}
  Run = {r1}
  PageSize = 2
  MaxBatch = 1
  ExitOnRejection = FALSE
  MaxEvents = 1
  MaxStarts = 2
  MaxFaults = 0
INVARIANT DroppedOnlyIfAttempting
