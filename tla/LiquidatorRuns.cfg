\* Two runs and a pass work on the same trove.
SPECIFICATION Spec
SYMMETRY Symmetry
CONSTANTS
  Owner = {o1}
  Pass = {p1}
  Run = {r1, r2}
  PageSize = 1
  MaxBatch = 1
  ExitOnRejection = FALSE
  MaxEvents = 2
  MaxStarts = 2
  MaxFaults = 0
INVARIANTS
  LostOnlyIfLiquidated
  FailedOnlyIfTried
  DuplicatesBounded
