\* Two troves, of which one fits in a batch; a rejection ends the process.
SPECIFICATION Spec
SYMMETRY Symmetry
CONSTANTS
  Owner = {o1, o2}
  Pass = {p1}
  Run = {r1}
  PageSize = 2
  MaxBatch = 1
  ExitOnRejection = TRUE
  MaxEvents = 3
  MaxStarts = 1
  MaxFaults = 1
INVARIANTS
  TypeOK
  
