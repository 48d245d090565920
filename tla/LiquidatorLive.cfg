\* What the passes owe to every trove in the end.
SPECIFICATION FairSpec
CONSTANTS
  Owner = {o1}
  Pass = {p1}
  Run = {r1}
  PageSize = 2
  MaxBatch = 1
  ExitOnRejection = FALSE
  MaxEvents = 3
  MaxStarts = 1
  MaxFaults = 1
PROPERTIES
  TrackedEventually
  ClosedEventually
