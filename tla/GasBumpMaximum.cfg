\* With two tries, a third replacement is sent.
SPECIFICATION Spec
SYMMETRY Symmetry
CONSTANTS
  Slot = {s1, s2}
  Tries = 2
  FirstPrice = 6
  Increase = 1
  Ceiling = 20
  RivalPrice = {7, 10, 14}
  MaxFaults = 0
INVARIANT MaximumTries
