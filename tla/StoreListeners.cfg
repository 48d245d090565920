\* Two listeners that subscribe and unsubscribe each other; no reads.
SPECIFICATION FairSpec
CONSTANTS
  Listener = {l1, l2}
  MaxBlock = 3
  MaxStarts = 2
  MaxFaults = 1
  ReadTag = {}
 
PROPERTY RoundEnds
