\* Reads with and without a block number; no listeners.
SPECIFICATION Spec
CONSTANTS
  Listener = {}
  MaxBlock = 3
  MaxStarts = 2
  MaxFaults = 1
  ReadTag = {0, 2}
INVARIANTS
  TypeOK
  NoAssertionFails
  StaleOnlyIfOvertaken
  TaggedReadsExact
  UntaggedReadsForward
PROPERTY Implements
