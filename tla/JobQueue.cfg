SPECIFICATION FairSpec
CONSTANTS
  MaxQueued = 2
  MaxJobs = 6
INVARIANTS
  RunInOrder
PROPERTIES
  CalledBackWhenDrained
  NobodyWaits
