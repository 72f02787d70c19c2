SPECIFICATION FairSpec
CONSTANTS
  f1 = f1
  Names = {1, 2}
  Files = {f1}
  None = None
  Broken = Broken
  MaxRequests = 3
  MaxEvents = 2
  MaxStarts = 1
INVARIANTS
  JobsWanted
  CopiesAgree
PROPERTIES
  ReturnsOrMeets
CHECK_DEADLOCK FALSE
