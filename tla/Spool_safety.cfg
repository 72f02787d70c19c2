SPECIFICATION FairSpec
CONSTANTS
  HeaderSize = 1
  EventSizes = {2}
  MaxPartitionSize = 4
  MaxPartitions = 3
  StickyEof = FALSE
  FileErrors = {}
  MaxPushes = 6
INVARIANTS
  NoSilentLoss
  SizeIsRight
  SpoolBounded
PROPERTY
  DrainedWhileUp
  CulledIsOldest
