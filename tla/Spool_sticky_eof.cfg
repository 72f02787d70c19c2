SPECIFICATION Spec
CONSTANTS
  HeaderSize = 1
  EventSizes = {2}
  MaxPartitionSize = 4
  MaxPartitions = 3
  StickyEof = TRUE
  FileErrors = {}
  MaxPushes = 5
PROPERTY
  RemovedOnlyWhenRead
