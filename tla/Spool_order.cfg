SPECIFICATION Spec
CONSTANTS
  HeaderSize = 1
  EventSizes = {2}
  MaxPartitionSize = 4
  MaxPartitions = 3
  StickyEof = FALSE
  FileErrors = {"open", "remove"}
  MaxPushes = 5
INVARIANTS
  InOrder
PROPERTY
  ImplementsQueue
