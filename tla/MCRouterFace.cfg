SPECIFICATION FairSpec
CONSTANTS
  Backends = {b1, b2}
  None = None
  Bad = Bad
  NotASequence = NotASequence
  Errors = {"setup", "read", "send", "publish", "fatal", "consume", "recipient", "memory"}
  MaxMessages = 2
  MaxOrders = 2
INVARIANTS
  Accounted
PROPERTIES
  Served
  Ends
CHECK_DEADLOCK FALSE
