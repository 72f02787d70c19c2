SPECIFICATION PoolSpec
CONSTANTS
  Configs = {1, 2, 3}
  Elements = {e1}
  e1 = e1
  MaxDbs = 2
  Steps = {0, 1}
  MaxNow = 5
INVARIANTS
  Retained
  LastUsedStayOpen
