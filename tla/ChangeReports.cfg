SPECIFICATION FairSpec
CONSTANTS
  f1 = f1
  o1 = o1
  Files = {f1}
  Others = {o1}
  t1 = t1
  t2 = t2
  Types = {t1, t2}
  Values = {0, 1}
  Absent = Absent
  NoFile = NoFile
  MaxChanges = 2
  MaxInstalls = 2
  MaxStarts = 2
INVARIANTS
  ReportsFollowDb
PROPERTIES
  ReportsMakeSense
  UpToDate
CHECK_DEADLOCK FALSE
