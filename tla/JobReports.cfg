SPECIFICATION FairAllSpec
CONSTANTS
  r1 = r1
  r2 = r2
  MaxQueued = 2
  MaxJobs = 2
  Recipients = {r1, r2}
  ReportSizes = {1, 2}
  MaxMessageSize = 2
  MaxReports = 3
INVARIANT
  JobsReported
PROPERTIES
  ImplementsOutbox
  ReportsAreSent
