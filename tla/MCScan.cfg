CONSTANTS
  IntValues <- MCIntValues
  Names <- MCNames
  NoName = ""
  Undefined = Undefined
  Scenarios <- MCScenarios
  MaxChanges = 2
SPECIFICATION ScanFairSpec
INVARIANTS
  ScanTypeOK
  ScanFinds
  UndefinedOnlyIf
  RowsAgreeAtRest
  ToldFollowsRows
PROPERTIES
  ComesToRest
CHECK_DEADLOCK FALSE
