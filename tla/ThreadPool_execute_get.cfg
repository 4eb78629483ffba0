SPECIFICATION FairSpec
CONSTANTS
  Tasks = {a, b}
  NoTask = NoTask
  NWorkers = 1
  NestingIn = {"execute", "twoway"}
  NestingLate = FALSE
PROPERTY NestedGetReturns
CHECK_DEADLOCK FALSE
