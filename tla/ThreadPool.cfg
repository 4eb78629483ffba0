SPECIFICATION FairSpec
CONSTANTS
  Tasks = {a, b, c}
  NoTask = NoTask
  NWorkers = 2
  NestingIn = {"execute", "twoway"}
  NestingLate = TRUE
INVARIANTS OnePlace NothingOutlivesPool FlagCompletesOwnTasks TwowayNeverBlocks
PROPERTIES TasksSettle DestructorReturns
CHECK_DEADLOCK FALSE
