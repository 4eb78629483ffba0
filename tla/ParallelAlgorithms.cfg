SPECIFICATION FairSpec
CONSTANTS
  NExec = 3
  MaxElems = 4
  Algorithms = {"for_each", "count_if", "all_of", "any_of", "none_of", "inclusive_scan"}
INVARIANTS SameAsSequential WellFormed AllTasksReported SpliceIsSplit
PROPERTIES CallReturns
CHECK_DEADLOCK FALSE
