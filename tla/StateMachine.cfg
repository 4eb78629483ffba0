SPECIFICATION Spec
CONSTANTS
  NStates = 2
  Edges = {e}
  NoCond = NoCond
  Reentrant <- MCReentrant
  MaxTransitions = 2
  MaxDepth = 2
INVARIANTS HandlersCover TestedInItsState
PROPERTIES EntryFollowsExit MovesAlongTransitions
CHECK_DEADLOCK FALSE
