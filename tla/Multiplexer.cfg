SPECIFICATION FairSpec
CONSTANTS
  k1 = k1
  k2 = k2
  Threads = {a, b, c}
  Keys = {k1, k2}
  Nests <- NestsInOrder
  MaxExec = 3
INVARIANTS OneLeaderPerKey EntriesAreLeaders UnsetIsExecuting
PROPERTIES JoinsBeforeErasure CallsReturn
CHECK_DEADLOCK FALSE
