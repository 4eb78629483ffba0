SPECIFICATION FairSpec
CONSTANTS
  Threads = {o, t1, t2, t3}
  Owner = o
  MaxValue = 3
INVARIANT NoUseAfterDestroy
PROPERTIES ImplementsAbstractLatch WaitersReturn
CHECK_DEADLOCK FALSE
