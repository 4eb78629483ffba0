SPECIFICATION FairSpec
CONSTANTS
  Consumers = {w1, w2, c1}
  Pollers = {w1}
  SmallSizes = {0, 2}
  DefaultSmall = 2
  MaxPush = 4
INVARIANTS InOrder CapacityCoversContents
PROPERTIES ImplementsAbstractQueue TryPopReturns EveryElementDelivered
