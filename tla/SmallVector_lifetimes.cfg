SPECIFICATION Spec
CONSTANTS
  Vectors = {v, w}
  Values = {x}
  Default = Default
  Raw = Raw
  N = 1
  MaxLen = 3
  MaxBlocks = 3
INVARIANTS ObjectsDestroyedOnce
