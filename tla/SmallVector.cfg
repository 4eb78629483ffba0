SPECIFICATION Spec
CONSTANTS
  Vectors = {v, w}
  Values = {x}
  Default = Default
  Raw = Raw
  N = 2
  MaxLen = 5
  MaxBlocks = 3
SYMMETRY Symmetry
INVARIANT WellFormed
PROPERTIES ImplementsSequences
