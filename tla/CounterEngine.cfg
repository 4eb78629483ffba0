SPECIFICATION Spec
CONSTANTS
  Slots = {s, t}
  Empty = Empty
  NoOutput = NoOutput
  Unset = Unset
  N = 4
  Base = 2
  Wide = TRUE
  Skips = {0, 1, 6, 29, 47}
  Seeds = {r}
  Cipher <- FreeCipher
  DeriveBefore = 2
SYMMETRY Symmetry
VIEW View
INVARIANTS EqualEnginesAgree DerivationsDiffer
PROPERTIES ImplementsStreams
