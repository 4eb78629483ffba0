SPECIFICATION Spec
CONSTANTS
  Expressions = {}
  Subjects = {}
  Texts = {}
  Delimiter <- MCDelimiter
  ByteTexts <- MCByteTexts
  Addresses = {}
  QueryKey <- MCQueryKey
  Messages = {}
  DerivedFrom = {}
  WordBits = 2
  Interfaces = {}
  CommandLines = {}
  Numbers = {}
  Dashed = {}
INVARIANTS DecodeUndoesEncode
CHECK_DEADLOCK FALSE
