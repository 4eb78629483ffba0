SPECIFICATION Spec
CONSTANTS
  Expressions <- MCExpressions
  Subjects <- MCSubjects
  Texts <- MCTexts
  Delimiter <- MCDelimiter
  ByteTexts <- MCByteTexts
  Addresses <- MCAddresses
  QueryKey <- MCQueryKey
  Messages <- MCMessages
  DerivedFrom <- MCDerivedFrom
  WordBits = 2
  Interfaces <- MCInterfaces
  CommandLines <- MCCommandLines
  Numbers <- MCNumbers
  Dashed <- MCDashed
INVARIANTS
  WildcardFindsMatches
  NothingIsLost
  UriPartsReassemble
  DigestIsOfPaddedMessage
  CipherIsBijective
  OptionErrorsComeFirst
  ArgumentsReachCallbacks
CHECK_DEADLOCK FALSE
