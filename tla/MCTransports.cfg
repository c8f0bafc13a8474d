CONSTANTS
  FDs = {0, 1, 2, 3, 4, 5}
  EmptyReads = 2
  LinePieces = 3
  MaxExchanges = 4
SPECIFICATION TransportsSpec
INVARIANTS
  TransportsTypeOK
  FieldsNameOwnFiles
  NothingLeaks
  LineIsNotLost
  OddSlipIsDetected
PROPERTIES
  ImplementsTransport
  CallReturns
