CONSTANTS
  EmptyReads = 2
  LinePieces = 3
  MaxExchanges = 3
SPECIFICATION SlowSpec
INVARIANT ReturnsReceivedBytes
