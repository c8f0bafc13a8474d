CONSTANTS
  Radix = 16
  IntOctets = 3
  SEQUENCE = 6
  SET = 7
  BIT_STRING = 3
  Stores <- MCStores
  BlockLen = 40
  Blocks = 4
  MaxCerts = 8
  Inputs = {"certificate", "string"}
  MaxLen = 4
  Commands = {"hello_world", "identify_chip", "ecc_eddsa", "full_chain_verification"}
  MaxRuns = 3
SPECIFICATION ExampleSpec
INVARIANTS
  ExampleTypeOK
  PiecesInside
  ReadersAgree
  FindsFirstWithContent
  EarlierRunsDoNotMatter
  ReportsAreTrue
PROPERTY Ends
