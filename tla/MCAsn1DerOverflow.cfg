CONSTANTS
  Radix = 8
  IntOctets = 2
  SEQUENCE = 6
  SET = 7
  BIT_STRING = 3
  Inputs = {"string"}
  MaxLen = 6
SPECIFICATION DerSpec
INVARIANT TotalCoversHeader
