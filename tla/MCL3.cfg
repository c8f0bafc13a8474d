CONSTANTS
  None = None
  l2MaxDataSize = 252
  l2TransferRetries = 2
  Noise = {"data", "status", "length"}
  Commands <- MCCommands
  certBlocks = 1
  IVMod = 3
  Plain = {"STARTUP"}
  l3TagSize = 16
  MaxHandshakes = 1
  MaxCalls = 3
SPECIFICATION Spec
INVARIANTS
  TypeOK
  AtMostOnce
  AnswerIsForThisCall
  NoncesOrdered
  SizeErrorBreaksSession
