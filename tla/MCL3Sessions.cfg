CONSTANTS
  None = None
  l2MaxDataSize = 252
  l2TransferRetries = 2
  Noise = {"status"}
  Commands <- OneCommand
  certBlocks = 2
  IVMod = 2
  Plain = {"STARTUP", "GET_INFO"}
  l3TagSize = 16
  MaxHandshakes = 2
  MaxCalls = 2
SPECIFICATION Spec
INVARIANTS
  NonceUnique
  KeyIsLatest
