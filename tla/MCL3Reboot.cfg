CONSTANTS
  None = None
  l2MaxDataSize = 252
  l2TransferRetries = 2
  Noise = {}
  Commands <- OneCommand
  certBlocks = 1
  IVMod = 8
  Plain = {"STARTUP", "GET_INFO"}
  l3TagSize = 16
  MaxHandshakes = 1
  MaxCalls = 3
SPECIFICATION Spec
INVARIANT RebootEndsSession
