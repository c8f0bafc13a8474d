CONSTANTS
  None = None
  l2MaxDataSize = 252
  l2TransferRetries = 2
  Noise = {"data", "status", "length"}
  Commands <- OneCommand
  certBlocks = 2
  IVMod = 4
  Plain = {"GET_INFO"}
  l3TagSize = 16
  MaxHandshakes = 1
  MaxCalls = 3
SPECIFICATION FairServiceSpec
PROPERTIES
  ImplementsService
  CallReturns
