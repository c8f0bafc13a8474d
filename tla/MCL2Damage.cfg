CONSTANTS
  a = a
  b = b
  long = long
  None = None
  l2MaxDataSize = 252
  l2TransferRetries = 4
  Noise = {"data", "status", "length"}
  Requests <- MCRequests
SPECIFICATION Spec
INVARIANT DamageIsReported
