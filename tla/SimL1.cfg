CONSTANTS
  Requests = {r1, r2}
  GetResponse = GetResponse
  l1MaxRetries = 3
  Modes = {"queued", "stateful"}
  BufLens = {0, 1, 2}
  MaxFrames = 3
SPECIFICATION FairSystemSpec
INVARIANTS
  SystemTypeOK
  ActsOnCallersFrameOnce
  SelectDiscipline
  SilentWriteOnlyWhenExhausted
  NoMisuse
  SelectionsServed
PROPERTIES
  ImplementsExchange
  CallReturns
