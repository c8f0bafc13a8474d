CONSTANTS
  c1 = c1
  c2 = c2
  host1 = host1
  host2 = host2
  i1 = i1
  i2 = i2
  Chips = {c1, c2}
  HostKeys = {host1, host2}
  Ephemeral = {e1, e2, e3, e4}
  PKeyIndices = {i1, i2}
  Paired <- MCPaired
  protocolNameFixed = protocolNameFixed
  Radix = 4
SPECIFICATION SessionSpec
INVARIANTS
  Agreement
  KeysAreOwn
  SessionIsOfLastCall
PROPERTY AddsOne
