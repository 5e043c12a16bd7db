CONSTANTS
  a1 = a1
  a2 = a2
  k1 = k1
  k2 = k2
  Pairs <- MCPairs
  short = short
  other = other
  long = long
  Uuids = {short, other, long}
  ReadBack <- MCReadBack
  Ips = {i1, i2}
  None = None
SPECIFICATION Spec
INVARIANTS TypeOK MemoryIsIssued FileIsIssued ReportedIpIsSource
PROPERTIES FailureKeepsIdentity SaveThenLoad ImplementsIdentity
