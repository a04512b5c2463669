\* A lookup by name, one by address and a command share two slots.
CONSTANTS
  l1 = l1
  l2 = l2
  c1 = c1
  Clients = {l1, l2, c1}
  Lookups = {l1, l2}
  ByAddr = {l2}
  maxConnections = 2
  Replies <- MCReplies
  family <- Families
  nameLen <- Lengths
  buflen <- Buffers
SPECIFICATION LookupSpec
INVARIANTS LookupTypeOK CountersExact AtMostOneStraggler HostentInBuffer
PROPERTIES  ClientsReleased StopReturns
CHECK_DEADLOCK FALSE
