CONSTANTS
  me = me
  peer = peer
  Me = me
  Nodes = {me, peer}
  SharedFiles <- MCSharedFiles
  MaxKeys = 2
  Ahead <- MCAhead
  IDs = {1, 2}
  replayTTL = 1
  TicksPerSecond = 2
  TTL = 2
  MaxTime = 8
  rate = 2
  maxBurst = 2
  interval = 4
  MaxStarts = 1
  FewKeys = 1
SPECIFICATION TrafficSpec
INVARIANTS ForgottenInTime  OwnMessagesVerify  NoneSuppressed
PROPERTIES AcceptedApart HeardAgainOnlyAtTheEdge
CHECK_DEADLOCK FALSE
