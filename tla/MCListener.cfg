\* Signatures required, time sync enabled or not, time passing, a shutdown.
CONSTANTS
  Datagrams <- MixedDatagrams
  HasKeys = TRUE
  RequireSigned = TRUE
  TimeSync = {TRUE, FALSE}
  SockCap = 1
  ChanCap = 1
  TTL = 1
  MaxTime = 1
SPECIFICATION FairSpec
INVARIANTS TypeOK NoSendOnClosed 
PROPERTIES HeardWithTimeSync ShutdownCompletes
CHECK_DEADLOCK FALSE
