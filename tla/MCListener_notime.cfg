\* Time sync disabled: nobody empties the time channel.
CONSTANTS
  Datagrams <- PlainDatagrams
  HasKeys = TRUE
  RequireSigned = FALSE
  TimeSync = {FALSE}
  SockCap = 1
  ChanCap = 1
  TTL = 1
  MaxTime = 0
SPECIFICATION FairSpec
PROPERTIES AnnouncementsHeard
CHECK_DEADLOCK FALSE
