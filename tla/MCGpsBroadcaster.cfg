CONSTANTS
  Ladder <- MCLadder
  Longest = 3
  FixWait = 2
  FirstWait = 1
  Sats = {0, 3}
  LinesPerReport = 3
  ReadsPerSecond = 2
  SerialCap = 4
  MaxAge = 5
SPECIFICATION FairSpec
INVARIANTS GpsTypeOK 
PROPERTY BroadcastsResume
CHECK_DEADLOCK FALSE
