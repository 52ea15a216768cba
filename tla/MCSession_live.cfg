SPECIFICATION FairSpec
CONSTANTS
  Conn = {c1, c2}
  MaxPlayers = 2
  SilenceLimit = 0
  PendingCap = 1
  LimitTicks = 0
  MaxFlight = 1
  Free = Free
  NoId = NoId
CHECK_DEADLOCK FALSE
PROPERTIES OnlyOwnerIsHeard GoneLeavesGame
