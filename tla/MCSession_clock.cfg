SPECIFICATION Spec
CONSTANTS
  Conn = {c1, c2}
  MaxPlayers = 2
  SilenceLimit = 0
  PendingCap = 2
  LimitTicks = 1
  MaxFlight = 0
  Free = Free
  NoId = NoId
CHECK_DEADLOCK FALSE
INVARIANT EndOnlyInMatch
