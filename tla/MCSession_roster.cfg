SPECIFICATION Spec
CONSTANTS
  Conn = {c1, c2, c3}
  MaxPlayers = 2
  SilenceLimit = 0
  PendingCap = 1
  LimitTicks = 1
  MaxFlight = 0
  Free = Free
  NoId = NoId
CHECK_DEADLOCK FALSE
SYMMETRY ConnSymmetry
INVARIANTS TypeOK RosterAgreement SimFollowsLobby LastWordIsCurrent
