SPECIFICATION LinkSpec
CONSTANTS
  FrameCap = 8
  JoinLobby <- JoinLobbyMsg
  Request <- Requests
  AccumCap = 9
  MaxFrames = 3
  MaxConns = 2
  MaxRebinds = 1
  NoAddress = NoAddress
INVARIANT RehelloAccepted
CHECK_DEADLOCK FALSE
