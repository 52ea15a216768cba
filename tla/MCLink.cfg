SPECIFICATION LinkFair
CONSTANTS
  FrameCap = 8
  JoinLobby <- JoinLobbyMsg
  Request <- Requests
  AccumCap = 9
  MaxFrames = 3
  MaxConns = 2
  MaxRebinds = 1
  NoAddress = NoAddress
INVARIANTS DispatchedAsSent AddressIsOwners
PROPERTIES Heard Reached
CHECK_DEADLOCK FALSE
