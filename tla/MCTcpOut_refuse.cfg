SPECIFICATION RefusingSpec
CONSTANTS
  FrameCap = 8
  Event <- Events
  Refusal <- JoinRejectMsg
  SockBuf = 6
  PendingCap = 9
  MaxEvents = 3
  MaxRefusals = 1
PROPERTIES ChannelSpec
CHECK_DEADLOCK FALSE
