SPECIFICATION PipelineFair
CONSTANTS
  Event <- Events
  MaxEvents = 2
  FrameCap = 8
  SockBuf = 3
  PendingCap = 6
INVARIANTS NoLostWakeup StopHolds
PROPERTIES InOrder Delivered ShutsDown
CHECK_DEADLOCK FALSE
