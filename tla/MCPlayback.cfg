SPECIFICATION PlaybackSpec
CONSTANTS
  Ids = {0, 1}
  Bodies <- MCBodies
  Worlds <- MCWorlds
  WireUnit = 2
  KeyframeInterval = 3
  Div = 2
  AgoMax = 255
  MaxTick = 7
  RingSize = 3
  Delay = 3
  Frames = {1, 4}
  Part = 100
  Hurry = 102
  Hold = 98
CHECK_DEADLOCK FALSE
INVARIANTS TypeOK CacheIsPublished StallBounded 
PROPERTIES PlaybackForward
