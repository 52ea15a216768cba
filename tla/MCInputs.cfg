SPECIFICATION FairSpec
CONSTANTS
  Dirs <- LeftAndRight
  Redundancy = 2
  RingSize = 2
  HistorySize = 2
  Speed = 3
  WireUnit = 2
  Width = 8
  Spawn = 4
  MaxSeq = 3
  MaxAge = 1
  MaxDeaths = 1
  MaxInbound = 0
CHECK_DEADLOCK FALSE
INVARIANTS TypeOK RingOrdered SeqNamesInput HistoryContiguous
           OldLifeDrains
PROPERTY Converges
