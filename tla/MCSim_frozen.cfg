SPECIFICATION FairSpec
CONSTANTS
  MaxPlayers = 2
  Length = 2
  Pos <- MCPos
  Dir <- MCDir
  NoDir = 0
  Step <- MCStep
  Overlap <- MCOverlap
  Base <- MCBase
  Joins <- MCDuel
  SpawnIndex = {0}
  Spawn <- MCSpawn
  MaxHealth = 2
  DamagePerShot = 1
  FireCooldownTicks = 1
  RespawnDelayTicks = 2
  FlagAutoReturnTicks = 2
  ScoreToWin = 1
  LimitTicks = 4
  InputRingSize = 2
  MaxTick = 9
PROPERTY FrozenAfterEnd
