SPECIFICATION Spec
CONSTANTS
  Width <- MapWidth
  Height <- MapHeight
  Wall <- MapWalls
  TileFp <- TileSize
  BoxFp <- PlayerSize
  Speed <- MoveSpeed
  Diagonal <- DiagonalFactor
  Farthest = 50
  Base <- Bases
  Starts <- AllStarts
  ReturnTicks = 450
  ScoreToWin = 3
  Patience = 1800
INVARIANTS NeverInWall FieldIsShortest ScoresInTime
PROPERTY Downhill
CHECK_DEADLOCK FALSE
