SPECIFICATION UnattendedSpec
CONSTANTS
  Height = 24
  Width = 14
  SpawnColumn = 6
  Shapes <- Indexes
  Shape <- TetrominoMap
  NextShape <- NextIndex
  Drawn <- DrawZO
  UIntSize = 1000
  ScoreSize = 1000
PROPERTY UnattendedEnds
