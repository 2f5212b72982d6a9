SPECIFICATION FairSpec
CONSTANTS
  Height = 9
  Width = 6
  SpawnColumn = 1
  Shapes <- Indexes
  Shape <- TetrominoMap
  NextShape <- NextIndex
  Drawn <- DrawIO
  UIntSize = 16
  ScoreSize = 3
INVARIANT AtMostFourLines
INVARIANT NoCompleteRow
INVARIANT SettledInFours
PROPERTY ImplementsRules
PROPERTY PieceLands
