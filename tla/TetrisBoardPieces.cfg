SPECIFICATION Spec
CONSTANTS
  Height = 7
  Width = 6
  SpawnColumn = 1
  Shapes <- Indexes
  Shape <- TetrominoMap
  NextShape <- NextIndex
  Drawn <- Indexes
  UIntSize = 16
  ScoreSize = 1
INVARIANT TypeOK
INVARIANT SpawnAreaFree
INVARIANT NoOverlap
INVARIANT ReadsInBounds
INVARIANT ViewShowsBoard
INVARIANT RotationTurns
INVARIANT PreviewShowsNext
