SPECIFICATION FairGameSpec
CONSTANTS
  MaxWaitPauseTime = 1
  Points = {0, 1}
  LinePieces = 1
  StackPieces = 1
  MaxChanges = 2
INVARIANT ExitMeansOver
INVARIANT OverReplyIsFinal
INVARIANT PausedReplyIsExact
PROPERTY RepliesMoveOn
PROPERTY NeverStuckPaused
PROPERTY EndIsTold
PROPERTY ImplementsGameStatus
