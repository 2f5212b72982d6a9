SPECIFICATION PromptGameSpec
CONSTANTS
  MaxWaitPauseTime = 60
  Points = {0, 1}
  LinePieces = 3
  StackPieces = 5
  MaxChanges = 10
INVARIANT OverReplyShowsFinalScore
