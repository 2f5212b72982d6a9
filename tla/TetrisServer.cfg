SPECIFICATION ServerSpec
CONSTANTS
  Games = {g1, g2, g3}
  Tokens = {1, 2}
  NoGame = NoGame
  MaxCalls = 3
SYMMETRY Symmetry
INVARIANT ServerTypeOK
INVARIANT RowsAtMostOnce
INVARIANT HealthyServerStores
INVARIANT FailedStepCostsTwo
PROPERTY ImplementsGameRecords
PROPERTY LosesOnlyInTheGap
PROPERTY EmptyFileStays
