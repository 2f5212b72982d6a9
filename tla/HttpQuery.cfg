SPECIFICATION Spec
CONSTANTS
  Letters <- Pieces
  PlayerName <- PlayerNamePieces
  RandKey <- RandKeyPieces
  TokenId <- TokenIdPieces
  Oper <- OperPieces
  Start <- StartPieces
  Requests <- AllRequests
CHECK_DEADLOCK FALSE
INVARIANT TypeOK
INVARIANT ProperRequestsAreRead
INVARIANT NothingMisattributed
INVARIANT UnderstoodOrRefused
INVARIANT PageIsUnderstood
