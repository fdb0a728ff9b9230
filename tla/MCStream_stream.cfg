SPECIFICATION FairSpec
CONSTANTS
  Scripts <- AllScripts
  CutLine = FALSE
  CutHead = FALSE
  CutTrailers = FALSE
  EarlyFin = TRUE
  HandlerFails = TRUE
  CopyCorrupts = FALSE
INVARIANTS TypeOK AsOnePiece FirstAnswer TxIntegrity
PROPERTIES Answered ClosedWhenDone
CHECK_DEADLOCK FALSE
