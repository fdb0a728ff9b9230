SPECIFICATION FairSpec
CONSTANTS
  Scripts <- FetchScript
  CutLine = FALSE
  CutHead = FALSE
  CutTrailers = FALSE
  EarlyFin = TRUE
  HandlerFails = FALSE
  CopyCorrupts = FALSE
PROPERTY ClosedInTheEnd
CHECK_DEADLOCK FALSE
