SPECIFICATION Spec
CONSTANTS
  Scripts <- FetchScript
  CutLine = TRUE
  CutHead = FALSE
  CutTrailers = FALSE
  EarlyFin = FALSE
  HandlerFails = FALSE
  CopyCorrupts = FALSE
INVARIANT FirstAnswer
CHECK_DEADLOCK FALSE
