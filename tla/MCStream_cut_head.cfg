SPECIFICATION Spec
CONSTANTS
  Scripts <- StoreScript
  CutLine = FALSE
  CutHead = TRUE
  CutTrailers = FALSE
  EarlyFin = FALSE
  HandlerFails = FALSE
  CopyCorrupts = FALSE
INVARIANT FirstAnswer
CHECK_DEADLOCK FALSE
