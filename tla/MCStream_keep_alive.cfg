SPECIFICATION Spec
CONSTANTS
  Scripts <- TwoScript
  CutLine = FALSE
  CutHead = FALSE
  CutTrailers = FALSE
  EarlyFin = FALSE
  HandlerFails = FALSE
  CopyCorrupts = FALSE
INVARIANT AnswersInOrder
CHECK_DEADLOCK FALSE
