SPECIFICATION Spec
CONSTANTS
  Uses <- QueryUse
  SlashesInQuery = FALSE
INVARIANT HostNamed
CHECK_DEADLOCK FALSE
