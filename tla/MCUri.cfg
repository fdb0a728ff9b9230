SPECIFICATION Spec
CONSTANTS
  Uses <- PlainUses
  SlashesInQuery = FALSE
INVARIANTS TargetFound AuthorityFound PathSound HostNamed
CHECK_DEADLOCK FALSE
