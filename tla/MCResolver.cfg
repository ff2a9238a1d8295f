CONSTANTS
  N = 3
  Configs <- AllConfigs
CHECK_DEADLOCK FALSE
SPECIFICATION Spec
INVARIANTS
  Partitioned
  NoneInConflict
  BlockedIffBeaten
  RefusedOnlyTied
  BasesEnd
