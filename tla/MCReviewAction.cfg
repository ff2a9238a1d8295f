CONSTANTS
  Configs = {1, 2}
  Ids = {"a", "b"}
  Inputs <- Configured
  Bases <- Trees
  Patches <- Pull
  Jobs = 2
  PageSize = 1
  MaxEvents = 2

SPECIFICATION Spec

CHECK_DEADLOCK FALSE

INVARIANTS
  OneComment
  LatestShown
  OwnChanges
  VerdictsAgree
