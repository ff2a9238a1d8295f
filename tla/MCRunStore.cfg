CONSTANTS
  a = a
  b = b
  p = p
  q = q
  N = 4
  PipelineOf <- FourRuns
  LegacyRev <- LegacyOne
  LegacyLatest = 1
  Deletable = {4}
  Callers = {a, b}
  MaxText = 7
  MaxCrashes = 1
SYMMETRY AsCallers
CHECK_DEADLOCK FALSE
SPECIFICATION Spec
INVARIANTS
  NoneMissed
  FoundIsRecent
PROPERTIES
  SavesBuildOn
