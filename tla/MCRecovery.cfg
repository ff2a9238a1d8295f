CONSTANTS
  c1 = c1
  c2 = c2
  Callers = {c1, c2}
  N = 1
  Keys = {"report"}
  Profile = "production"
  NextOf <- OneNext
  FailTo <- OneFail
  Requires <- OneRequires
  Checked <- OneChecked
  MaxIter <- OneMax
  SkipIf <- OneSkip
  Sinks = {1, 2}
  Inputs <- ArtifactInputs
  MaxRev = 4
  MaxCrashes = 1
CHECK_DEADLOCK FALSE
SPECIFICATION FairSpec
INVARIANTS
  EventsWrittenOnce
  RunInv
PROPERTIES
  OutboxDrains
