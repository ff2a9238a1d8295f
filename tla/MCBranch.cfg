CONSTANTS
  c1 = c1
  c2 = c2
  Callers = {c1, c2}
  N = 2
  Keys = {"report"}
  Profile = "production"
  NextOf <- BranchNext
  FailTo <- BranchFail
  Requires <- TwoRequires
  Checked <- TwoChecked
  MaxIter <- TwoMax
  SkipIf <- TwoSkip
  Sinks = {1}
  Inputs <- ArtifactInputs
  MaxRev = 5
  MaxCrashes = 0
CHECK_DEADLOCK FALSE
SPECIFICATION Spec
INVARIANTS
  FailuresAudited
