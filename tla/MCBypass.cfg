CONSTANTS
  c1 = c1
  c2 = c2
  Callers = {c1, c2}
  N = 2
  Keys = {"report"}
  Profile = "coordination"
  NextOf <- TwoNext
  FailTo <- TwoFail
  Requires <- TwoRequires
  Checked <- BypassChecked
  MaxIter <- TwoMax
  SkipIf <- TwoSkip
  Sinks = {1}
  Inputs <- ArtifactInputs
  MaxRev = 6
  MaxCrashes = 0
CHECK_DEADLOCK FALSE
SPECIFICATION Spec
INVARIANTS
  GatesNotBypassed
