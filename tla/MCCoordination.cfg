CONSTANTS
  c1 = c1
  c2 = c2
  Callers = {c1, c2}
  N = 3
  Keys = {"report", "skip"}
  Profile = "coordination"
  NextOf <- MixedNext
  FailTo <- MixedFail
  Requires <- MixedRequires
  Checked <- MixedChecked
  MaxIter <- MixedMax
  SkipIf <- MixedSkip
  Sinks = {1}
  Inputs <- SkipInputs
  MaxRev = 7
  MaxCrashes = 1
CHECK_DEADLOCK FALSE
SPECIFICATION Spec
SYMMETRY CallerSymmetry
INVARIANTS
  VerifierExclusive
PROPERTIES
  LimitHolds
  ResultsAreCurrent
