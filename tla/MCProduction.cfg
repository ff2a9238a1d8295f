CONSTANTS
  c1 = c1
  c2 = c2
  Callers = {c1, c2}
  N = 2
  Keys = {"report"}
  Profile = "production"
  NextOf <- TwoNext
  FailTo <- TwoFail
  Requires <- TwoRequires
  Checked <- TwoChecked
  MaxIter <- TwoMax
  SkipIf <- TwoSkip
  Sinks = {1}
  Inputs <- ReportInputs
  MaxRev = 7
  MaxCrashes = 1
CHECK_DEADLOCK FALSE
SPECIFICATION Spec
SYMMETRY CallerSymmetry
INVARIANTS
  TypeOK
  CompletionsAudited
  FailuresAudited
  AuditBackedByState
  OneVerdictPerExecution
  GatesNotBypassed
PROPERTIES
  HistoryGrows
  ImplementsApproval
