CONSTANTS
  N = 3
  MaxVersion = 2
  Discovered = {1, 2, 3}
  Elsewhere = {3}
  BaseOf <- SharedBase
  Rivals = {1, 2}
  ZoneId = "default"
  Yamls <- WrittenYamls
  MaxOps = 5
CHECK_DEADLOCK FALSE
SPECIFICATION Spec
INVARIANTS
  NoneFromBeforeReload
  OneBaseAnswered
  KeptIsPinned
  RecordMatchesContent
