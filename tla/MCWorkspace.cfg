CONSTANTS
  N = 4
  MaxVersion = 2
  Discovered = {2, 3, 4}
  Elsewhere = {4}
  BaseOf <- SharedBase
  Rivals = {1, 2}
  ZoneId = "default"
  Yamls <- WrittenYamls
  Importable = {1}
  MaxOps = 3
CHECK_DEADLOCK FALSE
SPECIFICATION Spec
INVARIANTS
  LockReproduces
  OneBasePerManifest
  SyncMatchesBuild
PROPERTY DeliveredIsPinned
