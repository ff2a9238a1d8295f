CONSTANTS
  Options <- StartedWith
  Hosts <- Machines
  Retries = 2
  Images = 2
  MaxFaults = 1

SPECIFICATION Spec

INVARIANTS
  OneDigestVerified
  NothingSkipped
  PassWhenReady
  KeptWithReport

CHECK_DEADLOCK FALSE
