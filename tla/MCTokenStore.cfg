CONSTANTS
  Clients = {c1}
  Checks = {h1, h2}
  Admins = {a1, a2}
  Limit = 2
  Retries = 1
  MaxSecret = 3
  MayFail = TRUE
SPECIFICATION Spec
INVARIANTS
  RevokedIsNeverAccepted
  FailureCountBounded
PROPERTIES
  RevocationIsFinal
  RotationReplacesWhatWasSeen
  LockoutEnds
