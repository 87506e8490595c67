SPECIFICATION Spec
CONSTANTS
  Admins = {a1}
  Gateways = {g1}
  Fields <- EdgeFields
  MaxVersion = 3
  MaxPuts = 2
  MaxLosses = 1
  MayFail = TRUE
INVARIANTS
  VersionNamesOneConfig
PROPERTIES
  NoUpdateIsLost
  LastKnownGood
  UpdatesReachGateways
