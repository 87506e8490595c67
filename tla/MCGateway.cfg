CONSTANTS
  Fds = {f1, f2}
  Clients = {c1, c2}
  None = None
  Workers = {w1, w2}
  AuthWorkers = {a1}
  RequestCapacity = 1
  AuthCapacity = 1
  ResponseCapacity = 1
  OutputLimits = {1}
  ConnectionLimits = {1, 2}
  MaxConnId = 2
  MaxFrames = 3
  MaxChunk = 2
  MaxBatch = 2
  MayFail = FALSE
  MayStop = FALSE
SPECIFICATION Safety
SYMMETRY Symmetry
INVARIANTS
  AuthenticatedOnlyIfGranted
  ResponsesReachTheirConnection
  OneAuthPerConnection
  InFlightAccounting
  BatchIsFresh
PROPERTIES
  ClientConnectionLimit
