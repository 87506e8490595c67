CONSTANTS
  Fds = {f1, f2}
  Clients = {c1}
  None = None
  Workers = {w1}
  AuthWorkers = {a1}
  RequestCapacity = 1
  AuthCapacity = 1
  ResponseCapacity = 1
  OutputLimits = {1}
  ConnectionLimits = {1}
  MaxConnId = 2
  MaxFrames = 2
  MaxChunk = 1
  MaxBatch = 1
  MayFail = TRUE
  MayStop = TRUE
SPECIFICATION Safety
SYMMETRY Symmetry
INVARIANTS
  WindowsBelongToConnections
  DrainedLeavesNothing
  NoLostNotification
  DrainWaitsOnlyForPeers
  ResponsesAcceptedUntilLastWorker
  GracefulStopIsComplete
