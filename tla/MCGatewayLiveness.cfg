CONSTANTS
  Fds = {f1}
  Clients = {c1}
  None = None
  Workers = {w1}
  AuthWorkers = {a1}
  RequestCapacity = 1
  AuthCapacity = 1
  ResponseCapacity = 1
  OutputLimits = {1}
  ConnectionLimits = {1}
  MaxConnId = 1
  MaxFrames = 3
  MaxChunk = 2
  MaxBatch = 1
  MayFail = FALSE
  MayStop = TRUE
SPECIFICATION Spec
PROPERTIES
  ShutdownCompletes
  AdmittedWorkFinishes
