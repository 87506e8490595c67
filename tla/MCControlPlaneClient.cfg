SPECIFICATION Spec
CONSTANTS
  MaxHeader = 11
  MaxBody = 2
  Radix = 3
  Width = 8
  Buffer = 6
  Responses <- SmallResponses
  timeout_ms = 2
  NotAfters = {0, 2, 9}
  Addresses = 2
  RequestParts = 2
  ResolveTime = 2
INVARIANTS
  WaitsEndAtTheDeadline
  CutsDoNotMatter
  CompleteIffWellFormed
  AuthFailsClosed
