SPECIFICATION Spec
CONSTANTS
  AuthWorkers = {a1, a2}
  Tasks = 5
  MaxTimeout = 6
  Margin = 1
  PullInterval = 4
  MaxStart = 3
SYMMETRY Symmetric
INVARIANTS
  InFlightWorkIsCovered
  ShutdownEndsInTime
