SPECIFICATION FairSpec
CONSTANTS
  Callers = {k1}
  Workers = {w1, w2}
  InitMayFail = TRUE
  EpollMayFail = TRUE
INVARIANTS
  NoStrayWrites
  StopMeansStopped
PROPERTIES
  StopReturns
  SignalStopsServer
