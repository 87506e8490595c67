\* Two connections; the process may exit, so that a run may end.
SPECIFICATION FairSpec
CONSTANTS
  Connections = {c1, c2}
INVARIANT RequestsKeepTheirStore
PROPERTY ShutdownReturnsEventually
CHECK_DEADLOCK FALSE
