\* One client from creation to its third generation, counters that expire and start again.
SPECIFICATION Spec
CONSTANTS
  Clients = {c1}
  Digests = {d1, d2}
  Settings = {f0, f1}
  Defaults = f0
  Limit = 2
  Window = 2
  MaxTime = 3
  MaxVersion = 3
  MaxFailures = 3
INVARIANT StoresAgree
