CONSTANTS
  Consumers = {c1, c2, c3}
  Items = {x1, x2, x3, x4}
  Capacity = 2
SPECIFICATION Spec
INVARIANTS
  NoLostWakeup
  FifoConservation
PROPERTY
  ImplementsBoundedQueue
