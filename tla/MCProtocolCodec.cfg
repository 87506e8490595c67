SPECIFICATION Spec
CONSTANTS
  Base = 4
  LengthBytes = 2
  MaxPayload = 2
  Buffer = 9
  Limits = {4, 5}
  Streams <- SmallStreams
INVARIANTS
  NothingLostOrInvented
