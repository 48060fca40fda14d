SPECIFICATION RingSpec
CONSTANTS
  BufferCount = 3
  Readers = {r1, r2}
  MaxSn = 5
  JunkSn = {0, 9}
INVARIANTS
  RingTypeOK
  RingHoldsLatest
PROPERTIES
  LogSpec
