SPECIFICATION TransportSpec
CONSTANTS
  BufferCount = 3
  Clients = {c1, c2}
  Acceptor = L
  Readers = {c1, c2, L}
  Null = Null
  AcceptLimit = 2
  SemMax = 1
  MaxSn = 2
  JunkSn = {9}
INVARIANTS
  TransportTypeOK
  FreedAlone
  TouchesFreedOnlyIf
  OthersAreClosed
PROPERTIES
  CaptureNeverStalls
  EndsAfterBoth
