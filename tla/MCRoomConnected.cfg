SPECIFICATION Spec
CONSTANTS
  BufferCount = 3
  Clients = {c1, c2}
  Acceptor = L
  Readers = {c1, c2, L}
  Null = Null
  AcceptLimit = 2
  SemMax = 2
  MaxSn = 3
  JunkSn = {9}
INVARIANTS
  ConnectedIsTold
