SPECIFICATION ReadingSpec
CONSTANTS
  BufferCount = 3
  Clients = {c1, c2}
  Acceptor = L
  Readers = {c1, c2, L}
  Null = Null
  AcceptLimit = 1
  SemMax = 5
  MaxSn = 6
  JunkSn = {9}
PROPERTIES
  EventuallyCaughtUp
  AcceptsAgain
