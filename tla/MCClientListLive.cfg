SPECIFICATION ListSpec
CONSTANTS
  Clients = {c1, c2, c3}
  Null = Null
  AcceptLimit = 2
  SemMax = 1
PROPERTIES
  BroadcastReturns
  FailedIsReaped
