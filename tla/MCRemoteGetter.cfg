SPECIFICATION GettersSpec
CONSTANTS
  Ips = {1, 21, 50}
  Ports = {1, 12}
  MaxProcesses = 3
  MaxRows = 3
  TextRoom = 10
  Octet = 3
  LongMax = 40
  Tools = {"local", "remote"}
  MaxLines = 2
  PidSpan = 2
INVARIANTS
  RemoteTypeOK
  CapturesOwnOnly
  LostOnlyInOthers
  NoAddressTwice
  CapturesPeersOnly
  LostPeersInOthers
